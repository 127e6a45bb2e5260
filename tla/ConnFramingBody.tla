-------------------------- MODULE ConnFramingBody ---------------------------
(***************************************************************************)
(* Theorems about ConnFraming, for any number of requests of any kinds,    *)
(* the first part: the invariant, the types, and the reads of a connection *)
(* that has an upload under way or is to fail.                             *)
(*                                                                         *)
(* FrameInv says in which of six modes the ClientCon is after `a` answers, *)
(* with `q` arrived and not read: Idle, Heads and Plain have read the next *)
(* request up to a part of it; Chunk, Zombie and Doomed hold what is left  *)
(* of one that was answered, which no request line begins, so that it is   *)
(* refused as soon as a line of it ends.  With an answer queued, the mode  *)
(* is that of the connection after clear().  Nothing is said any more once *)
(* the client has had an answer that leaves a body like a request unread.  *)
(*                                                                         *)
(* The modes, and all theorems but that of the types, are for clients that *)
(* send no multipart body.                                                 *)
(***************************************************************************)
EXTENDS ConnFraming, SequenceTheorems, WellFoundedInduction, TLAPS

\* The k-th part of request j, m parts from the p-th on, and how many there are.
Tok(j, k) == [req |-> j, part |-> Parts(ask[j])[k]]
Toks(j, p, m) == [k \in 1..m |-> Tok(j, p + k - 1)]
Size(j) == Len(Parts(ask[j]))

\* What has arrived, q, is request j from its part p on, as far as it is sent.
At(j, p, q) ==
    \/ peer.req = j /\ p <= peer.pos /\ q = Toks(j, p, peer.pos - p)
    \/ /\ peer.req = j + 1 /\ peer.pos = 1 /\ j \in Requests
       /\ q = Toks(j, p, Size(j) + 1 - p)

\* What comes next is not the line of a request.
NotLine(q) ==
    IF q # <<>> THEN ~IsLine(q[1])
    ELSE peer.req \in Requests => ~IsLine(Tok(peer.req, peer.pos))

\* Something in q ends a line.
HasEnd(q) == \E k \in DOMAIN q: EndsLine(q[k])

\* The client, if it has been heard so far as to wait for the answer to request
\* a + 1, has sent what ends a line: what is in q makes the server answer.
Heard(a, q) ==
    /\ peer.req <= a + 2
    /\ peer.req = a + 2 => peer.pos = 1 /\ HasEnd(q)
    /\ peer.req = a + 1 /\ peer.pos > 1 => HasEnd(q)

\* Where all requests are pages and plain uploads, and no file fails.
Easy == Kinds \subseteq {"get", "upload"} /\ Failing = {}

\* No upload, and nothing in the buffers.
Quiet(c) ==
    /\ ~c.upload_active /\ ~c.chunked /\ c.buffer = <<>>
    /\ c.chunk_buf = <<>> /\ c.mp_buf = <<>> /\ c.mp_state = "BOUNDARY"

\* a answers have been given, and the next request has not been read.
Idle(c, a, q) == Quiet(c) /\ c.state = "REQUEST_LINE" /\ At(a + 1, 1, q)

\* Its line has been read, its head has not.
Heads(c, a, q) ==
    /\ Quiet(c) /\ c.state = "HEADERS" /\ c.req = a + 1 /\ a + 1 \in Requests
    /\ ask[a + 1] # "badline"
    /\ At(a + 1, 2, q)

\* Request a + 1 is an upload by length, under way.
Uploading(c, a) ==
    /\ c.upload_active /\ ~c.chunked /\ c.buffer = <<>> /\ c.mp_buf = <<>>
    /\ c.chunk_buf = <<>>
    /\ c.path = a + 1 /\ a + 1 \in Requests

\* The file of the upload under way is there, and data is in it.
Holds(c, data) ==
    /\ \E f \in c.disk: f.req = c.path
    /\ \A f \in c.disk: f.req = c.path => f.data = data
Stored(c, data) == c.file = "open" /\ Holds(c, data)

\* m units of the body of a plain upload have been stored.
Plain(c, a, q) ==
    /\ Uploading(c, a) /\ ~c.MPFlag /\ ask[c.path] = "upload"
    /\ c.mp_state = "BOUNDARY"
    /\ \E m \in 0..1:
          /\ c.remaining = 2 - m /\ At(a + 1, 3 + m, q)
          /\ Stored(c, Toks(c.path, 3, m))

\* A chunked upload is under way: its first chunk is in the buffer of the parser,
\* where it will fail as a request, and was answered already or will be.
Chunk(c, a, q) ==
    /\ ~Easy
    /\ c.upload_active /\ c.chunked
    /\ c.path \in Requests /\ c.path <= a + 1 /\ ask[c.path] = "chunked"
    /\ c.state = "REQUEST_LINE"
    /\ c.buffer # <<>> /\ ~IsLine(c.buffer[1]) /\ EndsLine(c.buffer[1])
    /\ Heard(a, q) \/ \E p \in 4..5: At(a + 1, p, q) /\ c.path = a + 1

\* The upload whose write has failed stays active: the connection is to fail at
\* the next bytes.
Zombie(c, a, q) ==
    /\ ~Easy
    /\ c.upload_active /\ ~c.chunked /\ ~c.MPFlag /\ c.file = "bad"
    /\ c.remaining > 0 /\ Heard(a, q)
    /\ c.path \in Requests
    /\ \A f \in c.disk: f.req # c.path

\* What is left of a request that has been answered is to be read as a request.
Doomed(c, a, q) ==
    /\ ~Easy
    /\ ~c.upload_active /\ c.state = "REQUEST_LINE"
    /\ IF c.buffer = <<>> THEN NotLine(q) ELSE ~IsLine(c.buffer[1])
    /\ Heard(a, q)

\* The files are of requests answered, and whole, or of the upload under way.
Files(c, a) ==
    \A f \in c.disk:
        /\ f.req <= a \/ (c.upload_active /\ f.req = c.path)
        /\ ByLength(f.req) =>
              \/ f.data = Content(f.req)
              \/ c.upload_active /\ f.req = c.path

\* The ClientCon where it has no answer queued, after a answers, when q has
\* arrived and not been read.
Mode(c, a, q) ==
    /\ c.up
    /\ ~c.MPFlag /\ ~c.multipart /\ ~c.content_type
    /\ Files(c, a)
    /\ \/ Idle(c, a, q) \/ Heads(c, a, q) \/ Plain(c, a, q)
       \/ Chunk(c, a, q) \/ Zombie(c, a, q) \/ Doomed(c, a, q)

\* An answer after which the body of request j may not have been read.
Unread(j, ok) ==
    /\ ok => ask[j] = "post"
    /\ ask[j] = "upload" => "upload" \in Failing

\* Such an answer, when the body is like a request.
Off(j, ok) == j \in Requests /\ ask[j] \in Nested /\ Unread(j, ok)

\* It has one queued: it is in a mode once the answer has been sent.
Queued(c, a, q) ==
    /\ ~c.rd
    /\ Off(a + 1, c.out.ok) \/ Mode(Clear(c), a + 1, q)
    /\ c.out.ok =>
         /\ c.out.to = a + 1
         /\ a + 1 \in Requests
         /\ ByLength(a + 1) => \E f \in c.disk: f.req = a + 1

\* An upload answered with a success has its file.
Kept(c) == \A j \in Requests \cap 1..Len(answers):
               ByLength(j) /\ answers[j].ok => \E f \in c.disk: f.req = j

\* All files by length are whole.
Whole(c) == \A f \in c.disk: ByLength(f.req) => f.data = Content(f.req)

\* The ClientCon, after any step.
Result(c, a, q) ==
    /\ Kept(c)
    /\ ~c.open => Whole(c)
    /\ c.open /\ c.out.queued => Queued(c, a, q)
    /\ c.open /\ ~c.out.queued => Mode(c, a, q)

\* Such an answer has been given, or was to be when the connection was closed.
Lost ==
    \/ \E j \in 1..Len(answers): Off(j, answers[j].ok)
    \/ ~server.open /\ Off(Len(answers) + 1, FALSE)

\* The invariant.
FrameInv ==
    /\ NoMisdelivery
    /\ Easy => OneAnswerEach
    /\ Lost \/ Result(server, Len(answers), rcv)

\* The smallest number of a set.
LEMMA MinIsLeast ==
    ASSUME NEW S, S \subseteq Nat, S # {}
    PROVE  Min(S) \in S /\ \A x \in S: Min(S) <= x
<1>1. \E m \in S: \A x \in S: ~(<<x, m>> \in OpToRel(<, Nat))
  BY WFMin, NatLessThanWellFounded
<1>2. \E m \in S: \A x \in S: ~(x < m)
  BY <1>1, Zenon DEF OpToRel
<1>3. \E m \in S: \A x \in S: m <= x
  BY <1>2
<1> QED
  BY <1>3 DEF Min

-----------------------------------------------------------------------------
(* The types of a ClientCon, kept by the small steps *)

\* The types of a ClientCon, and what makes its next steps keep them.
Typed(c) ==
    /\ c \in ServerType
    /\ c.remaining < SizeMax
    /\ c.upload_active => c.path # 0
    /\ c.path = NoPath => c.mp_state \in {"BODY", "END"} /\ c.file # "open"

\* The constants.
LEMMA Constants == N \in Nat /\ SizeMax \in Nat /\ SizeMax > 9
  BY FramingAssumption DEF FramingAssumption

\* The constants of the records have the types of their fields.
LEMMA Literals ==
    /\ 0 \in 0..N /\ 0 \in Nat /\ <<>> \in Seq(Tokens) /\ TRUE \in BOOLEAN /\ FALSE \in BOOLEAN
    /\ "REQUEST_LINE" \in States /\ "HEADERS" \in States /\ "BODY" \in States
    /\ "COMPLETE" \in States /\ "ERROR" \in States
    /\ "open" \in {"closed", "open", "bad"} /\ "closed" \in {"closed", "open", "bad"}
    /\ "bad" \in {"closed", "open", "bad"}
    /\ "BOUNDARY" \in {"BOUNDARY", "HEADER", "BODY", "END"}
    /\ "HEADER" \in {"BOUNDARY", "HEADER", "BODY", "END"}
    /\ "BODY" \in {"BOUNDARY", "HEADER", "BODY", "END"}
    /\ "END" \in {"BOUNDARY", "HEADER", "BODY", "END"}
    /\ 0 \in 0..N + 1 /\ NoPath \in 0..N + 1 /\ NoPath # 0
    /\ \A to \in 0..N + 1, ok, queued \in BOOLEAN:
         [to |-> to, ok |-> ok, queued |-> queued] \in Answer
  BY Constants, EmptySeq DEF States, Answer, NoPath

\* The types of the fields.
LEMMA Fields ==
    ASSUME NEW c \in ServerType
    PROVE  /\ c.buffer \in Seq(Tokens) /\ c.body \in Seq(Tokens)
           /\ c.chunk_buf \in Seq(Tokens) /\ c.mp_buf \in Seq(Tokens)
           /\ c.req \in 0..N /\ c.path \in 0..N + 1 /\ c.remaining \in Nat /\ c.state \in States
           /\ c.disk \in SUBSET [req: Requests, data: Seq(Tokens)]
           /\ c.out \in Answer
           /\ c.mp_state \in {"BOUNDARY", "HEADER", "BODY", "END"}
           /\ c.file \in {"closed", "open", "bad"}
           /\ c.upload_active \in BOOLEAN /\ c.MPFlag \in BOOLEAN /\ c.chunked \in BOOLEAN
           /\ c.multipart \in BOOLEAN /\ c.content_type \in BOOLEAN
           /\ c.keep_alive \in BOOLEAN /\ c.servConf \in BOOLEAN
           /\ c.up \in BOOLEAN /\ c.open \in BOOLEAN /\ c.rd \in BOOLEAN
  BY DEF ServerType

\* The counter of bytes stays within size_t, and is exact when it does not wrap.
LEMMA MinusTyped ==
    ASSUME NEW a \in Nat, NEW b \in Nat
    PROVE  Minus(a, b) \in Nat /\ Minus(a, b) < SizeMax
           /\ (b <= a /\ a < SizeMax => Minus(a, b) = a - b)
  BY Constants DEF Minus

\* The small steps keep the types.
LEMMA ClearTyped == ASSUME NEW c, Typed(c) PROVE Typed(Clear(c))
<1>1. Clear(c) \in ServerType
  BY Literals, Zenon DEF Typed, Clear, ServerType
<1> QED
  BY <1>1 DEF Typed, Clear, ServerType

LEMMA QueueTyped ==
    ASSUME NEW c, Typed(c), NEW to \in 0..N + 1, NEW ok \in BOOLEAN
    PROVE  Typed(Queue(c, to, ok))
<1>1. Queue(c, to, ok) \in ServerType
  BY Literals, Zenon DEF Typed, Queue, ServerType
<1> QED
  BY <1>1 DEF Typed, Queue, ServerType

LEMMA FallbackTyped == ASSUME NEW c, Typed(c) PROVE Typed(Fallback(c))
<1> DEFINE k == [c EXCEPT !.keep_alive = @ /\ c.servConf]
<1>1. k \in ServerType
  <2>1. (c.keep_alive /\ c.servConf) \in BOOLEAN
    OBVIOUS
  <2> QED
    BY <2>1, Zenon DEF Typed, ServerType
<1>2. Typed(k)
  BY <1>1 DEF Typed, ServerType
<1> HIDE DEF k
<1>3. Typed(Queue(k, 0, FALSE))
  BY <1>2, Literals, QueueTyped
<1> QED
  BY <1>3 DEF Fallback, k

LEMMA FreshTyped == Typed(Fresh)
<1>1. NoAnswer \in Answer
  BY Literals DEF NoAnswer
<1>2. Fresh \in ServerType
  BY <1>1, Literals DEF Fresh, ServerType
<1> QED
  BY <1>2, Constants DEF Typed, Fresh, NoPath

LEMMA CloseTyped == ASSUME NEW c, Typed(c) PROVE Typed(CloseClient(c))
<1> DEFINE disk == IF c.upload_active THEN Without(c.disk, c.path) ELSE c.disk
<1>1. disk \in SUBSET [req: Requests, data: Seq(Tokens)]
  BY Fields DEF Typed, Without
<1>2. CloseClient(c) = [Fresh EXCEPT !.open = FALSE, !.rd = FALSE, !.disk = disk]
  BY DEF CloseClient
<1> HIDE DEF disk
<1>3. CloseClient(c) \in ServerType
  BY <1>1, <1>2, FreshTyped, Literals, ZenonT(30) DEF Typed, ServerType
<1> QED
  BY <1>2, <1>3, FreshTyped DEF Typed, ServerType

\* Where a token that a test accepts is first in a sequence.
LEMMA EndFacts ==
    ASSUME NEW s \in Seq(Tokens)
    PROVE  LET i == SelectInSeq(s, EndsLine) IN
           /\ i \in 0..Len(s)
           /\ i = 0 <=> \A k \in 1..Len(s): ~EndsLine(s[k])
           /\ s # <<>> /\ EndsLine(s[1]) => i = 1
<1> DEFINE found == {i \in 1..Len(s): EndsLine(s[i])}
<1>1. SelectInSeq(s, EndsLine) = IF found # {} THEN Min(found) ELSE 0
  BY DEF SelectInSeq
<1>2. found # {} => Min(found) \in found /\ \A x \in found: Min(found) <= x
  <2>1. found \subseteq Nat
    OBVIOUS
  <2> HIDE DEF found
  <2> QED
    BY <2>1, MinIsLeast
<1>3. Len(s) \in Nat /\ (s # <<>> => Len(s) > 0)
  OBVIOUS
<1>4. (s # <<>> /\ EndsLine(s[1])) => Min(found) = 1
  BY <1>2, <1>3
<1>5. found = {} <=> \A k \in 1..Len(s): ~EndsLine(s[k])
  OBVIOUS
<1>6. found \subseteq 1..Len(s)
  OBVIOUS
<1> HIDE DEF found
<1>7. s # <<>> /\ EndsLine(s[1]) => found # {}
  BY <1>3, <1>5
<1>8. CASE found = {}
  BY <1>1, <1>3, <1>5, <1>7, <1>8
<1>9. CASE found # {}
  <2> DEFINE m == Min(found)
  <2>1. m \in 1..Len(s)
    BY <1>2, <1>6, <1>9
  <2>2. SelectInSeq(s, EndsLine) = m
    BY <1>1, <1>9
  <2> HIDE DEF m
  <2>3. m # 0 /\ m \in 0..Len(s)
    BY <1>3, <2>1
  <2>4. s # <<>> /\ EndsLine(s[1]) => m = 1
    BY <1>4 DEF m
  <2> QED
    BY <1>5, <1>9, <2>2, <2>3, <2>4
<1> QED
  BY <1>8, <1>9

\* parseRequest, by its states.
LEMMA ParseLineTyped ==
    ASSUME NEW c, Typed(c), c.state = "REQUEST_LINE" PROVE Typed(ParseLine(c))
<1> DEFINE i == SelectInSeq(c.buffer, EndsLine)
           t == c.buffer[i]
           req == IF t.part = "line" THEN t.req ELSE 0
           buffer == IF t.part = "badhead" THEN <<[t EXCEPT !.part = "head"]>> \o Tail(c.buffer)
                     ELSE Tail(c.buffer)
           o == [c EXCEPT !.state = "HEADERS", !.req = req, !.buffer = buffer]
<1>1. ParseLine(c) = IF i = 0 THEN c
        ELSE IF i = 1 /\ IsLine(t) THEN o
        ELSE [c EXCEPT !.state = "ERROR"]
  BY Zenon DEF ParseLine
<1>2. i \in 0..Len(c.buffer)
  BY EndFacts, Fields DEF Typed
<1>3. CASE i = 1
  <2>1. c.buffer \in Seq(Tokens)
    BY Fields DEF Typed
  <2>2. c.buffer # <<>> /\ t \in Tokens
    <3> HIDE DEF i
    <3> QED
      BY <1>2, <1>3, <2>1, ElementOfSeq, EmptySeq
  <2>3. Tail(c.buffer) \in Seq(Tokens)
    BY <2>1, <2>2, HeadTailProperties
  <2> HIDE DEF t
  <2>4. req \in 0..N
    BY <2>2, Constants DEF Tokens, Requests
  <2>5. [t EXCEPT !.part = "head"] \in Tokens
    BY <2>2 DEF Tokens
  <2>6. buffer \in Seq(Tokens)
    <3>1. <<[t EXCEPT !.part = "head"]>> \in Seq(Tokens)
      BY <2>5
    <3> QED
      BY <2>3, <3>1, ConcatProperties
  <2> HIDE DEF req, buffer
  <2>7. o \in ServerType
    BY <2>4, <2>6, Literals, ZenonT(30) DEF Typed, ServerType
  <2>8. Typed(o)
    BY <2>7 DEF Typed, ServerType
  <2>9. Typed([c EXCEPT !.state = "ERROR"])
    <3>1. [c EXCEPT !.state = "ERROR"] \in ServerType
      BY Literals, Zenon DEF Typed, ServerType
    <3> QED
      BY <3>1 DEF Typed, ServerType
  <2> QED
    BY <1>1, <1>3, <2>8, <2>9
<1>4. CASE i # 1
  <2>1. [c EXCEPT !.state = "ERROR"] \in ServerType
    BY Literals, Zenon DEF Typed, ServerType
  <2>2. Typed([c EXCEPT !.state = "ERROR"])
    BY <2>1 DEF Typed, ServerType
  <2> HIDE DEF i
  <2> QED
    BY <1>1, <1>4, <2>2
<1> QED
  BY <1>3, <1>4

-----------------------------------------------------------------------------
(* Types: the parser, the file *)

\* A head.
LEMMA ParseHeadTyped ==
    ASSUME NEW c, Typed(c), c.state = "HEADERS" PROVE Typed(ParseHead(c))
<1> DEFINE i == SelectInSeq(c.buffer, EndsHead)
           flooded == \E k \in DOMAIN c.buffer: c.buffer[k].part = "flood"
           headed == i = 1 /\ IsHead(c.buffer[i])
           next == IF Length(c.req) = 0 /\ ~Chunked(c.req) THEN "COMPLETE" ELSE "BODY"
           type == IF Length(c.req) = 0 THEN c.content_type
                   ELSE Kind[c.req] \in {"multi", "parts"}
<1>1. ParseHead(c) =
        IF flooded THEN [c EXCEPT !.state = "ERROR", !.up = FALSE]
        ELSE IF i = 0 THEN c
        ELSE IF headed
        THEN [c EXCEPT !.buffer = Tail(@), !.state = next, !.content_type = type]
        ELSE [c EXCEPT !.state = "ERROR"]
  BY Zenon DEF ParseHead
<1>2. next \in {"COMPLETE", "BODY"} /\ type \in BOOLEAN
  <2>1. c.content_type \in BOOLEAN
    BY Fields DEF Typed
  <2>2. (Kind[c.req] \in {"multi", "parts"}) \in BOOLEAN
    OBVIOUS
  <2>3. next \in {"COMPLETE", "BODY"}
    OBVIOUS
  <2> QED
    BY <2>1, <2>2, <2>3, Zenon
<1>3. headed => c.buffer # <<>>
  <2>1. SUFFICES ASSUME headed PROVE c.buffer # <<>>
    OBVIOUS
  <2> DEFINE found == {k \in 1..Len(c.buffer): EndsHead(c.buffer[k])}
  <2>2. i = IF found # {} THEN Min(found) ELSE 0
    BY DEF SelectInSeq
  <2> HIDE DEF found, i
  <2>3. found # {}
    <3>1. i = 1
      BY <2>1
    <3> QED
      BY <2>2, <3>1
  <2> USE DEF found
  <2>4. PICK k \in 1..Len(c.buffer): TRUE
    BY <2>3
  <2>5. c.buffer \in Seq(Tokens) /\ Len(c.buffer) \in Nat
    BY Fields, LenProperties DEF Typed
  <2> QED
    BY <2>4, <2>5, EmptySeq
<1> HIDE DEF flooded, i, headed, next, type
<1>4. [c EXCEPT !.state = "ERROR", !.up = FALSE] \in ServerType
  BY Literals, Zenon DEF Typed, ServerType
<1>5. [c EXCEPT !.state = "ERROR"] \in ServerType
  BY Literals, Zenon DEF Typed, ServerType
<1>6. headed => [c EXCEPT !.buffer = Tail(@), !.state = next, !.content_type = type] \in ServerType
  <2>1. headed => Tail(c.buffer) \in Seq(Tokens)
    BY <1>3, Fields, HeadTailProperties DEF Typed
  <2>2. next \in States
    BY <1>2, Literals
  <2> QED
    BY <1>2, <2>1, <2>2, Zenon DEF Typed, ServerType
<1>7. CASE flooded
  BY <1>1, <1>4, <1>7 DEF Typed, ServerType
<1>8. CASE ~flooded /\ i # 0 /\ headed
  <2> DEFINE o == [c EXCEPT !.buffer = Tail(@), !.state = next, !.content_type = type]
  <2>1. o \in ServerType
    BY <1>6, <1>8
  <2>2. Typed(o)
    BY <1>2, <2>1 DEF Typed, ServerType
  <2> QED
    BY <1>1, <1>8, <2>2
<1>9. CASE ~flooded /\ i # 0 /\ ~headed
  BY <1>1, <1>5, <1>9 DEF Typed, ServerType
<1> QED
  BY <1>1, <1>7, <1>8, <1>9

\* The ends of a sequence.
LEMMA Slices ==
    ASSUME NEW s \in Seq(Tokens), NEW n \in Nat
    PROVE  /\ n <= Len(s) => SubSeq(s, 1, n) \in Seq(Tokens)
           /\ SubSeq(s, n + 1, Len(s)) \in Seq(Tokens)
<1>1. Len(s) \in Nat /\ \A i \in 1..Len(s): s[i] \in Tokens
  BY LenProperties, ElementOfSeq
<1>2. \A i \in n + 1..Len(s): s[i] \in Tokens
  BY <1>1
<1>3. n <= Len(s) => \A i \in 1..n: s[i] \in Tokens
  BY <1>1
<1> QED
  BY <1>1, <1>2, <1>3, SubSeqProperties

LEMMA LesserTyped ==
    ASSUME NEW a \in Nat, NEW b \in Nat
    PROVE  Lesser(a, b) \in Nat /\ Lesser(a, b) <= a /\ Lesser(a, b) <= b
           /\ (Lesser(a, b) = a \/ Lesser(a, b) = b)
  BY DEF Lesser

\* The lengths of the bodies.
LEMMA LengthIs == ASSUME NEW j PROVE Length(j) \in 0..9
<1>1. \A kind: kind \in {"post", "big", "upload", "multi", "parts"} => Len(Body(kind)) \in 0..9
  BY DEF Body
<1> QED
  BY <1>1 DEF Length

\* A body.
LEMMA ParseBodyTyped ==
    ASSUME NEW c, Typed(c) PROVE Typed(ParseBody(c))
<1> DEFINE n == Lesser(Length(c.req), Len(c.buffer))
           body == IF Chunked(c.req) THEN c.buffer ELSE SubSeq(c.buffer, 1, n)
           buffer == IF Chunked(c.req) THEN c.buffer
                     ELSE SubSeq(c.buffer, n + 1, Len(c.buffer))
<1>1. c.buffer \in Seq(Tokens) /\ Len(c.buffer) \in Nat /\ Length(c.req) \in Nat
  <2>1. c.buffer \in Seq(Tokens) /\ Len(c.buffer) \in Nat
    BY Fields, LenProperties DEF Typed
  <2>2. Length(c.req) \in 0..9
    BY LengthIs
  <2> QED
    BY <2>1, <2>2
<1>2. n \in Nat /\ n <= Len(c.buffer)
  BY <1>1, LesserTyped
<1>3. body \in Seq(Tokens) /\ buffer \in Seq(Tokens)
  <2> HIDE DEF n
  <2> QED
    BY <1>1, <1>2, Slices
<1>4. (c.multipart \/ c.content_type) \in BOOLEAN
  OBVIOUS
<1>5. ParseBody(c) = [c EXCEPT !.multipart = c.multipart \/ c.content_type,
                               !.body = body, !.buffer = buffer]
  BY Zenon DEF ParseBody
<1> HIDE DEF body, buffer
<1>6. ParseBody(c) \in ServerType
  BY <1>3, <1>4, <1>5, ZenonT(30) DEF Typed, ServerType
<1> QED
  BY <1>5, <1>6 DEF Typed, ServerType

\* What parseRequest makes of a ClientCon, in three steps.
LEMMA ParseTyped ==
    ASSUME NEW c, Typed(c), NEW data \in Seq(Tokens)
    PROVE  Typed(ParseRequest(c, data))
<1> DEFINE b == [c EXCEPT !.buffer = @ \o data]
           l == IF b.state = "REQUEST_LINE" THEN ParseLine(b) ELSE b
           h == IF l.state = "HEADERS" THEN ParseHead(l) ELSE l
<1>1. Typed(b)
  <2>1. c.buffer \o data \in Seq(Tokens)
    BY Fields, ConcatProperties DEF Typed
  <2>2. b \in ServerType
    BY <2>1, Zenon DEF Typed, ServerType
  <2> QED
    BY <2>2 DEF Typed, ServerType
<1>2. ParseRequest(c, data) = IF h.state = "BODY" THEN ParseBody(h) ELSE h
  BY DEF ParseRequest
<1> HIDE DEF b
<1>3. Typed(l)
  BY <1>1, ParseLineTyped
<1> HIDE DEF l
<1>4. Typed(h)
  BY <1>3, ParseHeadTyped
<1> HIDE DEF h
<1> QED
  BY <1>2, <1>4, ParseBodyTyped

-----------------------------------------------------------------------------

\* The type of a file.
FileType == [req: Requests, data: Seq(Tokens)]

\* unlink, openUploadFile and write_body keep the types.
LEMMA WithoutTyped ==
    ASSUME NEW disk \in SUBSET FileType, NEW j
    PROVE  Without(disk, j) \in SUBSET FileType
  BY DEF Without

LEMMA OpenTyped ==
    ASSUME NEW c, Typed(c), c.path \in Requests, NEW opens PROVE Typed(Open(c, opens))
<1> DEFINE k == [c EXCEPT !.file = "closed"]
           disk == c.disk \cup {[req |-> c.path, data |-> <<>>]}
           o == [c EXCEPT !.file = "open", !.disk = disk]
<1>1. Typed(k)
  <2>1. k \in ServerType
    BY Literals, Zenon DEF Typed, ServerType
  <2> QED
    BY <2>1 DEF Typed, ServerType
<1>2. disk \in SUBSET [req: Requests, data: Seq(Tokens)]
  <2>2. [req |-> c.path, data |-> <<>>] \in [req: Requests, data: Seq(Tokens)]
    BY Literals
  <2>3. c.disk \in SUBSET [req: Requests, data: Seq(Tokens)]
    BY Fields DEF Typed
  <2> QED
    BY <2>2, <2>3
<1>3. Open(c, opens) = IF Opens(c, opens) THEN o ELSE Fallback(k)
  BY DEF Open
<1> HIDE DEF k, disk
<1>4. Typed(o)
  <2>1. o \in ServerType
    BY <1>2, Literals, Zenon DEF Typed, ServerType
  <2>2. c.path # NoPath
    BY Constants DEF NoPath, Requests
  <2> QED
    BY <2>1, <2>2 DEF Typed, ServerType
<1>5. Typed(Fallback(k))
  BY <1>1, FallbackTyped
<1> QED
  BY <1>3, <1>4, <1>5

LEMMA WriteTyped ==
    ASSUME NEW c, Typed(c), NEW data \in Seq(Tokens), NEW works
    PROVE  Typed(WriteBody(c, data, works))
<1> DEFINE r == Minus(c.remaining, Len(data))
           disk == {IF f.req = c.path THEN [f EXCEPT !.data = @ \o data] ELSE f: f \in c.disk}
           w == [c EXCEPT !.remaining = r, !.disk = disk]
           k == [c EXCEPT !.file = "bad", !.disk = Without(@, c.path)]
<1>1. WriteBody(c, data, works) = IF Written(c, data, works) THEN w ELSE Fallback(k)
  BY DEF WriteBody
<1>2. r \in Nat /\ r < SizeMax
  BY Fields, LenProperties, MinusTyped DEF Typed
<1>3. disk \in SUBSET [req: Requests, data: Seq(Tokens)]
  <2>1. \A f \in c.disk: f \in [req: Requests, data: Seq(Tokens)]
    BY Fields DEF Typed
  <2>2. \A f \in c.disk: [f EXCEPT !.data = @ \o data] \in [req: Requests, data: Seq(Tokens)]
    <3> TAKE f \in c.disk
    <3>1. f.data \o data \in Seq(Tokens) /\ f.req \in Requests
      BY <2>1, ConcatProperties
    <3> QED
      BY <2>1, <3>1
  <2> QED
    BY <2>1, <2>2
<1>4. Without(c.disk, c.path) \in SUBSET [req: Requests, data: Seq(Tokens)]
  BY Fields DEF Typed, Without
<1> HIDE DEF r, disk
<1>5. Typed(w)
  <2>1. w \in ServerType
    BY <1>2, <1>3, Zenon DEF Typed, ServerType
  <2> QED
    BY <1>2, <2>1 DEF Typed, ServerType
<1>6. Typed(k)
  <2>1. k \in ServerType
    BY <1>4, Literals, Zenon DEF Typed, ServerType
  <2> QED
    BY <2>1 DEF Typed, ServerType
<1> HIDE DEF w, k
<1>7. Typed(Fallback(k))
  BY <1>6, FallbackTyped
<1> QED
  BY <1>1, <1>5, <1>7

-----------------------------------------------------------------------------
(* Types: the body of an upload *)

\* An upload keeps its path until it is completed.
LEMMA PathsKept ==
    ASSUME NEW c, Typed(c), NEW data, NEW opens, NEW works
    PROVE  /\ Fallback(c).path = c.path /\ Clear(c).path = c.path
           /\ Open(c, opens).path = c.path
           /\ WriteBody(c, data, works).path = c.path
<1>1. c \in ServerType
  BY DEF Typed
<1>2. \A k \in ServerType: Fallback(k).path = k.path /\ Clear(k).path = k.path
  BY DEF Fallback, Queue, Clear, ServerType
<1>3. [c EXCEPT !.file = "closed"] \in ServerType
  BY <1>1, Literals, Zenon DEF ServerType
<1>4. [c EXCEPT !.file = "bad", !.disk = Without(@, c.path)] \in ServerType
  <2>1. Without(c.disk, c.path) \in SUBSET [req: Requests, data: Seq(Tokens)]
    BY <1>1, Fields DEF Without
  <2> QED
    BY <1>1, <2>1, Literals, Zenon DEF ServerType
<1>5. Open(c, opens).path = c.path
  BY <1>1, <1>2, <1>3 DEF Open, ServerType
<1>6. WriteBody(c, data, works).path = c.path
  BY <1>1, <1>2, <1>4 DEF WriteBody, ServerType
<1> QED
  BY <1>1, <1>2, <1>5, <1>6

\* Where parseMultipart finds a boundary.
LEMMA PairsFacts ==
    ASSUME NEW s \in Seq(Tokens), NEW p, NEW q, Pairs(s, p, q) # {}
    PROVE  Min(Pairs(s, p, q)) \in 1..Len(s) - 1
<1>1. Pairs(s, p, q) \subseteq 1..Len(s) - 1 /\ Pairs(s, p, q) \subseteq Nat
  BY DEF Pairs
<1> QED
  BY <1>1, MinIsLeast

\* The ends of a buffer, cut at one of its units.
LEMMA Cuts ==
    ASSUME NEW s \in Seq(Tokens), NEW i \in 1..Len(s)
    PROVE  /\ SubSeq(s, 1, i - 1) \in Seq(Tokens)
           /\ SubSeq(s, i + 1, Len(s)) \in Seq(Tokens)
           /\ s[i] \in Tokens /\ <<s[i]>> \in Seq(Tokens)
<1>1. i \in Nat /\ i - 1 \in Nat /\ i - 1 <= Len(s) /\ Len(s) \in Nat
  BY LenProperties
<1>2. SubSeq(s, 1, i - 1) \in Seq(Tokens) /\ SubSeq(s, i + 1, Len(s)) \in Seq(Tokens)
  <2>1. \A n \in Nat: /\ n <= Len(s) => SubSeq(s, 1, n) \in Seq(Tokens)
                      /\ SubSeq(s, n + 1, Len(s)) \in Seq(Tokens)
    BY Slices
  <2> QED
    BY <1>1, <2>1
<1>3. s[i] \in Tokens
  BY ElementOfSeq
<1> QED
  BY <1>2, <1>3

\* The states MP_BOUNDARY and MP_HEADER keep the types.
LEMMA PartHeaderTyped ==
    ASSUME NEW c, Typed(c), c.path # 0, c.mp_state \in {"BOUNDARY", "HEADER"}, NEW opens
    PROVE  Typed(PartHeader(c, opens)) /\ PartHeader(c, opens).path # 0
<1> DEFINE at == Pairs(c.mp_buf, "delim", "fields")
           rest == SubSeq(c.mp_buf, Min(at) + 2, Len(c.mp_buf))
           b == [c EXCEPT !.mp_buf = rest, !.mp_state = "BODY"]
           w == [c EXCEPT !.mp_state = "HEADER"]
           x == [b EXCEPT !.file = "bad", !.path = NoPath]
<1>1. PartHeader(c, opens) = IF at = {} THEN w ELSE IF c.file = "open" THEN x ELSE Open(b, opens)
  BY DEF PartHeader
<1>2. c.path \in Requests /\ c.path # NoPath
  <2>1. c.path # NoPath /\ c.path \in 0..N + 1
    BY Fields DEF Typed
  <2> QED
    BY <2>1, Constants DEF NoPath, Requests
<1>3. at # {} => rest \in Seq(Tokens)
  <2>1. c.mp_buf \in Seq(Tokens) /\ Len(c.mp_buf) \in Nat
    BY Fields, LenProperties DEF Typed
  <2>2. at # {} => Min(at) \in 1..Len(c.mp_buf) - 1
    BY <2>1, PairsFacts
  <2> HIDE DEF at
  <2>3. SUFFICES ASSUME at # {} PROVE rest \in Seq(Tokens)
    OBVIOUS
  <2>4. PICK n \in Nat: n = Min(at) + 1
    BY <2>1, <2>2, <2>3
  <2>5. SubSeq(c.mp_buf, n + 1, Len(c.mp_buf)) \in Seq(Tokens)
    BY <2>1, Slices
  <2>6. n + 1 = Min(at) + 2
    BY <2>2, <2>3, <2>4
  <2> QED
    BY <2>5, <2>6
<1> HIDE DEF at, rest
<1>4. Typed(w) /\ w.path # 0
  <2>1. w \in ServerType
    BY Literals, Zenon DEF Typed, ServerType
  <2> QED
    BY <1>2, <2>1 DEF Typed, ServerType
<1>5. at # {} => Typed(b) /\ b.path = c.path
  <2>1. at # {} => b \in ServerType
    BY <1>3, Literals, Zenon DEF Typed, ServerType
  <2> QED
    BY <1>2, <2>1 DEF Typed, ServerType
<1> HIDE DEF w, b
<1>6. at # {} => Typed(x) /\ x.path # 0
  <2>1. at # {} => x \in ServerType
    BY <1>5, Literals, Zenon DEF Typed, ServerType
  <2>2. at # {} => x.mp_state \in {"BODY", "END"}
    <3>1. at # {} => b.mp_state = "BODY"
      BY DEF b, Typed, ServerType
    <3> QED
      BY <1>5, <3>1 DEF Typed, ServerType
  <2>3. at # {} => /\ x.path = NoPath /\ x.file = "bad" /\ x.remaining = b.remaining
                   /\ x.upload_active = b.upload_active
    BY <1>5 DEF Typed, ServerType
  <2> QED
    BY <1>5, <2>1, <2>2, <2>3, Literals DEF Typed
<1>7. at # {} => Typed(Open(b, opens)) /\ Open(b, opens).path # 0
  BY <1>2, <1>5, OpenTyped, PathsKept, Literals
<1> QED
  BY <1>1, <1>4, <1>6, <1>7

\* write_body of a part keeps the types.
LEMMA SpillTyped ==
    ASSUME NEW c, Typed(c), c.path # 0, NEW data \in Seq(Tokens), NEW rest \in Seq(Tokens),
           NEW state \in {"BOUNDARY", "HEADER", "BODY", "END"}, NEW works,
           data # <<>> \/ state = c.mp_state \/ state = "END"
    PROVE  LET r == Spill(c, data, rest, state, works) IN
           Typed(r) /\ r.path = c.path
<1> DEFINE w == WriteBody(c, data, works)
           o == [w EXCEPT !.mp_buf = rest, !.mp_state = state]
<1>1. Spill(c, data, rest, state, works) = IF Written(c, data, works) THEN o ELSE w
  BY DEF Spill
<1>2. Typed(w) /\ w.path = c.path
  BY WriteTyped, PathsKept
<1>3. w.mp_state = c.mp_state /\ (Written(c, data, works) => w.file = c.file)
  <2>1. \A k \in ServerType: Fallback(k).mp_state = k.mp_state
    BY DEF Fallback, Queue, ServerType
  <2>2. [c EXCEPT !.file = "bad", !.disk = Without(@, c.path)] \in ServerType
    <3>1. Without(c.disk, c.path) \in SUBSET [req: Requests, data: Seq(Tokens)]
      BY Fields DEF Typed, Without
    <3> QED
      BY <3>1, Literals, Zenon DEF Typed, ServerType
  <2>3. c \in ServerType
    BY DEF Typed
  <2> QED
    BY <2>1, <2>2, <2>3 DEF WriteBody, ServerType
<1> HIDE DEF w
<1>4. o \in ServerType /\ o.mp_state = state /\ o.path = w.path /\ o.file = w.file
      /\ o.remaining = w.remaining /\ o.upload_active = w.upload_active
  <2>1. o \in ServerType
    BY <1>2, Zenon DEF Typed, ServerType
  <2> QED
    BY <1>2, <2>1 DEF Typed, ServerType
<1> HIDE DEF o
<1>5. Written(c, data, works) => Typed(o)
  <2>1. Written(c, data, works) /\ c.path = NoPath => data = <<>>
    BY DEF Written, Typed
  <2>2. c.path = NoPath => c.mp_state \in {"BODY", "END"} /\ c.file # "open"
    BY DEF Typed
  <2> QED
    BY <1>2, <1>3, <1>4, <2>1, <2>2 DEF Typed
<1> QED
  BY <1>1, <1>2, <1>3, <1>4, <1>5

\* The ends of a part keep the types.
LEMMA PartEndTyped ==
    ASSUME NEW c, Typed(c), c.path # 0, NEW i \in 1..Len(c.mp_buf), NEW works
    PROVE  Typed(PartEnd(c, i, works)) /\ PartEnd(c, i, works).path = c.path
<1> DEFINE w == Spill(c, SubSeq(c.mp_buf, 1, i - 1), <<>>, "END", works)
           e == [w EXCEPT !.file = "closed"]
<1>1. PartEnd(c, i, works) = IF w.mp_state = "END" THEN e ELSE w
  BY DEF PartEnd
<1>2. SubSeq(c.mp_buf, 1, i - 1) \in Seq(Tokens)
  BY Fields, Cuts DEF Typed
<1>3. Typed(w) /\ w.path = c.path
  <2> DEFINE data == SubSeq(c.mp_buf, 1, i - 1)
  <2>1. data \in Seq(Tokens) /\ <<>> \in Seq(Tokens)
    BY <1>2, Literals
  <2> HIDE DEF data
  <2>2. PICK state \in {"BOUNDARY", "HEADER", "BODY", "END"}: state = "END"
    OBVIOUS
  <2>3. PICK rest \in Seq(Tokens): rest = <<>>
    BY <2>1
  <2>4. LET r == Spill(c, data, rest, state, works) IN Typed(r) /\ r.path = c.path
    BY <2>1, <2>2, SpillTyped
  <2> QED
    BY <2>2, <2>3, <2>4 DEF data
<1> HIDE DEF w
<1>4. Typed(e) /\ e.path = c.path
  <2>1. e \in ServerType
    BY <1>3, Literals, Zenon DEF Typed, ServerType
  <2> QED
    BY <1>3, <2>1 DEF Typed, ServerType
<1> QED
  BY <1>1, <1>3, <1>4

LEMMA PartNextTyped ==
    ASSUME NEW c, Typed(c), c.path # 0, NEW i \in 1..Len(c.mp_buf), NEW works
    PROVE  Typed(PartNext(c, i, works)) /\ PartNext(c, i, works).path = c.path
<1> DEFINE made(part) == <<[c.mp_buf[i] EXCEPT !.part = part]>>
           before == SubSeq(c.mp_buf, 1, i - 1)
           after == SubSeq(c.mp_buf, i + 1, Len(c.mp_buf))
           data == before \o made("rule")
           rest == made("stub") \o after
<1>1. PartNext(c, i, works) = Spill(c, data, rest, "BOUNDARY", works)
  BY DEF PartNext
<1>2. c.mp_buf[i] \in Tokens /\ before \in Seq(Tokens) /\ after \in Seq(Tokens)
  BY Fields, Cuts DEF Typed
<1>3. made("rule") \in Seq(Tokens) /\ made("stub") \in Seq(Tokens) /\ Len(made("rule")) = 1
  <2>1. /\ [c.mp_buf[i] EXCEPT !.part = "rule"] \in Tokens
        /\ [c.mp_buf[i] EXCEPT !.part = "stub"] \in Tokens
    BY <1>2 DEF Tokens
  <2> QED
    BY <2>1
<1> HIDE DEF made, before, after
<1>4. data \in Seq(Tokens) /\ rest \in Seq(Tokens) /\ data # <<>>
  <2>1. data \in Seq(Tokens) /\ rest \in Seq(Tokens) /\ Len(data) = Len(before) + 1
    <3>1. \A u, v \in Seq(Tokens): u \o v \in Seq(Tokens) /\ Len(u \o v) = Len(u) + Len(v)
      BY ConcatProperties
    <3> QED
      BY <1>2, <1>3, <3>1
  <2>2. Len(before) \in Nat
    BY <1>2, LenProperties
  <2> HIDE DEF data
  <2> QED
    BY <2>1, <2>2, EmptySeq
<1> HIDE DEF data, rest
<1>5. LET r == Spill(c, data, rest, "BOUNDARY", works) IN Typed(r) /\ r.path = c.path
  BY <1>4, SpillTyped
<1> QED
  BY <1>1, <1>5

LEMMA PartGuardTyped ==
    ASSUME NEW c, Typed(c), c.path # 0, NEW works
    PROVE  Typed(PartGuard(c, works)) /\ PartGuard(c, works).path = c.path
<1> DEFINE n == Len(c.mp_buf)
<1>1. c.mp_buf \in Seq(Tokens) /\ n \in Nat
      /\ c.mp_state \in {"BOUNDARY", "HEADER", "BODY", "END"}
  BY Fields, LenProperties DEF Typed
<1>2. CASE n > 1
  <2>1. n \in 1..Len(c.mp_buf)
    BY <1>1, <1>2
  <2>2. SubSeq(c.mp_buf, 1, n - 1) \in Seq(Tokens) /\ <<c.mp_buf[n]>> \in Seq(Tokens)
    <3> HIDE DEF n
    <3> QED
      BY <1>1, <2>1, Cuts
  <2>3. PartGuard(c, works) =
          Spill(c, SubSeq(c.mp_buf, 1, n - 1), <<c.mp_buf[n]>>, c.mp_state, works)
    BY <1>2 DEF PartGuard
  <2> DEFINE data == SubSeq(c.mp_buf, 1, n - 1)
             rest == <<c.mp_buf[n]>>
  <2> HIDE DEF n, data, rest
  <2>4. data \in Seq(Tokens) /\ rest \in Seq(Tokens)
    BY <2>2 DEF data, rest
  <2>5. PICK state \in {"BOUNDARY", "HEADER", "BODY", "END"}: state = c.mp_state
    BY <1>1
  <2>6. LET r == Spill(c, data, rest, state, works) IN Typed(r) /\ r.path = c.path
    BY <2>4, <2>5, SpillTyped
  <2> QED
    BY <2>3, <2>5, <2>6 DEF data, rest
<1>3. CASE ~(n > 1)
  BY <1>3 DEF PartGuard
<1> QED
  BY <1>2, <1>3

\* The state MP_BODY keeps the types.
LEMMA PartBodyTyped ==
    ASSUME NEW c, Typed(c), c.path # 0, NEW works
    PROVE  Typed(PartBody(c, works)) /\ PartBody(c, works).path = c.path
<1> DEFINE final == Pairs(c.mp_buf, "delim", "dashes")
           delims == {k \in DOMAIN c.mp_buf: c.mp_buf[k].part = "delim"}
           d == PartNext(c, Min(delims), works)
<1>1. PartBody(c, works) =
        IF final # {} THEN PartEnd(c, Min(final), works)
        ELSE IF delims = {} THEN PartGuard(c, works)
        ELSE IF d.mp_state = "BOUNDARY" THEN PartGuard(d, works)
        ELSE d
  BY DEF PartBody
<1>2. c.mp_buf \in Seq(Tokens) /\ Len(c.mp_buf) \in Nat
  BY Fields, LenProperties DEF Typed
<1>3. final # {} => Min(final) \in 1..Len(c.mp_buf)
  <2>1. final # {} => Min(final) \in 1..Len(c.mp_buf) - 1
    BY <1>2, PairsFacts
  <2> HIDE DEF final
  <2> QED
    BY <1>2, <2>1
<1>4. delims # {} => Min(delims) \in 1..Len(c.mp_buf)
  <2>1. delims \subseteq 1..Len(c.mp_buf) /\ delims \subseteq Nat
    BY <1>2
  <2> HIDE DEF delims
  <2> QED
    BY <2>1, MinIsLeast
<1> HIDE DEF final, delims
<1>5. final # {} => Typed(PartEnd(c, Min(final), works))
      /\ PartEnd(c, Min(final), works).path = c.path
  BY <1>3, PartEndTyped
<1>6. delims # {} => Typed(d) /\ d.path = c.path
  BY <1>4, PartNextTyped
<1> HIDE DEF d
<1>7. delims # {} => Typed(PartGuard(d, works)) /\ PartGuard(d, works).path = c.path
  BY <1>6, PartGuardTyped
<1>8. Typed(PartGuard(c, works)) /\ PartGuard(c, works).path = c.path
  BY PartGuardTyped
<1> QED
  BY <1>1, <1>5, <1>6, <1>7, <1>8

\* parseMultipart and processBody keep the types.
LEMMA ParseMultipartTyped ==
    ASSUME NEW c, Typed(c), c.path # 0, NEW data \in Seq(Tokens), NEW opens, NEW works
    PROVE  /\ Typed(ParseMultipart(c, data, opens, works))
           /\ ParseMultipart(c, data, opens, works).path # 0
<1> DEFINE b == [c EXCEPT !.mp_buf = @ \o data]
           header == c.mp_state \in {"BOUNDARY", "HEADER"}
           h == IF header THEN PartHeader(b, opens) ELSE b
<1>1. ParseMultipart(c, data, opens, works) =
        IF h.mp_state # "BODY" \/ (header /\ h.file = "closed") THEN h ELSE PartBody(h, works)
  BY DEF ParseMultipart
<1>2. Typed(b) /\ b.path = c.path /\ b.mp_state = c.mp_state
  <2>1. c.mp_buf \o data \in Seq(Tokens)
    BY Fields, ConcatProperties DEF Typed
  <2>2. b \in ServerType
    BY <2>1, Zenon DEF Typed, ServerType
  <2> QED
    BY <2>2 DEF Typed, ServerType
<1> HIDE DEF b
<1>3. Typed(h) /\ h.path # 0
  BY <1>2, PartHeaderTyped
<1> HIDE DEF h
<1>4. Typed(PartBody(h, works)) /\ PartBody(h, works).path # 0
  BY <1>3, PartBodyTyped
<1> QED
  BY <1>1, <1>3, <1>4

\* What is left of a chunked body is of the bytes that came.
LEMMA DecodedTyped ==
    ASSUME NEW c, Typed(c), NEW data \in Seq(Tokens)
    PROVE  /\ Decoded(c, data).data \in Seq(Tokens)
           /\ Decoded(c, data).state # "ERROR" => Decoded(c, data).rest \in Seq(Tokens)
           /\ Decoded(c, data).rest \in Seq(Tokens)
<1> DEFINE buf == c.chunk_buf \o data
           whole == Len(buf) >= 2 /\ buf[1].part = "open" /\ buf[2].part = "close"
           rest == IF whole THEN SubSeq(buf, 3, Len(buf)) ELSE buf
           state == IF ~\E k \in DOMAIN rest: EndsLine(rest[k]) THEN "BODY"
                 ELSE IF rest[1].part = "end" THEN "COMPLETE"
                 ELSE IF rest[1].part = "open" /\ Len(rest) = 1 THEN "BODY"
                 ELSE "ERROR"
           first == IF whole THEN SubSeq(buf, 1, 2) ELSE <<>>
           left == IF state = "COMPLETE" THEN Tail(rest) ELSE rest
<1>1. Decoded(c, data) = [data |-> first, rest |-> left, state |-> state]
  BY DEF Decoded
<1>2. buf \in Seq(Tokens) /\ Len(buf) \in Nat
  BY Fields, ConcatProperties, LenProperties DEF Typed
<1> HIDE DEF buf
<1>3. first \in Seq(Tokens)
  BY <1>2, Slices, EmptySeq
<1>4. rest \in Seq(Tokens)
  <2>1. SubSeq(buf, 2 + 1, Len(buf)) \in Seq(Tokens)
    BY <1>2, Slices
  <2> QED
    BY <1>2, <2>1
<1> HIDE DEF rest, first
<1>5. state = "COMPLETE" => rest # <<>>
  BY <1>4, EmptySeq
<1> HIDE DEF state
<1>6. left \in Seq(Tokens)
  BY <1>4, <1>5, HeadTailProperties
<1> HIDE DEF left
<1> QED
  BY <1>1, <1>3, <1>6

\* processBody keeps the types, and a path.
LEMMA ProcessBodyTyped ==
    ASSUME NEW c, Typed(c), c.path # 0, NEW data \in Seq(Tokens), NEW opens, NEW works
    PROVE  LET p == ProcessBody(c, data, opens, works) IN
           /\ Typed(p.server) /\ p.server.path # 0
           /\ p.fine \in BOOLEAN /\ p.done \in BOOLEAN
<1> DEFINE d == Decoded(c, data)
           taken == IF c.chunked THEN d.data
                    ELSE SubSeq(data, 1, Lesser(Len(data), c.remaining))
           b == IF c.chunked THEN [c EXCEPT !.chunk_buf = d.rest] ELSE c
           k == [b EXCEPT !.file = "closed", !.disk = Without(@, c.path)]
           good == IF c.MPFlag THEN ParseMultipart(b, taken, opens, works)
                   ELSE WriteBody(b, taken, works)
<1>1. ProcessBody(c, data, opens, works) =
        IF c.chunked /\ d.state = "ERROR"
        THEN [server |-> Fallback(k), fine |-> FALSE, done |-> FALSE]
        ELSE [server |-> good, fine |-> c.MPFlag \/ Written(b, taken, works),
              done |-> c.chunked /\ d.state = "COMPLETE"]
  BY DEF ProcessBody
<1>2. d.data \in Seq(Tokens) /\ d.rest \in Seq(Tokens)
  BY DecodedTyped
<1> HIDE DEF d
<1>3. taken \in Seq(Tokens)
  <2>1. Len(data) \in Nat /\ c.remaining \in Nat
    BY Fields, LenProperties DEF Typed
  <2>2. SubSeq(data, 1, Lesser(Len(data), c.remaining)) \in Seq(Tokens)
    BY <2>1, LesserTyped, Slices
  <2> QED
    BY <1>2, <2>2
<1>4. Typed(b) /\ b.path = c.path
  <2> DEFINE x == [c EXCEPT !.chunk_buf = d.rest]
  <2>1. x \in ServerType
    BY <1>2, Zenon DEF Typed, ServerType
  <2>2. Typed(x) /\ x.path = c.path
    BY <2>1 DEF Typed, ServerType
  <2> QED
    BY <2>2
<1> HIDE DEF b, taken
<1>5. Typed(k) /\ k.path = c.path
  <2>1. Without(b.disk, c.path) \in SUBSET [req: Requests, data: Seq(Tokens)]
    BY <1>4, Fields DEF Typed, Without
  <2>2. k \in ServerType
    BY <1>4, <2>1, Literals, Zenon DEF Typed, ServerType
  <2> QED
    BY <1>4, <2>2 DEF Typed, ServerType
<1> HIDE DEF k
<1>6. Typed(Fallback(k)) /\ Fallback(k).path = c.path
  BY <1>5, FallbackTyped, PathsKept
<1>7. Typed(good) /\ good.path # 0
  BY <1>3, <1>4, ParseMultipartTyped, WriteTyped, PathsKept
<1> HIDE DEF good
<1>8. (c.MPFlag \/ Written(b, taken, works)) \in BOOLEAN
      /\ (c.chunked /\ d.state = "COMPLETE") \in BOOLEAN
  OBVIOUS
<1>9. CASE c.chunked /\ d.state = "ERROR"
  BY <1>1, <1>6, <1>9
<1>10. CASE ~(c.chunked /\ d.state = "ERROR")
  <2> DEFINE fine == c.MPFlag \/ Written(b, taken, works)
             done == c.chunked /\ d.state = "COMPLETE"
  <2>1. ProcessBody(c, data, opens, works) = [server |-> good, fine |-> fine, done |-> done]
    BY <1>1, <1>10, Zenon
  <2>2. fine \in BOOLEAN /\ done \in BOOLEAN
    BY <1>8
  <2> HIDE DEF fine, done
  <2> QED
    BY <1>7, <2>1, <2>2
<1> QED
  BY <1>9, <1>10

\* The ends of an upload keep the types.
LEMMA CompleteTyped == ASSUME NEW c, Typed(c) PROVE Typed(UploadComplete(c))
<1> DEFINE k == [c EXCEPT !.file = "closed", !.upload_active = FALSE,
                    !.MPFlag = FALSE, !.mp_state = "BOUNDARY", !.path = 0,
                    !.chunk_buf = <<>>, !.remaining = 0, !.chunked = FALSE]
<1>1. k \in ServerType
  BY Literals, Zenon DEF Typed, ServerType
<1>2. Typed(k)
  BY <1>1, Constants, SMTT(30) DEF Typed, ServerType, NoPath
<1>3. UploadComplete(c) = Queue(k, c.path, TRUE)
  BY DEF UploadComplete
<1>4. c.path \in 0..N + 1
  BY Fields DEF Typed
<1> HIDE DEF k
<1> QED
  BY <1>2, <1>3, <1>4, Literals, QueueTyped

LEMMA StartedTyped ==
    ASSUME NEW c, Typed(c), c.path # 0, NEW done PROVE Typed(Started(c, done))
<1> DEFINE a == [c EXCEPT !.upload_active = TRUE]
<1>1. Typed(a)
  <2>1. a \in ServerType
    BY Literals, Zenon DEF Typed, ServerType
  <2> QED
    BY <2>1 DEF Typed, ServerType
<1>2. Started(c, done) = UploadComplete(c) \/ Started(c, done) = a
  BY DEF Started
<1> HIDE DEF a
<1> QED
  BY <1>1, <1>2, CompleteTyped

-----------------------------------------------------------------------------
(* Types: a request; the theorem *)

\* startUpload keeps the types.
LEMMA StartUploadTyped ==
    ASSUME NEW c, Typed(c), c.req # 0, NEW opens, NEW works
    PROVE  Typed(StartUpload(c, opens, works))
<1> DEFINE flag == c.MPFlag \/ c.multipart
           m == [c EXCEPT !.MPFlag = flag, !.path = c.req]
           o == IF m.MPFlag THEN m ELSE Open(m, opens)
           chunked == o.chunked \/ (Chunked(c.req) /\ c.body # <<>>)
           r == [o EXCEPT !.remaining = Length(c.req), !.chunked = chunked]
           p == ProcessBody(r, c.body, opens, works)
           x == [c EXCEPT !.MPFlag = TRUE]
<1>1. StartUpload(c, opens, works) =
        IF c.multipart /\ ~c.content_type THEN Fallback(x)
        ELSE IF ~m.MPFlag /\ ~Opens(m, opens) THEN o
        ELSE IF c.body = <<>> THEN Started(r, FALSE)
        ELSE IF p.fine THEN Started(Clear(p.server), p.done)
        ELSE p.server
  BY Zenon DEF StartUpload
<1>2. c.req \in Requests /\ c.req \in 0..N + 1 /\ c.req # NoPath /\ c.body \in Seq(Tokens)
  BY Fields, Constants DEF Typed, Requests, NoPath
<1>3. Typed(x)
  <2>1. x \in ServerType
    BY Literals, Zenon DEF Typed, ServerType
  <2> QED
    BY <2>1 DEF Typed, ServerType
<1>4. Typed(m) /\ m.path = c.req
  <2>1. flag \in BOOLEAN
    OBVIOUS
  <2> HIDE DEF flag
  <2>2. m \in ServerType
    BY <1>2, <2>1, Zenon DEF Typed, ServerType
  <2> QED
    BY <1>2, <2>1, <2>2 DEF Typed, ServerType
<1> HIDE DEF m, x
<1>5. Typed(o) /\ o.path = c.req
  BY <1>2, <1>4, OpenTyped, PathsKept
<1> HIDE DEF o
<1>6. Typed(r) /\ r.path = c.req
  <2>1. Length(c.req) \in Nat /\ Length(c.req) < SizeMax
    BY Constants, LengthIs
  <2>2. chunked \in BOOLEAN
    OBVIOUS
  <2> HIDE DEF chunked
  <2>3. r \in ServerType
    BY <1>5, <2>1, <2>2, Zenon DEF Typed, ServerType
  <2> QED
    BY <1>5, <2>1, <2>3 DEF Typed, ServerType
<1> HIDE DEF r
<1>7. Typed(p.server) /\ p.server.path # 0
  BY <1>2, <1>6, ProcessBodyTyped
<1> HIDE DEF p
<1>8. Typed(Clear(p.server)) /\ Clear(p.server).path # 0
  BY <1>7, ClearTyped, PathsKept
<1>9. Typed(Fallback(x)) /\ Typed(Started(r, FALSE)) /\ Typed(Started(Clear(p.server), p.done))
  BY <1>3, <1>6, <1>8, FallbackTyped, StartedTyped
<1> QED
  BY <1>1, <1>5, <1>7, <1>9

\* process_request keeps the types.
LEMMA ProcessRequestTyped ==
    ASSUME NEW c, Typed(c), NEW keepAlive \in BOOLEAN, NEW opens, NEW works
    PROVE  Typed(ProcessRequest(c, keepAlive, opens, works))
<1> DEFINE k == [c EXCEPT !.keep_alive = keepAlive]
<1>1. Typed(k) /\ k.req = c.req
  <2>1. k \in ServerType
    BY Zenon DEF Typed, ServerType
  <2> QED
    BY <2>1 DEF Typed, ServerType
<1>2. ProcessRequest(c, keepAlive, opens, works) =
        IF Kind[c.req] = "big" THEN Fallback(k)
        ELSE IF Kind[c.req] \in {"upload", "multi", "parts", "chunked"}
        THEN StartUpload(k, opens, works)
        ELSE Queue(k, c.req, TRUE)
  BY DEF ProcessRequest
<1> HIDE DEF k
<1>3. c.req \in 0..N /\ c.req \in 0..N + 1
  BY Fields, Constants DEF Typed
<1>4. Kind[0] = "get"
  BY Constants DEF Kind
<1>5. Typed(Fallback(k)) /\ Typed(Queue(k, c.req, TRUE))
      /\ (c.req # 0 => Typed(StartUpload(k, opens, works)))
  BY <1>1, <1>3, FallbackTyped, StartUploadTyped, QueueTyped, Literals
<1> QED
  BY <1>2, <1>4, <1>5

\* read_client keeps the types, for a request and for an upload.
LEMMA ReadRequestTyped ==
    ASSUME NEW c, Typed(c), NEW data \in Seq(Tokens), NEW keepAlive \in BOOLEAN,
           NEW opens, NEW works
    PROVE  Typed(ReadRequest(c, data, keepAlive, opens, works))
<1> DEFINE p == ParseRequest(c, data)
           s == [p EXCEPT !.servConf = TRUE]
           q == ProcessRequest(s, keepAlive, opens, works)
           x == [p EXCEPT !.open = FALSE, !.rd = FALSE]
<1>1. ReadRequest(c, data, keepAlive, opens, works) =
        IF ~p.up THEN x
        ELSE IF p.state = "ERROR" THEN Fallback(p)
        ELSE IF p.state \in {"REQUEST_LINE", "HEADERS"} THEN p
        ELSE IF q.keep_alive /\ p.state = "COMPLETE" THEN Clear(q)
        ELSE q
  BY DEF ReadRequest
<1>2. Typed(p)
  BY ParseTyped
<1> HIDE DEF p
<1>3. Typed(s) /\ s.req = p.req
  <2>1. s \in ServerType
    BY <1>2, Literals, Zenon DEF Typed, ServerType
  <2> QED
    BY <1>2, <2>1 DEF Typed, ServerType
<1>4. Typed(x)
  <2>1. x \in ServerType
    BY <1>2, Literals, Zenon DEF Typed, ServerType
  <2> QED
    BY <1>2, <2>1 DEF Typed, ServerType
<1>6. p.state \in States
  BY <1>2, Fields DEF Typed
<1> HIDE DEF s, x
<1>7. Typed(q)
  BY <1>3, ProcessRequestTyped
<1> HIDE DEF q
<1>8. Typed(Clear(q))
  BY <1>7, ClearTyped
<1>9. Typed(Fallback(p))
  BY <1>2, FallbackTyped
<1> QED
  BY <1>1, <1>2, <1>4, <1>6, <1>7, <1>8, <1>9 DEF States

LEMMA ReadUploadTyped ==
    ASSUME NEW c, Typed(c), c.path # 0, NEW data \in Seq(Tokens), NEW keepAlive \in BOOLEAN,
           NEW opens, NEW works
    PROVE  Typed(ReadUpload(c, data, keepAlive, opens, works))
<1> DEFINE p == ProcessBody(c, data, opens, works)
           u == IF p.server.remaining = 0 \/ p.done \/ p.server.mp_state = "END"
                THEN UploadComplete(p.server) ELSE p.server
           n == IF c.chunked THEN 0 ELSE Lesser(Len(data), c.remaining)
           rest == SubSeq(data, n + 1, Len(data))
<1>1. ReadUpload(c, data, keepAlive, opens, works) =
        IF ~p.fine THEN p.server
        ELSE IF rest = <<>> THEN u
        ELSE ReadRequest(u, rest, keepAlive, opens, works)
  BY DEF ReadUpload
<1>2. Typed(p.server)
  BY ProcessBodyTyped
<1> HIDE DEF p
<1>3. Typed(u)
  BY <1>2, CompleteTyped
<1>4. n \in Nat
  BY Fields, LenProperties, LesserTyped DEF Typed
<1> HIDE DEF u, n
<1>5. rest \in Seq(Tokens)
  BY <1>4, Slices
<1> HIDE DEF rest
<1> QED
  BY <1>1, <1>2, <1>3, <1>5, ReadRequestTyped

-----------------------------------------------------------------------------

\* The client is within the request it sends.
Sending ==
    /\ peer.req \in Requests => peer.pos <= Size(peer.req)
    /\ peer.req = N + 1 => peer.pos = 1

\* The invariant the types need.
TypesInv == TypeOK /\ Typed(server) /\ Sending

\* The parts of a request are tokens, at most eleven.
LEMMA PartsTyped ==
    ASSUME NEW kind
    PROVE  /\ Len(Parts(kind)) \in 2..11
           /\ \A k \in 1..Len(Parts(kind)):
                Parts(kind)[k] \in {"line", "badline", "head", "badhead", "flood",
                                    "data", "last", "open", "close", "end",
                                    "delim", "fields", "dashes", "tail"}
<1>1. CASE kind = "multi"
  BY <1>1 DEF Parts, Body
<1>2. CASE kind = "parts"
  BY <1>2 DEF Parts, Body
<1>3. CASE kind = "chunked"
  BY <1>3 DEF Parts, Body
<1>4. CASE kind \in {"post", "big", "upload"}
  BY <1>4 DEF Parts, Body
<1>5. CASE kind \notin {"multi", "parts", "chunked", "post", "big", "upload"}
  BY <1>5 DEF Parts, Body
<1> QED
  BY <1>1, <1>2, <1>3, <1>4, <1>5

\* The invariant of the types is inductive.
LEMMA InitTyped == Init => TypesInv
<1> SUFFICES ASSUME Init PROVE TypesInv
  OBVIOUS
<1>1. Typed(server)
  BY FreshTyped DEF Init
<1>2. peer \in [req: 1..N + 1, pos: 1..11, gone: BOOLEAN]
  BY Constants DEF Init
<1>3. rcv \in Seq(Tokens) /\ answers \in Seq(Answer)
  BY EmptySeq DEF Init
<1>4. ask \in [Requests -> Kinds]
  BY DEF Init
<1>5. Sending
  <2>1. peer.req = 1 /\ peer.pos = 1
    BY DEF Init
  <2>2. Size(1) \in 2..11
    BY PartsTyped DEF Size
  <2> QED
    BY <2>1, <2>2 DEF Sending
<1> QED
  BY <1>1, <1>2, <1>3, <1>4, <1>5 DEF TypesInv, TypeOK, Typed

LEMMA StepTyped == TypesInv /\ [Next]_vars => TypesInv'
<1> SUFFICES ASSUME TypesInv, [Next]_vars PROVE TypesInv'
  OBVIOUS
<1>0. /\ ask \in [Requests -> Kinds]
      /\ peer \in [req: 1..N + 1, pos: 1..11, gone: BOOLEAN]
      /\ rcv \in Seq(Tokens) /\ Typed(server) /\ answers \in Seq(Answer)
      /\ Sending
  BY DEF TypesInv, TypeOK
<1>00. ASSUME /\ ask' \in [Requests -> Kinds]
              /\ peer' \in [req: 1..N + 1, pos: 1..11, gone: BOOLEAN]
              /\ rcv' \in Seq(Tokens) /\ Typed(server)' /\ answers' \in Seq(Answer)
              /\ Sending'
       PROVE  TypesInv'
  BY <1>00 DEF TypesInv, TypeOK, Typed
<1>01. ask' = ask /\ peer' = peer => Sending'
  BY <1>0 DEF Sending, Size
<1>1. CASE ReadClient
  <2>1. PICK n \in 1..Len(rcv), keepAlive \in BOOLEAN, opens \in Outcomes, works \in Outcomes:
          /\ server' = IF server.upload_active
                       THEN ReadUpload(server, SubSeq(rcv, 1, n), keepAlive, opens, works)
                       ELSE ReadRequest(server, SubSeq(rcv, 1, n), keepAlive, opens, works)
          /\ rcv' = SubSeq(rcv, n + 1, Len(rcv))
    BY <1>1 DEF ReadClient
  <2>2. n \in Nat /\ n <= Len(rcv)
    BY <1>0, LenProperties
  <2>3. SubSeq(rcv, 1, n) \in Seq(Tokens) /\ rcv' \in Seq(Tokens)
    BY <1>0, <2>1, <2>2, Slices
  <2>4. server.upload_active => server.path # 0
    BY <1>0 DEF Typed
  <2>5. Typed(server')
    BY <1>0, <2>1, <2>3, <2>4, ReadUploadTyped, ReadRequestTyped
  <2>6. ask' = ask /\ peer' = peer /\ answers' = answers
    BY <1>1 DEF ReadClient
  <2> QED
    BY <1>0, <1>00, <1>01, <2>3, <2>5, <2>6 DEF Typed
<1>2. CASE ReadClientGone \/ CheckTimeouts
  <2>1. Typed(server')
    BY <1>0, <1>2, CloseTyped DEF ReadClientGone, CheckTimeouts
  <2> QED
    BY <1>0, <1>00, <1>01, <1>2, <2>1 DEF ReadClientGone, CheckTimeouts, Typed
<1>3. CASE ClientWrite
  <2>1. Typed(Finalize(server))
    <3> DEFINE x == [server EXCEPT !.out = NoAnswer, !.rd = TRUE]
    <3>1. NoAnswer \in Answer
      BY Literals DEF NoAnswer
    <3>2. x \in ServerType
      BY <1>0, <3>1, Literals, Zenon DEF Typed, ServerType
    <3>3. Typed(x)
      BY <1>0, <3>2 DEF Typed, ServerType
    <3>4. Finalize(server) = IF server.keep_alive THEN Clear(x) ELSE CloseClient(server)
      BY DEF Finalize
    <3> HIDE DEF x
    <3> QED
      BY <1>0, <3>3, <3>4, ClearTyped, CloseTyped
  <2>2. answers' \in Seq(Answer)
    BY <1>0, <1>3, Fields, AppendProperties DEF ClientWrite, Typed
  <2> QED
    BY <1>0, <1>00, <1>01, <1>3, <2>1, <2>2 DEF ClientWrite, Typed
<1>4. CASE Send
  <2> DEFINE parts == Parts(ask[peer.req])
  <2>1. peer.req \in Requests /\ peer.pos \in 1..11
    BY <1>0, <1>4, Constants DEF Send, Requests
  <2>2. Len(parts) \in 2..11
    BY PartsTyped
  <2>3. parts[peer.pos] \in {"line", "badline", "head", "badhead", "flood",
                             "data", "last", "open", "close", "end",
                             "delim", "fields", "dashes", "tail"}
    BY <1>0, <2>1, <2>2, PartsTyped DEF Sending, Size
  <2>4. rcv' = Append(rcv, [req |-> peer.req, part |-> parts[peer.pos]])
    BY <1>4 DEF Send
  <2>5. peer' = IF peer.pos < Len(parts) THEN [peer EXCEPT !.pos = @ + 1]
                ELSE [peer EXCEPT !.req = @ + 1, !.pos = 1]
    BY <1>4 DEF Send
  <2>6. UNCHANGED <<ask, server, answers>>
    BY <1>4 DEF Send
  <2> HIDE DEF parts
  <2>7. [req |-> peer.req, part |-> parts[peer.pos]] \in Tokens
    BY <2>1, <2>3 DEF Tokens
  <2>8. rcv' \in Seq(Tokens)
    BY <1>0, <2>4, <2>7, AppendProperties
  <2>9. peer' \in [req: 1..N + 1, pos: 1..11, gone: BOOLEAN]
    <3>1. CASE peer.pos < Len(parts)
      <4>1. peer.pos + 1 \in 1..11
        <5>1. PICK l \in 2..11: l = Len(parts)
          BY <2>2
        <5>2. peer.pos < l
          BY <3>1, <5>1, Zenon
        <5> QED
          BY <2>1, <5>2
      <4> QED
        BY <1>0, <2>5, <3>1, <4>1
    <3>2. CASE ~(peer.pos < Len(parts))
      <4>1. peer.req + 1 \in 1..N + 1 /\ 1 \in 1..11
        BY <2>1, Constants DEF Requests
      <4> QED
        BY <1>0, <2>5, <3>2, <4>1
    <3> QED
      BY <3>1, <3>2
  <2>10. Sending'
    <3>1. peer.pos < Len(parts) => peer'.req = peer.req /\ peer'.pos = peer.pos + 1
      BY <1>0, <2>5
    <3>2. ~(peer.pos < Len(parts)) => peer'.pos = 1
      BY <1>0, <2>5
    <3>3. \A j: (Size(j) = Len(Parts(ask[j])))' /\ (Size(j)' = Size(j)) /\ Size(j)' \in 2..11
      BY <2>6, PartsTyped DEF Size
    <3>4. Len(parts) = Size(peer.req)
      BY DEF parts, Size
    <3>5. peer.req # N + 1
      BY <2>1, Constants DEF Requests
    <3>6. CASE peer.pos < Len(parts)
      <4>1. peer'.req = peer.req /\ peer'.pos = peer.pos + 1 /\ peer.pos + 1 <= Len(parts)
        BY <2>1, <2>2, <3>1, <3>6
      <4>2. Len(Parts(ask'[peer'.req])) = Len(parts)
        BY <2>6, <4>1 DEF parts
      <4> QED
        BY <3>5, <4>1, <4>2 DEF Sending, Size
    <3>7. CASE ~(peer.pos < Len(parts))
      BY <3>2, <3>3, <3>7 DEF Sending
    <3> QED
      BY <3>6, <3>7
  <2> QED
    BY <1>0, <1>00, <2>6, <2>8, <2>9, <2>10 DEF Typed
<1>5. CASE Leave
  <2>1. peer' \in [req: 1..N + 1, pos: 1..11, gone: BOOLEAN]
    BY <1>0, <1>5 DEF Leave
  <2>2. peer'.req = peer.req /\ peer'.pos = peer.pos /\ UNCHANGED <<ask, rcv, server, answers>>
    BY <1>0, <1>5 DEF Leave
  <2>3. Sending'
    BY <1>0, <2>2 DEF Sending, Size
  <2> QED
    BY <1>0, <1>00, <2>1, <2>2, <2>3 DEF Typed
<1>6. CASE UNCHANGED vars
  BY <1>0, <1>00, <1>01, <1>6 DEF vars, Typed
<1> QED
  BY <1>1, <1>2, <1>3, <1>4, <1>5, <1>6 DEF Next, Server

\* Every variable keeps its type: no answer, path or token of another connection
\* appears, and upload_bytes_remaining stays a size_t (read_client, write_body).
THEOREM TypesCorrect == Spec => []TypeOK
<1>1. Init => TypesInv
  BY InitTyped
<1>2. TypesInv /\ [Next]_vars => TypesInv'
  BY StepTyped
<1>3. TypesInv => TypeOK
  BY DEF TypesInv
<1> QED
  BY <1>1, <1>2, <1>3, PTL DEF Spec

-----------------------------------------------------------------------------

\* What is assumed of the state from here on: the types, and no multipart body.
Sane == TypesInv /\ Kinds \cap MultipartKinds = {}

LEMMA NoMultipart ==
    ASSUME Sane, NEW j \in Requests
    PROVE  ask[j] \in AllKinds \ MultipartKinds
  BY FramingAssumption DEF FramingAssumption, Sane, TypesInv, TypeOK

-----------------------------------------------------------------------------
(* What the client has sent *)

\* Requests and parts are numbers.
LEMMA RequestsAre == Requests \subseteq Nat \ {0} /\ \A j \in Requests: j <= N
  BY Constants DEF Requests

LEMMA SizeIs == ASSUME NEW j PROVE Size(j) \in Nat /\ Size(j) >= 2
<1>1. Size(j) \in 2..11
  BY PartsTyped DEF Size
<1> QED
  BY <1>1

LEMMA TokTyped ==
    ASSUME NEW j \in Requests, NEW k \in 1..Size(j)
    PROVE  Tok(j, k) \in Tokens
  BY PartsTyped DEF Tok, Size, Tokens

LEMMA ToksEmpty == ASSUME NEW j, NEW p PROVE Toks(j, p, 0) = <<>>
<1>1. 1..0 = {}
  OBVIOUS
<1> QED
  BY <1>1 DEF Toks

\* m parts of a request from its part p on.
LEMMA ToksTyped ==
    ASSUME NEW j \in Requests, NEW p \in Nat, p >= 1, NEW m \in Nat,
           p + m - 1 <= Size(j)
    PROVE  /\ Toks(j, p, m) \in Seq(Tokens)
           /\ Len(Toks(j, p, m)) = m
           /\ \A k \in 1..m: Toks(j, p, m)[k] = Tok(j, p + k - 1)
<1>1. \A k \in 1..m: p + k - 1 \in 1..Size(j)
  BY SizeIs
<1>2. \A k \in 1..m: Tok(j, p + k - 1) \in Tokens
  BY <1>1, TokTyped
<1>3. Toks(j, p, m) \in [1..m -> Tokens]
  BY <1>2, Zenon DEF Toks
<1>4. Toks(j, p, m) \in Seq(Tokens) /\ Len(Toks(j, p, m)) = m
  BY <1>3, LenProperties, SeqDef
<1> QED
  BY <1>4 DEF Toks

\* Parts are cut as they come.
LEMMA ToksCut ==
    ASSUME NEW j \in Requests, NEW p \in Nat, p >= 1, NEW m \in Nat,
           p + m - 1 <= Size(j), NEW n \in 0..m
    PROVE  /\ SubSeq(Toks(j, p, m), 1, n) = Toks(j, p, n)
           /\ SubSeq(Toks(j, p, m), n + 1, m) = Toks(j, p + n, m - n)
<1> DEFINE s == Toks(j, p, m)
<1>1. s \in Seq(Tokens) /\ Len(s) = m /\ \A k \in 1..m: s[k] = Tok(j, p + k - 1)
  BY ToksTyped
<1>2. Toks(j, p, n) \in Seq(Tokens) /\ Len(Toks(j, p, n)) = n
      /\ \A k \in 1..n: Toks(j, p, n)[k] = Tok(j, p + k - 1)
  <2>1. n \in Nat /\ p + n - 1 <= Size(j)
    BY SizeIs
  <2> QED
    BY <2>1, ToksTyped
<1>3. /\ Toks(j, p + n, m - n) \in Seq(Tokens) /\ Len(Toks(j, p + n, m - n)) = m - n
      /\ \A k \in 1..m - n: Toks(j, p + n, m - n)[k] = Tok(j, p + n + k - 1)
  <2>1. p + n \in Nat /\ p + n >= 1 /\ m - n \in Nat /\ (p + n) + (m - n) - 1 <= Size(j)
    BY SizeIs
  <2> QED
    BY <2>1, ToksTyped
<1> HIDE DEF s
<1>4. SubSeq(s, 1, n) = Toks(j, p, n)
  <2>1. \A k \in 1..n: s[k] \in Tokens
    BY <1>1, ElementOfSeq
  <2>2. SubSeq(s, 1, n) \in Seq(Tokens) /\ Len(SubSeq(s, 1, n)) = n
        /\ \A k \in 1..n: SubSeq(s, 1, n)[k] = s[1 + k - 1]
    BY <2>1, <1>1, SubSeqProperties
  <2>3. \A k \in 1..n: SubSeq(s, 1, n)[k] = Toks(j, p, n)[k]
    BY <1>1, <1>2, <2>2
  <2> QED
    BY <1>2, <2>2, <2>3, SeqEqual
<1>5. SubSeq(s, n + 1, m) = Toks(j, p + n, m - n)
  <2>1. \A k \in n + 1..m: s[k] \in Tokens
    BY <1>1, ElementOfSeq
  <2>2. SubSeq(s, n + 1, m) \in Seq(Tokens) /\ Len(SubSeq(s, n + 1, m)) = m - n
        /\ \A k \in 1..m - n: SubSeq(s, n + 1, m)[k] = s[(n + 1) + k - 1]
    BY <2>1, <1>1, SubSeqProperties
  <2>3. \A k \in 1..m - n: SubSeq(s, n + 1, m)[k] = Toks(j, p + n, m - n)[k]
    <3> TAKE k \in 1..m - n
    <3>1. SubSeq(s, n + 1, m)[k] = s[n + k]
      BY <2>2
    <3>2. n + k \in 1..m /\ p + (n + k) - 1 = p + n + k - 1
      OBVIOUS
    <3>3. s[n + k] = Tok(j, p + (n + k) - 1)
      BY <1>1, <3>2
    <3> QED
      BY <1>3, <3>1, <3>2, <3>3
  <2> QED
    BY <1>3, <2>2, <2>3, SeqEqual
<1> QED
  BY <1>4, <1>5 DEF s

\* Sums of parts.
LEMMA ToksHead ==
    ASSUME NEW j \in Requests, NEW p \in Nat, p >= 1, NEW m \in Nat, m >= 1,
           p + m - 1 <= Size(j)
    PROVE  /\ Tail(Toks(j, p, m)) = Toks(j, p + 1, m - 1)
           /\ Toks(j, p, m) # <<>> /\ Toks(j, p, m)[1] = Tok(j, p)
<1>1. Toks(j, p, m) \in Seq(Tokens) /\ Len(Toks(j, p, m)) = m
      /\ Toks(j, p, m)[1] = Tok(j, p)
  <2>1. 1 \in 1..m /\ p + 1 - 1 = p
    OBVIOUS
  <2>2. Toks(j, p, m)[1] = Tok(j, p + 1 - 1)
    BY <2>1, ToksTyped
  <2> QED
    BY <2>1, <2>2, ToksTyped
<1>2. Toks(j, p, m) # <<>>
  BY <1>1, EmptySeq
<1>3. p + 1 \in Nat /\ p + 1 >= 1 /\ m - 1 \in Nat /\ (p + 1) + (m - 1) - 1 <= Size(j)
  BY SizeIs
<1>4. /\ Toks(j, p + 1, m - 1) \in Seq(Tokens) /\ Len(Toks(j, p + 1, m - 1)) = m - 1
      /\ \A k \in 1..m - 1: Toks(j, p + 1, m - 1)[k] = Tok(j, (p + 1) + k - 1)
  BY <1>3, ToksTyped
<1>5. /\ Tail(Toks(j, p, m)) \in Seq(Tokens) /\ Len(Tail(Toks(j, p, m))) = m - 1
      /\ \A k \in 1..m - 1: Tail(Toks(j, p, m))[k] = Toks(j, p, m)[k + 1]
  BY <1>1, <1>2, HeadTailProperties
<1>6. \A k \in 1..m - 1: Tail(Toks(j, p, m))[k] = Toks(j, p + 1, m - 1)[k]
  <2> TAKE k \in 1..m - 1
  <2>1. k + 1 \in 1..m /\ p + (k + 1) - 1 = (p + 1) + k - 1
    OBVIOUS
  <2>2. Toks(j, p, m)[k + 1] = Tok(j, p + (k + 1) - 1)
    BY <2>1, ToksTyped
  <2> QED
    BY <1>4, <1>5, <2>1, <2>2
<1>7. Tail(Toks(j, p, m)) = Toks(j, p + 1, m - 1)
  BY <1>4, <1>5, <1>6, SeqEqual
<1> QED
  BY <1>1, <1>2, <1>7

\* The first n units of what has arrived, and the others.
LEMMA AtCut ==
    ASSUME Sane, NEW j \in Nat, j >= 1, NEW p \in Nat, p >= 1, NEW q \in Seq(Tokens),
           At(j, p, q), NEW n \in 1..Len(q)
    PROVE  /\ j \in Requests
           /\ SubSeq(q, 1, n) = Toks(j, p, n) /\ p + n - 1 <= Size(j)
           /\ At(j, p + n, SubSeq(q, n + 1, Len(q)))
<1>1. /\ peer.req \in 1..N + 1 /\ peer.pos \in Nat /\ peer.pos >= 1
      /\ peer.req \in Requests => peer.pos <= Size(peer.req)
      /\ peer.req = N + 1 => peer.pos = 1
  <2>1. peer.req \in 1..N + 1 /\ peer.pos \in 1..11
    BY DEF Sane, TypesInv, TypeOK
  <2>2. /\ peer.req \in Requests => peer.pos <= Size(peer.req)
        /\ peer.req = N + 1 => peer.pos = 1
    BY DEF Sane, TypesInv, Sending, Size
  <2> QED
    BY <2>1, <2>2
<1>2. Size(j) \in Nat /\ Size(j) >= 2 /\ N \in Nat
  BY SizeIs, Constants
<1>3. CASE peer.req = j /\ p <= peer.pos /\ q = Toks(j, p, peer.pos - p)
  <2> DEFINE m == peer.pos - p
  <2>1. m \in Nat
    BY <1>1, <1>3
  <2>2. j \in Requests
    <3>1. SUFFICES ASSUME j = N + 1 PROVE FALSE
      BY <1>1, <1>2, <1>3 DEF Requests
    <3>2. m = 0
      BY <1>1, <1>3, <3>1
    <3>3. Len(q) = 0
      BY <1>3, <3>2, ToksEmpty
    <3> QED
      BY <3>3
  <2>3. p + m - 1 <= Size(j) /\ p + m = peer.pos
    <3>1. peer.pos <= Size(j)
      BY <1>1, <1>3, <2>2
    <3> QED
      BY <1>1, <1>2, <3>1, SMTT(30)
  <2> HIDE DEF m
  <2>4. Len(q) = m
    BY <1>3, <2>1, <2>2, <2>3, ToksTyped DEF m
  <2>5. n \in 0..m /\ p + n - 1 <= Size(j) /\ p + n <= peer.pos /\ m - n = peer.pos - (p + n)
    BY <1>1, <1>2, <2>1, <2>3, <2>4
  <2>6. SubSeq(q, 1, n) = Toks(j, p, n) /\ SubSeq(q, n + 1, Len(q)) = Toks(j, p + n, m - n)
    <3>1. q = Toks(j, p, m)
      BY <1>3 DEF m
    <3>2. /\ SubSeq(Toks(j, p, m), 1, n) = Toks(j, p, n)
          /\ SubSeq(Toks(j, p, m), n + 1, m) = Toks(j, p + n, m - n)
      BY <2>1, <2>2, <2>3, <2>5, ToksCut
    <3> QED
      BY <2>4, <3>1, <3>2
  <2> QED
    BY <1>3, <2>2, <2>5, <2>6 DEF At
<1>4. CASE /\ peer.req = j + 1 /\ peer.pos = 1 /\ j \in Requests
           /\ q = Toks(j, p, Size(j) + 1 - p)
  <2> DEFINE m == Size(j) + 1 - p
  <2>1. m \in Nat
    <3>1. SUFFICES ASSUME m < 0 PROVE FALSE
      BY <1>2
    <3>2. 1..m = {}
      BY <1>2, <3>1
    <3>3. q = <<>>
      BY <1>4, <3>2 DEF Toks
    <3> QED
      BY <3>3
  <2>2. p + m - 1 <= Size(j)
    BY <1>2
  <2> HIDE DEF m
  <2>4. Len(q) = m
    BY <1>4, <2>1, <2>2, ToksTyped DEF m
  <2>5. n \in 0..m /\ p + n - 1 <= Size(j)
    BY <1>1, <1>2, <2>1, <2>2, <2>4
  <2>6. m - n = Size(j) + 1 - (p + n)
    BY <1>2 DEF m
  <2>7. SubSeq(q, 1, n) = Toks(j, p, n) /\ SubSeq(q, n + 1, Len(q)) = Toks(j, p + n, m - n)
    <3>1. q = Toks(j, p, m)
      BY <1>4 DEF m
    <3>2. /\ SubSeq(Toks(j, p, m), 1, n) = Toks(j, p, n)
          /\ SubSeq(Toks(j, p, m), n + 1, m) = Toks(j, p + n, m - n)
      BY <1>4, <2>1, <2>2, <2>5, ToksCut
    <3> QED
      BY <2>4, <3>1, <3>2
  <2> QED
    BY <1>4, <2>5, <2>6, <2>7 DEF At
<1> QED
  BY <1>3, <1>4 DEF At

\* After the last part of a request comes the next request.
LEMMA AtDone ==
    ASSUME Sane, NEW j \in Requests, NEW q, At(j, Size(j) + 1, q)
    PROVE  At(j + 1, 1, q)
<1>1. /\ peer.pos \in Nat /\ peer.pos >= 1 /\ (peer.req \in Requests => peer.pos <= Size(peer.req))
  BY DEF Sane, TypesInv, TypeOK, Sending
<1>2. Size(j) \in Nat /\ Size(j) >= 2
  BY SizeIs
<1>3. ~(peer.req = j /\ Size(j) + 1 <= peer.pos)
  BY <1>1, <1>2
<1>4. peer.req = j + 1 /\ peer.pos = 1 /\ q = Toks(j, Size(j) + 1, Size(j) + 1 - (Size(j) + 1))
  BY <1>3 DEF At
<1>5. Size(j) + 1 - (Size(j) + 1) = 0 /\ peer.pos - 1 = 0
  BY <1>2, <1>4
<1>6. q = <<>>
  BY <1>4, <1>5, ToksEmpty
<1>7. q = Toks(j + 1, 1, peer.pos - 1)
  BY <1>5, <1>6, ToksEmpty
<1> QED
  BY <1>4, <1>7 DEF At

\* The line of a request is its first part, unless its body is like a request.
LEMMA OnlyFirstIsLine ==
    ASSUME NEW j, ask[j] \notin Nested, NEW k \in 2..Size(j)
    PROVE  ~IsLine(Tok(j, k))
<1>1. ASSUME NEW kind, NEW i \in 2..Len(Parts(kind)) PROVE Parts(kind)[i] # "line"
  <2>1. CASE kind = "multi"
    BY <1>1, <2>1 DEF Parts, Body
  <2>2. CASE kind = "parts"
    BY <1>1, <2>2 DEF Parts, Body
  <2>3. CASE kind = "chunked"
    BY <1>1, <2>3 DEF Parts, Body
  <2>4. CASE kind \in {"post", "big", "upload"}
    BY <1>1, <2>4 DEF Parts, Body
  <2>5. CASE kind \notin {"multi", "parts", "chunked", "post", "big", "upload"}
    BY <1>1, <2>5 DEF Parts, Body
  <2> QED
    BY <2>1, <2>2, <2>3, <2>4, <2>5
<1>2. Parts(ask[j])[k] # "line"
  BY <1>1 DEF Size
<1>3. Tok(j, k).req = j /\ Tok(j, k).part = Parts(ask[j])[k]
  BY DEF Tok
<1> QED
  BY <1>2, <1>3 DEF IsLine, IsNested

\* What is left of a request does not begin with a request line.
LEMMA AtNotLine ==
    ASSUME Sane, NEW j \in Requests, ask[j] \notin Nested, NEW p \in Nat, p >= 2, p <= Size(j),
           NEW q, At(j, p, q)
    PROVE  NotLine(q)
<1>1. peer.req \in 1..N + 1 /\ peer.pos \in Nat /\ peer.pos >= 1
      /\ (peer.req \in Requests => peer.pos <= Size(peer.req))
  BY DEF Sane, TypesInv, TypeOK, Sending
<1>2. Size(j) \in Nat /\ Size(j) >= 2
  BY SizeIs
<1>3. \A k \in 2..Size(j): ~IsLine(Tok(j, k))
  BY OnlyFirstIsLine
<1>4. CASE peer.req = j /\ p <= peer.pos /\ q = Toks(j, p, peer.pos - p)
  <2>1. peer.pos <= Size(j) /\ peer.pos \in 2..Size(j)
    BY <1>1, <1>2, <1>4
  <2>2. CASE peer.pos = p
    <3>1. peer.pos - p = 0
      BY <2>2, <1>1
    <3>2. q = <<>>
      BY <1>4, <3>1, ToksEmpty
    <3>3. ~IsLine(Tok(peer.req, peer.pos))
      BY <1>3, <1>4, <2>1
    <3> QED
      BY <3>2, <3>3 DEF NotLine
  <2>3. CASE peer.pos > p
    <3> DEFINE m == peer.pos - p
    <3>1. m \in Nat /\ m >= 1 /\ p + m - 1 <= Size(j)
      BY <1>1, <1>2, <2>1, <2>3
    <3>2. q # <<>> /\ q[1] = Tok(j, p)
      <4> HIDE DEF m
      <4>1. Toks(j, p, m) # <<>> /\ Toks(j, p, m)[1] = Tok(j, p)
        BY <3>1, ToksHead
      <4> QED
        BY <1>4, <4>1 DEF m
    <3>3. p \in 2..Size(j)
      BY <1>2
    <3> QED
      BY <1>3, <3>2, <3>3 DEF NotLine
  <2> QED
    BY <1>1, <1>4, <2>2, <2>3
<1>5. CASE q = Toks(j, p, Size(j) + 1 - p)
  <2> DEFINE m == Size(j) + 1 - p
  <2>1. m \in Nat /\ m >= 1 /\ p + m - 1 <= Size(j)
    BY <1>2
  <2>2. q # <<>> /\ q[1] = Tok(j, p)
    <3> HIDE DEF m
    <3>1. Toks(j, p, m) # <<>> /\ Toks(j, p, m)[1] = Tok(j, p)
      BY <2>1, ToksHead
    <3> QED
      BY <1>5, <3>1 DEF m
  <2>3. p \in 2..Size(j)
    BY <1>2
  <2> QED
    BY <1>3, <2>2, <2>3 DEF NotLine
<1> QED
  BY <1>4, <1>5 DEF At

\* A client at a request is heard, and heard after the next answer.
LEMMA AtHeard ==
    ASSUME Sane, NEW j \in Nat, NEW p, NEW q, At(j, p, q), NEW r
    PROVE  Heard(j, r)
  BY DEF At, Heard

LEMMA HeardNext ==
    ASSUME Sane, NEW a \in Nat, NEW q, Heard(a, q), NEW r
    PROVE  Heard(a + 1, r)
<1>1. peer.req \in Nat /\ peer.pos \in Nat
  BY Constants DEF Sane, TypesInv, TypeOK
<1> QED
  BY <1>1 DEF Heard

-----------------------------------------------------------------------------
(* The modes of a connection *)

\* What the invariant says of two ClientCons that differ in the rest is the same.
Same(c, d) ==
    /\ c.up = d.up /\ c.MPFlag = d.MPFlag /\ c.multipart = d.multipart
    /\ c.content_type = d.content_type
    /\ c.disk = d.disk /\ c.upload_active = d.upload_active /\ c.path = d.path
    /\ c.chunked = d.chunked /\ c.buffer = d.buffer /\ c.chunk_buf = d.chunk_buf
    /\ c.mp_buf = d.mp_buf /\ c.mp_state = d.mp_state
    /\ c.remaining = d.remaining /\ c.file = d.file

\* The modes tell nothing of the other fields.
LEMMA FilesSame ==
    ASSUME NEW c, NEW d, Same(c, d), NEW a
    PROVE  /\ Files(c, a) => Files(d, a)
           /\ Kept(c) => Kept(d)
  BY DEF Same, Files, Kept

LEMMA ModeSame ==
    ASSUME NEW c, NEW d, Same(c, d), c.state = d.state, c.req = d.req, NEW a, NEW q,
           Mode(c, a, q)
    PROVE  Mode(d, a, q)
<1>1. c.up = d.up /\ c.MPFlag = d.MPFlag /\ c.multipart = d.multipart
      /\ c.content_type = d.content_type /\ Files(d, a)
  BY FilesSame DEF Mode, Same
<1>2. Quiet(c) => Quiet(d)
  BY DEF Quiet, Same
<1>3. Idle(c, a, q) => Idle(d, a, q)
  BY <1>2 DEF Idle
<1>4. Heads(c, a, q) => Heads(d, a, q)
  BY <1>2 DEF Heads
<1>5. Uploading(c, a) => Uploading(d, a)
  BY DEF Same, Uploading
<1>6. \A data: Stored(c, data) => Stored(d, data)
  BY DEF Same, Stored, Holds
<1>7. Plain(c, a, q) => Plain(d, a, q)
  BY <1>5, <1>6 DEF Same, Plain
<1>9. Chunk(c, a, q) => Chunk(d, a, q)
  BY DEF Same, Chunk
<1>10. Zombie(c, a, q) => Zombie(d, a, q)
  BY DEF Same, Zombie
<1>11. Doomed(c, a, q) => Doomed(d, a, q)
  BY DEF Same, Doomed
<1> QED
  BY <1>1, <1>3, <1>4, <1>7, <1>9, <1>10, <1>11 DEF Mode

\* The fields of clear, of an answer and of an error page.
LEMMA ClearFields ==
    ASSUME NEW c \in ServerType
    PROVE  /\ Same(c, Clear(c))
           /\ Clear(c).state = "REQUEST_LINE" /\ Clear(c).req = 0 /\ Clear(c).open = c.open
           /\ Clear(c).out = c.out /\ Clear(c).rd = c.rd /\ Clear(c).keep_alive = c.keep_alive
           /\ Clear(c).content_type = c.content_type
           /\ Clear(c) \in ServerType
<1>1. Clear(c) \in ServerType
  BY Literals, Zenon DEF Clear, ServerType
<1> QED
  BY <1>1 DEF Same, Clear, ServerType

LEMMA QueueFields ==
    ASSUME NEW c \in ServerType, NEW to \in 0..N + 1, NEW ok \in BOOLEAN
    PROVE  LET r == Queue(c, to, ok) IN
           /\ Same(c, r) /\ r.state = c.state /\ r.req = c.req /\ r.open = c.open
           /\ r.rd = FALSE /\ r.out.to = to /\ r.out.ok = ok /\ r.out.queued = TRUE
           /\ r \in ServerType
<1>1. Queue(c, to, ok) \in ServerType
  BY Literals, Zenon DEF Queue, ServerType
<1>2. Queue(c, to, ok).out = [to |-> to, ok |-> ok, queued |-> TRUE]
  BY DEF Queue, ServerType
<1>3. Queue(c, to, ok).out.to = to /\ Queue(c, to, ok).out.ok = ok
      /\ Queue(c, to, ok).out.queued = TRUE
  BY <1>2
<1> QED
  BY <1>1, <1>3 DEF Same, Queue, ServerType

LEMMA FallbackFields ==
    ASSUME NEW c \in ServerType
    PROVE  LET r == Fallback(c) IN
           /\ Same(c, r) /\ r.state = c.state /\ r.req = c.req /\ r.open = c.open
           /\ r.rd = FALSE /\ r.out.ok = FALSE /\ r.out.queued = TRUE
           /\ r \in ServerType
<1> DEFINE alive == c.keep_alive /\ c.servConf
           k == [c EXCEPT !.keep_alive = alive]
<1>1. k \in ServerType
  <2>1. alive \in BOOLEAN
    OBVIOUS
  <2> QED
    BY <2>1, Zenon DEF ServerType
<1>2. Same(c, k) /\ k.state = c.state /\ k.req = c.req /\ k.open = c.open
  <2> HIDE DEF alive
  <2> QED
    BY DEF Same, ServerType
<1>3. Fallback(c) = Queue(k, 0, FALSE)
  BY Zenon DEF Fallback
<1> HIDE DEF k
<1>4. /\ Same(k, Fallback(c)) /\ Fallback(c).state = k.state /\ Fallback(c).req = k.req
      /\ Fallback(c).open = k.open /\ Fallback(c).rd = FALSE /\ Fallback(c).out.ok = FALSE
      /\ Fallback(c).out.queued = TRUE /\ Fallback(c) \in ServerType
  <2>1. 0 \in 0..N + 1 /\ FALSE \in BOOLEAN
    BY Literals
  <2>2. LET r == Queue(k, 0, FALSE) IN
        /\ Same(k, r) /\ r.state = k.state /\ r.req = k.req /\ r.open = k.open
        /\ r.rd = FALSE /\ r.out.to = 0 /\ r.out.ok = FALSE /\ r.out.queued = TRUE
        /\ r \in ServerType
    BY <1>1, <2>1, QueueFields
  <2> QED
    BY <1>3, <2>2
<1> QED
  BY <1>2, <1>4 DEF Same

\* A queued answer: what the connection is once it is sent.
LEMMA QueuedResult ==
    ASSUME NEW c \in ServerType, NEW r \in ServerType, Same(c, r), r.open = TRUE,
           r.rd = FALSE, r.out.queued = TRUE, NEW a, NEW q, Kept(c),
           Off(a + 1, r.out.ok) \/ Mode(Clear(c), a + 1, q),
           r.out.ok => /\ r.out.to = a + 1 /\ a + 1 \in Requests
                       /\ ByLength(a + 1) => \E f \in c.disk: f.req = a + 1
    PROVE  Result(r, a, q) /\ Result(Clear(r), a, q)
<1>1. /\ Same(c, Clear(c)) /\ Clear(c).state = "REQUEST_LINE" /\ Clear(c).req = 0
      /\ Same(r, Clear(r)) /\ Clear(r).state = "REQUEST_LINE" /\ Clear(r).req = 0
      /\ Clear(r).open = TRUE /\ Clear(r).rd = FALSE /\ Clear(r).out = r.out
      /\ Clear(r) \in ServerType
  BY ClearFields
<1>2. Same(Clear(c), Clear(r)) /\ c.disk = r.disk /\ c.disk = Clear(r).disk
  BY <1>1, ZenonT(30) DEF Same
<1>3. Off(a + 1, r.out.ok) \/ Mode(Clear(r), a + 1, q)
  BY <1>1, <1>2, ModeSame
<1>4. Kept(r) /\ Kept(Clear(r))
  BY <1>2 DEF Kept
<1>5. Result(r, a, q)
  BY <1>2, <1>3, <1>4 DEF Result, Queued
<1>6. Off(a + 1, r.out.ok) \/ Mode(Clear(Clear(r)), a + 1, q)
  <2>1. Same(Clear(r), Clear(Clear(r))) /\ Clear(Clear(r)).state = "REQUEST_LINE"
        /\ Clear(Clear(r)).req = 0
    BY <1>1, ClearFields
  <2> QED
    BY <1>1, <1>3, <2>1, ModeSame
<1> QED
  BY <1>1, <1>2, <1>4, <1>5, <1>6 DEF Result, Queued

\* An error page leaves a mode behind if the rest does.
LEMMA RefusedResult ==
    ASSUME NEW c \in ServerType, c.open = TRUE, NEW a, NEW q, Kept(c),
           Off(a + 1, FALSE) \/ Mode(Clear(c), a + 1, q)
    PROVE  Result(Fallback(c), a, q)
  BY FallbackFields, QueuedResult

\* Between two requests, or in what is left of one that has been answered, which
\* may be like a request.
LEMMA LeftoverMode ==
    ASSUME Sane, NEW a \in Nat, a + 1 \in Requests, NEW p \in Nat, p >= 2,
           p <= Size(a + 1) + 1, NEW q, At(a + 1, p, q), NEW ok \in BOOLEAN,
           \/ p = Size(a + 1) + 1
           \/ ~Easy /\ (ask[a + 1] \in Nested => Unread(a + 1, ok)),
           NEW c, Quiet(c), c.state = "REQUEST_LINE", c.up,
           ~c.MPFlag, ~c.multipart, ~c.content_type, Files(c, a + 1)
    PROVE  Off(a + 1, ok) \/ Mode(c, a + 1, q)
<1>1. Size(a + 1) \in Nat /\ Size(a + 1) >= 2
  BY SizeIs
<1>2. CASE p = Size(a + 1) + 1
  <2>1. At((a + 1) + 1, 1, q)
    BY <1>2, AtDone
  <2> QED
    BY <2>1 DEF Mode, Idle
<1>3. CASE p <= Size(a + 1) /\ ~Easy /\ ask[a + 1] \notin Nested
  <2>1. NotLine(q) /\ Heard(a + 1, q)
    BY <1>3, AtNotLine, AtHeard
  <2> QED
    BY <1>3, <2>1 DEF Mode, Doomed, Quiet
<1>4. CASE p <= Size(a + 1) /\ ask[a + 1] \in Nested
  <2>1. p # Size(a + 1) + 1
    BY <1>1, <1>4
  <2> QED
    BY <1>4, <2>1 DEF Off
<1>5. p = Size(a + 1) + 1 \/ (p <= Size(a + 1) /\ ~Easy)
  <2>1. p = Size(a + 1) + 1 \/ ~Easy
    OBVIOUS
  <2>2. p = Size(a + 1) + 1 \/ p <= Size(a + 1)
    BY <1>1
  <2> QED
    BY <2>1, <2>2
<1> QED
  BY <1>2, <1>3, <1>4, <1>5

\* What is left over, when it is not at the beginning of a request.
LEMMA DoomedMode ==
    ASSUME ~Easy, NEW a, NEW q, Heard(a, q), NEW c, ~c.upload_active,
           c.state = "REQUEST_LINE", c.up, ~c.MPFlag, ~c.multipart, ~c.content_type, Files(c, a),
           IF c.buffer = <<>> THEN NotLine(q) ELSE ~IsLine(c.buffer[1])
    PROVE  Mode(c, a, q)
  BY DEF Mode, Doomed

\* The fields of uploadComplete.
LEMMA CompleteFields ==
    ASSUME NEW c \in ServerType
    PROVE  LET r == UploadComplete(c) IN
           /\ r.up = c.up /\ r.MPFlag = FALSE /\ r.multipart = c.multipart
           /\ r.content_type = c.content_type
           /\ r.disk = c.disk /\ r.upload_active = FALSE /\ r.path = 0
           /\ r.chunked = FALSE /\ r.buffer = c.buffer /\ r.chunk_buf = <<>>
           /\ r.mp_buf = c.mp_buf /\ r.mp_state = "BOUNDARY" /\ r.remaining = 0
           /\ r.file = "closed" /\ r.state = c.state /\ r.open = c.open
           /\ r.rd = FALSE /\ r.out.to = c.path /\ r.out.ok = TRUE /\ r.out.queued = TRUE
           /\ r \in ServerType
<1> DEFINE k == [c EXCEPT !.file = "closed", !.upload_active = FALSE,
                    !.MPFlag = FALSE, !.mp_state = "BOUNDARY", !.path = 0,
                    !.chunk_buf = <<>>, !.remaining = 0, !.chunked = FALSE]
<1>1. k \in ServerType
  BY Literals, Zenon DEF ServerType
<1>2. /\ k.up = c.up /\ k.MPFlag = FALSE /\ k.multipart = c.multipart
      /\ k.content_type = c.content_type
      /\ k.disk = c.disk /\ k.upload_active = FALSE /\ k.path = 0
      /\ k.chunked = FALSE /\ k.buffer = c.buffer /\ k.chunk_buf = <<>>
      /\ k.mp_buf = c.mp_buf /\ k.mp_state = "BOUNDARY" /\ k.remaining = 0
      /\ k.file = "closed" /\ k.state = c.state /\ k.open = c.open
  BY DEF ServerType
<1>3. UploadComplete(c) = Queue(k, c.path, TRUE)
  BY Zenon DEF UploadComplete
<1>4. c.path \in 0..N + 1 /\ TRUE \in BOOLEAN
  BY Fields
<1> HIDE DEF k
<1>5. LET r == Queue(k, c.path, TRUE) IN
      /\ Same(k, r) /\ r.state = k.state /\ r.open = k.open
      /\ r.rd = FALSE /\ r.out.to = c.path /\ r.out.ok = TRUE /\ r.out.queued = TRUE
      /\ r \in ServerType
  BY <1>1, <1>4, QueueFields, ZenonT(30)
<1> QED
  BY <1>2, <1>3, <1>5 DEF Same

-----------------------------------------------------------------------------
(* An upload by length *)

\* All that an upload leaves alone but the file and what has come of the body.
Beside(c, d) ==
    /\ c.up = d.up /\ c.open = d.open /\ c.MPFlag = d.MPFlag /\ c.multipart = d.multipart
    /\ c.content_type = d.content_type
    /\ c.upload_active = d.upload_active /\ c.path = d.path
    /\ c.chunked = d.chunked /\ c.buffer = d.buffer /\ c.chunk_buf = d.chunk_buf
    /\ c.state = d.state /\ c.req = d.req /\ c.out = d.out /\ c.rd = d.rd

\* The parse of the parts is not gone on with.
Untouched(c, d) == c.mp_buf = d.mp_buf /\ c.mp_state = d.mp_state

\* The files of other requests are the same.
OthersKept(c, d) ==
    \A f: f.req # c.path => (f \in c.disk <=> f \in d.disk)

\* The fields of openUploadFile that opens, and of write_body that writes or does not.
LEMMA OpenFields ==
    ASSUME NEW c \in ServerType, c.path \in Requests, NEW opens, Opens(c, opens)
    PROVE  LET r == Open(c, opens) IN
           /\ r \in ServerType /\ Beside(c, r) /\ Untouched(c, r) /\ OthersKept(c, r)
           /\ r.out = c.out /\ r.file = "open" /\ r.remaining = c.remaining
           /\ r.disk = c.disk \cup {[req |-> c.path, data |-> <<>>]}
<1> DEFINE disk == c.disk \cup {[req |-> c.path, data |-> <<>>]}
           o == [c EXCEPT !.file = "open", !.disk = disk]
<1>1. Open(c, opens) = o
  BY DEF Open
<1>2. disk \in SUBSET [req: Requests, data: Seq(Tokens)]
  <2>1. c.path \in Requests
    BY Fields, Constants DEF Requests
  <2>2. [req |-> c.path, data |-> <<>>] \in [req: Requests, data: Seq(Tokens)]
    BY <2>1, Literals
  <2> QED
    BY <2>2, Fields
<1>3. \A f: f.req # c.path => (f \in c.disk <=> f \in disk)
  OBVIOUS
<1> HIDE DEF disk
<1>4. o \in ServerType
  BY <1>2, Literals, Zenon DEF ServerType
<1>5. o.disk = disk /\ o.file = "open" /\ o.out = c.out /\ o.remaining = c.remaining
      /\ Beside(c, o) /\ Untouched(c, o)
  BY DEF Beside, Untouched, ServerType
<1> HIDE DEF o
<1>6. OthersKept(c, o)
  BY <1>3, <1>5 DEF OthersKept
<1> QED
  BY <1>1, <1>4, <1>5, <1>6 DEF disk

LEMMA WriteFields ==
    ASSUME NEW c \in ServerType, NEW data \in Seq(Tokens), NEW works,
           Written(c, data, works)
    PROVE  LET r == WriteBody(c, data, works) IN
           /\ r \in ServerType /\ Beside(c, r) /\ Untouched(c, r) /\ OthersKept(c, r)
           /\ r.out = c.out /\ r.file = c.file
           /\ r.remaining = Minus(c.remaining, Len(data))
           /\ \A old \in Seq(Tokens): Holds(c, old) => Holds(r, old \o data)
<1> DEFINE left == Minus(c.remaining, Len(data))
           more(f) == [f EXCEPT !.data = @ \o data]
           disk == {IF f.req = c.path THEN more(f) ELSE f: f \in c.disk}
           w == [c EXCEPT !.remaining = left, !.disk = disk]
<1>1. WriteBody(c, data, works) = w
  BY DEF WriteBody
<1>2. left \in Nat
  BY Fields, LenProperties, MinusTyped
<1>3. \A f \in c.disk: /\ f \in [req: Requests, data: Seq(Tokens)]
                       /\ more(f) \in [req: Requests, data: Seq(Tokens)]
                       /\ more(f).req = f.req /\ more(f).data = f.data \o data
  <2> TAKE f \in c.disk
  <2>1. f \in [req: Requests, data: Seq(Tokens)]
    BY Fields
  <2>2. f.data \o data \in Seq(Tokens) /\ f.req \in Requests
    BY <2>1, ConcatProperties
  <2> QED
    BY <2>1, <2>2
<1> HIDE DEF more
<1>4. disk \in SUBSET [req: Requests, data: Seq(Tokens)]
  BY <1>3
<1>5. \A f: f.req # c.path => (f \in c.disk <=> f \in disk)
  BY <1>3
<1>6. ASSUME NEW old \in Seq(Tokens), Holds(c, old)
      PROVE  /\ \E f \in disk: f.req = c.path
             /\ \A f \in disk: f.req = c.path => f.data = old \o data
  <2>1. PICK f \in c.disk: f.req = c.path
    BY <1>6 DEF Holds
  <2>2. more(f) \in disk /\ more(f).req = c.path
    BY <1>3, <2>1
  <2>3. \A g \in c.disk: g.req = c.path => g.data = old
    BY <1>6 DEF Holds
  <2>4. \A g \in disk: g.req = c.path => g.data = old \o data
    BY <1>3, <2>3
  <2> QED
    BY <2>2, <2>4
<1> HIDE DEF left, disk
<1>7. w \in ServerType
  BY <1>2, <1>4, Zenon DEF ServerType
<1>8. w.disk = disk /\ w.file = c.file /\ w.out = c.out /\ w.remaining = left
      /\ Beside(c, w) /\ Untouched(c, w)
  BY DEF Beside, Untouched, ServerType
<1> HIDE DEF w
<1>9. OthersKept(c, w)
  BY <1>5, <1>8 DEF OthersKept
<1>10. \A old \in Seq(Tokens): Holds(c, old) => Holds(w, old \o data)
  BY <1>6, <1>8 DEF Holds, Beside
<1> QED
  BY <1>1, <1>7, <1>8, <1>9, <1>10 DEF left

LEMMA RefuseFields ==
    ASSUME NEW c \in ServerType, NEW data, NEW works, ~Written(c, data, works)
    PROVE  \E k \in ServerType:
           /\ WriteBody(c, data, works) = Fallback(k)
           /\ Beside(c, k) /\ Untouched(c, k) /\ OthersKept(c, k)
           /\ k.file = "bad" /\ k.remaining = c.remaining
           /\ \A f \in k.disk: f.req # c.path
<1> DEFINE disk == Without(c.disk, c.path)
           k == [c EXCEPT !.file = "bad", !.disk = disk]
<1>1. WriteBody(c, data, works) = Fallback(k)
  BY DEF WriteBody
<1>2. disk \in SUBSET [req: Requests, data: Seq(Tokens)]
  BY Fields DEF Without
<1>3. /\ \A f: f.req # c.path => (f \in c.disk <=> f \in disk)
      /\ \A f \in disk: f.req # c.path
  BY DEF Without
<1> HIDE DEF disk
<1>4. k \in ServerType
  BY <1>2, Literals, Zenon DEF ServerType
<1>5. k.disk = disk /\ k.file = "bad" /\ k.remaining = c.remaining
      /\ Beside(c, k) /\ Untouched(c, k)
  BY DEF Beside, Untouched, ServerType
<1> HIDE DEF k
<1>6. OthersKept(c, k)
  BY <1>3, <1>5 DEF OthersKept
<1> QED
  BY <1>1, <1>3, <1>4, <1>5, <1>6

\* An upload by length that is being taken: of the request after the a-th.
Working(c, a) ==
    /\ c \in ServerType
    /\ c.open = TRUE /\ c.up = TRUE /\ c.MPFlag = FALSE /\ c.multipart = FALSE
    /\ c.content_type = FALSE
    /\ c.chunked = FALSE /\ c.buffer = <<>> /\ c.chunk_buf = <<>>
    /\ c.path = a + 1 /\ a + 1 \in Requests /\ ByLength(a + 1) /\ a = Len(answers)
    /\ Kept(c)
    /\ \A f \in c.disk: \/ f.req <= a /\ (ByLength(f.req) => f.data = Content(f.req))
                        \/ f.req = a + 1

\* An upload by length goes on, and is complete when its content is in the file.
LEMMA WorkingKept ==
    ASSUME NEW c, NEW a \in Nat, Working(c, a), NEW d \in ServerType, Beside(c, d),
           OthersKept(c, d)
    PROVE  Working(d, a)
<1>1. \A j \in Requests \cap 1..Len(answers): j # c.path
  BY DEF Working
<1>2. Kept(d)
  <2> SUFFICES ASSUME NEW j \in Requests \cap 1..Len(answers), ByLength(j), answers[j].ok
               PROVE  \E f \in d.disk: f.req = j
    BY DEF Kept
  <2>1. PICK f \in c.disk: f.req = j
    BY DEF Working, Kept
  <2> QED
    BY <1>1, <2>1 DEF OthersKept
<1>3. \A f \in d.disk: \/ f.req <= a /\ (ByLength(f.req) => f.data = Content(f.req))
                       \/ f.req = a + 1
  BY DEF Working, OthersKept, Beside
<1> QED
  BY <1>2, <1>3 DEF Working, Beside

LEMMA WorkingClear ==
    ASSUME NEW c, NEW a, Working(c, a) PROVE Working(Clear(c), a)
<1>1. Same(c, Clear(c)) /\ Clear(c).open = c.open /\ Clear(c) \in ServerType
  BY ClearFields DEF Working
<1>2. Kept(Clear(c))
  BY <1>1, FilesSame DEF Working
<1> QED
  BY <1>1, <1>2 DEF Working, Same

LEMMA WorkingComplete ==
    ASSUME Sane, NEW c, NEW a \in Nat, Working(c, a), c.mp_buf = <<>>,
           Holds(c, Content(a + 1)),
           NEW q, At(a + 1, Size(a + 1) + 1, q)
    PROVE  Result(UploadComplete(c), a, q)
<1> DEFINE r == UploadComplete(c)
<1>1. /\ r.up = c.up /\ r.MPFlag = FALSE /\ r.multipart = c.multipart
      /\ r.content_type = c.content_type
      /\ r.disk = c.disk /\ r.upload_active = FALSE /\ r.path = 0
      /\ r.chunked = FALSE /\ r.buffer = c.buffer /\ r.chunk_buf = <<>>
      /\ r.mp_buf = c.mp_buf /\ r.mp_state = "BOUNDARY"
      /\ r.open = c.open /\ r.rd = FALSE /\ r.out.to = c.path /\ r.out.ok = TRUE
      /\ r.out.queued = TRUE /\ r \in ServerType
  BY CompleteFields DEF Working
<1> HIDE DEF r
<1>2. /\ \E f \in c.disk: f.req = a + 1
      /\ \A f \in c.disk: f.req = a + 1 => f.data = Content(a + 1)
  BY DEF Holds, Working
<1>3. /\ Same(r, Clear(r)) /\ Clear(r).state = "REQUEST_LINE"
  BY <1>1, ClearFields
<1>4. Files(r, a + 1)
  <2>1. \A f \in c.disk: f.req <= a + 1 /\ (ByLength(f.req) => f.data = Content(f.req))
    <3> TAKE f \in c.disk
    <3>1. f.req \in Nat
      BY Fields, RequestsAre DEF Working
    <3> QED
      BY <1>2, <3>1 DEF Working
  <2> QED
    BY <1>1, <2>1 DEF Files
<1>5. Files(Clear(r), a + 1)
  BY <1>3, <1>4, FilesSame
<1>6. Quiet(Clear(r)) /\ Clear(r).up /\ ~Clear(r).MPFlag /\ ~Clear(r).multipart
      /\ ~Clear(r).content_type
  BY <1>1, <1>3 DEF Quiet, Same, Working
<1>7. Off(a + 1, TRUE) \/ Mode(Clear(r), a + 1, q)
  <2>1. a + 1 \in Requests /\ Size(a + 1) \in Nat /\ Size(a + 1) + 1 >= 2
    BY SizeIs DEF Working
  <2>2. Size(a + 1) + 1 \in Nat /\ Size(a + 1) + 1 <= Size(a + 1) + 1
    BY <2>1
  <2> QED
    BY <1>3, <1>5, <1>6, <2>1, <2>2, LeftoverMode
<1>8. Kept(r) /\ r.disk = c.disk
  BY <1>1 DEF Kept, Working
<1>9. Same(r, r)
  BY DEF Same
<1>10. r.open = TRUE /\ r.out.to = a + 1 /\ a + 1 \in Requests
  BY <1>1 DEF Working
<1> QED
  BY <1>1, <1>2, <1>7, <1>8, <1>9, <1>10, QueuedResult DEF r

-----------------------------------------------------------------------------
(* A plain upload *)

\* The parts of the kinds of requests.
LEMMA KindFacts ==
    /\ \A j: ask[j] = "upload" =>
         Size(j) = 4 /\ Tok(j, 3) = [req |-> j, part |-> "data"]
                     /\ Tok(j, 4) = [req |-> j, part |-> "last"]
    /\ \A j: ask[j] \in {"post", "big"} => Size(j) = 4
    /\ \A j: ask[j] = "chunked" =>
         Size(j) = 5 /\ Tok(j, 3) = [req |-> j, part |-> "open"]
                     /\ Tok(j, 4) = [req |-> j, part |-> "close"]
                     /\ Tok(j, 5) = [req |-> j, part |-> "end"]
    /\ \A j: ask[j] \in {"get", "huge", "badhead", "badline"} => Size(j) = 2
    /\ \A j: ask[j] = "huge" => Tok(j, 2) = [req |-> j, part |-> "flood"]
    /\ \A j: ask[j] = "badhead" => Tok(j, 2) = [req |-> j, part |-> "badhead"]
    /\ \A j: ask[j] \in {"get", "post", "big", "upload", "chunked"} =>
         Tok(j, 2) = [req |-> j, part |-> "head"]
    /\ \A j: ask[j] \in AllKinds \ {"badline"} => Tok(j, 1) = [req |-> j, part |-> "line"]
    /\ \A j: ask[j] = "badline" => Tok(j, 1) = [req |-> j, part |-> "badline"]
<1>1. \A k: k = "upload" =>
         /\ Len(Parts(k)) = 4 /\ Parts(k)[3] = "data" /\ Parts(k)[4] = "last"
  BY DEF Parts, Body
<1>2. \A k: k \in {"post", "big"} => Len(Parts(k)) = 4
  BY DEF Parts, Body
<1>3. \A k: k = "chunked" =>
         Len(Parts(k)) = 5 /\ Parts(k)[3] = "open" /\ Parts(k)[4] = "close"
         /\ Parts(k)[5] = "end"
  BY DEF Parts, Body
<1>4. \A k: k \in {"get", "huge", "badhead", "badline"} => Len(Parts(k)) = 2
  BY DEF Parts, Body
<1>5. Parts("huge")[2] = "flood" /\ Parts("badhead")[2] = "badhead"
      /\ Parts("badline")[1] = "badline"
  BY DEF Parts, Body
<1>6. \A k: k \in {"get", "post", "big", "upload", "chunked"} => Parts(k)[2] = "head"
  BY DEF Parts, Body
<1>7. \A k: k \in AllKinds \ {"badline"} => Parts(k)[1] = "line"
  BY DEF Parts, Body, AllKinds
<1> QED
  BY <1>1, <1>2, <1>3, <1>4, <1>5, <1>6, <1>7 DEF Tok, Size

\* Parts that follow each other; what a file is to hold.
LEMMA ToksJoin ==
    ASSUME NEW j \in Requests, NEW p \in Nat, p >= 1, NEW m \in Nat, NEW n \in Nat,
           p + m + n - 1 <= Size(j)
    PROVE  Toks(j, p, m) \o Toks(j, p + m, n) = Toks(j, p, m + n)
<1>0. Size(j) \in Nat
  BY SizeIs
<1>1. /\ Toks(j, p, m) \in Seq(Tokens) /\ Len(Toks(j, p, m)) = m
      /\ \A k \in 1..m: Toks(j, p, m)[k] = Tok(j, p + k - 1)
  <2>1. p + m - 1 <= Size(j)
    BY <1>0
  <2> QED
    BY <2>1, ToksTyped
<1>2. /\ Toks(j, p + m, n) \in Seq(Tokens) /\ Len(Toks(j, p + m, n)) = n
      /\ \A k \in 1..n: Toks(j, p + m, n)[k] = Tok(j, p + m + k - 1)
  <2>1. p + m \in Nat /\ p + m >= 1
    OBVIOUS
  <2> QED
    BY <2>1, ToksTyped
<1>3. /\ Toks(j, p, m + n) \in Seq(Tokens) /\ Len(Toks(j, p, m + n)) = m + n
      /\ \A k \in 1..m + n: Toks(j, p, m + n)[k] = Tok(j, p + k - 1)
  <2>1. m + n \in Nat /\ p + (m + n) - 1 <= Size(j)
    BY <1>0
  <2> QED
    BY <2>1, ToksTyped
<1> DEFINE s == Toks(j, p, m) \o Toks(j, p + m, n)
<1>4. /\ s \in Seq(Tokens) /\ Len(s) = m + n
      /\ \A k \in 1..m + n: s[k] = IF k <= m THEN Toks(j, p, m)[k] ELSE Toks(j, p + m, n)[k - m]
  <2>1. \A u, v \in Seq(Tokens):
          /\ u \o v \in Seq(Tokens) /\ Len(u \o v) = Len(u) + Len(v)
          /\ \A k \in 1..Len(u) + Len(v):
               (u \o v)[k] = IF k <= Len(u) THEN u[k] ELSE v[k - Len(u)]
    BY ConcatProperties
  <2> DEFINE u == Toks(j, p, m)
             v == Toks(j, p + m, n)
  <2>2. u \in Seq(Tokens) /\ v \in Seq(Tokens) /\ Len(u) = m /\ Len(v) = n
    BY <1>1, <1>2
  <2> HIDE DEF u, v
  <2>3. /\ u \o v \in Seq(Tokens) /\ Len(u \o v) = Len(u) + Len(v)
        /\ \A k \in 1..Len(u) + Len(v):
               (u \o v)[k] = IF k <= Len(u) THEN u[k] ELSE v[k - Len(u)]
    BY <2>1, <2>2
  <2> QED
    BY <2>2, <2>3 DEF u, v
<1>5. \A k \in 1..m + n: s[k] = Toks(j, p, m + n)[k]
  <2> TAKE k \in 1..m + n
  <2> HIDE DEF s
  <2>1. CASE k <= m
    BY <1>1, <1>3, <1>4, <2>1
  <2>2. CASE k > m
    <3>1. k - m \in 1..n /\ p + m + (k - m) - 1 = p + k - 1
      BY <2>2
    <3>2. s[k] = Toks(j, p + m, n)[k - m]
      BY <1>4, <2>2
    <3>3. Toks(j, p + m, n)[k - m] = Tok(j, p + m + (k - m) - 1)
      BY <1>2, <3>1
    <3> QED
      BY <1>3, <3>1, <3>2, <3>3
  <2> QED
    BY <2>1, <2>2
<1> HIDE DEF s
<1>6. s = Toks(j, p, m + n)
  BY <1>3, <1>4, <1>5, SeqEqual
<1> QED
  BY <1>6 DEF s

LEMMA ContentIs ==
    ASSUME NEW j \in Requests, ask[j] = "upload"
    PROVE  Content(j) = Toks(j, 3, 2)
<1>1. Toks(j, 3, 2) = <<Tok(j, 3), Tok(j, 4)>>
  <2>1. 1..2 = {1, 2} /\ 3 + 1 - 1 = 3 /\ 3 + 2 - 1 = 4
    OBVIOUS
  <2> QED
    BY <2>1 DEF Toks
<1> QED
  BY <1>1, KindFacts DEF Content

\* Neither the upload nor the parser goes on.
SameStage(c, d) == c.upload_active = d.upload_active /\ c.state = d.state

\* The write of a plain upload: what is left to come and what has been stored.
PlainAt(c, a, m) ==
    /\ Working(c, a) /\ ask[a + 1] = "upload"
    /\ c.mp_buf = <<>> /\ c.mp_state = "BOUNDARY" /\ c.out.queued = FALSE
    /\ c.remaining = 2 - m /\ Stored(c, Toks(a + 1, 3, m))

\* A plain upload: it goes on, it is complete, it writes, it does not write.
LEMMA PlainProgress ==
    ASSUME NEW a \in Nat, NEW m \in 0..1, NEW c, PlainAt(c, a, m), c.upload_active = TRUE,
           NEW q, At(a + 1, 3 + m, q)
    PROVE  Result(c, a, q)
<1>1. Uploading(c, a)
  BY DEF PlainAt, Working, Uploading
<1>2. Plain(c, a, q)
  BY <1>1 DEF PlainAt, Plain, Working
<1>3. Files(c, a)
  BY DEF PlainAt, Working, Files
<1> QED
  BY <1>2, <1>3 DEF Mode, PlainAt, Working, Result

LEMMA PlainComplete ==
    ASSUME Sane, NEW a \in Nat, NEW c, PlainAt(c, a, 2),
           NEW q, At(a + 1, 5, q)
    PROVE  Result(UploadComplete(c), a, q)
<1>1. a + 1 \in Requests /\ Size(a + 1) + 1 = 5 /\ Content(a + 1) = Toks(a + 1, 3, 2)
  BY ContentIs, KindFacts DEF PlainAt, Working
<1> QED
  BY <1>1, WorkingComplete DEF PlainAt, Stored

LEMMA PlainWrite ==
    ASSUME Sane, NEW a \in Nat, NEW m \in 0..1, NEW n \in 1..2, m + n <= 2,
           NEW c, PlainAt(c, a, m), NEW works
    PROVE  LET W == WriteBody(c, Toks(a + 1, 3 + m, n), works) IN
           Written(c, Toks(a + 1, 3 + m, n), works) =>
               PlainAt(W, a, m + n) /\ SameStage(c, W)
<1> DEFINE data == Toks(a + 1, 3 + m, n)
           W == WriteBody(c, data, works)
<1>1. a + 1 \in Requests /\ Size(a + 1) = 4 /\ c \in ServerType
  BY KindFacts DEF PlainAt, Working
<1>2. data \in Seq(Tokens) /\ Len(data) = n
  <2>1. 3 + m \in Nat /\ 3 + m >= 1 /\ n \in Nat /\ (3 + m) + n - 1 <= Size(a + 1)
    BY <1>1
  <2> QED
    BY <1>1, <2>1, ToksTyped
<1>3. Toks(a + 1, 3, m) \o data = Toks(a + 1, 3, m + n) /\ Toks(a + 1, 3, m) \in Seq(Tokens)
  <2>1. 3 + m + n - 1 <= Size(a + 1) /\ 3 + m - 1 <= Size(a + 1) /\ m \in Nat /\ n \in Nat
    BY <1>1
  <2> QED
    <3>1. Toks(a + 1, 3, m) \o Toks(a + 1, 3 + m, n) = Toks(a + 1, 3, m + n)
      <4>1. PICK p \in Nat: p = 3
        OBVIOUS
      <4>2. Toks(a + 1, p, m) \o Toks(a + 1, p + m, n) = Toks(a + 1, p, m + n)
        <5>1. PICK j \in Requests: j = a + 1
          BY <1>1
        <5>2. p >= 1 /\ p + m + n - 1 <= Size(j)
          BY <1>1, <2>1, <4>1, <5>1
        <5>3. Toks(j, p, m) \o Toks(j, p + m, n) = Toks(j, p, m + n)
          BY <2>1, <5>2, ToksJoin
        <5> QED
          BY <5>1, <5>3
      <4> QED
        BY <4>1, <4>2
    <3>2. Toks(a + 1, 3, m) \in Seq(Tokens)
      BY <1>1, <2>1, ToksTyped
    <3> QED
      BY <3>1, <3>2
<1>4. SUFFICES ASSUME Written(c, data, works)
               PROVE  PlainAt(W, a, m + n) /\ SameStage(c, W)
  OBVIOUS
<1> HIDE DEF data
<1>5. /\ W \in ServerType /\ Beside(c, W) /\ Untouched(c, W) /\ OthersKept(c, W)
      /\ W.out = c.out /\ W.file = c.file
      /\ W.remaining = Minus(c.remaining, Len(data))
      /\ \A old \in Seq(Tokens): Holds(c, old) => Holds(W, old \o data)
  BY <1>1, <1>2, <1>4, WriteFields
<1> HIDE DEF W
<1>6. Working(W, a)
  BY <1>5, WorkingKept DEF PlainAt
<1>7. W.remaining = 2 - (m + n)
  <2>1. c.remaining = 2 - m /\ 2 - m \in Nat /\ 2 - m < SizeMax /\ n <= 2 - m
    BY Constants DEF PlainAt
  <2>2. Minus(2 - m, n) = (2 - m) - n
    BY <2>1, MinusTyped
  <2> QED
    BY <1>2, <1>5, <2>1, <2>2
<1>8. Stored(W, Toks(a + 1, 3, m + n))
  BY <1>3, <1>5 DEF Stored, PlainAt
<1> QED
  BY <1>5, <1>6, <1>7, <1>8 DEF PlainAt, Beside, Untouched, SameStage

LEMMA PlainRefused ==
    ASSUME Sane, NEW a \in Nat, NEW m \in 0..1, NEW c, PlainAt(c, a, m),
           NEW data, NEW works, ~Written(c, data, works), NEW p \in 3..5,
           NEW q, At(a + 1, p, q)
    PROVE  Result(WriteBody(c, data, works), a, q)
<1>1. PICK k \in ServerType:
           /\ WriteBody(c, data, works) = Fallback(k)
           /\ Beside(c, k) /\ Untouched(c, k) /\ OthersKept(c, k)
           /\ k.file = "bad" /\ k.remaining = c.remaining
           /\ \A f \in k.disk: f.req # c.path
  BY RefuseFields DEF PlainAt, Working
<1>2. Working(k, a)
  BY <1>1, WorkingKept DEF PlainAt
<1>3. a + 1 \in Requests /\ Size(a + 1) = 4 /\ k.path = a + 1 /\ c.path = a + 1
  BY <1>2, KindFacts DEF PlainAt, Working
<1>4. ~Easy /\ "upload" \in Failing /\ ask[a + 1] = "upload"
  <2>1. ask[a + 1] \in Failing
    BY <1>3 DEF Written, PlainAt, Stored
  <2> QED
    BY <2>1 DEF Easy, PlainAt
<1>5. /\ Same(k, Clear(k)) /\ Clear(k).state = "REQUEST_LINE"
  BY ClearFields
<1>6. Files(k, a + 1)
  <2>1. \A f \in k.disk: f.req \in Nat
    BY Fields, RequestsAre
  <2> QED
    BY <1>1, <1>2, <1>3, <2>1 DEF Files, Working
<1>7. Files(Clear(k), a + 1)
  BY <1>5, <1>6, FilesSame
<1>8. Off(a + 1, FALSE) \/ Mode(Clear(k), a + 1, q)
  <2>1. CASE ~k.upload_active
    <3>1. Quiet(Clear(k)) /\ Clear(k).up /\ ~Clear(k).MPFlag /\ ~Clear(k).multipart
          /\ ~Clear(k).content_type
      BY <1>1, <1>2, <1>4, <1>5, <2>1 DEF Same, Quiet, Working, Untouched, PlainAt
    <3>2. p \in Nat /\ p >= 2 /\ p <= Size(a + 1) + 1
      BY <1>3
    <3>3. ~Easy /\ Unread(a + 1, FALSE)
      BY <1>4 DEF Unread
    <3> QED
      BY <1>3, <1>5, <1>7, <3>1, <3>2, <3>3, LeftoverMode
  <2>2. CASE k.upload_active
    <3>1. Heard(a + 1, q)
      BY AtHeard
    <3>2. k.remaining > 0
      BY <1>1 DEF PlainAt
    <3>3. Zombie(Clear(k), a + 1, q)
      BY <1>1, <1>2, <1>3, <1>4, <1>5, <2>2, <3>1, <3>2
         DEF Zombie, Same, Working, Beside, PlainAt
    <3> QED
      BY <1>2, <1>4, <1>5, <1>7, <3>3 DEF Mode, Same, Working
  <2> QED
    BY <2>1, <2>2
<1> QED
  BY <1>1, <1>2, <1>8, RefusedResult DEF Working

-----------------------------------------------------------------------------
(* What the body of any upload leaves alone *)

\* An error page is queued.
Refused(r) == r.rd = FALSE /\ r.out.queued = TRUE /\ r.out.ok = FALSE

\* What the body of a chunked upload leaves alone, whatever comes of it.
Aside(c, d) ==
    /\ c.up = d.up /\ c.open = d.open /\ c.MPFlag = d.MPFlag /\ c.multipart = d.multipart
    /\ c.content_type = d.content_type
    /\ c.upload_active = d.upload_active /\ c.path = d.path
    /\ c.chunked = d.chunked /\ c.buffer = d.buffer /\ c.state = d.state
    /\ OthersKept(c, d)
    /\ Refused(d) \/ (d.out = c.out /\ d.rd = c.rd)

\* The steps of any body leave the rest aside.
LEMMA AsideTrans ==
    ASSUME NEW c, NEW d, NEW e, Aside(c, d), Aside(d, e) PROVE Aside(c, e)
  BY DEF Aside, OthersKept, Refused

LEMMA BesideAside ==
    ASSUME NEW c, NEW d, Beside(c, d), OthersKept(c, d) PROVE Aside(c, d)
  BY DEF Aside, Beside

LEMMA FallbackAside ==
    ASSUME NEW c \in ServerType
    PROVE  Fallback(c) \in ServerType /\ Aside(c, Fallback(c)) /\ Refused(Fallback(c))
  BY FallbackFields DEF Aside, Same, OthersKept, Refused

LEMMA OpenAside ==
    ASSUME NEW c \in ServerType, c.path \in Requests, NEW opens
    PROVE  Open(c, opens) \in ServerType /\ Aside(c, Open(c, opens))
<1>1. CASE Opens(c, opens)
  BY <1>1, OpenFields, BesideAside
<1>2. CASE ~Opens(c, opens)
  <2> DEFINE k == [c EXCEPT !.file = "closed"]
  <2>1. Open(c, opens) = Fallback(k)
    BY <1>2 DEF Open
  <2>2. k \in ServerType
    BY Literals, Zenon DEF ServerType
  <2>3. Aside(c, k)
    BY DEF Aside, OthersKept, ServerType
  <2> HIDE DEF k
  <2>4. Fallback(k) \in ServerType /\ Aside(k, Fallback(k))
    BY <2>2, FallbackAside
  <2>5. Aside(c, Fallback(k))
    BY <2>3, <2>4, AsideTrans
  <2> QED
    BY <2>1, <2>4, <2>5
<1> QED
  BY <1>1, <1>2

LEMMA WriteAside ==
    ASSUME NEW c \in ServerType, NEW data \in Seq(Tokens), NEW works
    PROVE  LET r == WriteBody(c, data, works) IN
           /\ r \in ServerType /\ Aside(c, r)
           /\ ~Written(c, data, works) => Refused(r)
<1>1. CASE Written(c, data, works)
  BY <1>1, WriteFields, BesideAside
<1>2. CASE ~Written(c, data, works)
  <2>1. PICK k \in ServerType:
           WriteBody(c, data, works) = Fallback(k) /\ Beside(c, k) /\ OthersKept(c, k)
    BY <1>2, RefuseFields
  <2>2. Aside(c, k)
    BY <2>1, BesideAside
  <2>3. Fallback(k) \in ServerType /\ Aside(k, Fallback(k)) /\ Refused(Fallback(k))
    BY FallbackAside
  <2>4. Aside(c, Fallback(k))
    BY <2>2, <2>3, AsideTrans
  <2> QED
    BY <2>1, <2>3, <2>4
<1> QED
  BY <1>1, <1>2

\* processBody leaves the rest aside, and queues an error page when it is not fine.
LEMMA BodyAside ==
    ASSUME NEW c, Typed(c), c.path \in Requests, ~c.MPFlag, NEW data \in Seq(Tokens),
           NEW opens, NEW works
    PROVE  LET p == ProcessBody(c, data, opens, works) IN
           /\ p.server \in ServerType /\ Aside(c, p.server)
           /\ ~p.fine => Refused(p.server)
<1> DEFINE d == Decoded(c, data)
           taken == IF c.chunked THEN d.data
                    ELSE SubSeq(data, 1, Lesser(Len(data), c.remaining))
           b == IF c.chunked THEN [c EXCEPT !.chunk_buf = d.rest] ELSE c
           k == [b EXCEPT !.file = "closed", !.disk = Without(@, c.path)]
           good == WriteBody(b, taken, works)
           p == ProcessBody(c, data, opens, works)
<1>1. p =
        IF c.chunked /\ d.state = "ERROR"
        THEN [server |-> Fallback(k), fine |-> FALSE, done |-> FALSE]
        ELSE [server |-> good, fine |-> Written(b, taken, works),
              done |-> c.chunked /\ d.state = "COMPLETE"]
  <2>1. (c.MPFlag \/ Written(b, taken, works)) = Written(b, taken, works)
    BY DEF Written
  <2> QED
    BY <2>1, Zenon DEF ProcessBody
<1>2. d.data \in Seq(Tokens) /\ d.rest \in Seq(Tokens)
  BY DecodedTyped
<1>0. p.server \in ServerType
  <2>1. c.path # 0
    BY RequestsAre
  <2> QED
    BY <2>1, ProcessBodyTyped DEF Typed
<1> HIDE DEF d, p
<1>3. taken \in Seq(Tokens)
  <2>1. Len(data) \in Nat /\ c.remaining \in Nat
    BY Fields, LenProperties DEF Typed
  <2>2. SubSeq(data, 1, Lesser(Len(data), c.remaining)) \in Seq(Tokens)
    BY <2>1, LesserTyped, Slices
  <2> QED
    BY <1>2, <2>2
<1>4. Typed(b) /\ Aside(c, b)
  <2> DEFINE x == [c EXCEPT !.chunk_buf = d.rest]
  <2>1. x \in ServerType
    BY <1>2, Zenon DEF Typed, ServerType
  <2>2. Typed(x) /\ Aside(c, x)
    BY <2>1 DEF Typed, ServerType, Aside, OthersKept
  <2>3. Aside(c, c)
    BY DEF Aside, OthersKept
  <2> HIDE DEF x
  <2>4. Typed(b) /\ Aside(c, b)
    BY <2>2, <2>3 DEF x
  <2> QED
    BY <2>4 DEF Aside
<1> HIDE DEF b, taken
<1>5. k \in ServerType /\ Aside(c, k)
  <2>1. Without(b.disk, c.path) \in SUBSET [req: Requests, data: Seq(Tokens)]
    BY <1>4, Fields DEF Typed, Without
  <2>2. k \in ServerType
    BY <1>4, <2>1, Literals, Zenon DEF Typed, ServerType
  <2>3. /\ k.disk = Without(b.disk, c.path) /\ k.up = b.up /\ k.open = b.open
        /\ k.MPFlag = b.MPFlag /\ k.multipart = b.multipart
        /\ k.content_type = b.content_type /\ k.path = b.path
        /\ k.upload_active = b.upload_active /\ k.chunked = b.chunked
        /\ k.buffer = b.buffer /\ k.state = b.state /\ k.out = b.out /\ k.rd = b.rd
    BY <1>4 DEF Typed, ServerType
  <2> HIDE DEF k
  <2>4. OthersKept(c, k)
    BY <1>4, <2>3 DEF Aside, OthersKept, Without
  <2> QED
    BY <1>4, <2>2, <2>3, <2>4 DEF Aside, Refused
<1> HIDE DEF k
<1>6. Aside(c, Fallback(k)) /\ Refused(Fallback(k))
  BY <1>5, FallbackAside, AsideTrans
<1>7. Aside(c, good) /\ (~Written(b, taken, works) => Refused(good))
  <2>1. Aside(b, good) /\ (~Written(b, taken, works) => Refused(good))
    BY <1>3, <1>4, WriteAside DEF Typed
  <2> HIDE DEF good
  <2> QED
    BY <1>4, <2>1, AsideTrans
<1> HIDE DEF good
<1>8. Aside(c, p.server) /\ (~p.fine => Refused(p.server))
  <2>1. CASE c.chunked /\ d.state = "ERROR"
    BY <1>1, <1>6, <2>1
  <2>2. CASE ~(c.chunked /\ d.state = "ERROR")
    <3> DEFINE fine == Written(b, taken, works)
               done == c.chunked /\ d.state = "COMPLETE"
    <3>1. p = [server |-> good, fine |-> fine, done |-> done]
      BY <1>1, <2>2, Zenon
    <3>2. ~fine => Refused(good)
      BY <1>7
    <3> HIDE DEF fine, done
    <3>3. p.server = good /\ p.fine = fine
      BY <3>1
    <3> QED
      BY <1>7, <3>2, <3>3
  <2> QED
    BY <2>1, <2>2
<1> QED
  BY <1>0, <1>8 DEF p

-----------------------------------------------------------------------------
(* Bytes that are no request, and a chunked upload that goes on *)

\* What parseRequest makes of bytes that do not begin with a request line.
Unparsed(u, k, buf) ==
    /\ k \in ServerType /\ k.buffer = buf /\ k.up = u.up /\ k.open = u.open
    /\ k.MPFlag = u.MPFlag /\ k.multipart = u.multipart /\ k.content_type = u.content_type
    /\ k.disk = u.disk
    /\ k.upload_active = u.upload_active /\ k.path = u.path /\ k.chunked = u.chunked
    /\ k.chunk_buf = u.chunk_buf /\ k.mp_buf = u.mp_buf /\ k.mp_state = u.mp_state
    /\ k.remaining = u.remaining /\ k.file = u.file /\ k.out = u.out

\* They are an error if they end a line, and wait if not.
NoLine(u, k, buf, r) ==
    /\ Unparsed(u, k, buf)
    /\ (\E x \in 1..Len(buf): EndsLine(buf[x])) => r = Fallback(k)
    /\ (\A x \in 1..Len(buf): ~EndsLine(buf[x])) => r = k /\ k.state = "REQUEST_LINE"

\* parseRequest finds no request line.
LEMMA NoLineRead ==
    ASSUME NEW u \in ServerType, u.state = "REQUEST_LINE", u.up = TRUE,
           NEW data \in Seq(Tokens), u.buffer \o data # <<>>,
           ~IsLine((u.buffer \o data)[1]), NEW keepAlive, NEW opens, NEW works
    PROVE  \E k: NoLine(u, k, u.buffer \o data,
                        ReadRequest(u, data, keepAlive, opens, works))
<1> DEFINE buf == u.buffer \o data
           b == [u EXCEPT !.buffer = buf]
           i == SelectInSeq(buf, EndsLine)
           k == IF i = 0 THEN b ELSE [b EXCEPT !.state = "ERROR"]
           r == ReadRequest(u, data, keepAlive, opens, works)
<1>1. buf \in Seq(Tokens)
  BY Fields, ConcatProperties
<1>2. /\ i = 0 <=> \A x \in 1..Len(buf): ~EndsLine(buf[x])
  BY <1>1, EndFacts
<1>3. ~IsLine(buf[1])
  OBVIOUS
<1>4. b = [u EXCEPT !.buffer = @ \o data]
  BY Zenon
<1> HIDE DEF buf
<1>5. b \in ServerType
  BY <1>1, Zenon DEF ServerType
<1>6. b.state = "REQUEST_LINE" /\ b.buffer = buf /\ Unparsed(u, b, buf)
  BY <1>5 DEF Unparsed, ServerType
<1>7. ParseRequest(u, data) = LET l == ParseLine(b)
                                  h == IF l.state = "HEADERS" THEN ParseHead(l) ELSE l
                              IN  IF h.state = "BODY" THEN ParseBody(h) ELSE h
  BY <1>4, <1>6 DEF ParseRequest
<1> HIDE DEF b
<1>8. ParseLine(b) = k
  BY <1>3, <1>6 DEF ParseLine
<1>9. Unparsed(u, k, buf) /\ k.state = IF i = 0 THEN "REQUEST_LINE" ELSE "ERROR"
  <2>1. CASE i = 0
    BY <1>6, <2>1
  <2>2. CASE i # 0
    <3> DEFINE x == [b EXCEPT !.state = "ERROR"]
    <3>1. x \in ServerType
      BY <1>5, Literals, Zenon DEF ServerType
    <3>2. Unparsed(u, x, buf) /\ x.state = "ERROR"
      BY <1>5, <1>6, <3>1 DEF Unparsed, ServerType
    <3> QED
      BY <2>2, <3>2
  <2> QED
    BY <2>1, <2>2
<1> HIDE DEF k, i
<1>10. ParseRequest(u, data) = k
  BY <1>7, <1>8, <1>9
<1>11. k.up = TRUE
  BY <1>9 DEF Unparsed
<1>12. r = IF k.state = "ERROR" THEN Fallback(k)
           ELSE IF k.state \in {"REQUEST_LINE", "HEADERS"} THEN k ELSE r
  BY <1>10, <1>11 DEF ReadRequest
<1> HIDE DEF r
<1>13. (\E x \in 1..Len(buf): EndsLine(buf[x])) => r = Fallback(k)
  BY <1>2, <1>9, <1>12
<1>14. (\A x \in 1..Len(buf): ~EndsLine(buf[x])) => r = k /\ k.state = "REQUEST_LINE"
  BY <1>2, <1>9, <1>12
<1> QED
  BY <1>9, <1>13, <1>14 DEF buf, r, NoLine

-----------------------------------------------------------------------------

\* The first of what is in the buffer stays the first.
LEMMA ConcatFirst ==
    ASSUME NEW s \in Seq(Tokens), s # <<>>, NEW data \in Seq(Tokens)
    PROVE  s \o data # <<>> /\ (s \o data)[1] = s[1] /\ 1 \in 1..Len(s \o data)
<1>1. Len(s) \in Nat /\ Len(data) \in Nat /\ Len(s) # 0
  BY LenProperties, EmptySeq
<1>2. /\ s \o data \in Seq(Tokens) /\ Len(s \o data) = Len(s) + Len(data)
      /\ \A i \in 1..Len(s) + Len(data): (s \o data)[i] =
             IF i <= Len(s) THEN s[i] ELSE data[i - Len(s)]
  BY ConcatProperties
<1> QED
  BY <1>1, <1>2, EmptySeq

\* The next bytes of a chunked upload end in an error page.
LEMMA ChunkRead ==
    ASSUME Sane, NEW a \in Nat, a = Len(answers), NEW c, Typed(c), c.open = TRUE,
           Kept(c), NEW q, Chunk(c, a, q), c.up = TRUE, ~c.MPFlag, ~c.multipart, ~c.content_type,
           Files(c, a), NEW data \in Seq(Tokens), data # <<>>, NEW q2,
           NEW keepAlive, NEW opens, NEW works
    PROVE  Result(ReadUpload(c, data, keepAlive, opens, works), a, q2)
<1> DEFINE p == ProcessBody(c, data, opens, works)
           s == p.server
           u == IF s.remaining = 0 \/ p.done \/ s.mp_state = "END"
                THEN UploadComplete(s) ELSE s
           R == ReadUpload(c, data, keepAlive, opens, works)
<1>0. c \in ServerType /\ ~Easy /\ c.path \in Requests /\ c.path <= a + 1 /\ ~ByLength(c.path)
      /\ c.path # 0 /\ c.upload_active = TRUE /\ c.chunked = TRUE
      /\ c.state = "REQUEST_LINE" /\ c.buffer # <<>> /\ ~IsLine(c.buffer[1])
      /\ EndsLine(c.buffer[1]) /\ c.buffer \in Seq(Tokens)
  <2>1. c \in ServerType
    BY DEF Typed
  <2>2. c.upload_active \in BOOLEAN /\ c.chunked \in BOOLEAN /\ c.buffer \in Seq(Tokens)
    BY <2>1, Fields
  <2> QED
    BY <2>1, <2>2, RequestsAre DEF Chunk, ByLength
<1>1. R = IF ~p.fine THEN s ELSE ReadRequest(u, data, keepAlive, opens, works)
  <2>1. SubSeq(data, 0 + 1, Len(data)) = data
    BY SubSeqFull
  <2>2. (IF c.chunked THEN 0 ELSE Lesser(Len(data), c.remaining)) = 0
    BY <1>0
  <2> QED
    BY <2>1, <2>2 DEF ReadUpload
<1>2. s \in ServerType /\ Aside(c, s) /\ (~p.fine => Refused(s))
  BY <1>0, BodyAside
<1> HIDE DEF p, R
<1>3. Heard(a + 1, q2)
  <2>1. CASE Heard(a, q)
    BY <2>1, HeardNext
  <2>2. CASE \E k \in 4..5: At(a + 1, k, q)
    BY <2>2, AtHeard
  <2> QED
    BY <2>1, <2>2 DEF Chunk
<1>4. Kept(s)
  BY <1>0, <1>2 DEF Kept, Aside, OthersKept
<1>5. \A f \in s.disk: f.req \in Nat /\ f.req <= a + 1
                       /\ (ByLength(f.req) => f.data = Content(f.req))
  <2>1. \A f \in s.disk: f.req \in Nat
    BY <1>2, Fields, RequestsAre
  <2>2. \A f \in s.disk: f.req # c.path =>
           f.req <= a /\ (ByLength(f.req) => f.data = Content(f.req))
    BY <1>2 DEF Files, Aside, OthersKept
  <2> QED
    BY <1>0, <2>1, <2>2
\* Wherever it goes on, the connection fails at what is in the buffer.
<1>6. ASSUME NEW k \in ServerType, k.up = TRUE, ~k.MPFlag, ~k.multipart, ~k.content_type,
             k.disk = s.disk,
             k.buffer # <<>>, k.buffer[1] = c.buffer[1],
             k.upload_active => k.path = c.path /\ k.chunked = TRUE
      PROVE  Mode(Clear(k), a + 1, q2)
  <2>1. Same(k, Clear(k)) /\ Clear(k).state = "REQUEST_LINE"
    BY <1>6, ClearFields
  <2>2. Files(Clear(k), a + 1)
    BY <1>5, <1>6, <2>1 DEF Files, Same
  <2>3. CASE ~k.upload_active
    BY <1>0, <1>3, <1>6, <2>1, <2>2, <2>3, DoomedMode DEF Same
  <2>4. CASE k.upload_active
    <3>1. a + 1 <= (a + 1) + 1
      OBVIOUS
    <3>2. Clear(k).path <= (a + 1) + 1
      <4>1. Clear(k).path = c.path
        BY <1>6, <2>1, <2>4 DEF Same
      <4>2. c.path \in Nat /\ c.path <= a + 1
        BY <1>0, RequestsAre
      <4> QED
        BY <4>1, <4>2
    <3>3. Chunk(Clear(k), a + 1, q2)
      BY <1>0, <1>3, <1>6, <2>1, <2>4, <3>2 DEF Chunk, Same
    <3> QED
      BY <1>0, <1>6, <2>1, <2>2, <3>3 DEF Mode, Same
  <2> QED
    BY <2>3, <2>4
<1>7. CASE ~p.fine
  <2>1. Mode(Clear(s), a + 1, q2)
    BY <1>0, <1>2, <1>6 DEF Aside
  <2>2. Same(s, s)
    BY DEF Same
  <2> QED
    BY <1>1, <1>2, <1>4, <1>7, <2>1, <2>2, QueuedResult DEF Refused, Aside, R
<1>8. CASE p.fine
  <2>1. /\ u \in ServerType /\ u.state = "REQUEST_LINE" /\ u.up = TRUE /\ u.open = TRUE
        /\ u.buffer = c.buffer /\ u.disk = s.disk /\ ~u.MPFlag /\ ~u.multipart
        /\ ~u.content_type
        /\ u.upload_active => u.path = c.path /\ u.chunked = TRUE
    <3>1. CASE u = s
      <4> HIDE DEF u
      <4> QED
        BY <1>0, <1>2, <3>1 DEF Aside
    <3>2. CASE u = UploadComplete(s)
      <4> HIDE DEF u
      <4>1. LET r == UploadComplete(s) IN
            /\ r.up = s.up /\ r.MPFlag = FALSE /\ r.multipart = s.multipart
            /\ r.content_type = s.content_type
            /\ r.disk = s.disk /\ r.upload_active = FALSE
            /\ r.buffer = s.buffer /\ r.state = s.state /\ r.open = s.open
            /\ r \in ServerType
        BY <1>2, CompleteFields
      <4> QED
        BY <1>0, <1>2, <3>2, <4>1 DEF Aside
    <3> QED
      BY <3>1, <3>2
  <2> HIDE DEF u
  <2>2. /\ u.buffer \o data # <<>> /\ (u.buffer \o data)[1] = c.buffer[1]
        /\ 1 \in 1..Len(u.buffer \o data)
    BY <1>0, <2>1, ConcatFirst
  <2>3. PICK k: /\ Unparsed(u, k, u.buffer \o data)
                /\ ReadRequest(u, data, keepAlive, opens, works) = Fallback(k)
    <3>1. ~IsLine((u.buffer \o data)[1]) /\ EndsLine((u.buffer \o data)[1])
      BY <1>0, <2>2
    <3>2. \E x \in 1..Len(u.buffer \o data): EndsLine((u.buffer \o data)[x])
      BY <2>2, <3>1
    <3> DEFINE buf == u.buffer \o data
    <3>3. PICK k: NoLine(u, k, buf, ReadRequest(u, data, keepAlive, opens, works))
      BY <2>1, <2>2, <3>1, NoLineRead
    <3> QED
      BY <3>2, <3>3 DEF NoLine
  <2>4. Mode(Clear(k), a + 1, q2)
    BY <1>6, <2>1, <2>2, <2>3 DEF Unparsed
  <2>5. Kept(k)
    BY <1>4, <2>1, <2>3 DEF Kept, Unparsed
  <2> QED
    BY <1>1, <1>8, <2>1, <2>3, <2>4, <2>5, RefusedResult DEF Unparsed, R
<1> QED
  BY <1>7, <1>8 DEF R

-----------------------------------------------------------------------------
(* A connection that is to fail; the body by length *)

\* The end of a line that has not been read is still to come.
LEMMA RestHasEnd ==
    ASSUME NEW q \in Seq(Tokens), NEW n \in 1..Len(q), HasEnd(q),
           \A x \in 1..n: ~EndsLine(q[x])
    PROVE  HasEnd(SubSeq(q, n + 1, Len(q)))
<1> DEFINE q2 == SubSeq(q, n + 1, Len(q))
<1>1. Len(q) \in Nat /\ \A i \in 1..Len(q): q[i] \in Tokens
  BY LenProperties, ElementOfSeq
<1>2. /\ q2 \in Seq(Tokens) /\ Len(q2) = Len(q) - n
      /\ \A i \in 1..Len(q) - n: q2[i] = q[(n + 1) + i - 1]
  <2>1. \A i \in n + 1..Len(q): q[i] \in Tokens
    BY <1>1
  <2> QED
    BY <1>1, <2>1, SubSeqProperties
<1>3. PICK k \in 1..Len(q): EndsLine(q[k])
  BY <1>1 DEF HasEnd
<1>4. k > n
  BY <1>1, <1>3
<1>5. k - n \in 1..Len(q) - n /\ (n + 1) + (k - n) - 1 = k
  BY <1>1, <1>4
<1>6. k - n \in DOMAIN q2
  BY <1>1, <1>2, <1>5
<1>7. q2[k - n] = q[k]
  BY <1>2, <1>5
<1> HIDE DEF q2
<1>8. HasEnd(q2)
  BY <1>3, <1>6, <1>7 DEF HasEnd
<1> QED
  BY <1>8 DEF q2

\* The units that recv gives.
LEMMA FirstUnits ==
    ASSUME NEW q \in Seq(Tokens), NEW n \in 1..Len(q)
    PROVE  LET data == SubSeq(q, 1, n) IN
           /\ data \in Seq(Tokens) /\ Len(data) = n /\ data # <<>>
           /\ \A x \in 1..n: data[x] = q[x]
<1>1. Len(q) \in Nat /\ \A i \in 1..n: q[i] \in Tokens
  BY LenProperties, ElementOfSeq
<1>2. /\ SubSeq(q, 1, n) \in Seq(Tokens) /\ Len(SubSeq(q, 1, n)) = n
      /\ \A i \in 1..n: SubSeq(q, 1, n)[i] = q[1 + i - 1]
  BY <1>1, SubSeqProperties
<1> QED
  BY <1>1, <1>2, EmptySeq

\* A connection that is to fail fails, or waits for the end of a line.
LEMMA DoomedRead ==
    ASSUME Sane, NEW a \in Nat, NEW c \in ServerType, c.open = TRUE, c.up = TRUE,
           c.out.queued = FALSE, Kept(c), ~c.MPFlag, ~c.multipart, ~c.content_type, Files(c, a),
           NEW q \in Seq(Tokens), Doomed(c, a, q), NEW n \in 1..Len(q),
           NEW keepAlive, NEW opens, NEW works
    PROVE  Result(ReadRequest(c, SubSeq(q, 1, n), keepAlive, opens, works), a,
                  SubSeq(q, n + 1, Len(q)))
<1> DEFINE data == SubSeq(q, 1, n)
           q2 == SubSeq(q, n + 1, Len(q))
           buf == c.buffer \o data
           r == ReadRequest(c, data, keepAlive, opens, works)
<1>1. /\ data \in Seq(Tokens) /\ Len(data) = n /\ data # <<>>
      /\ \A x \in 1..n: data[x] = q[x]
  BY FirstUnits
<1>2. c.buffer \in Seq(Tokens) /\ q # <<>>
  BY Fields, EmptySeq
<1> HIDE DEF data
<1>3. buf # <<>> /\ ~IsLine(buf[1])
  <2>1. CASE c.buffer = <<>>
    <3>1. buf = data
      BY <1>1, <2>1, ConcatEmptySeq
    <3>2. ~IsLine(q[1])
      BY <1>2, <2>1 DEF Doomed, NotLine
    <3> QED
      BY <1>1, <3>1, <3>2
  <2>2. CASE c.buffer # <<>>
    BY <1>1, <1>2, <2>2, ConcatFirst DEF Doomed
  <2> QED
    BY <2>1, <2>2
<1>4. PICK k: NoLine(c, k, buf, r)
  BY <1>1, <1>3, NoLineRead DEF Doomed
<1>5. Unparsed(c, k, buf)
  BY <1>4 DEF NoLine
<1>6. /\ ~Easy /\ ~k.upload_active /\ k.up = TRUE /\ ~k.MPFlag /\ ~k.multipart
      /\ ~k.content_type
      /\ k.open = TRUE /\ k.out.queued = FALSE /\ Kept(k) /\ Files(k, a)
      /\ k.buffer # <<>> /\ ~IsLine(k.buffer[1]) /\ k \in ServerType
  BY <1>3, <1>5 DEF Unparsed, Doomed, Kept, Files
<1>7. CASE \E x \in 1..Len(buf): EndsLine(buf[x])
  <2>1. r = Fallback(k)
    BY <1>4, <1>7 DEF NoLine
  <2>2. Same(k, Clear(k)) /\ Clear(k).state = "REQUEST_LINE"
    BY <1>6, ClearFields
  <2>3. Heard(a + 1, q2)
    BY HeardNext DEF Doomed
  <2>4. Files(k, a + 1)
    <3>1. \A f \in k.disk: f.req \in Nat
      BY <1>6, Fields, RequestsAre
    <3> QED
      BY <1>6, <3>1 DEF Files
  <2>5. Files(Clear(k), a + 1)
    BY <2>2, <2>4, FilesSame
  <2>6. Mode(Clear(k), a + 1, q2)
    BY <1>6, <2>2, <2>3, <2>5, DoomedMode DEF Same
  <2> QED
    BY <1>6, <2>1, <2>6, RefusedResult DEF data
<1>8. CASE \A x \in 1..Len(buf): ~EndsLine(buf[x])
  <2>1. r = k /\ k.state = "REQUEST_LINE"
    BY <1>4, <1>8 DEF NoLine
  <2>2. \A x \in 1..n: ~EndsLine(q[x])
    <3> TAKE x \in 1..n
    <3>1. /\ Len(c.buffer) \in Nat
          /\ Len(buf) = Len(c.buffer) + Len(data)
          /\ \A i \in 1..Len(c.buffer) + Len(data): buf[i] =
               IF i <= Len(c.buffer) THEN c.buffer[i] ELSE data[i - Len(c.buffer)]
      <4> DEFINE s == c.buffer
      <4>1. s \in Seq(Tokens) /\ data \in Seq(Tokens)
        BY <1>1, <1>2
      <4> HIDE DEF s
      <4>2. /\ Len(s \o data) = Len(s) + Len(data)
            /\ \A i \in 1..Len(s) + Len(data): (s \o data)[i] =
                 IF i <= Len(s) THEN s[i] ELSE data[i - Len(s)]
        BY <4>1, ConcatProperties
      <4>3. Len(s) \in Nat
        BY <4>1, LenProperties
      <4> QED
        BY <4>2, <4>3 DEF s
    <3> HIDE DEF buf
    <3>2. Len(c.buffer) + x \in 1..Len(buf) /\ buf[Len(c.buffer) + x] = data[x]
      <4> DEFINE l == Len(c.buffer)
      <4>1. l \in Nat /\ Len(buf) = l + n
        BY <1>1, <3>1
      <4>2. \A i \in 1..l + n: buf[i] = IF i <= l THEN c.buffer[i] ELSE data[i - l]
        BY <1>1, <3>1
      <4> HIDE DEF l
      <4>3. l + x \in 1..l + n /\ ~(l + x <= l) /\ (l + x) - l = x
        BY <4>1
      <4>4. buf[l + x] = data[x]
        BY <4>2, <4>3
      <4> QED
        BY <4>1, <4>3, <4>4 DEF l
    <3> QED
      BY <1>1, <1>8, <3>2
  <2>3. HasEnd(q) => HasEnd(q2)
    BY <2>2, RestHasEnd
  <2>4. Heard(a, q2)
    BY <2>3 DEF Doomed, Heard
  <2>5. Mode(k, a, q2)
    BY <1>6, <2>1, <2>4, DoomedMode
  <2> QED
    BY <1>6, <2>1, <2>5 DEF Result, data
<1> QED
  BY <1>7, <1>8

-----------------------------------------------------------------------------
\* The bytes of a plain upload that are no more than it waits for.
LEMMA LengthBody ==
    ASSUME NEW c \in ServerType, c.chunked = FALSE, ~c.MPFlag, NEW data \in Seq(Tokens),
           Len(data) <= c.remaining, NEW opens, NEW works
    PROVE  LET p == ProcessBody(c, data, opens, works) IN
           /\ p.server = WriteBody(c, data, works)
           /\ p.fine = Written(c, data, works)
           /\ p.done = FALSE
<1>1. SubSeq(data, 1, Lesser(Len(data), c.remaining)) = data
  <2>1. Lesser(Len(data), c.remaining) = Len(data)
    BY DEF Lesser
  <2> QED
    BY <2>1, SubSeqFull
<1> DEFINE good == WriteBody(c, data, works)
           fine == Written(c, data, works)
<1>2. ProcessBody(c, data, opens, works) =
        [server |-> good, fine |-> fine, done |-> FALSE]
  <2>1. (c.chunked /\ Decoded(c, data).state = "COMPLETE") = FALSE
    OBVIOUS
  <2>2. (c.MPFlag \/ Written(c, data, works)) = Written(c, data, works)
    BY DEF Written
  <2> QED
    BY <1>1, <2>1, <2>2, Zenon DEF ProcessBody
<1> HIDE DEF good, fine
<1>3. LET p == ProcessBody(c, data, opens, works) IN
      p.server = good /\ p.fine = fine /\ p.done = FALSE
  BY <1>2
<1> QED
  BY <1>3 DEF good, fine

LEMMA LengthRead ==
    ASSUME NEW c \in ServerType, c.chunked = FALSE, ~c.MPFlag, NEW data \in Seq(Tokens),
           Len(data) <= c.remaining, NEW keepAlive, NEW opens, NEW works
    PROVE  LET W == WriteBody(c, data, works)
           IN  ReadUpload(c, data, keepAlive, opens, works) =
                 IF ~Written(c, data, works) THEN W
                 ELSE IF W.remaining = 0 \/ W.mp_state = "END" THEN UploadComplete(W)
                 ELSE W
<1> DEFINE W == WriteBody(c, data, works)
           fine == Written(c, data, works)
           p == ProcessBody(c, data, opens, works)
<1>1. p.server = W /\ p.fine = fine /\ p.done = FALSE
  BY LengthBody
<1>2. SubSeq(data, Lesser(Len(data), c.remaining) + 1, Len(data)) = <<>>
  <2>1. Lesser(Len(data), c.remaining) = Len(data)
    BY DEF Lesser
  <2>2. SubSeq(data, Len(data) + 1, Len(data)) = <<>>
    BY SubSeqEmpty
  <2> QED
    BY <2>1, <2>2
<1> HIDE DEF W, fine, p
<1>3. ReadUpload(c, data, keepAlive, opens, works) =
        LET u == IF p.server.remaining = 0 \/ p.done \/ p.server.mp_state = "END"
                 THEN UploadComplete(p.server) ELSE p.server
        IN  IF ~p.fine THEN p.server
            ELSE IF SubSeq(data, Lesser(Len(data), c.remaining) + 1, Len(data)) = <<>> THEN u
            ELSE ReadRequest(u, SubSeq(data, Lesser(Len(data), c.remaining) + 1, Len(data)),
                             keepAlive, opens, works)
  BY DEF ReadUpload, p
<1>4. ReadUpload(c, data, keepAlive, opens, works) =
                 IF ~fine THEN W
                 ELSE IF W.remaining = 0 \/ W.mp_state = "END" THEN UploadComplete(W)
                 ELSE W
  BY <1>1, <1>2, <1>3
<1> QED
  BY <1>4 DEF W, fine

-----------------------------------------------------------------------------
(* The reads of an upload *)

\* The bytes after a write that has failed are an error again.
LEMMA ZombieRead ==
    ASSUME Sane, NEW a \in Nat, a = Len(answers), NEW c \in ServerType,
           c.open = TRUE, c.up = TRUE, Kept(c), ~c.MPFlag, ~c.multipart, ~c.content_type,
           Files(c, a),
           NEW q, Zombie(c, a, q), NEW data, NEW q2, NEW keepAlive, NEW opens, NEW works
    PROVE  Result(ReadUpload(c, data, keepAlive, opens, works), a, q2)
<1> DEFINE taken == SubSeq(data, 1, Lesser(Len(data), c.remaining))
           p == ProcessBody(c, data, opens, works)
<1>0. c.chunked = FALSE /\ c.MPFlag = FALSE /\ c.upload_active = TRUE /\ ~Easy
  BY Fields DEF Zombie
<1>1. ~Written(c, taken, works)
  BY DEF Zombie, Written
<1> HIDE DEF taken
<1>2. p = [server |-> WriteBody(c, taken, works), fine |-> FALSE,
           done |-> FALSE]
  <2>1. (c.chunked /\ Decoded(c, data).state = "COMPLETE") = FALSE
        /\ (c.MPFlag \/ Written(c, taken, works)) = FALSE
    BY <1>0, <1>1
  <2>2. ~c.chunked /\ ~c.MPFlag
    BY <1>0
  <2> QED
    BY <2>1, <2>2, Zenon DEF ProcessBody, taken
<1>3. p.server = WriteBody(c, taken, works) /\ ~p.fine
  BY <1>1, <1>2
<1> HIDE DEF p
<1>4. ReadUpload(c, data, keepAlive, opens, works) = WriteBody(c, taken, works)
  BY <1>3 DEF ReadUpload, p
<1>5. PICK k \in ServerType:
           /\ WriteBody(c, taken, works) = Fallback(k)
           /\ Beside(c, k) /\ Untouched(c, k) /\ OthersKept(c, k)
           /\ k.file = "bad" /\ k.remaining = c.remaining
           /\ \A f \in k.disk: f.req # c.path
  BY <1>1, RefuseFields
<1>6. Same(k, Clear(k)) /\ Clear(k).state = "REQUEST_LINE"
  BY ClearFields
<1>7. Kept(k)
  BY <1>5 DEF Kept, OthersKept, Zombie
<1>8. Files(Clear(k), a + 1)
  <2>1. \A f \in k.disk: f.req \in Nat
    BY Fields, RequestsAre
  <2>2. Files(k, a + 1)
    BY <1>5, <2>1 DEF Files, OthersKept
  <2> QED
    BY <1>6, <2>2, FilesSame
<1>9. Zombie(Clear(k), a + 1, q2)
  <2>1. Heard(a + 1, q2)
    BY HeardNext DEF Zombie
  <2> QED
    BY <1>0, <1>5, <1>6, <2>1 DEF Zombie, Same, Beside
<1>10. Mode(Clear(k), a + 1, q2)
  BY <1>0, <1>5, <1>6, <1>8, <1>9 DEF Mode, Same, Beside
<1> QED
  BY <1>4, <1>5, <1>7, <1>10, RefusedResult DEF Beside

\* An upload in progress, at what it has stored.
LEMMA UploadingWorking ==
    ASSUME NEW a \in Nat, a = Len(answers), NEW c \in ServerType, c.open = TRUE,
           c.up = TRUE, Kept(c), ~c.MPFlag, ~c.multipart, ~c.content_type,
           Files(c, a), Uploading(c, a), ByLength(a + 1)
    PROVE  Working(c, a)
<1>1. c.chunked = FALSE
  BY Fields DEF Uploading
<1>2. \A f \in c.disk: f.req \in Nat
  BY Fields, RequestsAre
<1>3. \A f \in c.disk: \/ f.req <= a /\ (ByLength(f.req) => f.data = Content(f.req))
                       \/ f.req = a + 1
  BY <1>2 DEF Files, Uploading
<1> QED
  BY <1>1, <1>3 DEF Working, Uploading

\* The bytes of a plain upload.
LEMMA PlainRead ==
    ASSUME Sane, NEW a \in Nat, a = Len(answers), NEW c \in ServerType,
           c.open = TRUE, c.up = TRUE, c.out.queued = FALSE, Kept(c),
           ~c.MPFlag, ~c.multipart, ~c.content_type, Files(c, a),
           NEW q \in Seq(Tokens), Plain(c, a, q), NEW n \in 1..Len(q),
           NEW keepAlive, NEW opens, NEW works
    PROVE  Result(ReadUpload(c, SubSeq(q, 1, n), keepAlive, opens, works), a,
                  SubSeq(q, n + 1, Len(q)))
<1> DEFINE q2 == SubSeq(q, n + 1, Len(q))
<1>1. PICK m \in 0..1: c.remaining = 2 - m /\ At(a + 1, 3 + m, q)
                       /\ Stored(c, Toks(c.path, 3, m))
  BY DEF Plain
<1>2. /\ a + 1 \in Requests /\ c.path = a + 1 /\ ask[a + 1] = "upload" /\ Size(a + 1) = 4
      /\ c.MPFlag = FALSE /\ c.upload_active = TRUE
  BY Fields, KindFacts DEF Plain, Uploading
<1>3. PlainAt(c, a, m)
  <2>1. Working(c, a)
    BY <1>2, UploadingWorking DEF Plain, ByLength
  <2> QED
    BY <1>1, <1>2, <2>1 DEF PlainAt, Plain, Uploading
<1>4. /\ SubSeq(q, 1, n) = Toks(a + 1, 3 + m, n) /\ (3 + m) + n - 1 <= Size(a + 1)
      /\ At(a + 1, (3 + m) + n, q2)
  <2>1. a + 1 \in Nat /\ a + 1 >= 1 /\ 3 + m \in Nat /\ 3 + m >= 1
    OBVIOUS
  <2> HIDE DEF q2
  <2> QED
    BY <1>1, <2>1, AtCut DEF q2
<1> HIDE DEF q2
<1> DEFINE data == Toks(a + 1, 3 + m, n)
           W == WriteBody(c, data, works)
<1>5. n \in 1..2 /\ m + n <= 2 /\ n \in Nat
  <2>1. n \in Nat /\ n >= 1
    BY LenProperties
  <2> QED
    BY <1>2, <1>4, <2>1
<1>6. data \in Seq(Tokens) /\ Len(data) = n
  <2>1. 3 + m \in Nat /\ 3 + m >= 1
    OBVIOUS
  <2> QED
    BY <1>2, <1>4, <1>5, <2>1, ToksTyped
<1> HIDE DEF data
<1>7. ReadUpload(c, data, keepAlive, opens, works) =
        IF ~Written(c, data, works) THEN W
        ELSE IF W.remaining = 0 \/ W.mp_state = "END" THEN UploadComplete(W) ELSE W
  <2>1. Len(data) <= c.remaining /\ c.chunked = FALSE
    BY <1>1, <1>3, <1>5, <1>6 DEF PlainAt, Working
  <2> QED
    BY <1>6, <2>1, LengthRead
<1> HIDE DEF W
<1>8. Result(ReadUpload(c, data, keepAlive, opens, works), a, q2)
  <2>1. CASE ~Written(c, data, works)
    <3>1. (3 + m) + n \in 3..5
      BY <1>5
    <3> QED
      BY <1>3, <1>4, <1>7, <2>1, <3>1, PlainRefused DEF W
  <2>2. CASE Written(c, data, works)
    <3>1. PlainAt(W, a, m + n) /\ SameStage(c, W)
      BY <1>3, <1>5, <2>2, PlainWrite DEF W, data
    <3>2. W.remaining = 2 - (m + n) /\ W.mp_state = "BOUNDARY"
      BY <3>1 DEF PlainAt
    <3>3. CASE m + n = 2
      <4>1. ReadUpload(c, data, keepAlive, opens, works) = UploadComplete(W)
        BY <1>7, <2>2, <3>2, <3>3
      <4>2. PlainAt(W, a, 2) /\ At(a + 1, 5, q2)
        <5>1. (3 + m) + n = 5
          BY <1>5, <3>3
        <5> QED
          BY <1>4, <3>1, <3>3, <5>1
      <4> QED
        BY <4>1, <4>2, PlainComplete
    <3>4. CASE m + n = 1
      <4>1. ReadUpload(c, data, keepAlive, opens, works) = W
        BY <1>7, <2>2, <3>2, <3>4
      <4>0. PICK r \in 0..1: r = 1
        OBVIOUS
      <4>2. PlainAt(W, a, r) /\ At(a + 1, 3 + r, q2) /\ W.upload_active = TRUE
        <5>1. (3 + m) + n = 3 + r
          BY <1>5, <3>4, <4>0
        <5> QED
          BY <1>2, <1>4, <3>1, <3>4, <4>0, <5>1 DEF SameStage
      <4> QED
        BY <4>1, <4>2, PlainProgress
    <3> QED
      BY <1>5, <3>3, <3>4
  <2> QED
    BY <2>1, <2>2
<1> QED
  BY <1>4, <1>8 DEF data, q2

-----------------------------------------------------------------------------
(* A connection at rest *)

\* Between two uploads.
Calm(c, a) ==
    /\ c \in ServerType /\ c.up = TRUE /\ ~c.MPFlag /\ ~c.multipart /\ ~c.content_type
    /\ c.upload_active = FALSE /\ c.chunked = FALSE /\ c.chunk_buf = <<>>
    /\ c.mp_buf = <<>> /\ c.mp_state = "BOUNDARY"
    /\ \A f \in c.disk: f.req <= a + 1 /\ (ByLength(f.req) => f.data = Content(f.req))

\* No upload is under way, request a + 1 is not answered.
Resting(c, a) ==
    /\ Typed(c) /\ Calm(c, a) /\ c.open = TRUE /\ c.out.queued = FALSE /\ Kept(c)
    /\ a = Len(answers) /\ a + 1 \in Requests
    /\ \A f \in c.disk: f.req <= a

\* What request a + 1 leaves behind when it is answered before it has been read.
Left(c, a, ok, q) ==
    \/ c.buffer = <<>> /\ \E p \in 2..Size(a + 1) + 1:
          At(a + 1, p, q) /\ (p = Size(a + 1) + 1 \/ (~Easy /\ Unread(a + 1, ok)))
    \/ ~Easy /\ Heard(a + 1, q) /\ c.buffer # <<>> /\ ~IsLine(c.buffer[1])
    \/ Off(a + 1, ok)

\* What is left over is a mode after the answer, if it is not like a request.
LEMMA LeftMode ==
    ASSUME Sane, NEW a \in Nat, a + 1 \in Requests, NEW c, Calm(c, a),
           NEW ok \in BOOLEAN, NEW q, Left(c, a, ok, q)
    PROVE  Off(a + 1, ok) \/ Mode(Clear(c), a + 1, q)
<1>1. Same(c, Clear(c)) /\ Clear(c).state = "REQUEST_LINE"
  BY ClearFields DEF Calm
<1>2. Files(Clear(c), a + 1)
  BY <1>1 DEF Calm, Same, Files
<1>3. /\ Clear(c).up /\ ~Clear(c).MPFlag /\ ~Clear(c).multipart /\ ~Clear(c).content_type
      /\ ~Clear(c).upload_active
  BY <1>1 DEF Calm, Same
<1>4. CASE c.buffer = <<>> /\ \E p \in 2..Size(a + 1) + 1:
               At(a + 1, p, q) /\ (p = Size(a + 1) + 1 \/ (~Easy /\ Unread(a + 1, ok)))
  <2>1. PICK p \in 2..Size(a + 1) + 1:
               At(a + 1, p, q) /\ (p = Size(a + 1) + 1 \/ (~Easy /\ Unread(a + 1, ok)))
    BY <1>4
  <2>2. Quiet(Clear(c))
    BY <1>1, <1>4 DEF Calm, Same, Quiet
  <2>3. p \in Nat /\ p >= 2 /\ p <= Size(a + 1) + 1
    BY SizeIs
  <2> QED
    BY <1>1, <1>2, <1>3, <2>1, <2>2, <2>3, LeftoverMode
<1>5. CASE ~Easy /\ Heard(a + 1, q) /\ c.buffer # <<>> /\ ~IsLine(c.buffer[1])
  BY <1>1, <1>2, <1>3, <1>5, DoomedMode DEF Same
<1> QED
  BY <1>4, <1>5 DEF Left

LEMMA RestingRefused ==
    ASSUME Sane, NEW a \in Nat, NEW c, Resting(c, a), NEW q, Left(c, a, FALSE, q)
    PROVE  Result(Fallback(c), a, q)
<1>1. Off(a + 1, FALSE) \/ Mode(Clear(c), a + 1, q)
  BY LeftMode DEF Resting
<1> QED
  BY <1>1, RefusedResult DEF Resting, Calm

\* An error changes nothing else that matters here.
LEMMA RestingWith ==
    ASSUME NEW a \in Nat, NEW c, Resting(c, a), NEW d, Typed(d), d.up = c.up,
           d.open = c.open, d.out = c.out, ~d.MPFlag, ~d.multipart, ~d.content_type,
           d.upload_active = c.upload_active, d.chunked = c.chunked,
           d.chunk_buf = c.chunk_buf, d.mp_buf = c.mp_buf, d.mp_state = c.mp_state,
           d.disk = c.disk
    PROVE  Resting(d, a)
<1>1. Kept(d)
  BY DEF Resting, Kept
<1> QED
  BY <1>1 DEF Resting, Calm, Typed

\* The end of startUpload when the body is to go on.
Activated(d) == [d EXCEPT !.upload_active = TRUE]

\* An upload that is to go on is where it was.
LEMMA ActivatedFields ==
    ASSUME NEW d \in ServerType
    PROVE  LET x == Activated(d) IN
           /\ x \in ServerType /\ x.upload_active = TRUE
           /\ x.up = d.up /\ x.MPFlag = d.MPFlag /\ x.multipart = d.multipart
           /\ x.content_type = d.content_type
           /\ x.disk = d.disk /\ x.path = d.path /\ x.open = d.open /\ x.out = d.out
           /\ x.chunked = d.chunked /\ x.buffer = d.buffer /\ x.chunk_buf = d.chunk_buf
           /\ x.mp_buf = d.mp_buf /\ x.mp_state = d.mp_state /\ x.state = d.state
           /\ x.remaining = d.remaining /\ x.file = d.file /\ x.rd = d.rd
<1>1. Activated(d) \in ServerType
  BY Literals, Zenon DEF ServerType, Activated
<1> QED
  BY <1>1 DEF ServerType, Activated

LEMMA WorkingActivated ==
    ASSUME NEW d, NEW a, Working(d, a) PROVE Working(Activated(d), a)
<1>1. d \in ServerType
  BY DEF Working
<1>2. Kept(Activated(d))
  BY <1>1, ActivatedFields DEF Kept, Working
<1> QED
  BY <1>1, <1>2, ActivatedFields DEF Working

LEMMA PlainActivated ==
    ASSUME NEW d, NEW a, NEW m, PlainAt(d, a, m) PROVE PlainAt(Activated(d), a, m)
<1>1. d \in ServerType
  BY DEF PlainAt, Working
<1> DEFINE x == Activated(d)
<1>2. /\ x.MPFlag = d.MPFlag /\ x.disk = d.disk /\ x.path = d.path /\ x.out = d.out
      /\ x.mp_buf = d.mp_buf /\ x.mp_state = d.mp_state
      /\ x.remaining = d.remaining /\ x.file = d.file
  BY <1>1, ActivatedFields
<1>3. Working(x, a)
  BY WorkingActivated DEF PlainAt
<1> HIDE DEF x
<1>4. PlainAt(x, a, m)
  BY <1>2, <1>3 DEF PlainAt, Stored, Holds
<1> QED
  BY <1>4 DEF x

\* clear() leaves an upload where it was.
LEMMA PlainClear ==
    ASSUME NEW d, NEW a, NEW m, PlainAt(d, a, m) PROVE PlainAt(Clear(d), a, m)
<1>1. d \in ServerType
  BY DEF PlainAt, Working
<1> QED
  BY <1>1, WorkingClear, ClearFields DEF PlainAt, Stored, Holds, Same

\* The upload that begins with a request at rest.
LEMMA WorkingStart ==
    ASSUME NEW a \in Nat, NEW c, Resting(c, a), c.buffer = <<>>, ByLength(a + 1),
           NEW d \in ServerType, d.open = c.open, d.up = c.up, ~d.MPFlag, ~d.multipart,
           ~d.content_type,
           d.chunked = FALSE, d.buffer = c.buffer,
           d.chunk_buf = c.chunk_buf, d.path = a + 1, OthersKept(d, c)
    PROVE  Working(d, a)
<1>1. Kept(d)
  <2> SUFFICES ASSUME NEW j \in Requests \cap 1..Len(answers), ByLength(j), answers[j].ok
               PROVE  \E f \in d.disk: f.req = j
    BY DEF Kept
  <2>1. PICK f \in c.disk: f.req = j
    BY DEF Resting, Kept
  <2>2. j # d.path
    BY DEF Resting
  <2> QED
    BY <2>1, <2>2 DEF OthersKept
<1>2. \A f \in d.disk: \/ f.req <= a /\ (ByLength(f.req) => f.data = Content(f.req))
                       \/ f.req = a + 1
  BY DEF OthersKept, Resting, Calm
<1> QED
  BY <1>1, <1>2 DEF Working, Resting, Calm

=============================================================================
