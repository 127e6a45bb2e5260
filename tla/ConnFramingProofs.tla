------------------------- MODULE ConnFramingProofs --------------------------
(***************************************************************************)
(* Theorems about ConnFraming, the second part: the reads of a new request *)
(* with its head and the beginning of its body, the other steps, and the   *)
(* theorems.  Each lemma on read_client says that a connection in one mode *)
(* is in a mode again, has an answer queued, or is closed (Result).        *)
(***************************************************************************)
EXTENDS ConnFramingBody

-----------------------------------------------------------------------------
\* The kinds of the requests, and the lengths of their bodies.
LEMMA KindIs ==
    ASSUME NEW j \in Requests PROVE Kind[j] = ask[j]
<1>1. j \in 0..N /\ j # 0
  BY RequestsAre, Constants
<1> QED
  BY <1>1 DEF Kind

LEMMA LengthOf ==
    ASSUME Sane, NEW j \in Requests
    PROVE  /\ ask[j] \in {"post", "big", "upload"} => Length(j) = 2
           /\ ask[j] \notin {"post", "big", "upload"} => Length(j) = 0
           /\ Chunked(j) <=> ask[j] = "chunked"
<1>1. Kind[j] = ask[j] /\ ask[j] \notin {"multi", "parts"}
  BY KindIs, NoMultipart DEF MultipartKinds
<1>2. \A kind \in {"post", "big", "upload"}: Len(Body(kind)) = 2
  BY DEF Body
<1> QED
  BY <1>1, <1>2 DEF Length, Chunked

-----------------------------------------------------------------------------
(* startUpload: its steps *)

\* The steps of startUpload up to the first bytes of the body.
Begun(c) == [c EXCEPT !.MPFlag = @ \/ c.multipart, !.path = c.req]
Awaiting(c, n, ch) == [c EXCEPT !.remaining = n, !.chunked = @ \/ ch]
ClosedFile(c) == [c EXCEPT !.file = "closed"]

\* The fields of these steps.
LEMMA BegunFields ==
    ASSUME NEW c, Typed(c), c.req # 0
    PROVE  LET m == Begun(c) IN
           /\ Typed(m) /\ m.MPFlag \in BOOLEAN /\ m.path = c.req
           /\ (c.MPFlag = FALSE /\ c.multipart = FALSE => m.MPFlag = FALSE)
           /\ (c.multipart = TRUE => m.MPFlag = TRUE)
           /\ m.up = c.up /\ m.multipart = c.multipart /\ m.content_type = c.content_type
           /\ m.disk = c.disk
           /\ m.upload_active = c.upload_active /\ m.chunked = c.chunked
           /\ m.buffer = c.buffer /\ m.chunk_buf = c.chunk_buf /\ m.mp_buf = c.mp_buf
           /\ m.mp_state = c.mp_state /\ m.open = c.open /\ m.out = c.out
           /\ m.state = c.state /\ m.req = c.req /\ m.body = c.body /\ m.file = c.file
           /\ m.rd = c.rd
<1>1. c \in ServerType /\ c.req \in 0..N /\ c.MPFlag \in BOOLEAN /\ c.multipart \in BOOLEAN
  BY Fields DEF Typed
<1>2. (c.MPFlag \/ c.multipart) \in BOOLEAN
  BY <1>1
<1>3. Begun(c) \in ServerType
  <2>1. c.req \in 0..N + 1
    BY <1>1, Constants
  <2> QED
    BY <1>1, <1>2, <2>1, Zenon DEF ServerType, Begun
<1>4. Begun(c).path = c.req /\ c.req # NoPath
  BY <1>1, Constants DEF ServerType, Begun, NoPath
<1> QED
  BY <1>1, <1>3, <1>4 DEF ServerType, Begun, Typed

LEMMA AwaitingFields ==
    ASSUME NEW c, Typed(c), NEW n \in Nat, n < SizeMax, NEW ch \in BOOLEAN
    PROVE  LET m == Awaiting(c, n, ch) IN
           /\ Typed(m) /\ m.MPFlag = c.MPFlag /\ m.path = c.path
           /\ m.up = c.up /\ m.multipart = c.multipart /\ m.content_type = c.content_type
           /\ m.disk = c.disk
           /\ m.upload_active = c.upload_active /\ m.chunked \in BOOLEAN
           /\ (c.chunked = FALSE /\ ch = FALSE => m.chunked = FALSE)
           /\ (ch = TRUE => m.chunked = TRUE)
           /\ m.buffer = c.buffer /\ m.chunk_buf = c.chunk_buf /\ m.mp_buf = c.mp_buf
           /\ m.mp_state = c.mp_state /\ m.open = c.open /\ m.out = c.out
           /\ m.state = c.state /\ m.req = c.req /\ m.body = c.body /\ m.file = c.file
           /\ m.remaining = n /\ m.rd = c.rd
<1>1. c \in ServerType /\ c.chunked \in BOOLEAN
  BY Fields DEF Typed
<1>2. (c.chunked \/ ch) \in BOOLEAN
  BY <1>1
<1>3. Awaiting(c, n, ch) \in ServerType
  BY <1>1, <1>2, Zenon DEF ServerType, Awaiting
<1> QED
  BY <1>1, <1>3, SMTT(30) DEF ServerType, Awaiting, Typed

LEMMA ClosedFields ==
    ASSUME NEW c, Typed(c)
    PROVE  LET m == ClosedFile(c) IN
           /\ Typed(m) /\ m.MPFlag = c.MPFlag /\ m.path = c.path
           /\ m.up = c.up /\ m.multipart = c.multipart /\ m.content_type = c.content_type
           /\ m.disk = c.disk
           /\ m.upload_active = c.upload_active /\ m.chunked = c.chunked
           /\ m.buffer = c.buffer /\ m.chunk_buf = c.chunk_buf /\ m.mp_buf = c.mp_buf
           /\ m.mp_state = c.mp_state /\ m.open = c.open /\ m.out = c.out
<1>1. c \in ServerType
  BY DEF Typed
<1>2. ClosedFile(c) \in ServerType
  BY <1>1, Literals, Zenon DEF ServerType, ClosedFile
<1> QED
  BY <1>1, <1>2 DEF ServerType, ClosedFile, Typed

\* startUpload in these steps.
LEMMA StartIs ==
    ASSUME NEW c, NEW opens, NEW works
    PROVE  LET m == Begun(c)
               o == IF m.MPFlag THEN m ELSE Open(m, opens)
               r == Awaiting(o, Length(c.req), Chunked(c.req) /\ c.body # <<>>)
               p == ProcessBody(r, c.body, opens, works)
           IN  StartUpload(c, opens, works) =
               IF c.multipart /\ ~c.content_type THEN StartUpload(c, opens, works)
               ELSE IF ~m.MPFlag /\ ~Opens(m, opens) THEN o
               ELSE IF c.body = <<>> THEN Started(r, FALSE)
               ELSE IF p.fine THEN Started(Clear(p.server), p.done)
               ELSE p.server
BY DEF StartUpload, Begun, Awaiting

\* The refusal of startUpload: a file that does not open.
LEMMA StartRefused ==
    ASSUME Sane, NEW a \in Nat, NEW c, Resting(c, a), c.req = a + 1,
           NEW q, Left(c, a, FALSE, q), NEW opens, ~Opens(Begun(c), opens)
    PROVE  Result(Open(Begun(c), opens), a, q)
<1>1. Typed(c) /\ ~c.MPFlag /\ ~c.multipart /\ ~c.content_type /\ c.req # 0
  BY DEF Resting, Calm
<1>2. c.MPFlag = FALSE /\ c.multipart = FALSE
  BY <1>1, Fields DEF Typed
<1> DEFINE m == Begun(c)
<1>3. /\ Typed(m) /\ m.MPFlag = FALSE /\ m.up = c.up /\ m.multipart = c.multipart
      /\ m.content_type = c.content_type
      /\ m.disk = c.disk /\ m.upload_active = c.upload_active /\ m.chunked = c.chunked
      /\ m.buffer = c.buffer /\ m.chunk_buf = c.chunk_buf /\ m.mp_buf = c.mp_buf
      /\ m.mp_state = c.mp_state /\ m.open = c.open /\ m.out = c.out
  BY <1>1, <1>2, BegunFields
<1>4. Open(m, opens) = Fallback(ClosedFile(m))
  BY DEF Open, ClosedFile
<1> HIDE DEF m
<1> DEFINE d == ClosedFile(m)
<1>5. /\ Typed(d) /\ d.MPFlag = FALSE /\ d.up = c.up /\ d.multipart = c.multipart
      /\ d.content_type = c.content_type
      /\ d.disk = c.disk /\ d.upload_active = c.upload_active /\ d.chunked = c.chunked
      /\ d.buffer = c.buffer /\ d.chunk_buf = c.chunk_buf /\ d.mp_buf = c.mp_buf
      /\ d.mp_state = c.mp_state /\ d.open = c.open /\ d.out = c.out
  BY <1>3, ClosedFields
<1> HIDE DEF d
<1>6. Resting(d, a)
  BY <1>1, <1>5, RestingWith
<1>7. Left(d, a, FALSE, q)
  BY <1>5 DEF Left
<1>8. Result(Fallback(d), a, q)
  BY <1>6, <1>7, RestingRefused
<1> QED
  BY <1>4, <1>8 DEF d, m

\* A plain upload that begins: its file is open and empty.
LEMMA PlainBegun ==
    ASSUME Sane, NEW a \in Nat, NEW c, Resting(c, a), c.req = a + 1, c.buffer = <<>>,
           ask[a + 1] = "upload", NEW opens, Opens(Begun(c), opens)
    PROVE  LET r == Awaiting(Open(Begun(c), opens), 2, FALSE) IN
           PlainAt(r, a, 0) /\ r.body = c.body /\ r.state = c.state
<1>1. /\ Typed(c) /\ Calm(c, a) /\ a + 1 \in Requests /\ c.open = TRUE
      /\ c.out.queued = FALSE
  BY DEF Resting
<1>2. c.MPFlag = FALSE /\ c.multipart = FALSE /\ c.content_type = FALSE
  BY <1>1, Fields DEF Calm, Typed
<1> DEFINE m == Begun(c)
<1>3. /\ Typed(m) /\ m.MPFlag = FALSE /\ m.path = a + 1 /\ m.up = c.up
      /\ m.multipart = FALSE /\ m.content_type = FALSE /\ m.disk = c.disk
      /\ m.upload_active = c.upload_active /\ m.chunked = c.chunked
      /\ m.buffer = c.buffer /\ m.chunk_buf = c.chunk_buf /\ m.mp_buf = c.mp_buf
      /\ m.mp_state = c.mp_state /\ m.open = c.open /\ m.out = c.out
      /\ m.state = c.state /\ m.body = c.body
  <2>1. c.req # 0
    OBVIOUS
  <2> QED
    BY <1>1, <1>2, <2>1, BegunFields
<1>4. Opens(m, opens)
  OBVIOUS
<1> HIDE DEF m
<1>5. m.path \in Requests /\ m \in ServerType
  BY <1>1, <1>3 DEF Typed
<1> DEFINE o == Open(m, opens)
<1>6. /\ o \in ServerType /\ Beside(m, o) /\ Untouched(m, o) /\ OthersKept(m, o)
      /\ o.out = m.out /\ o.file = "open"
      /\ o.disk = m.disk \cup {[req |-> m.path, data |-> <<>>]}
  BY <1>4, <1>5, OpenFields
<1>7. Typed(o)
  BY <1>3, <1>5, OpenTyped
<1>8. o.body = m.body
  BY <1>4, <1>5 DEF Open, ServerType
<1> HIDE DEF o
<1> DEFINE r == Awaiting(o, 2, FALSE)
<1>9. 2 < SizeMax /\ 2 \in Nat /\ FALSE \in BOOLEAN
  BY Constants
<1>10. /\ Typed(r) /\ r.MPFlag = o.MPFlag /\ r.path = o.path
       /\ r.up = o.up /\ r.multipart = o.multipart /\ r.content_type = o.content_type
       /\ r.disk = o.disk
       /\ (o.chunked = FALSE => r.chunked = FALSE)
       /\ r.buffer = o.buffer /\ r.chunk_buf = o.chunk_buf /\ r.mp_buf = o.mp_buf
       /\ r.mp_state = o.mp_state /\ r.open = o.open /\ r.out = o.out
       /\ r.state = o.state /\ r.body = o.body /\ r.file = o.file
       /\ r.remaining = 2
  BY <1>7, <1>9, AwaitingFields, ZenonT(30)
<1> HIDE DEF r
<1>11. /\ r \in ServerType /\ r.MPFlag = FALSE /\ r.path = a + 1
       /\ r.up = c.up /\ r.multipart = FALSE /\ r.content_type = FALSE
       /\ r.chunked = FALSE
       /\ r.buffer = c.buffer /\ r.chunk_buf = c.chunk_buf /\ r.mp_buf = c.mp_buf
       /\ r.mp_state = c.mp_state /\ r.open = c.open /\ r.out = c.out
       /\ r.state = c.state /\ r.body = c.body /\ r.file = "open"
       /\ r.disk = c.disk \cup {[req |-> a + 1, data |-> <<>>]}
  BY <1>1, <1>3, <1>6, <1>8, <1>10 DEF Typed, Beside, Untouched, Calm
<1>12. OthersKept(r, c)
  BY <1>11 DEF OthersKept
<1>13. ByLength(a + 1)
  BY DEF ByLength
<1>14. Working(r, a)
  BY <1>11, <1>12, <1>13, WorkingStart
<1>15. Holds(r, <<>>)
  <2>1. \A f \in c.disk: f.req <= a
    BY DEF Resting
  <2>2. \A f \in r.disk: f \in c.disk \/ f = [req |-> a + 1, data |-> <<>>]
    BY <1>11
  <2>3. [req |-> a + 1, data |-> <<>>] \in r.disk
    BY <1>11
  <2>4. \E f \in r.disk: f.req = r.path
    BY <1>11, <2>3
  <2>5. \A f \in r.disk: f.req = r.path => f.data = <<>>
    <3> SUFFICES ASSUME NEW f \in r.disk, f.req = a + 1 PROVE f.data = <<>>
      BY <1>11
    <3>1. f \notin c.disk
      BY <2>1
    <3> QED
      BY <2>2, <3>1
  <2> QED
    BY <2>4, <2>5, <1>11 DEF Holds
<1>16. PlainAt(r, a, 0)
  <2>1. Toks(a + 1, 3, 0) = <<>>
    BY ToksEmpty
  <2> QED
    BY <1>1, <1>10, <1>11, <1>14, <1>15, <2>1 DEF PlainAt, Stored, Calm
<1> QED
  BY <1>11, <1>16 DEF r, o, m

-----------------------------------------------------------------------------
(* startUpload of a plain upload *)

\* The end of startUpload: complete, or active.
LEMMA StartedDone == ASSUME NEW x PROVE Started(x, TRUE) = UploadComplete(x)
BY Zenon DEF Started

LEMMA StartedComplete ==
    ASSUME NEW x, x.mp_state = "END" \/ (x.chunked = FALSE /\ x.remaining = 0)
    PROVE  Started(x, FALSE) = UploadComplete(x)
<1>1. (~x.chunked /\ x.remaining = 0) \/ FALSE \/ x.mp_state = "END"
  OBVIOUS
<1> QED
  BY <1>1, Zenon DEF Started

LEMMA StartedOn ==
    ASSUME NEW x, x.mp_state # "END", ~(~x.chunked /\ x.remaining = 0)
    PROVE  Started(x, FALSE) = Activated(x)
<1>1. ~((~x.chunked /\ x.remaining = 0) \/ FALSE \/ x.mp_state = "END")
  BY Zenon
<1> QED
  BY <1>1, Zenon DEF Started, Activated

\* The first bytes of a body by length, and what startUpload makes of them.
FirstBytes(c, data, opens, works) ==
    LET p == ProcessBody(c, data, opens, works) IN
    IF p.fine THEN Started(Clear(p.server), p.done) ELSE p.server

\* data is the body of a plain upload or the beginning of it.
AllOfLength(r, data) ==
    /\ r \in ServerType /\ r.chunked = FALSE /\ ~r.MPFlag
    /\ data \in Seq(Tokens) /\ Len(data) <= r.remaining

\* What processBody makes of such bytes, and what startUpload then does.
FirstByLength(c, data, works) ==
    IF Written(c, data, works) THEN Started(Clear(WriteBody(c, data, works)), FALSE)
    ELSE WriteBody(c, data, works)

LEMMA LengthGoesOn ==
    ASSUME NEW c \in ServerType, c.chunked = FALSE, ~c.MPFlag, NEW data \in Seq(Tokens),
           Len(data) <= c.remaining, NEW opens, NEW works
    PROVE  FirstBytes(c, data, opens, works) = FirstByLength(c, data, works)
<1> DEFINE W == WriteBody(c, data, works)
           fine == Written(c, data, works)
           p == ProcessBody(c, data, opens, works)
<1>1. p.server = W /\ p.fine = fine /\ p.done = FALSE
  BY LengthBody
<1> HIDE DEF W, fine, p
<1>2. (IF p.fine THEN Started(Clear(p.server), p.done) ELSE p.server) =
        IF fine THEN Started(Clear(W), FALSE) ELSE W
  BY <1>1, Zenon
<1> QED
  BY <1>2, Zenon DEF W, fine, p, FirstBytes, FirstByLength

\* An upload by length is accepted: m knows its path, r its length.
Accepts(c, opens, m, r) ==
    /\ Length(c.req) = 2 /\ ~Chunked(c.req) /\ ~c.multipart
    /\ m = Begun(c) /\ ~m.MPFlag /\ Opens(m, opens)
    /\ r = Awaiting(Open(m, opens), 2, FALSE)

\* startUpload of an upload that is accepted.
LEMMA StartAccepts ==
    ASSUME NEW c, NEW opens, NEW works, NEW m, NEW r, Accepts(c, opens, m, r)
    PROVE  StartUpload(c, opens, works) = IF c.body = <<>> THEN Started(r, FALSE)
                                          ELSE FirstBytes(r, c.body, opens, works)
<1>1. (Chunked(c.req) /\ c.body # <<>>) = FALSE
  BY Zenon DEF Accepts
<1>2. r = Awaiting(IF m.MPFlag THEN m ELSE Open(m, opens), Length(c.req),
                   Chunked(c.req) /\ c.body # <<>>)
  BY <1>1, Zenon DEF Accepts
<1>3. ~(~m.MPFlag /\ ~Opens(m, opens))
  BY DEF Accepts
<1> QED
  BY <1>2, <1>3, StartIs, Zenon DEF FirstBytes, Accepts

\* The same with the bytes that have come.
LEMMA StartLength ==
    ASSUME NEW c, NEW opens, NEW works, NEW m, NEW r, Accepts(c, opens, m, r),
           AllOfLength(r, c.body)
    PROVE  StartUpload(c, opens, works) =
               IF c.body = <<>> THEN Started(r, FALSE)
               ELSE FirstByLength(r, c.body, works)
<1>1. ASSUME NEW data, AllOfLength(r, data)
      PROVE  FirstBytes(r, data, opens, works) = FirstByLength(r, data, works)
  BY <1>1, LengthGoesOn DEF AllOfLength
<1>2. FirstBytes(r, c.body, opens, works) = FirstByLength(r, c.body, works)
  BY <1>1, Zenon
<1> QED
  BY <1>2, StartAccepts, Zenon

\* The end of startUpload, and all of it, for a plain upload.
LEMMA PlainStarted ==
    ASSUME Sane, NEW a \in Nat, NEW n \in 0..2, NEW x, PlainAt(x, a, n),
           NEW q, At(a + 1, 3 + n, q)
    PROVE  Result(Started(x, FALSE), a, q)
<1>1. x.remaining = 2 - n /\ x.chunked = FALSE /\ x.mp_state = "BOUNDARY" /\ x \in ServerType
  BY DEF PlainAt, Working
<1>2. CASE n = 2
  <2>1. Started(x, FALSE) = UploadComplete(x)
    <3>1. x.mp_state = "END" \/ (x.chunked = FALSE /\ x.remaining = 0)
      BY <1>1, <1>2
    <3> QED
      BY <3>1, StartedComplete, Zenon
  <2>2. PlainAt(x, a, 2) /\ At(a + 1, 5, q)
    BY <1>2
  <2> QED
    BY <2>1, <2>2, PlainComplete
<1>3. CASE n # 2
  <2>1. Started(x, FALSE) = Activated(x)
    <3>1. x.mp_state # "END"
      BY <1>1
    <3>2. ~(~x.chunked /\ x.remaining = 0)
      BY <1>1, <1>3
    <3> QED
      BY <3>1, <3>2, StartedOn, Zenon
  <2>2. n \in 0..1
    BY <1>3
  <2>3. PlainAt(Activated(x), a, n)
    BY PlainActivated
  <2>4. Activated(x).upload_active = TRUE
    BY <1>1, ActivatedFields
  <2> QED
    BY <2>1, <2>2, <2>3, <2>4, PlainProgress
<1> QED
  BY <1>2, <1>3

LEMMA StartPlain ==
    ASSUME Sane, NEW a \in Nat, NEW c, Resting(c, a), c.req = a + 1, c.buffer = <<>>,
           ask[a + 1] = "upload", NEW n \in 0..2,
           c.body = Toks(a + 1, 3, n), NEW q, At(a + 1, 3 + n, q), NEW opens, NEW works
    PROVE  Result(StartUpload(c, opens, works), a, q)
<1>1. /\ Typed(c) /\ Calm(c, a) /\ a + 1 \in Requests
  BY DEF Resting
<1>2. c.multipart = FALSE /\ c.MPFlag = FALSE /\ c.content_type = FALSE
  BY <1>1, Fields DEF Typed, Calm
<1>3. Size(a + 1) = 4
  BY KindFacts
<1>4. Length(c.req) = 2 /\ ~Chunked(c.req)
  BY <1>1, KindIs, LengthOf
<1> DEFINE m == Begun(c)
<1>5. m.MPFlag = FALSE /\ m.path = a + 1
  <2>1. c.req # 0
    OBVIOUS
  <2> QED
    BY <1>1, <1>2, <2>1, BegunFields
<1>6. CASE ~Opens(m, opens)
  <2>1. ask[a + 1] \in Failing
    BY <1>5, <1>6 DEF Opens
  <2>2. ~Easy /\ Unread(a + 1, FALSE)
    BY <2>1 DEF Unread, Easy
  <2>3. 3 + n \in 2..Size(a + 1) + 1
    BY <1>3
  <2>4. Left(c, a, FALSE, q)
    BY <2>2, <2>3 DEF Left
  <2>5. StartUpload(c, opens, works) = Open(m, opens)
    BY <1>2, <1>5, <1>6, StartIs, Zenon
  <2> QED
    BY <1>6, <2>4, <2>5, StartRefused
<1>7. CASE Opens(m, opens)
  <2> DEFINE r == Awaiting(Open(m, opens), 2, FALSE)
             W == WriteBody(r, c.body, works)
  <2>1. PlainAt(r, a, 0) /\ r.body = c.body
    BY <1>7, PlainBegun
  <2> HIDE DEF m
  <2>3. m = Begun(c)
    BY DEF m
  <2> HIDE DEF r
  <2>2. r = Awaiting(Open(m, opens), 2, FALSE)
    BY DEF r
  <2>4. ~c.multipart /\ ~m.MPFlag
    BY <1>2, <1>5
  <2>a. r \in ServerType /\ r.chunked = FALSE /\ r.remaining = 2 /\ r.MPFlag = FALSE
    BY <2>1 DEF PlainAt, Working
  <2>b. c.body \in Seq(Tokens) /\ Len(c.body) = n
    <3>1. PICK t \in Nat: t = 3
      OBVIOUS
    <3>2. PICK j \in Requests: j = a + 1
      BY <1>1
    <3>3. n \in Nat /\ 3 + n - 1 <= Size(a + 1)
      BY <1>3
    <3>4. t + n - 1 <= Size(j) /\ c.body = Toks(j, t, n)
      BY <3>1, <3>2, <3>3
    <3>5. Toks(j, t, n) \in Seq(Tokens) /\ Len(Toks(j, t, n)) = n
      BY <3>1, <3>3, <3>4, ToksTyped
    <3> QED
      BY <3>4, <3>5
  <2>c. Len(c.body) <= r.remaining
    BY <2>a, <2>b
  <2>5. StartUpload(c, opens, works) =
             IF c.body = <<>> THEN Started(r, FALSE)
             ELSE IF Written(r, c.body, works) THEN Started(Clear(W), FALSE)
             ELSE W
    <3>2. Accepts(c, opens, m, r)
      BY <1>4, <1>7, <2>2, <2>3, <2>4, Zenon DEF Accepts
    <3>3. StartUpload(c, opens, works) =
             IF c.body = <<>> THEN Started(r, FALSE)
             ELSE FirstByLength(r, c.body, works)
      <4>1. AllOfLength(r, c.body)
        BY <2>a, <2>b, <2>c DEF AllOfLength
      <4> QED
        BY <3>2, <4>1, StartLength, Zenon
    <3> QED
      BY <3>3, Zenon DEF FirstByLength
  <2>6. CASE n = 0
    <3>1. c.body = <<>>
      BY <2>6, ToksEmpty
    <3>2. PlainAt(r, a, n)
      BY <2>1, <2>6
    <3>3. Result(Started(r, FALSE), a, q)
      BY <3>2, PlainStarted
    <3> QED
      BY <2>5, <3>1, <3>3, Zenon
  <2>7. CASE n # 0
    <3> HIDE DEF W
    <3>1. n \in 1..2 /\ 3 + n - 1 <= Size(a + 1)
      BY <2>7, <1>3
    <3>3. c.body # <<>>
      BY <3>1, <2>b
    <3>6. CASE ~Written(r, c.body, works)
      <4>1. StartUpload(c, opens, works) = W
        BY <2>5, <3>3, <3>6, Zenon
      <4>2. 3 + n \in 3..5 /\ 0 \in 0..1
        BY <3>1
      <4>3. Result(WriteBody(r, c.body, works), a, q)
        BY <2>1, <3>6, <4>2, PlainRefused
      <4> QED
        BY <4>1, <4>3 DEF W
    <3>7. CASE Written(r, c.body, works)
      <4>1. StartUpload(c, opens, works) = Started(Clear(W), FALSE)
        BY <2>5, <3>3, <3>7, Zenon
      <4>2. PICK z \in 0..1: z = 0
        OBVIOUS
      <4>3. z + n <= 2 /\ z + n = n /\ 3 + z = 3 /\ PlainAt(r, a, z)
        BY <3>1, <4>2, <2>1
      <4>4. c.body = Toks(a + 1, 3 + z, n)
        BY <4>3
      <4>5. PlainAt(W, a, z + n)
        BY <3>1, <3>7, <4>3, <4>4, PlainWrite DEF W
      <4>6. PlainAt(Clear(W), a, n)
        BY <4>3, <4>5, PlainClear
      <4> QED
        BY <4>1, <4>6, PlainStarted
    <3> QED
      BY <3>6, <3>7
  <2> QED
    BY <2>6, <2>7
<1> QED
  BY <1>6, <1>7

-----------------------------------------------------------------------------
(* A chunked upload *)

\* The chunked upload of request a + 1, begun and not answered.
Chunky(x, a) ==
    /\ x \in ServerType /\ x.up = TRUE /\ x.open = TRUE
    /\ ~x.MPFlag /\ ~x.multipart /\ ~x.content_type
    /\ x.path = a + 1 /\ a + 1 \in Requests /\ ask[a + 1] = "chunked" /\ ~Easy
    /\ a = Len(answers) /\ Kept(x)
    /\ \A f \in x.disk: \/ f.req <= a /\ (ByLength(f.req) => f.data = Content(f.req))
                        \/ f.req = a + 1

\* Its files, and the steps that leave it what it is.
LEMMA ChunkyFiles ==
    ASSUME NEW a \in Nat, NEW x, Chunky(x, a)
    PROVE  /\ \A f \in x.disk: f.req <= a + 1 /\ (ByLength(f.req) => f.data = Content(f.req))
           /\ Files(x, a + 1)
           /\ x.upload_active = TRUE => Files(x, a)
<1>1. ~ByLength(a + 1)
  BY DEF Chunky, ByLength
<1>2. ASSUME NEW f \in x.disk
      PROVE  /\ f.req <= a + 1 /\ (ByLength(f.req) => f.data = Content(f.req))
             /\ f.req <= a \/ f.req = x.path
  <2>1. \/ f.req <= a /\ (ByLength(f.req) => f.data = Content(f.req))
        \/ f.req = a + 1
    BY DEF Chunky
  <2>2. CASE f.req = a + 1
    BY <1>1, <2>2 DEF Chunky
  <2>3. f \in FileType
    BY Fields DEF Chunky, FileType
  <2>4. f.req \in Nat
    BY <2>3, RequestsAre DEF FileType
  <2>5. CASE f.req <= a /\ (ByLength(f.req) => f.data = Content(f.req))
    BY <2>4, <2>5
  <2> QED
    BY <2>1, <2>2, <2>5
<1> QED
  BY <1>2 DEF Files

LEMMA ChunkyAside ==
    ASSUME NEW a \in Nat, NEW c, Chunky(c, a), NEW d \in ServerType, Aside(c, d)
    PROVE  Chunky(d, a)
<1>1. Kept(d)
  <2> SUFFICES ASSUME NEW j \in Requests \cap 1..Len(answers), ByLength(j), answers[j].ok
               PROVE  \E f \in d.disk: f.req = j
    BY DEF Kept
  <2>1. PICK f \in c.disk: f.req = j
    BY DEF Chunky, Kept
  <2>2. j # c.path
    BY DEF Chunky
  <2> QED
    BY <2>1, <2>2 DEF Aside, OthersKept
<1>2. \A f \in d.disk: \/ f.req <= a /\ (ByLength(f.req) => f.data = Content(f.req))
                       \/ f.req = a + 1
  BY DEF OthersKept, Chunky, Aside
<1>3. d.up = TRUE /\ d.open = TRUE /\ ~d.MPFlag /\ ~d.multipart /\ ~d.content_type
      /\ d.path = a + 1
  BY DEF Chunky, Aside
<1> QED
  BY <1>1, <1>2, <1>3 DEF Chunky

LEMMA ChunkySame ==
    ASSUME NEW a, NEW c, Chunky(c, a)
    PROVE  Chunky(Clear(c), a) /\ Chunky(Activated(c), a)
<1>1. c \in ServerType
  BY DEF Chunky
<1>2. Same(c, Clear(c)) /\ Clear(c).open = c.open /\ Clear(c) \in ServerType
  BY <1>1, ClearFields
<1>3. Kept(Clear(c)) /\ Kept(Activated(c))
  <2>1. Clear(c).disk = c.disk /\ Activated(c).disk = c.disk
    BY <1>1, <1>2, ActivatedFields DEF Same
  <2> QED
    BY <2>1 DEF Kept, Chunky
<1>4. Chunky(Clear(c), a)
  BY <1>2, <1>3 DEF Chunky, Same
<1>5. Chunky(Activated(c), a)
  BY <1>1, <1>3, ActivatedFields DEF Chunky
<1> QED
  BY <1>4, <1>5

\* It is answered with a success, what is left of it being read as requests.
LEMMA ChunkyComplete ==
    ASSUME Sane, NEW a \in Nat, NEW x, Chunky(x, a), NEW q,
           \/ x.buffer = <<>> /\ x.mp_buf = <<>> /\ At(a + 1, 3, q)
           \/ x.buffer # <<>> /\ ~IsLine(x.buffer[1]) /\ Heard(a + 1, q)
    PROVE  Result(UploadComplete(x), a, q)
<1> DEFINE u == UploadComplete(x)
<1>1. x \in ServerType /\ x.up = TRUE /\ x.open = TRUE /\ x.path = a + 1 /\ ~Easy /\ Kept(x)
      /\ a + 1 \in Requests
      /\ ~x.multipart /\ ~x.content_type
  BY DEF Chunky
<1>2. /\ u.up = x.up /\ u.MPFlag = FALSE /\ u.multipart = x.multipart
      /\ u.content_type = x.content_type
      /\ u.disk = x.disk /\ u.upload_active = FALSE
      /\ u.chunked = FALSE /\ u.buffer = x.buffer /\ u.chunk_buf = <<>>
      /\ u.mp_buf = x.mp_buf /\ u.mp_state = "BOUNDARY"
      /\ u.open = x.open
      /\ u.rd = FALSE /\ u.out.to = x.path /\ u.out.ok = TRUE /\ u.out.queued = TRUE
      /\ u \in ServerType
  BY <1>1, CompleteFields
<1> HIDE DEF u
<1>3. Kept(u)
  BY <1>1, <1>2 DEF Kept
<1>4. Off(a + 1, TRUE) \/ Mode(Clear(u), a + 1, q)
  <2>1. Same(u, Clear(u)) /\ Clear(u).state = "REQUEST_LINE"
    BY <1>2, ClearFields
  <2>2. Files(Clear(u), a + 1)
    <3>1. \A f \in x.disk: f.req <= a + 1 /\ (ByLength(f.req) => f.data = Content(f.req))
      BY ChunkyFiles
    <3> QED
      BY <1>2, <2>1, <3>1 DEF Files, Same
  <2>3. /\ Clear(u).up /\ ~Clear(u).MPFlag /\ ~Clear(u).multipart /\ ~Clear(u).content_type
        /\ ~Clear(u).upload_active
    BY <1>1, <1>2, <2>1 DEF Same
  <2>4. CASE x.buffer = <<>> /\ x.mp_buf = <<>> /\ At(a + 1, 3, q)
    <3>1. Quiet(Clear(u))
      BY <1>2, <2>1, <2>4 DEF Quiet, Same
    <3>2. Size(a + 1) = 5
      BY KindFacts DEF Chunky
    <3>3. PICK p \in Nat: p = 3
      OBVIOUS
    <3>4. p >= 2 /\ p <= Size(a + 1) + 1 /\ At(a + 1, p, q) /\ ~Easy
      BY <1>1, <2>4, <3>2, <3>3
    <3>5. ask[a + 1] \in Nested => Unread(a + 1, TRUE)
      BY FramingAssumption DEF FramingAssumption, Chunky
    <3> QED
      BY <1>1, <2>1, <2>2, <2>3, <3>1, <3>3, <3>4, <3>5, LeftoverMode
  <2>5. CASE x.buffer # <<>> /\ ~IsLine(x.buffer[1]) /\ Heard(a + 1, q)
    <3>1. Clear(u).buffer # <<>> /\ ~IsLine(Clear(u).buffer[1])
      BY <1>2, <2>1, <2>5 DEF Same
    <3> QED
      BY <1>1, <2>1, <2>2, <2>3, <2>5, <3>1, DoomedMode
  <2> QED
    BY <2>4, <2>5
<1>5. Same(u, u)
  BY DEF Same
<1>6. ~ByLength(a + 1)
  BY DEF Chunky, ByLength
<1>7. u.open = TRUE /\ u.out.to = a + 1
  BY <1>1, <1>2
<1>8. Result(u, a, q)
  BY <1>1, <1>2, <1>3, <1>4, <1>5, <1>6, <1>7, QueuedResult
<1> QED
  BY <1>8 DEF u

\* Its body has failed.
LEMMA ChunkyRefused ==
    ASSUME Sane, NEW a \in Nat, NEW x, Chunky(x, a), Refused(x), x.upload_active = FALSE,
           NEW q, x.buffer # <<>>, ~IsLine(x.buffer[1]), Heard(a + 1, q)
    PROVE  Result(x, a, q)
<1>1. x \in ServerType /\ x.up = TRUE /\ x.open = TRUE /\ ~Easy /\ Kept(x)
      /\ ~x.MPFlag /\ ~x.multipart /\ ~x.content_type
  BY DEF Chunky
<1>2. Same(x, Clear(x)) /\ Clear(x).state = "REQUEST_LINE"
  BY <1>1, ClearFields
<1>3. Files(Clear(x), a + 1)
  BY <1>2, ChunkyFiles, FilesSame
<1>4. /\ Clear(x).up /\ ~Clear(x).MPFlag /\ ~Clear(x).multipart /\ ~Clear(x).content_type
      /\ ~Clear(x).upload_active
      /\ Clear(x).buffer # <<>> /\ ~IsLine(Clear(x).buffer[1])
  BY <1>1, <1>2 DEF Same
<1>5. Mode(Clear(x), a + 1, q)
  BY <1>1, <1>2, <1>3, <1>4, DoomedMode
<1> QED
  BY <1>1, <1>5 DEF Result, Queued, Refused

\* It goes on: what is left of it is read as chunks.
LEMMA ChunkyActive ==
    ASSUME Sane, NEW a \in Nat, NEW x, Chunky(x, a), x.upload_active = TRUE,
           x.chunked = TRUE, x.state = "REQUEST_LINE",
           NEW q, x.buffer # <<>>, ~IsLine(x.buffer[1]), EndsLine(x.buffer[1]),
           Heard(a + 1, q), Refused(x) \/ x.out.queued = FALSE,
           NEW p \in 4..5, At(a + 1, p, q)
    PROVE  Result(x, a, q)
<1>1. x \in ServerType /\ x.up = TRUE /\ x.open = TRUE /\ ~Easy /\ Kept(x)
      /\ ~x.MPFlag /\ ~x.multipart /\ ~x.content_type /\ x.path = a + 1 /\ a + 1 \in Requests
      /\ ask[x.path] = "chunked"
  BY DEF Chunky
<1>2. Same(x, Clear(x)) /\ Clear(x).state = "REQUEST_LINE"
  BY <1>1, ClearFields
<1>3. CASE Refused(x)
  <2>1. Files(Clear(x), a + 1)
    BY <1>2, ChunkyFiles, FilesSame
  <2>2. Chunk(Clear(x), a + 1, q)
    BY <1>1, <1>2 DEF Chunk, Same
  <2>3. Mode(Clear(x), a + 1, q)
    BY <1>1, <1>2, <2>1, <2>2 DEF Mode, Same
  <2> QED
    BY <1>1, <1>3, <2>3 DEF Result, Queued, Refused
<1>4. CASE x.out.queued = FALSE
  <2>1. Files(x, a)
    BY ChunkyFiles
  <2>2. Chunk(x, a, q)
    BY <1>1 DEF Chunk
  <2>3. Mode(x, a, q)
    BY <1>1, <2>1, <2>2 DEF Mode
  <2> QED
    BY <1>1, <1>4, <2>3 DEF Result
<1> QED
  BY <1>3, <1>4

-----------------------------------------------------------------------------
(* startUpload of a chunked upload: what it begins with *)

\* The chunked upload that begins with the request at rest in c.
ReadyFor(x, c, a) ==
    /\ Chunky(x, a) /\ Typed(x) /\ x.buffer = c.buffer /\ x.upload_active = FALSE
    /\ x.chunk_buf = <<>> /\ x.mp_buf = <<>> /\ x.mp_state = "BOUNDARY"
    /\ x.out.queued = FALSE /\ x.rd = c.rd /\ x.chunked = FALSE

\* It begins, its file opens, its length is not known.
LEMMA ChunkBegun ==
    ASSUME Sane, NEW a \in Nat, NEW c, Resting(c, a), c.req = a + 1,
           ask[a + 1] = "chunked"
    PROVE  ReadyFor(Begun(c), c, a)
<1>1. /\ Typed(c) /\ Calm(c, a) /\ a + 1 \in Requests /\ c.open = TRUE
      /\ c.out.queued = FALSE /\ Kept(c) /\ a = Len(answers)
      /\ \A f \in c.disk: f.req <= a
  BY DEF Resting
<1> DEFINE m == Begun(c)
<1>2. c.req # 0
  OBVIOUS
<1>3. /\ Typed(m) /\ m.path = a + 1 /\ m.up = c.up
      /\ m.multipart = c.multipart /\ m.content_type = c.content_type /\ m.disk = c.disk
      /\ m.upload_active = c.upload_active /\ m.chunked = c.chunked
      /\ m.buffer = c.buffer /\ m.chunk_buf = c.chunk_buf /\ m.mp_buf = c.mp_buf
      /\ m.mp_state = c.mp_state /\ m.open = c.open /\ m.out = c.out
      /\ m.rd = c.rd
  BY <1>1, <1>2, BegunFields
<1>4. ~m.MPFlag /\ ~m.multipart /\ ~m.content_type
  <2>1. c.MPFlag = FALSE /\ c.multipart = FALSE /\ ~c.content_type
    BY <1>1, Fields DEF Calm, Typed
  <2>2. m.MPFlag = FALSE
    BY <1>1, <1>2, <2>1, BegunFields
  <2> QED
    BY <1>3, <2>1, <2>2
<1> HIDE DEF m
<1>5. Kept(m)
  BY <1>1, <1>3 DEF Kept
<1>6. ~Easy
  <2>1. ask[a + 1] \in Kinds
    BY <1>1 DEF Sane, TypesInv, TypeOK
  <2> QED
    BY <2>1 DEF Easy
<1>7. Chunky(m, a)
  BY <1>1, <1>3, <1>4, <1>5, <1>6 DEF Chunky, Typed, Calm
<1>8. ReadyFor(m, c, a)
  BY <1>1, <1>3, <1>7 DEF ReadyFor, Calm
<1> QED
  BY <1>8 DEF m

LEMMA ChunkOpened ==
    ASSUME Sane, NEW a \in Nat, NEW c, NEW m, ReadyFor(m, c, a), NEW opens, Opens(m, opens)
    PROVE  ReadyFor(Open(m, opens), c, a)
<1>1. m \in ServerType /\ m.path \in Requests /\ Typed(m) /\ Chunky(m, a)
  BY DEF ReadyFor, Chunky
<1> DEFINE o == Open(m, opens)
<1>2. /\ o \in ServerType /\ Beside(m, o) /\ Untouched(m, o) /\ OthersKept(m, o)
      /\ o.out = m.out
  BY <1>1, OpenFields
<1>3. Typed(o)
  BY <1>1, OpenTyped
<1> HIDE DEF o
<1>4. Chunky(o, a)
  BY <1>1, <1>2, BesideAside, ChunkyAside
<1>5. ReadyFor(o, c, a)
  BY <1>2, <1>3, <1>4 DEF ReadyFor, Beside, Untouched
<1> QED
  BY <1>5 DEF o

\* What is known of it when its first chunk is decoded.
AwaitsChunk(r, c, a) ==
    /\ Chunky(r, a) /\ Typed(r) /\ r.buffer = c.buffer /\ r.upload_active = FALSE
    /\ r.chunk_buf = <<>> /\ r.mp_buf = <<>> /\ r.mp_state = "BOUNDARY"
    /\ r.out.queued = FALSE /\ r.remaining = 0

LEMMA ChunkAwaits ==
    ASSUME NEW a \in Nat, NEW c, NEW o, ReadyFor(o, c, a)
    PROVE  /\ AwaitsChunk(Awaiting(o, 0, FALSE), c, a) /\ Awaiting(o, 0, FALSE).chunked = FALSE
           /\ AwaitsChunk(Awaiting(o, 0, TRUE), c, a) /\ Awaiting(o, 0, TRUE).chunked = TRUE
<1>1. Typed(o) /\ o \in ServerType /\ o.chunked = FALSE /\ Chunky(o, a)
  BY DEF ReadyFor, Typed
<1>2. SizeMax \in Nat /\ 0 < SizeMax
  BY Constants
<1>3. ASSUME NEW ch \in BOOLEAN
      PROVE  AwaitsChunk(Awaiting(o, 0, ch), c, a) /\ Awaiting(o, 0, ch).chunked = ch
  <2> DEFINE r == Awaiting(o, 0, ch)
  <2>1. (o.chunked \/ ch) \in BOOLEAN /\ (o.chunked \/ ch) = ch
    BY <1>1
  <2>2. r \in ServerType
    BY <1>1, <2>1, Literals, Zenon DEF ServerType, Awaiting
  <2>3. /\ r.up = o.up /\ r.open = o.open /\ r.MPFlag = o.MPFlag
        /\ r.multipart = o.multipart /\ r.content_type = o.content_type
        /\ r.upload_active = o.upload_active /\ r.path = o.path
        /\ r.buffer = o.buffer /\ r.state = o.state
        /\ r.chunk_buf = o.chunk_buf /\ r.mp_buf = o.mp_buf /\ r.mp_state = o.mp_state
        /\ r.out = o.out /\ r.remaining = 0 /\ r.disk = o.disk /\ r.req = o.req
        /\ r.file = o.file
    BY <1>1 DEF ServerType, Awaiting
  <2>4. r.chunked = (o.chunked \/ ch)
    BY <1>1, Zenon DEF ServerType, Awaiting
  <2> HIDE DEF r
  <2>5. Typed(r)
    BY <1>1, <1>2, <2>2, <2>3 DEF Typed
  <2>6. Kept(r)
    BY <1>1, <2>3 DEF Kept, Chunky
  <2>7. Chunky(r, a)
    BY <1>1, <2>2, <2>3, <2>6 DEF Chunky
  <2>8. AwaitsChunk(r, c, a)
    BY <2>3, <2>5, <2>7 DEF AwaitsChunk, ReadyFor
  <2>9. r.chunked = ch
    BY <2>1, <2>4, Zenon
  <2> QED
    BY <2>8, <2>9 DEF r
<1> QED
  BY <1>3

\* A body that has come whole is decoded to its end.
LEMMA ChunkDone ==
    ASSUME NEW j \in Requests, ask[j] = "chunked", NEW r, r.chunk_buf = <<>>,
           NEW data \in Seq(Tokens), data = Toks(j, 3, 3)
    PROVE  Decoded(r, data).state = "COMPLETE"
<1>1. /\ Size(j) = 5 /\ Tok(j, 3) = [req |-> j, part |-> "open"]
      /\ Tok(j, 4) = [req |-> j, part |-> "close"]
      /\ Tok(j, 5) = [req |-> j, part |-> "end"]
  BY KindFacts
<1>2. r.chunk_buf \o data = data
  BY EmptySeq, ConcatEmptySeq
<1>3. Len(data) = 3 /\ data[1] = Tok(j, 3) /\ data[2] = Tok(j, 4) /\ data[3] = Tok(j, 5)
  BY <1>1 DEF Toks
<1>4. SubSeq(data, 3, Len(data)) = <<data[3]>>
  <2>1. /\ SubSeq(data, 3, 3) \in Seq(Tokens) /\ Len(SubSeq(data, 3, 3)) = 1
        /\ SubSeq(data, 3, 3)[1] = data[3]
    BY <1>3, SubSeqProperties
  <2>2. PICK t \in Seq(Tokens): t = SubSeq(data, 3, 3)
    BY <2>1
  <2>3. Len(t) = 1 /\ t[1] = data[3]
    BY <2>1, <2>2
  <2>4. t = <<data[3]>>
    BY <2>3
  <2> QED
    BY <1>3, <2>2, <2>4
<1> DEFINE rest == <<data[3]>>
<1>5. EndsLine(rest[1]) /\ rest[1].part = "end"
  BY <1>1, <1>3 DEF EndsLine
<1>6. 1 \in DOMAIN rest
  OBVIOUS
<1> HIDE DEF rest
<1>7. \E k \in DOMAIN rest: EndsLine(rest[k])
  BY <1>5, <1>6
<1>8. Len(data) >= 2 /\ data[1].part = "open" /\ data[2].part = "close"
  BY <1>1, <1>3
<1>9. SubSeq(data, 3, Len(data)) = rest
  BY <1>4 DEF rest
<1> QED
  BY <1>2, <1>5, <1>7, <1>8, <1>9, Zenon DEF Decoded

-----------------------------------------------------------------------------
(* The first chunks *)

\* The first of its chunks come with the head: it is complete, or goes on.
LEMMA ChunkedStarted ==
    ASSUME Sane, NEW a \in Nat, NEW n \in 1..3, NEW c, NEW r, AwaitsChunk(r, c, a),
           r.chunked = TRUE, c.buffer = Toks(a + 1, 3, n),
           NEW q, At(a + 1, 3 + n, q), NEW opens, NEW works
    PROVE  Result(FirstBytes(r, c.buffer, opens, works), a, q)
<1> DEFINE p == ProcessBody(r, c.buffer, opens, works)
           S == p.server
<1>1. Typed(r) /\ Chunky(r, a) /\ r.path # 0 /\ r.path \in Requests /\ ~r.MPFlag
      /\ r.upload_active = FALSE
      /\ r.buffer = c.buffer /\ r.chunk_buf = <<>>
  BY RequestsAre DEF AwaitsChunk, Chunky
<1>2. a + 1 \in Requests /\ ask[a + 1] = "chunked"
  BY <1>1 DEF Chunky
<1>3. /\ Size(a + 1) = 5 /\ Tok(a + 1, 3) = [req |-> a + 1, part |-> "open"]
  BY <1>2, KindFacts
<1>4. /\ c.buffer \in Seq(Tokens) /\ Len(c.buffer) = n
      /\ c.buffer[1] = [req |-> a + 1, part |-> "open"]
  <2>1. PICK t \in Nat: t = 3
    OBVIOUS
  <2>2. PICK j \in Requests: j = a + 1
    BY <1>2
  <2>3. n \in Nat /\ t + n - 1 <= Size(j) /\ t >= 1
    BY <1>3, <2>1, <2>2
  <2>4. /\ Toks(j, t, n) \in Seq(Tokens) /\ Len(Toks(j, t, n)) = n
        /\ \A k \in 1..n: Toks(j, t, n)[k] = Tok(j, t + k - 1)
    BY <2>3, ToksTyped
  <2>5. 1 \in 1..n /\ t + 1 - 1 = 3
    BY <2>1
  <2> QED
    BY <1>3, <2>1, <2>2, <2>4, <2>5
<1>5. c.buffer # <<>> /\ ~IsLine(c.buffer[1]) /\ EndsLine(c.buffer[1])
  BY <1>4 DEF EndsLine, IsLine
<1>6. Heard(a + 1, q)
  <2>1. PICK j \in Nat: j = a + 1
    OBVIOUS
  <2> QED
    BY <2>1, AtHeard
<1>7. /\ S \in ServerType /\ Aside(r, S) /\ (~p.fine => Refused(S))
  BY <1>1, <1>4, BodyAside
<1>8. n = 3 => p.done
  <2> SUFFICES ASSUME n = 3 PROVE p.done
    OBVIOUS
  <2>1. PICK data \in Seq(Tokens): data = c.buffer
    BY <1>4
  <2>2. PICK j \in Requests: j = a + 1
    BY <1>2
  <2>3. data = Toks(j, 3, 3) /\ ask[j] = "chunked"
    BY <1>2, <2>1, <2>2
  <2>4. Decoded(r, data).state = "COMPLETE"
    BY <1>1, <2>3, ChunkDone
  <2>5. Decoded(r, c.buffer).state = "COMPLETE"
    BY <2>1, <2>4
  <2>6. r.chunked
    OBVIOUS
  <2>7. ~(r.chunked /\ Decoded(r, c.buffer).state = "ERROR")
    BY <2>5
  <2>8. p.done = (r.chunked /\ Decoded(r, c.buffer).state = "COMPLETE")
    BY <2>7, Zenon DEF ProcessBody
  <2> QED
    BY <2>5, <2>6, <2>8, Zenon
<1>9. p.fine \in BOOLEAN /\ p.done \in BOOLEAN
  BY <1>1, <1>4, ProcessBodyTyped
<1> DEFINE fine == p.fine
           done == p.done
           X == Clear(S)
<1>10. FirstBytes(r, c.buffer, opens, works) = IF fine THEN Started(X, done) ELSE S
  BY Zenon DEF FirstBytes
<1>11. Chunky(S, a)
  BY <1>1, <1>7, ChunkyAside
<1>12. /\ S.upload_active = FALSE /\ S.chunked = TRUE /\ S.buffer = c.buffer
       /\ Refused(S) \/ S.out.queued = FALSE
  BY <1>1, <1>7 DEF Aside, AwaitsChunk
<1>13. (~fine => Refused(S)) /\ (n = 3 => done) /\ fine \in BOOLEAN /\ done \in BOOLEAN
       /\ S \in ServerType
  BY <1>7, <1>8, <1>9
<1> HIDE DEF fine, done, S, p
<1>14. CASE ~fine
  <2>1. Result(S, a, q)
    BY <1>5, <1>6, <1>11, <1>12, <1>13, <1>14, ChunkyRefused
  <2> QED
    BY <1>10, <1>14, <2>1, Zenon
<1>15. CASE fine
  <2>1. FirstBytes(r, c.buffer, opens, works) = Started(X, done)
    BY <1>10, <1>15, Zenon
  <2>2. Chunky(X, a)
    BY <1>11, ChunkySame
  <2>3. /\ X.upload_active = FALSE /\ X.chunked = TRUE /\ X.buffer = c.buffer
        /\ X.state = "REQUEST_LINE" /\ X \in ServerType
        /\ Refused(X) \/ X.out.queued = FALSE
    BY <1>12, <1>13, ClearFields DEF Same, Refused
  <2> HIDE DEF X
  <2>4. Result(UploadComplete(X), a, q)
    BY <1>5, <1>6, <2>2, <2>3, ChunkyComplete
  <2>5. CASE done
    <3>1. done = TRUE
      BY <1>13, <2>5
    <3>2. Started(X, done) = UploadComplete(X)
      BY <3>1, StartedDone, Zenon
    <3> QED
      BY <2>1, <2>4, <3>2
  <2>6. CASE ~done /\ X.mp_state = "END"
    <3>1. done = FALSE
      BY <1>13, <2>6
    <3>2. Started(X, done) = UploadComplete(X)
      BY <2>6, <3>1, StartedComplete, Zenon
    <3> QED
      BY <2>1, <2>4, <3>2
  <2>7. CASE ~done /\ X.mp_state # "END"
    <3>1. done = FALSE
      BY <1>13, <2>7
    <3>2. ~(~X.chunked /\ X.remaining = 0)
      BY <2>3
    <3>3. Started(X, done) = Activated(X)
      BY <2>7, <3>1, <3>2, StartedOn, Zenon
    <3> DEFINE Y == Activated(X)
    <3>4. Chunky(Y, a)
      BY <2>2, ChunkySame
    <3>5. /\ Y.upload_active = TRUE /\ Y.chunked = TRUE /\ Y.buffer = c.buffer
          /\ Y.state = "REQUEST_LINE" /\ Y.rd = X.rd /\ Y.out = X.out
      BY <2>3, ActivatedFields
    <3>6. Refused(Y) \/ Y.out.queued = FALSE
      BY <2>3, <3>5 DEF Refused
    <3>7. n \in 1..2
      BY <1>13, <2>7
    <3>8. PICK z \in 4..5: z = 3 + n
      BY <3>7
    <3> HIDE DEF Y
    <3>9. Result(Y, a, q)
      BY <1>5, <1>6, <3>4, <3>5, <3>6, <3>8, ChunkyActive
    <3> QED
      BY <2>1, <3>3, <3>9 DEF Y
  <2> QED
    BY <2>5, <2>6, <2>7
<1> QED
  BY <1>14, <1>15

-----------------------------------------------------------------------------
(* startUpload of a chunked upload *)

\* A chunked upload is accepted: m knows its path, o has its file.
AcceptsChunk(c, opens, m, o) ==
    /\ Length(c.req) = 0 /\ Chunked(c.req) /\ ~c.multipart
    /\ m = Begun(c) /\ ~m.MPFlag /\ Opens(m, opens)
    /\ o = Open(m, opens)

\* startUpload of one that is accepted, and all of it.
LEMMA ChunkStartIs ==
    ASSUME NEW c, NEW opens, NEW works, NEW m, NEW o, AcceptsChunk(c, opens, m, o)
    PROVE  /\ c.body = <<>> =>
                StartUpload(c, opens, works) = Started(Awaiting(o, 0, FALSE), FALSE)
           /\ c.body # <<>> =>
                StartUpload(c, opens, works) =
                    FirstBytes(Awaiting(o, 0, TRUE), c.body, opens, works)
<1>1. ~(~m.MPFlag /\ ~Opens(m, opens)) /\ Length(c.req) = 0 /\ ~m.MPFlag
      /\ ~(c.multipart /\ ~c.content_type) /\ m = Begun(c)
      /\ o = Open(m, opens)
  BY DEF AcceptsChunk
<1>2. ASSUME c.body = <<>>
      PROVE  StartUpload(c, opens, works) = Started(Awaiting(o, 0, FALSE), FALSE)
  <2>1. (Chunked(c.req) /\ c.body # <<>>) = FALSE
    BY <1>2, Zenon
  <2> QED
    BY <1>1, <1>2, <2>1, StartIs, Zenon
<1>3. ASSUME c.body # <<>>
      PROVE  StartUpload(c, opens, works) = FirstBytes(Awaiting(o, 0, TRUE), c.body, opens, works)
  <2>1. (Chunked(c.req) /\ c.body # <<>>) = TRUE
    BY <1>3, Zenon DEF AcceptsChunk
  <2> QED
    BY <1>1, <1>3, <2>1, StartIs, Zenon DEF FirstBytes
<1> QED
  BY <1>2, <1>3

LEMMA StartChunked ==
    ASSUME Sane, NEW a \in Nat, NEW c, Resting(c, a), c.req = a + 1,
           ask[a + 1] = "chunked", NEW n \in 0..3, c.buffer = Toks(a + 1, 3, n),
           c.body = c.buffer, NEW q, At(a + 1, 3 + n, q), NEW opens, NEW works
    PROVE  Result(StartUpload(c, opens, works), a, q)
<1>1. Typed(c) /\ Calm(c, a) /\ a + 1 \in Requests
  BY DEF Resting
<1>2. /\ Size(a + 1) = 5 /\ Tok(a + 1, 3) = [req |-> a + 1, part |-> "open"]
  BY KindFacts
<1>3. Length(c.req) = 0 /\ Chunked(c.req)
  BY <1>1, LengthOf
<1>4. ReadyFor(Begun(c), c, a)
  BY ChunkBegun
<1>5. ~Easy
  BY <1>4 DEF ReadyFor, Chunky
<1>6. n # 0 => c.buffer # <<>> /\ ~IsLine(c.buffer[1])
  <2> SUFFICES ASSUME n # 0 PROVE c.buffer # <<>> /\ ~IsLine(c.buffer[1])
    OBVIOUS
  <2>1. PICK t \in Nat: t = 3
    OBVIOUS
  <2>2. PICK j \in Requests: j = a + 1
    BY <1>1
  <2>3. n \in Nat /\ n >= 1 /\ t + n - 1 <= Size(j) /\ t >= 1
    BY <1>2, <2>1, <2>2
  <2>4. Toks(j, t, n) # <<>> /\ Toks(j, t, n)[1] = Tok(j, t)
    BY <2>3, ToksHead
  <2> QED
    BY <1>2, <2>1, <2>2, <2>4 DEF IsLine
<1>7. n = 0 => c.buffer = <<>>
  BY ToksEmpty
<1>8. Left(c, a, FALSE, q)
  <2>1. CASE n = 0
    <3>1. 3 \in 2..Size(a + 1) + 1 /\ At(a + 1, 3, q)
      BY <1>2, <2>1
    <3> QED
      BY <1>5, <1>7, <2>1, <3>1 DEF Left, Unread
  <2>2. CASE n # 0
    <3>1. PICK j \in Nat: j = a + 1
      OBVIOUS
    <3>2. Heard(a + 1, q)
      BY <3>1, AtHeard
    <3> QED
      BY <1>5, <1>6, <2>2, <3>2 DEF Left
  <2> QED
    BY <2>1, <2>2
<1> DEFINE m == Begun(c)
<1>9. ~c.multipart /\ m.MPFlag = FALSE /\ m.path = a + 1
  <2>1. c.MPFlag = FALSE /\ c.multipart = FALSE /\ c.req # 0
    BY <1>1, Fields DEF Typed, Calm
  <2> QED
    BY <1>1, <2>1, BegunFields
<1>10. CASE ~Opens(m, opens)
  <2>1. StartUpload(c, opens, works) = Open(m, opens)
    BY <1>9, <1>10, StartIs, Zenon
  <2> QED
    BY <1>8, <1>10, <2>1, StartRefused
<1>11. CASE Opens(m, opens)
  <2> DEFINE o == Open(m, opens)
  <2>1. AcceptsChunk(c, opens, m, o)
    BY <1>3, <1>9, <1>11, Zenon DEF AcceptsChunk
  <2>2. ReadyFor(o, c, a)
    BY <1>4, <1>11, ChunkOpened
  <2> HIDE DEF o
  <2>3. CASE n = 0
    <3> DEFINE r == Awaiting(o, 0, FALSE)
    <3>1. AwaitsChunk(r, c, a) /\ r.chunked = FALSE
      BY <2>2, ChunkAwaits, Zenon
    <3>2. c.body = <<>>
      BY <1>7, <2>3
    <3>3. StartUpload(c, opens, works) = Started(r, FALSE)
      BY <2>1, <3>2, ChunkStartIs, Zenon
    <3> HIDE DEF r
    <3>4. r.chunked = FALSE /\ r.remaining = 0
      BY <3>1 DEF AwaitsChunk
    <3>5. Started(r, FALSE) = UploadComplete(r)
      BY <3>4, StartedComplete, Zenon
    <3>6. Chunky(r, a) /\ r.buffer = <<>> /\ r.mp_buf = <<>> /\ At(a + 1, 3, q)
      BY <1>7, <2>3, <3>1 DEF AwaitsChunk
    <3>7. Result(UploadComplete(r), a, q)
      BY <3>6, ChunkyComplete
    <3> QED
      BY <3>3, <3>5, <3>7
  <2>4. CASE n # 0
    <3> DEFINE r == Awaiting(o, 0, TRUE)
    <3>1. AwaitsChunk(r, c, a) /\ r.chunked = TRUE
      BY <2>2, ChunkAwaits, Zenon
    <3>2. c.body # <<>>
      BY <1>6, <2>4
    <3>3. StartUpload(c, opens, works) = FirstBytes(r, c.body, opens, works)
      BY <2>1, <3>2, ChunkStartIs, Zenon
    <3> HIDE DEF r
    <3>4. n \in 1..3
      BY <2>4
    <3>5. Result(FirstBytes(r, c.buffer, opens, works), a, q)
      BY <3>1, <3>4, ChunkedStarted
    <3> QED
      BY <3>3, <3>5
  <2> QED
    BY <2>3, <2>4
<1> QED
  BY <1>10, <1>11

-----------------------------------------------------------------------------
(* The parse of a head *)

\* The parse of a head and of the first of a body leaves the upload alone.
Alike(c, d) ==
    /\ c.up = d.up /\ c.open = d.open /\ c.MPFlag = d.MPFlag
    /\ c.upload_active = d.upload_active /\ c.path = d.path
    /\ c.chunked = d.chunked /\ c.chunk_buf = d.chunk_buf
    /\ c.mp_buf = d.mp_buf /\ c.mp_state = d.mp_state
    /\ c.remaining = d.remaining /\ c.file = d.file
    /\ c.disk = d.disk /\ c.out = d.out /\ c.req = d.req

\* What is alike is at rest alike.
LEMMA AlikeTrans ==
    ASSUME NEW c, NEW d, NEW e, Alike(c, d), Alike(d, e) PROVE Alike(c, e)
BY DEF Alike

LEMMA RestingAlike ==
    ASSUME NEW a \in Nat, NEW c, Resting(c, a), NEW d, Typed(d), Alike(c, d),
           ~d.MPFlag, ~d.multipart, ~d.content_type
    PROVE  Resting(d, a)
BY RestingWith DEF Alike

\* The parts of the requests that are heads, and those that are floods.
LEMMA NoFlood ==
    ASSUME NEW kind, kind # "huge", NEW k \in 1..Len(Parts(kind))
    PROVE  Parts(kind)[k] # "flood"
  BY DEF Parts, Body

LEMMA HeadFacts ==
    ASSUME NEW s \in Seq(Tokens)
    PROVE  LET i == SelectInSeq(s, EndsHead) IN
           /\ s = <<>> => i = 0
           /\ s # <<>> /\ EndsHead(s[1]) => i = 1
<1> DEFINE found == {i \in 1..Len(s): EndsHead(s[i])}
<1>1. SelectInSeq(s, EndsHead) = IF found # {} THEN Min(found) ELSE 0
  BY DEF SelectInSeq
<1>2. found # {} => Min(found) \in found /\ \A x \in found: Min(found) <= x
  <2>1. found \subseteq Nat
    OBVIOUS
  <2> HIDE DEF found
  <2> QED
    BY <2>1, MinIsLeast
<1>3. Len(s) \in Nat /\ (s # <<>> => Len(s) > 0) /\ (s = <<>> => Len(s) = 0)
  OBVIOUS
<1>4. (s # <<>> /\ EndsHead(s[1])) => Min(found) = 1
  BY <1>2, <1>3
<1>5. s = <<>> => found = {}
  BY <1>3
<1>6. s # <<>> /\ EndsHead(s[1]) => found # {}
  BY <1>3
<1> HIDE DEF found
<1> QED
  BY <1>1, <1>4, <1>5, <1>6

\* The requests with a head that parses.
HeadKinds == {"get", "post", "big", "upload", "chunked"}

\* parseRequest of what may come instead of a head, and of a head.
LEMMA HeadWaits ==
    ASSUME NEW c \in ServerType, c.buffer = <<>> PROVE ParseHead(c) = c
<1>1. SelectInSeq(c.buffer, EndsHead) = 0
  BY HeadFacts, Literals
<1>2. ~\E k \in DOMAIN c.buffer: c.buffer[k].part = "flood"
  OBVIOUS
<1> QED
  BY <1>1, <1>2, Zenon DEF ParseHead

LEMMA HeadFlood ==
    ASSUME NEW c \in ServerType, c.buffer # <<>>, c.buffer[1].part = "flood"
    PROVE  ParseHead(c) = [c EXCEPT !.state = "ERROR", !.up = FALSE]
<1>1. 1 \in DOMAIN c.buffer
  BY Fields
<1>2. \E k \in DOMAIN c.buffer: c.buffer[k].part = "flood"
  BY <1>1
<1> QED
  BY <1>2, Zenon DEF ParseHead

\* No header is too large.
NoFloodIn(s) == ~\E k \in DOMAIN s: s[k].part = "flood"

LEMMA HeadBad ==
    ASSUME NEW c \in ServerType, c.buffer # <<>>, NoFloodIn(c.buffer),
           c.buffer[1].part = "badhead"
    PROVE  ParseHead(c) = [c EXCEPT !.state = "ERROR"]
<1>1. EndsHead(c.buffer[1])
  BY DEF EndsHead
<1>2. c.buffer \in Seq(Tokens)
  BY Fields
<1>3. SelectInSeq(c.buffer, EndsHead) = 1
  BY <1>1, <1>2, HeadFacts
<1>4. ~IsHead(c.buffer[1]) /\ ~(1 = 0)
  BY DEF IsHead
<1> QED
  BY <1>3, <1>4, Zenon DEF ParseHead, NoFloodIn

\* The state and the type that a head leaves.
Next3(c) == IF Length(c.req) = 0 /\ ~Chunked(c.req) THEN "COMPLETE" ELSE "BODY"
Type3(c) == IF Length(c.req) = 0 THEN c.content_type
            ELSE Kind[c.req] \in {"multi", "parts"}

LEMMA HeadIs ==
    ASSUME NEW c \in ServerType, c.buffer # <<>>, NoFloodIn(c.buffer),
           IsHead(c.buffer[1])
    PROVE  ParseHead(c) = [c EXCEPT !.buffer = Tail(@), !.state = Next3(c),
                                    !.content_type = Type3(c)]
<1>1. EndsHead(c.buffer[1])
  BY DEF EndsHead
<1>2. c.buffer \in Seq(Tokens)
  BY Fields
<1>3. SelectInSeq(c.buffer, EndsHead) = 1
  BY <1>1, <1>2, HeadFacts
<1>4. ~(1 = 0)
  OBVIOUS
<1> QED
  BY <1>3, <1>4, Zenon DEF ParseHead, NoFloodIn, Next3, Type3

\* What has been read when the head of request a + 1 has: r is what comes first
\* of the body.
Headed(l, h, r) ==
    /\ Typed(h) /\ Alike(l, h) /\ h.buffer = r /\ h.state = Next3(l)
    /\ ~h.multipart /\ ~h.content_type

\* A head that has come is read.
LEMMA HeadHeaded ==
    ASSUME Sane, NEW c, Typed(c), c.state = "HEADERS", c.buffer # <<>>, NoFloodIn(c.buffer),
           IsHead(c.buffer[1]), c.req \in Requests, ~c.multipart, ~c.content_type
    PROVE  Headed(c, ParseHead(c), Tail(c.buffer))
<1> DEFINE h == ParseHead(c)
<1>1. c \in ServerType
  BY DEF Typed
<1>2. h = [c EXCEPT !.buffer = Tail(@), !.state = Next3(c), !.content_type = Type3(c)]
  BY <1>1, HeadIs
<1>3. Typed(h)
  BY ParseHeadTyped
<1> HIDE DEF h
<1>4. Alike(c, h) /\ h.multipart = c.multipart /\ h.buffer = Tail(c.buffer)
      /\ h.state = Next3(c)
  BY <1>1, <1>2 DEF Alike, ServerType
<1>5. h.content_type = Type3(c)
  BY <1>1, <1>2, Zenon DEF ServerType
<1>6. ~Type3(c)
  <2>1. Kind[c.req] \notin {"multi", "parts"}
    BY KindIs, NoMultipart DEF MultipartKinds
  <2> QED
    BY <2>1 DEF Type3
<1>7. Headed(c, h, Tail(c.buffer))
  BY <1>3, <1>4, <1>5, <1>6 DEF Headed
<1> QED
  BY <1>7 DEF h

-----------------------------------------------------------------------------
(* The parse of a body, and process_request *)

\* What parseRequest leaves when it has read what there is of a body.
BodyRead(h, d, buf, body) ==
    /\ Typed(d) /\ Alike(h, d) /\ d.state = h.state
    /\ d.buffer = buf /\ d.body = body
    /\ ~d.multipart /\ ~d.content_type

\* parseRequest of the bodies: of those by length all that has come is taken,
\* a chunked one stays in the buffer.
LEMMA BodyFields ==
    ASSUME NEW h, Typed(h), ~h.multipart, ~h.content_type, NEW body, NEW buf,
           ParseBody(h) = [h EXCEPT !.multipart = @ \/ h.content_type,
                                    !.body = body, !.buffer = buf]
    PROVE  BodyRead(h, ParseBody(h), buf, body)
<1> DEFINE d == ParseBody(h)
<1>1. Typed(d)
  BY ParseBodyTyped
<1>2. h \in ServerType
  BY DEF Typed
<1>3. d = [h EXCEPT !.multipart = @ \/ h.content_type, !.body = body, !.buffer = buf]
  OBVIOUS
<1> HIDE DEF d
<1>4. Alike(h, d) /\ d.state = h.state /\ d.buffer = buf /\ d.body = body
  BY <1>2, <1>3 DEF Alike, ServerType
<1>5. d.multipart = (h.multipart \/ h.content_type) /\ d.content_type = h.content_type
  BY <1>2, <1>3, Zenon DEF ServerType
<1>6. ~d.multipart /\ ~d.content_type
  BY <1>5, Zenon
<1>7. BodyRead(h, d, buf, body)
  BY <1>1, <1>4, <1>6, Zenon DEF BodyRead
<1> QED
  BY <1>7 DEF d

LEMMA BodyByLength ==
    ASSUME NEW h, Typed(h), ~h.multipart, ~h.content_type,
           Length(h.req) = 2, ~Chunked(h.req), Len(h.buffer) <= 2
    PROVE  BodyRead(h, ParseBody(h), <<>>, h.buffer)
<1>1. h.buffer \in Seq(Tokens)
  BY Fields DEF Typed
<1>2. Lesser(Length(h.req), Len(h.buffer)) = Len(h.buffer)
  <2>1. Len(h.buffer) \in Nat
    BY <1>1, LenProperties
  <2> QED
    BY <2>1 DEF Lesser
<1>3. SubSeq(h.buffer, 1, Len(h.buffer)) = h.buffer
  BY <1>1, SubSeqFull
<1>4. SubSeq(h.buffer, Len(h.buffer) + 1, Len(h.buffer)) = <<>>
  <2>1. Len(h.buffer) \in Nat
    BY <1>1, LenProperties
  <2> QED
    BY <1>1, <2>1, SubSeqEmpty
<1>5. ParseBody(h) = [h EXCEPT !.multipart = @ \/ h.content_type,
                               !.body = h.buffer, !.buffer = <<>>]
  BY <1>2, <1>3, <1>4, Zenon DEF ParseBody
<1> QED
  BY <1>5, BodyFields, Zenon

LEMMA BodyChunked ==
    ASSUME NEW h, Typed(h), ~h.multipart, ~h.content_type, Chunked(h.req)
    PROVE  BodyRead(h, ParseBody(h), h.buffer, h.buffer)
<1>1. ParseBody(h) = [h EXCEPT !.multipart = @ \/ h.content_type,
                               !.body = h.buffer, !.buffer = h.buffer]
  BY Zenon DEF ParseBody
<1> QED
  BY <1>1, BodyFields, Zenon

\* The answer to what parseRequest leaves: read_client after it, process_request.
Granted(h, keepAlive) == [[h EXCEPT !.servConf = TRUE] EXCEPT !.keep_alive = keepAlive]

\* What process_request leaves as it is.
GrantedOf(h, g) ==
    /\ Typed(g) /\ Alike(h, g) /\ g.state = h.state /\ g.buffer = h.buffer /\ g.body = h.body
    /\ ~g.multipart /\ ~g.content_type

\* process_request begins.
LEMMA GrantedFields ==
    ASSUME NEW h, Typed(h), ~h.multipart, ~h.content_type, NEW keepAlive \in BOOLEAN
    PROVE  GrantedOf(h, Granted(h, keepAlive))
<1> DEFINE s == [h EXCEPT !.servConf = TRUE]
           g == [s EXCEPT !.keep_alive = keepAlive]
<1>1. h \in ServerType
  BY DEF Typed
<1>2. s \in ServerType
  BY <1>1, Literals, Zenon DEF ServerType
<1>3. /\ Alike(h, s) /\ s.state = h.state /\ s.buffer = h.buffer /\ s.body = h.body
  BY <1>1 DEF Alike, ServerType
<1>4. s.content_type = h.content_type /\ s.multipart = h.multipart
  BY <1>1, Zenon DEF ServerType
<1>5. g \in ServerType
  <2> HIDE DEF s
  <2> QED
    BY <1>2, Zenon DEF ServerType
<1>6. /\ Alike(s, g) /\ g.state = s.state /\ g.buffer = s.buffer /\ g.body = s.body
  <2> HIDE DEF s
  <2> QED
    BY <1>2 DEF Alike, ServerType
<1>7. g.content_type = s.content_type /\ g.multipart = s.multipart
  <2> HIDE DEF s
  <2> QED
    BY <1>2, Zenon DEF ServerType
<1>8. g = Granted(h, keepAlive)
  BY DEF Granted
<1> HIDE DEF s, g
<1>9. Typed(g)
  BY <1>3, <1>5, <1>6 DEF Typed, Alike
<1>10. Alike(h, g) /\ g.state = h.state /\ g.buffer = h.buffer /\ g.body = h.body
  BY <1>3, <1>6, AlikeTrans
<1>11. ~g.multipart /\ ~g.content_type
  BY <1>4, <1>7, Zenon
<1>12. GrantedOf(h, g)
  BY <1>9, <1>10, <1>11, Zenon DEF GrantedOf
<1> QED
  BY <1>8, <1>12

\* process_request: error page, upload or page.
Granting(g, opens, works) ==
    IF Kind[g.req] = "big" THEN Fallback(g)
    ELSE IF Kind[g.req] \in {"upload", "multi", "parts", "chunked"}
    THEN StartUpload(g, opens, works)
    ELSE Queue(g, g.req, TRUE)

\* read_client, from parseRequest on.
Answered(h, keepAlive, opens, works) ==
    LET q == ProcessRequest([h EXCEPT !.servConf = TRUE], keepAlive, opens, works)
    IN  IF ~h.up THEN [h EXCEPT !.open = FALSE, !.rd = FALSE]
        ELSE IF h.state = "ERROR" THEN Fallback(h)
        ELSE IF h.state \in {"REQUEST_LINE", "HEADERS"} THEN h
        ELSE IF q.keep_alive /\ h.state = "COMPLETE" THEN Clear(q)
        ELSE q

\* read_client and process_request in these steps.
LEMMA ReadRequestIs ==
    ASSUME NEW c, NEW data, NEW keepAlive, NEW opens, NEW works
    PROVE  ReadRequest(c, data, keepAlive, opens, works) =
               Answered(ParseRequest(c, data), keepAlive, opens, works)
BY DEF ReadRequest, Answered

LEMMA ProcessIs ==
    ASSUME NEW h, Typed(h), ~h.multipart, ~h.content_type,
           NEW keepAlive \in BOOLEAN, NEW opens, NEW works
    PROVE  ProcessRequest([h EXCEPT !.servConf = TRUE], keepAlive, opens, works) =
               Granting(Granted(h, keepAlive), opens, works)
<1>1. Granted(h, keepAlive).req = h.req
  BY GrantedFields DEF GrantedOf, Alike
<1>2. [h EXCEPT !.servConf = TRUE].req = h.req
  BY DEF Typed, ServerType
<1> DEFINE g == Granted(h, keepAlive)
           s == [h EXCEPT !.servConf = TRUE]
<1>3. g = [s EXCEPT !.keep_alive = keepAlive] /\ s.req = h.req /\ g.req = h.req
  BY <1>1, <1>2 DEF Granted
<1> HIDE DEF g, s
<1>4. ProcessRequest(s, keepAlive, opens, works) =
        IF Kind[s.req] = "big" THEN Fallback(g)
        ELSE IF Kind[s.req] \in {"upload", "multi", "parts", "chunked"}
        THEN StartUpload(g, opens, works)
        ELSE Queue(g, s.req, TRUE)
  BY <1>3, Zenon DEF ProcessRequest
<1>5. ProcessRequest(s, keepAlive, opens, works) = Granting(g, opens, works)
  BY <1>3, <1>4, Zenon DEF Granting
<1> QED
  BY <1>5 DEF g, s

-----------------------------------------------------------------------------
(* The answers to a request that has been parsed *)

\* A page for a request at rest.
LEMMA RestingQueued ==
    ASSUME Sane, NEW a \in Nat, NEW c, Resting(c, a), ~ByLength(a + 1),
           NEW q, Left(c, a, TRUE, q)
    PROVE  Result(Queue(c, a + 1, TRUE), a, q) /\ Result(Clear(Queue(c, a + 1, TRUE)), a, q)
<1>1. /\ c \in ServerType /\ Calm(c, a) /\ a + 1 \in Requests /\ c.open = TRUE /\ Kept(c)
  BY DEF Resting, Typed
<1>2. Off(a + 1, TRUE) \/ Mode(Clear(c), a + 1, q)
  BY <1>1, LeftMode
<1> DEFINE r == Queue(c, a + 1, TRUE)
<1>3. a + 1 \in 0..N + 1
  BY <1>1, Constants DEF Requests
<1>4. /\ Same(c, r) /\ r.open = c.open /\ r.rd = FALSE /\ r.out.ok = TRUE
      /\ r.out.to = a + 1 /\ r.out.queued = TRUE /\ r \in ServerType
  <2>1. PICK to \in 0..N + 1: to = a + 1
    BY <1>3
  <2>2. /\ Same(c, Queue(c, to, TRUE)) /\ Queue(c, to, TRUE).open = c.open
        /\ Queue(c, to, TRUE).rd = FALSE /\ Queue(c, to, TRUE).out.ok = TRUE
        /\ Queue(c, to, TRUE).out.to = to /\ Queue(c, to, TRUE).out.queued = TRUE
        /\ Queue(c, to, TRUE) \in ServerType
    BY <1>1, QueueFields
  <2> QED
    BY <2>1, <2>2
<1> HIDE DEF r
<1>5. Result(r, a, q) /\ Result(Clear(r), a, q)
  BY <1>1, <1>2, <1>4, QueuedResult
<1> QED
  BY <1>5 DEF r

LEMMA GrantedResting ==
    ASSUME NEW a \in Nat, NEW h, Resting(h, a), NEW keepAlive \in BOOLEAN
    PROVE  Resting(Granted(h, keepAlive), a)
<1>1. Typed(h) /\ ~h.MPFlag /\ ~h.multipart /\ ~h.content_type
  BY DEF Resting, Calm
<1> DEFINE g == Granted(h, keepAlive)
<1>2. GrantedOf(h, g)
  BY <1>1, GrantedFields
<1> HIDE DEF g
<1>3. Typed(g) /\ Alike(h, g) /\ ~g.multipart /\ ~g.content_type
  BY <1>2 DEF GrantedOf
<1>4. ~g.MPFlag
  BY <1>1, <1>3 DEF Alike
<1>5. Resting(g, a)
  BY <1>3, <1>4, RestingAlike
<1> QED
  BY <1>5 DEF g

LEMMA GrantedLeft ==
    ASSUME NEW a \in Nat, NEW h, Resting(h, a), NEW keepAlive \in BOOLEAN,
           NEW ok, NEW q, Left(h, a, ok, q)
    PROVE  Left(Granted(h, keepAlive), a, ok, q)
<1>1. Granted(h, keepAlive).buffer = h.buffer
  BY GrantedFields DEF GrantedOf, Resting, Calm
<1> QED
  BY <1>1 DEF Left

\* A request that has been parsed is answered by what Granting makes of it.
LEMMA AnsweredIs ==
    ASSUME NEW h, Typed(h), ~h.multipart, ~h.content_type,
           h.up = TRUE, h.state \in {"BODY", "COMPLETE"},
           NEW keepAlive \in BOOLEAN, NEW opens, NEW works
    PROVE  \/ Answered(h, keepAlive, opens, works) =
                  Granting(Granted(h, keepAlive), opens, works)
           \/ /\ h.state = "COMPLETE"
              /\ Answered(h, keepAlive, opens, works) =
                    Clear(Granting(Granted(h, keepAlive), opens, works))
<1> DEFINE G == Granting(Granted(h, keepAlive), opens, works)
<1>1. ProcessRequest([h EXCEPT !.servConf = TRUE], keepAlive, opens, works) = G
  BY ProcessIs
<1>2. h.up /\ ~(h.state = "ERROR") /\ ~(h.state \in {"REQUEST_LINE", "HEADERS"})
  OBVIOUS
<1> HIDE DEF G
<1>3. Answered(h, keepAlive, opens, works) =
        IF G.keep_alive /\ h.state = "COMPLETE" THEN Clear(G) ELSE G
  BY <1>1, <1>2, Zenon DEF Answered
<1>4. \/ Answered(h, keepAlive, opens, works) = G
      \/ h.state = "COMPLETE" /\ Answered(h, keepAlive, opens, works) = Clear(G)
  BY <1>3, Zenon
<1> QED
  BY <1>4 DEF G

\* The page, the refusal and the upload.
LEMMA AnswerPage ==
    ASSUME Sane, NEW a \in Nat, NEW h, Resting(h, a), h.req = a + 1,
           ask[a + 1] \in {"get", "post"}, h.state \in {"BODY", "COMPLETE"},
           NEW q, Left(h, a, TRUE, q), NEW keepAlive \in BOOLEAN, NEW opens, NEW works
    PROVE  Result(Answered(h, keepAlive, opens, works), a, q)
<1>1. /\ Typed(h) /\ h.up = TRUE /\ ~h.multipart /\ ~h.content_type
      /\ Kind[a + 1] = ask[a + 1]
  BY KindIs DEF Resting, Calm
<1> DEFINE g == Granted(h, keepAlive)
<1>2. Resting(g, a) /\ Left(g, a, TRUE, q)
  BY <1>1, GrantedResting, GrantedLeft
<1>3. g.req = a + 1
  <2>1. GrantedOf(h, g)
    BY <1>1, GrantedFields, Zenon
  <2> HIDE DEF g
  <2> QED
    BY <2>1 DEF GrantedOf, Alike
<1>4. Granting(g, opens, works) = Queue(g, a + 1, TRUE)
  <2> HIDE DEF g
  <2>1. ~(Kind[g.req] = "big")
        /\ ~(Kind[g.req] \in {"upload", "multi", "parts", "chunked"})
    BY <1>1, <1>3
  <2> QED
    BY <1>3, <2>1, Zenon DEF Granting
<1>5. ~ByLength(a + 1)
  BY DEF ByLength
<1> HIDE DEF g
<1>6. Result(Granting(g, opens, works), a, q) /\ Result(Clear(Granting(g, opens, works)), a, q)
  BY <1>2, <1>4, <1>5, RestingQueued
<1>7. \/ Answered(h, keepAlive, opens, works) = Granting(g, opens, works)
      \/ Answered(h, keepAlive, opens, works) = Clear(Granting(g, opens, works))
  BY <1>1, AnsweredIs, ZenonT(30) DEF g
<1> QED
  BY <1>6, <1>7

LEMMA AnswerBig ==
    ASSUME Sane, NEW a \in Nat, NEW h, Resting(h, a), h.req = a + 1,
           ask[a + 1] = "big", h.state = "BODY",
           NEW q, Left(h, a, FALSE, q), NEW keepAlive \in BOOLEAN, NEW opens, NEW works
    PROVE  Result(Answered(h, keepAlive, opens, works), a, q)
<1>1. /\ Typed(h) /\ h.up = TRUE /\ ~h.multipart /\ ~h.content_type
      /\ Kind[a + 1] = ask[a + 1]
  BY KindIs DEF Resting, Calm
<1> DEFINE g == Granted(h, keepAlive)
<1>2. Resting(g, a) /\ Left(g, a, FALSE, q)
  BY <1>1, GrantedResting, GrantedLeft
<1>3. g.req = a + 1
  <2>1. GrantedOf(h, g)
    BY <1>1, GrantedFields, Zenon
  <2> HIDE DEF g
  <2> QED
    BY <2>1 DEF GrantedOf, Alike
<1>4. Granting(g, opens, works) = Fallback(g)
  <2> HIDE DEF g
  <2>1. Kind[g.req] = "big"
    BY <1>1, <1>3
  <2> QED
    BY <2>1, Zenon DEF Granting
<1> HIDE DEF g
<1>5. Result(Fallback(g), a, q)
  BY <1>2, RestingRefused
<1>6. Answered(h, keepAlive, opens, works) = Granting(g, opens, works)
  BY <1>1, AnsweredIs, ZenonT(30) DEF g
<1> QED
  BY <1>4, <1>5, <1>6

LEMMA AnswerUpload ==
    ASSUME Sane, NEW a \in Nat, NEW h, Resting(h, a), h.req = a + 1,
           ask[a + 1] \in {"upload", "chunked"}, h.state = "BODY",
           NEW keepAlive \in BOOLEAN, NEW opens, NEW works
    PROVE  \E g: /\ Answered(h, keepAlive, opens, works) = StartUpload(g, opens, works)
                 /\ Resting(g, a) /\ GrantedOf(h, g) /\ g.req = a + 1
<1>1. /\ Typed(h) /\ h.up = TRUE /\ ~h.multipart /\ ~h.content_type
      /\ Kind[a + 1] = ask[a + 1]
  BY KindIs DEF Resting, Calm
<1> DEFINE g == Granted(h, keepAlive)
<1>2. Resting(g, a)
  BY <1>1, GrantedResting
<1>3. GrantedOf(h, g)
  BY <1>1, GrantedFields
<1>4. g.req = a + 1
  BY <1>3 DEF GrantedOf, Alike
<1>5. Granting(g, opens, works) = StartUpload(g, opens, works)
  <2> HIDE DEF g
  <2>1. ~(Kind[g.req] = "big") /\ Kind[g.req] \in {"upload", "multi", "parts", "chunked"}
    BY <1>1, <1>4
  <2> QED
    BY <2>1, Zenon DEF Granting
<1>6. Answered(h, keepAlive, opens, works) = Granting(g, opens, works)
  BY <1>1, AnsweredIs, ZenonT(30)
<1> HIDE DEF g
<1> QED
  BY <1>2, <1>3, <1>4, <1>5, <1>6

-----------------------------------------------------------------------------
(* The requests by their kind *)

\* A request whose head or body has been read is at rest.
LEMMA HeadedResting ==
    ASSUME NEW a \in Nat, NEW l, Resting(l, a), NEW h, NEW r, Headed(l, h, r)
    PROVE  Resting(h, a)
<1>1. Typed(h) /\ Alike(l, h) /\ ~h.multipart /\ ~h.content_type
  BY DEF Headed
<1>2. ~h.MPFlag
  BY <1>1 DEF Alike, Resting, Calm
<1> QED
  BY <1>1, <1>2, RestingAlike

LEMMA BodyResting ==
    ASSUME NEW a \in Nat, NEW h, Resting(h, a), NEW d, NEW buf, NEW body,
           BodyRead(h, d, buf, body)
    PROVE  Resting(d, a)
<1>1. Typed(d) /\ Alike(h, d) /\ ~d.multipart /\ ~d.content_type
  BY DEF BodyRead
<1>2. ~d.MPFlag
  BY <1>1 DEF Alike, Resting, Calm
<1> QED
  BY <1>1, <1>2, RestingAlike

LEMMA NotEasy ==
    ASSUME Sane, NEW j \in Requests, ask[j] \notin {"get", "upload"} PROVE ~Easy
<1>1. ask[j] \in Kinds
  BY DEF Sane, TypesInv, TypeOK
<1> QED
  BY <1>1 DEF Easy

\* A request without a body.
LEMMA HeadGet ==
    ASSUME Sane, NEW a \in Nat, NEW l, Resting(l, a), l.req = a + 1, ask[a + 1] = "get",
           NEW h, Headed(l, h, <<>>), NEW q, At(a + 1, 3, q),
           NEW keepAlive \in BOOLEAN, NEW opens, NEW works
    PROVE  h.state # "BODY" /\ Result(Answered(h, keepAlive, opens, works), a, q)
<1>1. Resting(h, a)
  BY HeadedResting
<1>2. h.state = "COMPLETE"
  BY LengthOf DEF Headed, Next3, Resting
<1>3. h.req = a + 1 /\ h.buffer = <<>>
  BY DEF Headed, Alike
<1>4. Size(a + 1) = 2
  BY KindFacts
<1>5. 3 \in 2..Size(a + 1) + 1 /\ 3 = Size(a + 1) + 1
  BY <1>4
<1>6. Left(h, a, TRUE, q)
  BY <1>3, <1>5 DEF Left
<1> QED
  BY <1>1, <1>2, <1>3, <1>6, AnswerPage

\* A head whose body is by length, n units of which have come.
LEMMA HeadLength ==
    ASSUME Sane, NEW a \in Nat, NEW l, Resting(l, a),
           l.req = a + 1, ask[a + 1] \in {"post", "big", "upload"},
           NEW n \in 0..2, NEW h, Headed(l, h, Toks(a + 1, 3, n)), NEW q, At(a + 1, 3 + n, q),
           NEW keepAlive \in BOOLEAN, NEW opens, NEW works
    PROVE  h.state = "BODY" /\ Result(Answered(ParseBody(h), keepAlive, opens, works), a, q)
<1>1. Resting(h, a) /\ Typed(h) /\ a + 1 \in Requests
  BY HeadedResting DEF Resting
<1>2. Length(l.req) = 2 /\ ~Chunked(l.req)
  BY <1>1, LengthOf
<1>3. h.state = "BODY"
  BY <1>2 DEF Headed, Next3
<1>4. h.req = a + 1 /\ h.buffer = Toks(a + 1, 3, n)
  BY DEF Headed, Alike
<1>5. Size(a + 1) = 4
  BY KindFacts
<1>6. Len(h.buffer) = n
  <2>1. PICK t \in Nat: t = 3
    OBVIOUS
  <2>2. PICK j \in Requests: j = a + 1
    BY <1>1
  <2>3. n \in Nat /\ t + n - 1 <= Size(j) /\ t >= 1
    BY <1>5, <2>1, <2>2
  <2>4. Len(Toks(j, t, n)) = n
    BY <2>3, ToksTyped
  <2> QED
    BY <1>4, <2>1, <2>2, <2>4
<1> DEFINE d == ParseBody(h)
<1>7. BodyRead(h, d, <<>>, h.buffer)
  <2>1. Length(h.req) = 2 /\ ~Chunked(h.req)
    BY <1>2, <1>4
  <2>2. Len(h.buffer) <= 2
    BY <1>6
  <2> QED
    BY <1>1, <2>1, <2>2, BodyByLength DEF Headed
<1> HIDE DEF d
<1>8. Resting(d, a)
  BY <1>1, <1>7, BodyResting
<1>9. d.req = a + 1 /\ d.state = "BODY" /\ d.buffer = <<>> /\ d.body = Toks(a + 1, 3, n)
  BY <1>3, <1>4, <1>7 DEF BodyRead, Alike
<1>10. CASE ask[a + 1] \in {"post", "big"}
  <2>1. ~Easy
    BY <1>1, <1>10, NotEasy
  <2>2. 3 + n \in 2..Size(a + 1) + 1
    BY <1>5
  <2>3. \A ok \in BOOLEAN: Unread(a + 1, ok) => Left(d, a, ok, q)
    BY <1>9, <2>1, <2>2 DEF Left
  <2>4. Unread(a + 1, FALSE) /\ (ask[a + 1] = "post" => Unread(a + 1, TRUE))
    BY <1>10 DEF Unread
  <2>5. Result(Answered(d, keepAlive, opens, works), a, q)
    BY <1>8, <1>9, <1>10, <2>3, <2>4, AnswerPage, AnswerBig
  <2> QED
    BY <1>3, <2>5 DEF d
<1>11. CASE ask[a + 1] = "upload"
  <2>1. PICK g: /\ Answered(d, keepAlive, opens, works) = StartUpload(g, opens, works)
                /\ Resting(g, a) /\ GrantedOf(d, g) /\ g.req = a + 1
    BY <1>8, <1>9, <1>11, AnswerUpload
  <2>2. g.buffer = <<>> /\ g.body = Toks(a + 1, 3, n)
    BY <1>9, <2>1 DEF GrantedOf
  <2>3. Result(StartUpload(g, opens, works), a, q)
    BY <1>11, <2>1, <2>2, StartPlain
  <2> QED
    BY <1>3, <2>1, <2>3 DEF d
<1> QED
  BY <1>10, <1>11

\* A head whose body is chunked, n units of which have come.
LEMMA HeadChunked ==
    ASSUME Sane, NEW a \in Nat, NEW l, Resting(l, a),
           l.req = a + 1, ask[a + 1] = "chunked",
           NEW n \in 0..3, NEW h, Headed(l, h, Toks(a + 1, 3, n)), NEW q, At(a + 1, 3 + n, q),
           NEW keepAlive \in BOOLEAN, NEW opens, NEW works
    PROVE  h.state = "BODY" /\ Result(Answered(ParseBody(h), keepAlive, opens, works), a, q)
<1>1. Resting(h, a) /\ Typed(h) /\ a + 1 \in Requests
  BY HeadedResting DEF Resting
<1>2. Chunked(l.req)
  BY <1>1, LengthOf
<1>3. h.state = "BODY"
  BY <1>2 DEF Headed, Next3
<1>4. h.req = a + 1 /\ h.buffer = Toks(a + 1, 3, n)
  BY DEF Headed, Alike
<1> DEFINE d == ParseBody(h)
<1>5. BodyRead(h, d, h.buffer, h.buffer)
  <2>1. Chunked(h.req)
    BY <1>2, <1>4
  <2> QED
    BY <1>1, <2>1, BodyChunked DEF Headed
<1> HIDE DEF d
<1>6. Resting(d, a)
  BY <1>1, <1>5, BodyResting
<1>7. d.req = a + 1 /\ d.state = "BODY" /\ d.buffer = h.buffer /\ d.body = h.buffer
  BY <1>3, <1>4, <1>5 DEF BodyRead, Alike
<1>8. PICK g: /\ Answered(d, keepAlive, opens, works) = StartUpload(g, opens, works)
              /\ Resting(g, a) /\ GrantedOf(d, g) /\ g.req = a + 1
  BY <1>6, <1>7, AnswerUpload
<1>9. g.buffer = Toks(a + 1, 3, n) /\ g.body = g.buffer
  BY <1>4, <1>7, <1>8 DEF GrantedOf
<1>10. Result(StartUpload(g, opens, works), a, q)
  BY <1>8, <1>9, StartChunked
<1> QED
  BY <1>3, <1>8, <1>10 DEF d

-----------------------------------------------------------------------------
(* From the head on *)

\* parseRequest from the head on.
HeadPart(l) ==
    LET h == IF l.state = "HEADERS" THEN ParseHead(l) ELSE l
    IN  IF h.state = "BODY" THEN ParseBody(h) ELSE h

\* The head and what follows it, as tokens.
LEMMA HeadSeen ==
    ASSUME NEW j \in Requests, NEW k \in Nat, k >= 1, k <= Size(j) - 1
    PROVE  /\ Toks(j, 2, k) \in Seq(Tokens) /\ Toks(j, 2, k) # <<>>
           /\ Toks(j, 2, k)[1] = Tok(j, 2)
           /\ Tail(Toks(j, 2, k)) = Toks(j, 3, k - 1)
           /\ ask[j] # "huge" => NoFloodIn(Toks(j, 2, k))
<1>1. PICK t \in Nat: t = 2
  OBVIOUS
<1>2. t >= 1 /\ t + k - 1 <= Size(j)
  BY <1>1, SizeIs
<1>3. /\ Toks(j, t, k) \in Seq(Tokens) /\ Len(Toks(j, t, k)) = k
      /\ \A x \in 1..k: Toks(j, t, k)[x] = Tok(j, t + x - 1)
  BY <1>2, ToksTyped
<1>4. /\ Tail(Toks(j, t, k)) = Toks(j, t + 1, k - 1)
      /\ Toks(j, t, k) # <<>> /\ Toks(j, t, k)[1] = Tok(j, t)
  BY <1>2, ToksHead
<1>5. ASSUME ask[j] # "huge" PROVE NoFloodIn(Toks(j, t, k))
  <2> SUFFICES ASSUME NEW x \in 1..k PROVE Toks(j, t, k)[x].part # "flood"
    BY <1>3 DEF NoFloodIn
  <2>1. Toks(j, t, k)[x].part = Parts(ask[j])[t + x - 1]
    BY <1>3 DEF Tok
  <2>2. t + x - 1 \in 1..Len(Parts(ask[j]))
    BY <1>2 DEF Size
  <2> QED
    BY <1>5, <2>1, <2>2, NoFlood
<1> QED
  BY <1>1, <1>3, <1>4, <1>5

\* The head of request a + 1 has not come.
LEMMA HeadAwaited ==
    ASSUME Sane, NEW a \in Nat, NEW l, Resting(l, a), l.state = "HEADERS", l.req = a + 1,
           ask[a + 1] # "badline", l.buffer = <<>>, NEW q, At(a + 1, 2, q)
    PROVE  Result(l, a, q)
<1>1. Heads(l, a, q)
  BY DEF Heads, Quiet, Resting, Calm
<1>2. Files(l, a)
  BY DEF Files, Resting, Calm
<1>3. Mode(l, a, q)
  BY <1>1, <1>2 DEF Mode, Resting, Calm
<1> QED
  BY <1>3 DEF Result, Resting

\* A head that does not parse, and one that ends the server.
LEMMA HeadRefused ==
    ASSUME Sane, NEW a \in Nat, NEW l, Resting(l, a), NEW q, Left(l, a, FALSE, q)
    PROVE  Result(Fallback([l EXCEPT !.state = "ERROR"]), a, q)
<1> DEFINE d == [l EXCEPT !.state = "ERROR"]
<1>1. Typed(l) /\ l \in ServerType /\ Calm(l, a)
  BY DEF Resting, Typed
<1>2. d \in ServerType
  BY <1>1, Literals, Zenon DEF ServerType
<1>3. /\ Alike(l, d) /\ d.buffer = l.buffer
      /\ d.multipart = l.multipart /\ d.content_type = l.content_type
  BY <1>1 DEF ServerType, Alike
<1> HIDE DEF d
<1>4. Typed(d)
  BY <1>1, <1>2, <1>3 DEF Typed, Alike
<1>5. ~d.MPFlag /\ ~d.multipart /\ ~d.content_type
  BY <1>1, <1>3 DEF Alike, Calm
<1>6. Resting(d, a)
  BY <1>3, <1>4, <1>5, RestingAlike
<1>7. Left(d, a, FALSE, q)
  BY <1>3 DEF Left
<1>8. Result(Fallback(d), a, q)
  BY <1>6, <1>7, RestingRefused
<1> QED
  BY <1>8 DEF d

LEMMA HeadFlooded ==
    ASSUME Sane, NEW a \in Nat, NEW l, Resting(l, a), NEW q,
           NEW keepAlive, NEW opens, NEW works
    PROVE  Result(Answered([l EXCEPT !.state = "ERROR", !.up = FALSE],
                           keepAlive, opens, works), a, q)
<1> DEFINE d == [l EXCEPT !.state = "ERROR", !.up = FALSE]
           e == [d EXCEPT !.open = FALSE, !.rd = FALSE]
<1>1. l \in ServerType /\ Calm(l, a) /\ Kept(l)
  BY DEF Resting, Typed
<1>2. d \in ServerType
  BY <1>1, Literals, Zenon DEF ServerType
<1>3. d.up = FALSE /\ d.disk = l.disk
  BY <1>1 DEF ServerType
<1> HIDE DEF d
<1>4. Answered(d, keepAlive, opens, works) = e
  <2>1. ~d.up
    BY <1>3
  <2> QED
    BY <2>1, Zenon DEF Answered
<1>5. e.open = FALSE /\ e.disk = l.disk
  BY <1>2, <1>3 DEF ServerType
<1> HIDE DEF e
<1>6. Kept(e) /\ Whole(e)
  BY <1>1, <1>5 DEF Kept, Whole, Calm
<1>7. Result(e, a, q)
  BY <1>5, <1>6 DEF Result
<1> QED
  BY <1>4, <1>7 DEF d

\* Whatever has come after the line is read.
LEMMA HeadRead ==
    ASSUME Sane, NEW a \in Nat, NEW l, Resting(l, a),
           l.state = "HEADERS", l.req = a + 1, ask[a + 1] # "badline",
           NEW k \in Nat, k <= Size(a + 1) - 1, l.buffer = Toks(a + 1, 2, k),
           NEW q, At(a + 1, 2 + k, q),
           NEW keepAlive \in BOOLEAN, NEW opens, NEW works
    PROVE  Result(Answered(HeadPart(l), keepAlive, opens, works), a, q)
<1>1. Typed(l) /\ l \in ServerType /\ a + 1 \in Requests /\ l.up = TRUE
  BY DEF Resting, Typed, Calm
<1>2. HeadPart(l) = IF ParseHead(l).state = "BODY" THEN ParseBody(ParseHead(l)) ELSE ParseHead(l)
  BY Zenon DEF HeadPart
<1>3. CASE k = 0
  <2>1. l.buffer = <<>>
    BY <1>3, ToksEmpty
  <2>2. ParseHead(l) = l
    BY <1>1, <2>1, HeadWaits
  <2>3. HeadPart(l) = l
    BY <1>2, <2>2
  <2>4. l.up /\ ~(l.state = "ERROR") /\ l.state \in {"REQUEST_LINE", "HEADERS"}
    BY <1>1
  <2>5. Answered(l, keepAlive, opens, works) = l
    BY <2>4, Zenon DEF Answered
  <2>6. At(a + 1, 2, q)
    BY <1>3
  <2>7. Result(l, a, q)
    BY <2>1, <2>6, HeadAwaited
  <2> QED
    BY <2>3, <2>5, <2>7
<1>4. CASE k # 0
  <2>1. /\ l.buffer \in Seq(Tokens) /\ l.buffer # <<>> /\ l.buffer[1] = Tok(a + 1, 2)
        /\ Tail(l.buffer) = Toks(a + 1, 3, k - 1)
        /\ ask[a + 1] # "huge" => NoFloodIn(l.buffer)
    <3>1. PICK j \in Requests: j = a + 1
      BY <1>1
    <3>2. k >= 1 /\ k <= Size(j) - 1
      BY <1>4, <3>1
    <3>3. /\ Toks(j, 2, k) \in Seq(Tokens) /\ Toks(j, 2, k) # <<>>
          /\ Toks(j, 2, k)[1] = Tok(j, 2)
          /\ Tail(Toks(j, 2, k)) = Toks(j, 3, k - 1)
          /\ ask[j] # "huge" => NoFloodIn(Toks(j, 2, k))
      BY <3>2, HeadSeen
    <3> QED
      BY <3>1, <3>3
  <2>2. ask[a + 1] \in AllKinds \ MultipartKinds
    BY <1>1, NoMultipart
  <2>3. CASE ask[a + 1] = "huge"
    <3>1. l.buffer[1].part = "flood"
      BY <2>1, <2>3, KindFacts
    <3>2. ParseHead(l) = [l EXCEPT !.state = "ERROR", !.up = FALSE]
      BY <1>1, <2>1, <3>1, HeadFlood
    <3>3. ParseHead(l).state # "BODY"
      BY <1>1, <3>2 DEF ServerType
    <3>4. HeadPart(l) = [l EXCEPT !.state = "ERROR", !.up = FALSE]
      BY <1>2, <3>2, <3>3, Zenon
    <3> QED
      BY <3>4, HeadFlooded
  <2>4. CASE ask[a + 1] = "badhead"
    <3>1. l.buffer[1].part = "badhead"
      BY <2>1, <2>4, KindFacts
    <3>2. ParseHead(l) = [l EXCEPT !.state = "ERROR"]
      BY <1>1, <2>1, <2>4, <3>1, HeadBad
    <3> DEFINE d == [l EXCEPT !.state = "ERROR"]
    <3>3. d.state = "ERROR" /\ d.up = TRUE
      BY <1>1 DEF ServerType
    <3>4. ParseHead(l) = d
      BY <3>2
    <3>5. ~Easy
      BY <1>1, <2>4, NotEasy
    <3>6. Heard(a + 1, q)
      <4>1. PICK j \in Nat: j = a + 1
        OBVIOUS
      <4> QED
        BY <4>1, AtHeard
    <3>7. Result(Fallback(d), a, q)
      <4>1. IsLine(l.buffer[1]) => Off(a + 1, FALSE)
        BY <1>1, <2>1, <2>4, KindFacts DEF IsLine, IsNested, Off, Unread
      <4>2. Left(l, a, FALSE, q)
        BY <2>1, <3>5, <3>6, <4>1 DEF Left
      <4> QED
        BY <4>2, HeadRefused
    <3> HIDE DEF d
    <3>8. HeadPart(l) = d
      <4>1. d.state # "BODY"
        BY <3>3
      <4> QED
        BY <1>2, <3>4, <4>1, Zenon
    <3>9. Answered(d, keepAlive, opens, works) = Fallback(d)
      <4>1. d.up /\ d.state = "ERROR"
        BY <3>3
      <4> QED
        BY <4>1, Zenon DEF Answered
    <3> QED
      BY <3>7, <3>8, <3>9
  <2>5. CASE ask[a + 1] \in HeadKinds
    <3> DEFINE h == ParseHead(l)
    <3>1. IsHead(l.buffer[1]) /\ ~l.multipart /\ ~l.content_type
      BY <2>1, <2>5, KindFacts DEF HeadKinds, IsHead, Resting, Calm
    <3>2. NoFloodIn(l.buffer)
      BY <2>1, <2>5 DEF HeadKinds
    <3>3. Headed(l, h, Tail(l.buffer))
      BY <1>1, <2>1, <3>1, <3>2, HeadHeaded
    <3>4. PICK n \in Nat: n = k - 1
      BY <1>4
    <3>5. Headed(l, h, Toks(a + 1, 3, n)) /\ At(a + 1, 3 + n, q)
      <4>1. 2 + k = 3 + n
        BY <3>4
      <4> QED
        BY <2>1, <3>3, <3>4, <4>1
    <3> HIDE DEF h
    <3>6. h = ParseHead(l)
      BY DEF h
    <3>7. CASE ask[a + 1] = "get"
      <4>1. Size(a + 1) = 2
        BY <3>7, KindFacts
      <4>2. n = 0
        BY <1>4, <3>4, <4>1
      <4>3. Headed(l, h, <<>>) /\ At(a + 1, 3, q)
        BY <3>5, <4>2, ToksEmpty
      <4>4. h.state # "BODY" /\ Result(Answered(h, keepAlive, opens, works), a, q)
        BY <3>7, <4>3, HeadGet
      <4>5. HeadPart(l) = h
        BY <1>2, <3>6, <4>4, Zenon
      <4> QED
        BY <4>4, <4>5
    <3>8. CASE ask[a + 1] \in {"post", "big", "upload"}
      <4>1. Size(a + 1) = 4
        BY <3>8, KindFacts
      <4>2. n \in 0..2
        BY <3>4, <4>1
      <4>3. h.state = "BODY" /\ Result(Answered(ParseBody(h), keepAlive, opens, works), a, q)
        BY <3>5, <3>8, <4>2, HeadLength
      <4>4. HeadPart(l) = ParseBody(h)
        BY <1>2, <3>6, <4>3, Zenon
      <4> QED
        BY <4>3, <4>4
    <3>9. CASE ask[a + 1] = "chunked"
      <4>1. Size(a + 1) = 5
        BY <3>9, KindFacts
      <4>2. n \in 0..3
        BY <3>4, <4>1
      <4>3. h.state = "BODY" /\ Result(Answered(ParseBody(h), keepAlive, opens, works), a, q)
        BY <3>5, <3>9, <4>2, HeadChunked
      <4>4. HeadPart(l) = ParseBody(h)
        BY <1>2, <3>6, <4>3, Zenon
      <4> QED
        BY <4>3, <4>4
    <3> QED
      BY <2>5, <3>7, <3>8, <3>9 DEF HeadKinds
  <2> QED
    BY <2>2, <2>3, <2>4, <2>5 DEF AllKinds, MultipartKinds, HeadKinds
<1> QED
  BY <1>3, <1>4

-----------------------------------------------------------------------------
(* From the request line on *)

\* The ClientCon at rest before its next request.
LEMMA QuietResting ==
    ASSUME NEW a \in Nat, a = Len(answers), a + 1 \in Requests, NEW c, Typed(c),
           c.open = TRUE, c.up = TRUE, c.out.queued = FALSE, Kept(c),
           ~c.MPFlag, ~c.multipart, ~c.content_type, Files(c, a), Quiet(c)
    PROVE  Resting(c, a)
<1>1. c.upload_active = FALSE /\ c.chunked = FALSE
  BY Fields DEF Typed, Quiet
<1>2. \A f \in c.disk: f.req <= a /\ (ByLength(f.req) => f.data = Content(f.req))
  BY <1>1 DEF Files
<1>3. \A f \in c.disk: f.req <= a + 1
  <2> SUFFICES ASSUME NEW f \in c.disk PROVE f.req <= a + 1
    OBVIOUS
  <2>1. f.req \in Nat
    BY Fields, RequestsAre DEF Typed
  <2> QED
    BY <1>2, <2>1
<1>4. Calm(c, a)
  BY <1>1, <1>2, <1>3 DEF Calm, Quiet, Typed
<1> QED
  BY <1>2, <1>4 DEF Resting

\* What recv adds to the buffer.
Received(c, data) == [c EXCEPT !.buffer = @ \o data]

\* The bytes that have come.
LEMMA ReceivedFields ==
    ASSUME NEW c, Typed(c), c.buffer = <<>>, NEW data \in Seq(Tokens)
    PROVE  LET b == Received(c, data) IN
           /\ Typed(b) /\ b.buffer = data /\ Alike(c, b) /\ b.state = c.state
           /\ b.multipart = c.multipart /\ b.content_type = c.content_type
<1> DEFINE b == Received(c, data)
<1>1. c \in ServerType /\ c.buffer \o data = data
  BY DEF Typed
<1>2. b = [c EXCEPT !.buffer = data]
  BY <1>1, Zenon DEF Received
<1>3. [c EXCEPT !.buffer = data] \in ServerType
  BY <1>1, Zenon DEF ServerType
<1> HIDE DEF b
<1>4. /\ b \in ServerType /\ b.buffer = data /\ Alike(c, b) /\ b.state = c.state
      /\ b.multipart = c.multipart /\ b.content_type = c.content_type
  <2>1. b.multipart = c.multipart /\ b.content_type = c.content_type
    BY <1>1, <1>2, Zenon DEF ServerType
  <2>2. b \in ServerType
    BY <1>2, <1>3
  <2>3. b.buffer = data /\ b.state = c.state
    BY <1>1, <1>2 DEF ServerType
  <2>4. Alike(c, b)
    BY <1>1, <1>2 DEF ServerType, Alike
  <2> QED
    BY <2>1, <2>2, <2>3, <2>4, Zenon
<1>5. Typed(b)
  BY <1>4 DEF Typed, Alike
<1> QED
  BY <1>4, <1>5 DEF b

\* A request line that has come.
LEMMA LineIs ==
    ASSUME NEW b, Typed(b), b.state = "REQUEST_LINE", NEW j \in Requests, b.buffer # <<>>,
           b.buffer[1] = [req |-> j, part |-> "line"]
    PROVE  LET l == ParseLine(b) IN
           /\ Typed(l) /\ l.state = "HEADERS" /\ l.req = j /\ l.buffer = Tail(b.buffer)
           /\ l.up = b.up /\ l.open = b.open /\ l.MPFlag = b.MPFlag
           /\ l.multipart = b.multipart /\ l.content_type = b.content_type
           /\ l.upload_active = b.upload_active /\ l.chunked = b.chunked
           /\ l.chunk_buf = b.chunk_buf /\ l.mp_buf = b.mp_buf /\ l.mp_state = b.mp_state
           /\ l.disk = b.disk /\ l.out = b.out
<1>1. b \in ServerType /\ b.buffer \in Seq(Tokens)
  BY Fields DEF Typed
<1>2. EndsLine(b.buffer[1])
  BY DEF EndsLine
<1>3. SelectInSeq(b.buffer, EndsLine) = 1
  BY <1>1, <1>2, EndFacts
<1> DEFINE l == ParseLine(b)
<1>4. l = [b EXCEPT !.state = "HEADERS", !.req = j, !.buffer = Tail(@)]
  <2>1. /\ b.buffer[1].part = "line" /\ b.buffer[1].req = j /\ IsLine(b.buffer[1])
        /\ ~(b.buffer[1].part = "badhead") /\ ~(1 = 0)
    BY DEF IsLine
  <2> QED
    BY <1>3, <2>1, Zenon DEF ParseLine
<1>5. Typed(l)
  BY ParseLineTyped
<1> HIDE DEF l
<1>6. /\ l.state = "HEADERS" /\ l.req = j /\ l.buffer = Tail(b.buffer)
      /\ l.up = b.up /\ l.open = b.open /\ l.MPFlag = b.MPFlag /\ l.multipart = b.multipart
      /\ l.content_type = b.content_type
      /\ l.upload_active = b.upload_active /\ l.chunked = b.chunked
      /\ l.chunk_buf = b.chunk_buf /\ l.mp_buf = b.mp_buf /\ l.mp_state = b.mp_state
      /\ l.disk = b.disk /\ l.out = b.out
  BY <1>1, <1>4 DEF ServerType
<1> QED
  BY <1>5, <1>6 DEF l

LEMMA ParseIs ==
    ASSUME NEW c, NEW data
    PROVE  ParseRequest(c, data) =
             LET b == Received(c, data) IN
             HeadPart(IF b.state = "REQUEST_LINE" THEN ParseLine(b) ELSE b)
BY DEF ParseRequest, Received, HeadPart

\* The bytes after a line, and those of a new request.
LEMMA HeadsRead ==
    ASSUME Sane, NEW a \in Nat, a = Len(answers), NEW c, Typed(c),
           c.open = TRUE, c.up = TRUE, c.out.queued = FALSE, Kept(c),
           ~c.MPFlag, ~c.multipart, ~c.content_type, Files(c, a),
           NEW q \in Seq(Tokens), Heads(c, a, q), NEW n \in 1..Len(q),
           NEW keepAlive \in BOOLEAN, NEW opens, NEW works
    PROVE  Result(ReadRequest(c, SubSeq(q, 1, n), keepAlive, opens, works), a,
                  SubSeq(q, n + 1, Len(q)))
<1> DEFINE data == SubSeq(q, 1, n)
           rest == SubSeq(q, n + 1, Len(q))
           b == Received(c, data)
<1>1. a + 1 \in Requests /\ Quiet(c) /\ c.state = "HEADERS" /\ c.req = a + 1
      /\ ask[a + 1] # "badline" /\ At(a + 1, 2, q) /\ c.buffer = <<>>
  BY DEF Heads, Quiet
<1>2. data = Toks(a + 1, 2, n) /\ 2 + n - 1 <= Size(a + 1) /\ At(a + 1, 2 + n, rest)
  <2>1. PICK j \in Nat: j = a + 1
    OBVIOUS
  <2>2. PICK t \in Nat: t = 2
    OBVIOUS
  <2>3. j >= 1 /\ t >= 1 /\ At(j, t, q)
    BY <1>1, <2>1, <2>2
  <2>4. /\ SubSeq(q, 1, n) = Toks(j, t, n) /\ t + n - 1 <= Size(j)
        /\ At(j, t + n, SubSeq(q, n + 1, Len(q)))
    BY <2>3, AtCut
  <2> QED
    BY <2>1, <2>2, <2>4
<1>3. data \in Seq(Tokens)
  BY FirstUnits
<1>4. Resting(c, a)
  BY <1>1, QuietResting
<1> HIDE DEF data, rest
<1>5. Typed(b) /\ b.buffer = data /\ Alike(c, b) /\ b.state = c.state
      /\ b.multipart = c.multipart /\ b.content_type = c.content_type
  BY <1>1, <1>3, ReceivedFields
<1>6. ReadRequest(c, data, keepAlive, opens, works) =
          Answered(HeadPart(b), keepAlive, opens, works)
  <2>1. b.state # "REQUEST_LINE"
    BY <1>1, <1>5
  <2>2. ParseRequest(c, data) = HeadPart(b)
    BY <2>1, ParseIs, Zenon
  <2> QED
    BY <2>2, ReadRequestIs
<1> HIDE DEF b
<1>7. b.MPFlag = c.MPFlag /\ b.req = a + 1
  BY <1>1, <1>5 DEF Alike
<1>8. ~b.MPFlag /\ ~b.multipart /\ ~b.content_type
  BY <1>5, <1>7
<1>9. Resting(b, a)
  BY <1>4, <1>5, <1>8, RestingAlike
<1>10. n \in Nat /\ n <= Size(a + 1) - 1
  BY <1>2, SizeIs
<1>11. b.state = "HEADERS" /\ b.buffer = Toks(a + 1, 2, n)
  BY <1>1, <1>2, <1>5
<1>12. Result(Answered(HeadPart(b), keepAlive, opens, works), a, rest)
  BY <1>1, <1>2, <1>7, <1>9, <1>10, <1>11, HeadRead
<1> QED
  BY <1>6, <1>12 DEF data, rest

LEMMA IdleRead ==
    ASSUME Sane, NEW a \in Nat, a = Len(answers), NEW c, Typed(c),
           c.open = TRUE, c.up = TRUE, c.out.queued = FALSE, Kept(c),
           ~c.MPFlag, ~c.multipart, ~c.content_type, Files(c, a),
           NEW q \in Seq(Tokens), Idle(c, a, q), NEW n \in 1..Len(q),
           NEW keepAlive \in BOOLEAN, NEW opens, NEW works
    PROVE  Result(ReadRequest(c, SubSeq(q, 1, n), keepAlive, opens, works), a,
                  SubSeq(q, n + 1, Len(q)))
<1> DEFINE data == SubSeq(q, 1, n)
           rest == SubSeq(q, n + 1, Len(q))
           b == Received(c, data)
<1>1. Quiet(c) /\ c.state = "REQUEST_LINE" /\ At(a + 1, 1, q) /\ c.buffer = <<>>
      /\ c.upload_active = FALSE
  BY Fields DEF Idle, Quiet, Typed
<1>2. /\ a + 1 \in Requests
      /\ data = Toks(a + 1, 1, n) /\ 1 + n - 1 <= Size(a + 1) /\ At(a + 1, 1 + n, rest)
  <2>1. PICK j \in Nat: j = a + 1
    OBVIOUS
  <2>2. PICK t \in Nat: t = 1
    OBVIOUS
  <2>3. j >= 1 /\ t >= 1 /\ At(j, t, q)
    BY <1>1, <2>1, <2>2
  <2>4. /\ j \in Requests /\ SubSeq(q, 1, n) = Toks(j, t, n) /\ t + n - 1 <= Size(j)
        /\ At(j, t + n, SubSeq(q, n + 1, Len(q)))
    BY <2>3, AtCut
  <2>5. data = Toks(a + 1, 1, n)
    BY <2>1, <2>2, <2>4
  <2>6. 1 + n - 1 <= Size(a + 1)
    BY <2>1, <2>2, <2>4, SizeIs
  <2>7. At(a + 1, 1 + n, rest)
    BY <2>1, <2>2, <2>4
  <2> QED
    BY <2>1, <2>4, <2>5, <2>6, <2>7
<1>3. data \in Seq(Tokens) /\ Len(data) = n /\ data # <<>>
  BY FirstUnits
<1>4. Resting(c, a)
  BY <1>1, <1>2, QuietResting
<1>5. data[1] = Tok(a + 1, 1) /\ Tail(data) = Toks(a + 1, 2, n - 1)
  <2>1. PICK t \in Nat: t = 1
    OBVIOUS
  <2>2. PICK j \in Requests: j = a + 1
    BY <1>2
  <2>3. t >= 1 /\ n \in Nat /\ n >= 1 /\ t + n - 1 <= Size(j)
    BY <1>2, <2>1, <2>2
  <2>4. Tail(Toks(j, t, n)) = Toks(j, t + 1, n - 1) /\ Toks(j, t, n)[1] = Tok(j, t)
    BY <2>3, ToksHead
  <2>5. data = Toks(j, t, n)
    BY <1>2, <2>1, <2>2
  <2>6. Tok(j, t) = Tok(a + 1, 1)
    BY <2>1, <2>2
  <2>7. Toks(j, t + 1, n - 1) = Toks(a + 1, 2, n - 1)
    BY <2>1, <2>2
  <2> HIDE DEF data
  <2> QED
    BY <2>4, <2>5, <2>6, <2>7, Zenon
<1>6. ask[a + 1] \in AllKinds
  BY <1>2, NoMultipart
<1> HIDE DEF data, rest
<1>7. CASE ask[a + 1] = "badline"
  <2>1. data[1].part = "badline"
    BY <1>5, <1>7, KindFacts
  <2>2. EndsLine(data[1])
    BY <2>1 DEF EndsLine
  <2>3. c.buffer \o data = data /\ c \in ServerType
    BY <1>1, <1>3 DEF Typed
  <2>4. PICK k: NoLine(c, k, data, ReadRequest(c, data, keepAlive, opens, works))
    <3>1. ~IsLine(data[1])
      BY <2>1 DEF IsLine
    <3>2. \E k: NoLine(c, k, c.buffer \o data, ReadRequest(c, data, keepAlive, opens, works))
      BY <1>1, <1>3, <2>3, <3>1, NoLineRead
    <3> QED
      BY <2>3, <3>2
  <2>5. \E x \in 1..Len(data): EndsLine(data[x])
    BY <1>3, <2>2
  <2>6. ReadRequest(c, data, keepAlive, opens, works) = Fallback(k) /\ Unparsed(c, k, data)
    BY <2>4, <2>5 DEF NoLine
  <2>7. ~Easy
    BY <1>2, <1>7, NotEasy
  <2>8. Heard(a + 1, rest)
    <3>1. PICK j \in Nat: j = a + 1
      OBVIOUS
    <3> QED
      BY <1>2, <3>1, AtHeard
  <2>9. /\ k \in ServerType /\ k.buffer = data /\ k.up = c.up /\ k.open = c.open
        /\ k.MPFlag = c.MPFlag /\ k.multipart = c.multipart
        /\ k.content_type = c.content_type /\ k.disk = c.disk
        /\ k.upload_active = c.upload_active
    BY <2>6 DEF Unparsed
  <2>10. Same(k, Clear(k)) /\ Clear(k).state = "REQUEST_LINE"
    BY <2>9, ClearFields
  <2>11. Files(Clear(k), a + 1)
    BY <1>4, <2>9, <2>10 DEF Files, Same, Resting, Calm
  <2>12. /\ ~Clear(k).upload_active /\ Clear(k).up /\ ~Clear(k).MPFlag
         /\ ~Clear(k).multipart /\ ~Clear(k).content_type
         /\ Clear(k).buffer # <<>> /\ ~IsLine(Clear(k).buffer[1])
    BY <1>1, <1>3, <2>1, <2>9, <2>10 DEF Same, IsLine
  <2>13. Mode(Clear(k), a + 1, rest)
    BY <2>7, <2>8, <2>10, <2>11, <2>12, DoomedMode
  <2>14. Kept(k) /\ k.open = TRUE
    BY <2>9 DEF Kept
  <2>15. Result(Fallback(k), a, rest)
    BY <2>9, <2>13, <2>14, RefusedResult
  <2> QED
    BY <2>6, <2>15 DEF data, rest
<1>8. CASE ask[a + 1] # "badline"
  <2>1. data[1] = [req |-> a + 1, part |-> "line"]
    BY <1>5, <1>6, <1>8, KindFacts
  <2>2. Typed(b) /\ b.buffer = data /\ Alike(c, b) /\ b.state = c.state
        /\ b.multipart = c.multipart /\ b.content_type = c.content_type
    BY <1>1, <1>3, ReceivedFields
  <2> DEFINE l == ParseLine(b)
  <2>3. ReadRequest(c, data, keepAlive, opens, works) =
            Answered(HeadPart(l), keepAlive, opens, works)
    <3>1. b.state = "REQUEST_LINE"
      BY <1>1, <2>2
    <3>2. ParseRequest(c, data) = HeadPart(l)
      BY <3>1, ParseIs, Zenon
    <3> QED
      BY <3>2, ReadRequestIs
  <2> HIDE DEF b
  <2>4. /\ Typed(l) /\ l.state = "HEADERS" /\ l.req = a + 1 /\ l.buffer = Tail(data)
        /\ l.up = b.up /\ l.open = b.open /\ l.MPFlag = b.MPFlag
        /\ l.multipart = b.multipart /\ l.content_type = b.content_type
        /\ l.upload_active = b.upload_active /\ l.chunked = b.chunked
        /\ l.chunk_buf = b.chunk_buf /\ l.mp_buf = b.mp_buf /\ l.mp_state = b.mp_state
        /\ l.disk = b.disk /\ l.out = b.out
    <3>1. PICK j \in Requests: j = a + 1
      BY <1>2
    <3>2. b.state = "REQUEST_LINE" /\ b.buffer # <<>>
          /\ b.buffer[1] = [req |-> j, part |-> "line"]
      BY <1>1, <1>3, <2>1, <2>2, <3>1
    <3> QED
      BY <2>2, <3>1, <3>2, LineIs, ZenonT(30)
  <2> HIDE DEF l
  <2>5. /\ l.up = c.up /\ l.open = c.open /\ l.MPFlag = c.MPFlag
        /\ l.multipart = c.multipart /\ l.content_type = c.content_type
        /\ l.upload_active = c.upload_active /\ l.chunked = c.chunked
        /\ l.chunk_buf = c.chunk_buf /\ l.mp_buf = c.mp_buf /\ l.mp_state = c.mp_state
        /\ l.disk = c.disk /\ l.out = c.out
    BY <2>2, <2>4 DEF Alike
  <2>6. ~l.MPFlag /\ ~l.multipart /\ ~l.content_type
    BY <2>5
  <2>7. Resting(l, a)
    BY <1>4, <2>4, <2>5, <2>6, RestingWith
  <2>8. PICK k \in Nat: k = n - 1
    OBVIOUS
  <2>9. k <= Size(a + 1) - 1 /\ l.buffer = Toks(a + 1, 2, k) /\ At(a + 1, 2 + k, rest)
    <3>1. 1 + n = 2 + k /\ k <= Size(a + 1) - 1
      BY <1>2, <2>8, SizeIs
    <3> QED
      BY <1>2, <1>5, <2>4, <2>8, <3>1
  <2>10. Result(Answered(HeadPart(l), keepAlive, opens, works), a, rest)
    BY <1>8, <2>4, <2>7, <2>9, HeadRead
  <2> QED
    BY <2>3, <2>10 DEF data, rest
<1> QED
  BY <1>7, <1>8

-----------------------------------------------------------------------------
(* What a step of the server leaves alone *)

\* A step of the server leaves the client's part of the invariant alone.
LEMMA AtKept ==
    ASSUME ask' = ask, peer'.req = peer.req, peer'.pos = peer.pos, NEW j, NEW p, NEW q
    PROVE  At(j, p, q)' <=> At(j, p, q)
BY DEF At, Toks, Tok, Size

LEMMA HeardKept ==
    ASSUME ask' = ask, peer'.req = peer.req, peer'.pos = peer.pos, NEW a, NEW q
    PROVE  Heard(a, q)' <=> Heard(a, q)
BY DEF Heard, HasEnd, EndsLine

LEMMA LinesKept ==
    ASSUME ask' = ask, NEW t
    PROVE  (IsLine(t)' <=> IsLine(t)) /\ (EndsLine(t)' <=> EndsLine(t))
BY DEF IsLine, IsNested, EndsLine

LEMMA ToksKept ==
    ASSUME ask' = ask, NEW j, NEW p, NEW n
    PROVE  Toks(j, p, n)' = Toks(j, p, n)
BY DEF Toks, Tok

LEMMA ContentKept ==
    ASSUME ask' = ask, NEW j
    PROVE  Content(j)' = Content(j) /\ (ByLength(j)' <=> ByLength(j))
BY DEF Content, ByLength

LEMMA ModeKept ==
    ASSUME ask' = ask, peer'.req = peer.req, peer'.pos = peer.pos, NEW c, NEW a, NEW q,
           Mode(c, a, q)
    PROVE  Mode(c, a, q)'
<1>1. Idle(c, a, q) => Idle(c, a, q)'
  BY AtKept DEF Idle
<1>2. Heads(c, a, q) => Heads(c, a, q)'
  BY AtKept DEF Heads
<1>3. Plain(c, a, q) => Plain(c, a, q)'
  BY AtKept, ToksKept DEF Plain
<1>4. Chunk(c, a, q) => Chunk(c, a, q)'
  BY AtKept, HeardKept, LinesKept DEF Chunk
<1>5. Zombie(c, a, q) => Zombie(c, a, q)'
  BY HeardKept DEF Zombie
<1>6. Doomed(c, a, q) => Doomed(c, a, q)'
  BY HeardKept, LinesKept DEF Doomed, NotLine, Tok
<1>7. Files(c, a) => Files(c, a)'
  BY ContentKept DEF Files
<1> QED
  BY <1>1, <1>2, <1>3, <1>4, <1>5, <1>6, <1>7 DEF Mode

LEMMA ResultKept ==
    ASSUME ask' = ask, peer'.req = peer.req, peer'.pos = peer.pos, answers' = answers,
           NEW c, NEW a, NEW q, Result(c, a, q)
    PROVE  Result(c, a, q)'
<1>1. Kept(c) => Kept(c)'
  BY ContentKept DEF Kept
<1>2. Whole(c) => Whole(c)'
  BY ContentKept DEF Whole
<1>3. ASSUME Queued(c, a, q) PROVE Queued(c, a, q)'
  <2>1. PICK d: d = Clear(c)
    OBVIOUS
  <2>2. PICK b: b = a + 1
    OBVIOUS
  <2>3. Mode(d, b, q) => Mode(d, b, q)'
    BY ModeKept
  <2>4. Off(a + 1, c.out.ok)' \/ Mode(Clear(c), a + 1, q)'
    BY <1>3, <2>1, <2>2, <2>3 DEF Queued, Off, Unread
  <2> QED
    BY <1>3, <2>4, ContentKept DEF Queued
<1>4. Mode(c, a, q) => Mode(c, a, q)'
  BY ModeKept
<1> QED
  BY <1>1, <1>2, <1>3, <1>4 DEF Result

-----------------------------------------------------------------------------
(* read_client *)

\* read_client, in each mode of the connection.
LEMMA ReadAny ==
    ASSUME Sane, NEW a \in Nat, a = Len(answers), NEW c, Typed(c),
           c.open = TRUE, c.out.queued = FALSE, Kept(c), NEW q \in Seq(Tokens), Mode(c, a, q),
           NEW n \in 1..Len(q), NEW keepAlive \in BOOLEAN, NEW opens, NEW works
    PROVE  Result(IF c.upload_active
                  THEN ReadUpload(c, SubSeq(q, 1, n), keepAlive, opens, works)
                  ELSE ReadRequest(c, SubSeq(q, 1, n), keepAlive, opens, works), a,
                  SubSeq(q, n + 1, Len(q)))
<1> DEFINE data == SubSeq(q, 1, n)
           rest == SubSeq(q, n + 1, Len(q))
           U == ReadUpload(c, data, keepAlive, opens, works)
           R == ReadRequest(c, data, keepAlive, opens, works)
<1>1. c \in ServerType /\ c.up \in BOOLEAN /\ c.upload_active \in BOOLEAN
  BY Fields DEF Typed
<1>2. /\ c.up = TRUE /\ ~c.MPFlag /\ ~c.multipart /\ ~c.content_type /\ Files(c, a)
      /\ \/ Idle(c, a, q) \/ Heads(c, a, q) \/ Plain(c, a, q)
         \/ Chunk(c, a, q) \/ Zombie(c, a, q) \/ Doomed(c, a, q)
  BY <1>1 DEF Mode
<1>3. data \in Seq(Tokens) /\ data # <<>>
  BY FirstUnits
<1>4. ASSUME c.upload_active, Result(U, a, rest)
      PROVE  Result(IF c.upload_active THEN U ELSE R, a, rest)
  <2> HIDE DEF U, R, rest
  <2> QED
    BY <1>4, Zenon
<1>5. ASSUME ~c.upload_active, Result(R, a, rest)
      PROVE  Result(IF c.upload_active THEN U ELSE R, a, rest)
  <2> HIDE DEF U, R, rest
  <2> QED
    BY <1>5, Zenon
<1>6. CASE Idle(c, a, q)
  <2>1. ~c.upload_active
    BY <1>6 DEF Idle, Quiet
  <2>2. Result(R, a, rest)
    BY <1>2, <1>6, IdleRead
  <2> QED
    BY <1>5, <2>1, <2>2
<1>7. CASE Heads(c, a, q)
  <2>1. ~c.upload_active
    BY <1>7 DEF Heads, Quiet
  <2>2. Result(R, a, rest)
    BY <1>2, <1>7, HeadsRead
  <2> QED
    BY <1>5, <2>1, <2>2
<1>8. CASE Plain(c, a, q)
  <2>1. c.upload_active
    BY <1>8 DEF Plain, Uploading
  <2>2. Result(U, a, rest)
    BY <1>1, <1>2, <1>8, PlainRead
  <2> QED
    BY <1>4, <2>1, <2>2
<1>9. CASE Chunk(c, a, q)
  <2>1. c.upload_active
    BY <1>9 DEF Chunk
  <2>2. PICK d \in Seq(Tokens): d = data
    BY <1>3
  <2>3. PICK q2: q2 = rest
    OBVIOUS
  <2>4. d # <<>>
    BY <1>3, <2>2
  <2>5. Result(ReadUpload(c, d, keepAlive, opens, works), a, q2)
    BY <1>2, <1>9, <2>4, ChunkRead
  <2>6. Result(U, a, rest)
    BY <2>2, <2>3, <2>5
  <2> QED
    BY <1>4, <2>1, <2>6
<1>10. CASE Zombie(c, a, q)
  <2>1. c.upload_active
    BY <1>10 DEF Zombie
  <2>2. Result(U, a, rest)
    BY <1>1, <1>2, <1>10, ZombieRead
  <2> QED
    BY <1>4, <2>1, <2>2
<1>11. CASE Doomed(c, a, q)
  <2>1. ~c.upload_active
    BY <1>11 DEF Doomed
  <2>2. Result(R, a, rest)
    BY <1>1, <1>2, <1>11, DoomedRead
  <2> QED
    BY <1>5, <2>1, <2>2
<1> QED
  BY <1>2, <1>6, <1>7, <1>8, <1>9, <1>10, <1>11

\* The number of answers.
LEMMA AnswersLen == TypesInv => Len(answers) \in Nat /\ answers \in Seq(Answer)
BY LenProperties DEF Sane, TypesInv, TypeOK

\* read_client keeps the invariant.
LEMMA ReadStep ==
    ASSUME Sane, Result(server, Len(answers), rcv), ReadClient
    PROVE  Result(server, Len(answers), rcv)'
<1> DEFINE a == Len(answers)
<1>1. /\ server.open /\ server.rd /\ ask' = ask /\ peer' = peer /\ answers' = answers
  BY DEF ReadClient
<1>2. Typed(server) /\ rcv \in Seq(Tokens) /\ a \in Nat
  BY AnswersLen DEF Sane, TypesInv, TypeOK
<1>3. server.open = TRUE /\ server.out.queued \in BOOLEAN
  BY <1>1, <1>2, Fields DEF Typed, Answer
<1>4. Result(server, a, rcv)
  OBVIOUS
<1>5. server.out.queued = FALSE
  BY <1>1, <1>3, <1>4 DEF Result, Queued
<1>6. Mode(server, a, rcv) /\ Kept(server)
  BY <1>1, <1>4, <1>5 DEF Result
<1>7. PICK n \in 1..Len(rcv), keepAlive \in BOOLEAN, opens \in Outcomes, works \in Outcomes:
         /\ server' = IF server.upload_active
                      THEN ReadUpload(server, SubSeq(rcv, 1, n), keepAlive, opens, works)
                      ELSE ReadRequest(server, SubSeq(rcv, 1, n), keepAlive, opens, works)
         /\ rcv' = SubSeq(rcv, n + 1, Len(rcv))
  BY DEF ReadClient
<1>8. PICK c: c = server
  OBVIOUS
<1>9. PICK q \in Seq(Tokens): q = rcv
  BY <1>2
<1>10. PICK b \in Nat: b = Len(answers)
  BY <1>2
<1>11. /\ Typed(c) /\ c.open = TRUE /\ c.out.queued = FALSE /\ Kept(c) /\ Mode(c, b, q)
       /\ n \in 1..Len(q)
  BY <1>2, <1>3, <1>5, <1>6, <1>8, <1>9, <1>10
<1>12. Result(IF c.upload_active
              THEN ReadUpload(c, SubSeq(q, 1, n), keepAlive, opens, works)
              ELSE ReadRequest(c, SubSeq(q, 1, n), keepAlive, opens, works), b,
              SubSeq(q, n + 1, Len(q)))
  BY <1>10, <1>11, ReadAny
<1>13. Result(server', b, rcv')
  BY <1>7, <1>8, <1>9, <1>12
<1>14. PICK d: d = server'
  OBVIOUS
<1>15. PICK r: r = rcv'
  OBVIOUS
<1>16. Result(d, b, r)'
  BY <1>1, <1>13, <1>14, <1>15, ResultKept
<1>17. b = Len(answers)'
  BY <1>1, <1>10
<1> QED
  BY <1>14, <1>15, <1>16, <1>17

-----------------------------------------------------------------------------
(* close_client *)

\* What close_client leaves: the file of an upload under way goes, the file of
\* an upload that has been answered stays.
LEMMA CloseFields ==
    ASSUME NEW c \in ServerType
    PROVE  LET r == CloseClient(c) IN
           /\ r.open = FALSE
           /\ \A f: f \in r.disk <=> f \in c.disk /\ ~(c.upload_active /\ f.req = c.path)
<1>1. CloseClient(c).open = FALSE
  BY SMT DEF CloseClient, Fresh
<1>2. CloseClient(c).disk = IF c.upload_active THEN Without(c.disk, c.path) ELSE c.disk
  BY SMT DEF CloseClient, Fresh
<1>3. \A f: f \in CloseClient(c).disk <=> f \in c.disk /\ ~(c.upload_active /\ f.req = c.path)
  BY <1>2 DEF Without
<1> QED
  BY <1>1, <1>3

\* The files that stay are whole.
LEMMA CloseWhole ==
    ASSUME NEW c \in ServerType, NEW a \in Nat, NEW q, Mode(c, a, q)
    PROVE  /\ Whole(CloseClient(c))
           /\ \A f \in c.disk: f.req <= a /\ ByLength(f.req) => f \in CloseClient(c).disk
<1> DEFINE r == CloseClient(c)
<1>1. \A f: f \in r.disk <=> f \in c.disk /\ ~(c.upload_active /\ f.req = c.path)
  BY CloseFields
<1> HIDE DEF r
<1>2. Whole(r)
  BY <1>1 DEF Mode, Files, Whole
<1>3. ASSUME NEW f \in c.disk, f.req <= a, ByLength(f.req), c.upload_active, f.req = c.path
      PROVE  FALSE
  <2>1. ask[f.req] # "chunked"
    BY <1>3 DEF ByLength
  <2>2. ~(c.path = a + 1)
    BY <1>3
  <2>3. ~Uploading(c, a)
    BY <2>2 DEF Uploading
  <2>4. ~Idle(c, a, q) /\ ~Heads(c, a, q) /\ ~Doomed(c, a, q)
    BY <1>3 DEF Idle, Heads, Quiet, Doomed
  <2>5. ~Plain(c, a, q)
    BY <2>3 DEF Plain
  <2>6. ~Chunk(c, a, q)
    BY <1>3, <2>1 DEF Chunk
  <2>7. ~Zombie(c, a, q)
    BY <1>3 DEF Zombie
  <2> QED
    BY <2>4, <2>5, <2>6, <2>7 DEF Mode
<1>4. \A f \in c.disk: f.req <= a /\ ByLength(f.req) => f \in r.disk
  BY <1>1, <1>3
<1> QED
  BY <1>2, <1>4 DEF r

\* The same of a server whose answer is queued.
LEMMA CloseQueued ==
    ASSUME NEW c \in ServerType, NEW a \in Nat, NEW q, Queued(c, a, q), ~Off(a + 1, c.out.ok)
    PROVE  /\ Whole(CloseClient(c))
           /\ \A f \in c.disk: f.req <= a + 1 /\ ByLength(f.req) => f \in CloseClient(c).disk
<1>1. PICK d \in ServerType: d = Clear(c) /\ Same(c, d)
  BY ClearFields
<1>2. PICK b \in Nat: b = a + 1
  OBVIOUS
<1>3. Mode(d, b, q)
  BY <1>1, <1>2 DEF Queued
<1>4. /\ Whole(CloseClient(d))
      /\ \A f \in d.disk: f.req <= b /\ ByLength(f.req) => f \in CloseClient(d).disk
  BY <1>3, CloseWhole
<1>5. CloseClient(d) = CloseClient(c)
  BY <1>1 DEF CloseClient, Same
<1> QED
  BY <1>1, <1>2, <1>4, <1>5 DEF Same

\* recv gives the end of the stream, or the connection times out.
LEMMA CloseResult ==
    ASSUME NEW c \in ServerType, c.open, NEW a \in Nat, a = Len(answers), NEW q,
           Result(c, a, q), c.out.queued => ~Off(a + 1, c.out.ok)
    PROVE  Result(CloseClient(c), a, q)
<1>1. /\ Whole(CloseClient(c))
      /\ \A f \in c.disk: f.req <= a /\ ByLength(f.req) => f \in CloseClient(c).disk
  <2>1. CASE c.out.queued
    <3>1. /\ Whole(CloseClient(c))
          /\ \A f \in c.disk: f.req <= a + 1 /\ ByLength(f.req) => f \in CloseClient(c).disk
      BY <2>1, CloseQueued DEF Result
    <3>2. \A f \in c.disk: f.req \in Nat
      BY Fields, RequestsAre
    <3> QED
      BY <3>1, <3>2
  <2>2. CASE ~c.out.queued
    BY <2>2, CloseWhole DEF Result
  <2> QED
    BY <2>1, <2>2
<1>2. PICK r: r = CloseClient(c)
  OBVIOUS
<1>3. r.open = FALSE
  BY <1>2, CloseFields
<1>4. Kept(r)
  <2> SUFFICES ASSUME NEW j \in Requests \cap 1..Len(answers), ByLength(j), answers[j].ok
               PROVE  \E f \in r.disk: f.req = j
    BY DEF Kept
  <2>1. PICK f \in c.disk: f.req = j
    BY DEF Result, Kept
  <2>2. j <= a
    OBVIOUS
  <2> QED
    BY <1>1, <1>2, <2>1, <2>2
<1> QED
  BY <1>1, <1>2, <1>3, <1>4 DEF Result

\* A close keeps the invariant.
LEMMA CloseStep ==
    ASSUME Sane, Result(server, Len(answers), rcv), server.open,
           server' = CloseClient(server), UNCHANGED <<ask, peer, rcv, answers>>
    PROVE  Lost' \/ Result(server, Len(answers), rcv)'
<1>1. PICK c \in ServerType: c = server
  BY DEF Sane, TypesInv, Typed
<1>2. PICK a \in Nat: a = Len(answers)
  BY AnswersLen
<1>3. PICK q: q = rcv
  OBVIOUS
<1>4. CASE Off(a + 1, c.out.ok)
  <2>1. server'.open = FALSE
    BY <1>1, CloseFields
  <2>2. Off(Len(answers) + 1, FALSE)'
    BY <1>2, <1>4 DEF Off, Unread
  <2> QED
    BY <2>1, <2>2 DEF Lost
<1>5. CASE ~Off(a + 1, c.out.ok)
  <2>1. Result(CloseClient(c), a, q)
    BY <1>1, <1>2, <1>3, <1>5, CloseResult
  <2>2. PICK d: d = server'
    OBVIOUS
  <2>3. Result(d, a, q)'
    BY <1>1, <2>1, <2>2, ResultKept
  <2>4. a = Len(answers)' /\ q = rcv'
    BY <1>2, <1>3
  <2> QED
    BY <2>2, <2>3, <2>4
<1> QED
  BY <1>4, <1>5

-----------------------------------------------------------------------------
(* client_write *)

\* What the connection is after an answer has been sent and it is kept alive.
LEMMA FinalizeFields ==
    ASSUME NEW c \in ServerType, c.keep_alive
    PROVE  LET r == Finalize(c) IN
           /\ Same(Clear(c), r) /\ r.state = Clear(c).state /\ r.req = Clear(c).req
           /\ r.open = c.open /\ r.out.queued = FALSE /\ r.disk = c.disk
BY SMT DEF Finalize, Clear, Same, NoAnswer, ServerType

\* finalize_response_write leaves a mode, or a closed connection.
LEMMA FinalizeResult ==
    ASSUME NEW c \in ServerType, c.open, NEW a \in Nat, NEW q, Queued(c, a, q),
           ~Off(a + 1, c.out.ok)
    PROVE  LET r == Finalize(c) IN
           /\ \A f \in c.disk: f.req <= a + 1 /\ ByLength(f.req) => f \in r.disk
           /\ ~r.open => Whole(r)
           /\ r.open => ~r.out.queued /\ Mode(r, a + 1, q)
<1> DEFINE r == Finalize(c)
<1>1. CASE c.keep_alive
  <2>1. /\ Same(Clear(c), r) /\ r.state = Clear(c).state /\ r.req = Clear(c).req
        /\ r.open = c.open /\ r.out.queued = FALSE /\ r.disk = c.disk
    BY <1>1, FinalizeFields
  <2> HIDE DEF r
  <2>2. PICK d: d = Clear(c)
    OBVIOUS
  <2>3. PICK b: b = a + 1
    OBVIOUS
  <2>4. Mode(d, b, q)
    BY <2>2, <2>3 DEF Queued
  <2>5. Mode(r, b, q)
    BY <2>1, <2>2, <2>4, ModeSame
  <2>6. r.open
    BY <2>1
  <2>7. ~r.out.queued
    BY <2>1
  <2>8. \A f \in c.disk: f \in r.disk
    BY <2>1
  <2> QED
    BY <2>3, <2>5, <2>6, <2>7, <2>8 DEF r
<1>2. CASE ~c.keep_alive
  <2>1. r = CloseClient(c)
    BY <1>2 DEF Finalize
  <2>2. r.open = FALSE
    BY <2>1, CloseFields
  <2>3. /\ Whole(r)
        /\ \A f \in c.disk: f.req <= a + 1 /\ ByLength(f.req) => f \in r.disk
    BY <2>1, CloseQueued
  <2> QED
    BY <2>2, <2>3
<1> QED
  BY <1>1, <1>2

\* The answers that have been given stay.
LEMMA AstrayKept ==
    ASSUME Sane, ask' = ask, NEW x, answers' = Append(answers, x), NEW n, Astray(n)
    PROVE  Astray(n)'
<1>1. PICK i \in Requests \cap 1..n - 1: Strays(i)
  BY DEF Astray
<1>2. answers \in Seq(Answer)
  BY AnswersLen DEF Sane
<1>3. i \in DOMAIN answers' /\ answers'[i] = answers[i]
  BY <1>1, <1>2 DEF Strays
<1>4. Strays(i)'
  BY <1>1, <1>3 DEF Strays
<1> QED
  BY <1>1, <1>4 DEF Astray

\* client_write: the answer sent is that of the next request.
LEMMA WriteStep ==
    ASSUME Sane, NoMisdelivery, Result(server, Len(answers), rcv), ClientWrite
    PROVE  NoMisdelivery' /\ (Lost' \/ Result(server, Len(answers), rcv)')
<1>1. /\ server.open /\ server.out.queued /\ ask' = ask /\ peer' = peer /\ rcv' = rcv
      /\ answers' = Append(answers, server.out) /\ server' = Finalize(server)
  BY DEF ClientWrite
<1>2. PICK c \in ServerType: c = server
  BY DEF Sane, TypesInv, Typed
<1>3. PICK a \in Nat: a = Len(answers)
  BY AnswersLen DEF Sane
<1>4. PICK q: q = rcv
  OBVIOUS
<1>5. Queued(c, a, q) /\ Kept(c)
  BY <1>1, <1>2, <1>3, <1>4 DEF Result
<1>6. PICK b \in Nat: b = a + 1
  OBVIOUS
<1>7. /\ answers \in Seq(Answer) /\ c.out \in Answer
  BY <1>2, AnswersLen, Fields DEF Sane
<1>8. /\ Len(answers') = b
      /\ \A j \in 1..b: answers'[j] = IF j = b THEN c.out ELSE answers[j]
  BY <1>1, <1>2, <1>3, <1>6, <1>7
<1>9. NoMisdelivery'
  <2> SUFFICES ASSUME NEW j \in 1..b, answers'[j].ok
               PROVE  answers'[j].to = j \/ Astray(j)'
    BY <1>8 DEF NoMisdelivery
  <2>1. CASE j = b
    BY <1>5, <1>6, <1>8, <2>1 DEF Queued
  <2>2. CASE j # b
    <3>1. j \in 1..Len(answers) /\ answers'[j] = answers[j]
      BY <1>3, <1>6, <1>8, <2>2
    <3>2. answers[j].to = j \/ Astray(j)
      BY <3>1 DEF NoMisdelivery
    <3> QED
      BY <1>1, <3>1, <3>2, AstrayKept
  <2> QED
    BY <2>1, <2>2
<1>10. CASE Off(b, c.out.ok)
  <2>1. Off(b, answers[b].ok)'
    BY <1>1, <1>6, <1>8, <1>10 DEF Off, Unread
  <2>2. b \in 1..Len(answers')
    BY <1>6, <1>8
  <2>3. Lost'
    BY <2>1, <2>2 DEF Lost
  <2> QED
    BY <1>9, <2>3
<1>11. CASE ~Off(b, c.out.ok)
  <2>1. PICK d: d = server'
    OBVIOUS
  <2>2. /\ \A f \in c.disk: f.req <= b /\ ByLength(f.req) => f \in d.disk
        /\ ~d.open => Whole(d)
        /\ d.open => ~d.out.queued /\ Mode(d, b, q)
    BY <1>1, <1>2, <1>5, <1>6, <1>11, <2>1, FinalizeResult
  <2>3. ASSUME NEW j \in Requests, j \in 1..b, ByLength(j), answers'[j].ok
        PROVE  \E f \in d.disk: f.req = j
    <3>1. \E f \in c.disk: f.req = j
      <4>1. CASE j = b
        BY <1>5, <1>6, <1>8, <2>3, <4>1 DEF Queued
      <4>2. CASE j # b
        <5>1. j \in 1..Len(answers) /\ answers[j].ok
          BY <1>3, <1>6, <1>8, <2>3, <4>2
        <5> QED
          BY <1>5, <2>3, <5>1 DEF Kept
      <4> QED
        BY <4>1, <4>2
    <3> QED
      BY <2>2, <2>3, <3>1
  <2>4. Kept(d)'
    <3>1. \A j \in Requests: ByLength(j)' <=> ByLength(j)
      BY <1>1, ContentKept
    <3> QED
      BY <1>8, <2>3, <3>1 DEF Kept
  <2>5. ~d.open => Whole(d)'
    BY <1>1, <2>2, ContentKept DEF Whole
  <2>6. d.open => ~d.out.queued /\ Mode(d, b, q)'
    BY <1>1, <2>2, ModeKept
  <2>7. Result(d, b, q)'
    BY <2>4, <2>5, <2>6 DEF Result
  <2>8. b = Len(answers)' /\ q = rcv'
    BY <1>1, <1>4, <1>8
  <2> QED
    BY <1>9, <2>1, <2>7, <2>8
<1> QED
  BY <1>10, <1>11

-----------------------------------------------------------------------------
(* The client: what it sends *)

\* The client sends a part, t, of a request that may be sent, as Send does.
Sent(a, t) ==
    /\ peer.req \in Requests /\ peer.pos \in 1..Size(peer.req)
    /\ peer.req <= a + 1 /\ t = Tok(peer.req, peer.pos)
    /\ ask' = ask
    /\ \/ peer.pos < Size(peer.req) /\ peer'.req = peer.req /\ peer'.pos = peer.pos + 1
       \/ peer.pos = Size(peer.req) /\ peer'.req = peer.req + 1 /\ peer'.pos = 1

\* Send is such a part.
LEMMA SendIs ==
    ASSUME Sane, Send
    PROVE  \E t \in Tokens: Sent(Len(answers), t) /\ rcv' = Append(rcv, t)
<1>1. peer \in [req: 1..N + 1, pos: 1..11, gone: BOOLEAN] /\ Len(answers) \in Nat
  BY AnswersLen DEF Sane, TypesInv, TypeOK
<1>2. peer.req \in Requests /\ peer.req \in Nat /\ peer.pos \in Nat /\ peer.pos >= 1
  <2>1. peer.req <= N
    BY DEF Send
  <2> QED
    BY <1>1, <2>1, Constants DEF Requests
<1>3. peer.pos \in 1..Size(peer.req)
  <2>1. Size(peer.req) \in Nat
    BY SizeIs
  <2>2. peer.pos <= Size(peer.req)
    BY <1>2 DEF Sane, TypesInv, Sending
  <2> QED
    BY <1>2, <2>1, <2>2
<1>4. rcv' = Append(rcv, Tok(peer.req, peer.pos)) /\ ask' = ask
  BY DEF Send, Tok
<1>5. \/ peer.pos < Size(peer.req) /\ peer'.req = peer.req /\ peer'.pos = peer.pos + 1
      \/ peer.pos = Size(peer.req) /\ peer'.req = peer.req + 1 /\ peer'.pos = 1
  <2>1. peer' = IF peer.pos < Size(peer.req) THEN [peer EXCEPT !.pos = @ + 1]
                ELSE [peer EXCEPT !.req = @ + 1, !.pos = 1]
    BY DEF Send, Size
  <2>2. Size(peer.req) \in Nat
    BY SizeIs
  <2> QED
    BY <1>1, <1>3, <2>1, <2>2
<1>6. peer.req <= Len(answers) + 1
  BY <1>1, <1>2 DEF Send
<1>7. Tok(peer.req, peer.pos) \in Tokens
  BY <1>2, <1>3, TokTyped
<1> QED
  BY <1>2, <1>3, <1>4, <1>5, <1>6, <1>7 DEF Sent

\* One more part.
LEMMA ToksAppend ==
    ASSUME NEW j \in Requests, NEW p \in Nat, p >= 1, NEW m \in Nat, p + m <= Size(j)
    PROVE  Append(Toks(j, p, m), Tok(j, p + m)) = Toks(j, p, m + 1)
<1>1. /\ Toks(j, p, m) \in Seq(Tokens) /\ Len(Toks(j, p, m)) = m
      /\ \A k \in 1..m: Toks(j, p, m)[k] = Tok(j, p + k - 1)
  <2>1. p + m - 1 <= Size(j)
    BY SizeIs
  <2> QED
    BY <2>1, ToksTyped
<1>2. /\ Toks(j, p, m + 1) \in Seq(Tokens) /\ Len(Toks(j, p, m + 1)) = m + 1
      /\ \A k \in 1..m + 1: Toks(j, p, m + 1)[k] = Tok(j, p + k - 1)
  <2>1. PICK n \in Nat: n = m + 1
    OBVIOUS
  <2>2. p + n - 1 <= Size(j)
    BY <2>1, SizeIs
  <2> QED
    BY <2>1, <2>2, ToksTyped
<1>3. Tok(j, p + m) \in Tokens
  BY TokTyped, SizeIs
<1>4. /\ Append(Toks(j, p, m), Tok(j, p + m)) \in Seq(Tokens)
      /\ Len(Append(Toks(j, p, m), Tok(j, p + m))) = m + 1
      /\ \A k \in 1..m + 1: Append(Toks(j, p, m), Tok(j, p + m))[k] =
           IF k = m + 1 THEN Tok(j, p + m) ELSE Toks(j, p, m)[k]
  <2>1. PICK s \in Seq(Tokens): s = Toks(j, p, m)
    BY <1>1
  <2>2. PICK t \in Tokens: t = Tok(j, p + m)
    BY <1>3
  <2> QED
    BY <1>1, <2>1, <2>2, AppendProperties
<1>5. \A k \in 1..m + 1:
        Append(Toks(j, p, m), Tok(j, p + m))[k] = Toks(j, p, m + 1)[k]
  <2> SUFFICES ASSUME NEW k \in 1..m + 1
               PROVE  Append(Toks(j, p, m), Tok(j, p + m))[k] = Toks(j, p, m + 1)[k]
    OBVIOUS
  <2>1. Toks(j, p, m + 1)[k] = Tok(j, p + k - 1)
    BY <1>2
  <2>2. CASE k = m + 1
    BY <1>4, <2>1, <2>2
  <2>3. CASE k \in 1..m
    BY <1>1, <1>4, <2>1, <2>3
  <2>4. k = m + 1 \/ k \in 1..m
    OBVIOUS
  <2> QED
    BY <2>2, <2>3, <2>4
<1> QED
  BY <1>2, <1>4, <1>5, SeqEqual

\* A client at a request not answered is at it after it has sent.
LEMMA AtSent ==
    ASSUME NEW a \in Nat, NEW t, Sent(a, t), NEW j \in Nat, j > a, NEW p \in Nat, p >= 1,
           NEW q, At(j, p, q)
    PROVE  At(j, p, Append(q, t))'
<1>1. /\ peer.req \in Nat /\ peer.req = j /\ p <= peer.pos /\ q = Toks(j, p, peer.pos - p)
      /\ j \in Requests
  BY RequestsAre DEF Sent, At
<1>2. PICK m \in Nat: m = peer.pos - p /\ p + m = peer.pos /\ p + m <= Size(j)
  BY <1>1, SizeIs DEF Sent
<1>3. Append(q, t) = Toks(j, p, m + 1)
  <2>1. q = Toks(j, p, m)
    BY <1>1, <1>2
  <2>2. t = Tok(j, p + m)
    BY <1>1, <1>2 DEF Sent
  <2>3. j \in Requests /\ p + m <= Size(j)
    BY <1>1, <1>2
  <2>4. Append(Toks(j, p, m), Tok(j, p + m)) = Toks(j, p, m + 1)
    BY <2>3, ToksAppend
  <2> QED
    BY <2>1, <2>2, <2>4
<1>4. PICK r: r = Append(q, t)
  OBVIOUS
<1>5. Toks(j, p, m + 1)' = Toks(j, p, m + 1) /\ Size(j)' = Size(j)
  BY DEF Sent, Toks, Tok, Size
<1>6. CASE peer.pos < Size(j)
  <2>1. peer'.req = j /\ peer'.pos = peer.pos + 1
    BY <1>1, <1>6 DEF Sent
  <2>2. p <= peer'.pos /\ m + 1 = peer'.pos - p
    BY <1>2, <2>1
  <2>3. PICK x: x = peer'.pos - p
    OBVIOUS
  <2>4. r = Toks(j, p, x)'
    BY <1>3, <1>4, <1>5, <2>2, <2>3
  <2>5. r = Toks(j, p, peer.pos - p)'
    BY <2>3, <2>4
  <2>6. At(j, p, r)'
    BY <2>1, <2>2, <2>5 DEF At
  <2> QED
    BY <1>4, <2>6
<1>7. CASE peer.pos = Size(j)
  <2>1. peer'.req = j + 1 /\ peer'.pos = 1
    BY <1>1, <1>7 DEF Sent
  <2>2. m + 1 = Size(j)' + 1 - p
    BY <1>2, <1>5, <1>7, SizeIs
  <2>3. r = Toks(j, p, Size(j) + 1 - p)'
    BY <1>3, <1>4, <1>5, <2>2
  <2>4. At(j, p, r)'
    BY <1>1, <2>1, <2>3 DEF At
  <2> QED
    BY <1>4, <2>4
<1> QED
  BY <1>1, <1>6, <1>7 DEF Sent

-----------------------------------------------------------------------------
(* The client: the invariant *)

\* A client that is heard is heard after it has sent.
LEMMA HeardSent ==
    ASSUME NEW a \in Nat, NEW t \in Tokens, Sent(a, t), NEW b \in Nat, b >= a,
           NEW q \in Seq(Tokens), Heard(b, q)
    PROVE  Heard(b, Append(q, t))'
<1>1. PICK r: r = Append(q, t)
  OBVIOUS
<1>2. /\ Len(r) = Len(q) + 1 /\ DOMAIN r = 1..Len(q) + 1 /\ DOMAIN q = 1..Len(q)
      /\ Len(q) \in Nat /\ r[Len(q) + 1] = t
      /\ \A k \in 1..Len(q): r[k] = q[k]
  BY <1>1, AppendProperties
<1>3. HasEnd(q) => HasEnd(r)
  BY <1>2 DEF HasEnd
<1>4. EndsLine(t) => HasEnd(r)
  BY <1>2 DEF HasEnd
<1>5. peer.req \in Nat /\ peer.pos \in Nat /\ peer.req <= b + 1
  <2>1. peer.req \in Requests /\ peer.pos \in 1..Size(peer.req) /\ peer.req <= a + 1
    BY DEF Sent
  <2>2. peer.req \in Nat
    BY <2>1, RequestsAre
  <2>3. Size(peer.req) \in Nat
    BY SizeIs
  <2> QED
    BY <2>1, <2>2, <2>3
<1>6. peer.pos = 1 => EndsLine(t)
  <2>1. Parts(ask[peer.req])[1] \in {"line", "badline"}
    BY SMT DEF Parts, Body
  <2> QED
    BY <2>1 DEF Sent, Tok, EndsLine
<1>7. peer.req = b + 1 => HasEnd(r)
  <2>1. peer.req = b + 1 /\ peer.pos > 1 => HasEnd(q)
    BY DEF Heard
  <2>2. peer.pos = 1 \/ peer.pos > 1
    BY <1>5 DEF Sent
  <2> QED
    BY <1>3, <1>4, <1>6, <2>1, <2>2
<1>8. HasEnd(r)' <=> HasEnd(r)
  BY DEF HasEnd, EndsLine, Sent
<1>9. PICK s, o: s = peer'.req /\ o = peer'.pos
  OBVIOUS
<1>10. \/ s = peer.req /\ o = peer.pos + 1
       \/ s = peer.req + 1 /\ o = 1
  BY <1>9 DEF Sent
<1>11. /\ s <= b + 2
       /\ s = b + 2 => o = 1 /\ HasEnd(r)
       /\ s = b + 1 /\ o > 1 => HasEnd(r)
  BY <1>5, <1>7, <1>10
<1>12. Heard(b, r)'
  BY <1>8, <1>9, <1>11 DEF Heard
<1> QED
  BY <1>1, <1>12

\* What comes next stays what it was.
LEMMA NotLineSent ==
    ASSUME NEW a \in Nat, NEW t \in Tokens, Sent(a, t), NEW q \in Seq(Tokens), NotLine(q)
    PROVE  NotLine(Append(q, t))'
<1>1. PICK r: r = Append(q, t)
  OBVIOUS
<1>2. /\ r # <<>> /\ (q = <<>> => r[1] = t) /\ (q # <<>> => r[1] = q[1])
  BY <1>1, AppendProperties
<1>3. q = <<>> => ~IsLine(t)
  BY DEF NotLine, Sent
<1>4. ~IsLine(r[1])
  BY <1>2, <1>3 DEF NotLine
<1>5. PICK x: x = r[1]
  OBVIOUS
<1>6. ~IsLine(x)'
  BY <1>4, <1>5, LinesKept DEF Sent
<1>7. NotLine(r)'
  BY <1>2, <1>5, <1>6 DEF NotLine
<1> QED
  BY <1>1, <1>7

\* A part that is sent changes no mode.
LEMMA ModeSent ==
    ASSUME NEW a \in Nat, NEW t \in Tokens, Sent(a, t), NEW b \in Nat, b >= a,
           NEW c, NEW q \in Seq(Tokens), Mode(c, b, q)
    PROVE  Mode(c, b, Append(q, t))'
<1>1. PICK r: r = Append(q, t)
  OBVIOUS
<1>2. PICK j \in Nat: j = b + 1 /\ j > a
  OBVIOUS
<1>3. \A p \in Nat: p >= 1 /\ At(j, p, q) => At(j, p, r)'
  <2> SUFFICES ASSUME NEW p \in Nat, p >= 1, At(j, p, q) PROVE At(j, p, r)'
    OBVIOUS
  <2>1. At(j, p, Append(q, t))'
    BY <1>2, AtSent
  <2> QED
    BY <1>1, <2>1
<1>4. /\ At(b + 1, 1, q) => At(b + 1, 1, r)'
      /\ At(b + 1, 2, q) => At(b + 1, 2, r)'
      /\ At(b + 1, 3, q) => At(b + 1, 3, r)'
      /\ At(b + 1, 4, q) => At(b + 1, 4, r)'
      /\ \A p \in 4..5: At(b + 1, p, q) => At(b + 1, p, r)'
      /\ \A m \in 0..1: At(b + 1, 3 + m, q) => At(b + 1, 3 + m, r)'
  <2>1. \A p \in Nat: p >= 1 /\ At(b + 1, p, q) => At(b + 1, p, r)'
    BY <1>2, <1>3
  <2> QED
    BY <2>1
<1>5. Heard(b, q) => Heard(b, r)'
  BY <1>1, HeardSent
<1>6. NotLine(q) => NotLine(r)'
  BY <1>1, NotLineSent
<1>7. ask' = ask
  BY DEF Sent
<1>8. Idle(c, b, q) => Idle(c, b, r)'
  BY <1>4 DEF Idle
<1>9. Heads(c, b, q) => Heads(c, b, r)'
  BY <1>4, <1>7 DEF Heads
<1>10. Plain(c, b, q) => Plain(c, b, r)'
  <2>1. \A m: Toks(c.path, 3, m)' = Toks(c.path, 3, m)
    BY <1>7 DEF Toks, Tok
  <2> QED
    BY <1>4, <1>7, <2>1 DEF Plain
<1>11. Chunk(c, b, q) => Chunk(c, b, r)'
  BY <1>4, <1>5, <1>7, LinesKept DEF Chunk
<1>12. Zombie(c, b, q) => Zombie(c, b, r)'
  BY <1>5 DEF Zombie
<1>13. Doomed(c, b, q) => Doomed(c, b, r)'
  BY <1>5, <1>6, <1>7, LinesKept DEF Doomed
<1>14. Files(c, b) => Files(c, b)'
  BY <1>7, ContentKept DEF Files
<1>15. Mode(c, b, r)'
  BY <1>8, <1>9, <1>10, <1>11, <1>12, <1>13, <1>14 DEF Mode
<1> QED
  BY <1>1, <1>15

\* Send keeps the invariant.
LEMMA SendStep ==
    ASSUME Sane, Result(server, Len(answers), rcv), Send
    PROVE  Result(server, Len(answers), rcv)'
<1>1. PICK t \in Tokens: Sent(Len(answers), t) /\ rcv' = Append(rcv, t)
  BY SendIs
<1>2. PICK c \in ServerType: c = server
  BY DEF Sane, TypesInv, Typed
<1>3. PICK a \in Nat: a = Len(answers)
  BY AnswersLen DEF Sane
<1>4. PICK q \in Seq(Tokens): q = rcv
  BY DEF Sane, TypesInv, TypeOK
<1>5. PICK r: r = Append(q, t)
  OBVIOUS
<1>6. ask' = ask /\ answers' = answers /\ server' = server
  BY DEF Send
<1>7. Result(c, a, q)
  BY <1>2, <1>3, <1>4
<1>8. Sent(a, t)
  BY <1>1, <1>3
<1>9. Kept(c)'
  BY <1>6, <1>7, ContentKept DEF Result, Kept
<1>10. Whole(c) => Whole(c)'
  BY <1>6, ContentKept DEF Whole
<1>11. ASSUME Queued(c, a, q) PROVE Queued(c, a, r)'
  <2>1. PICK d: d = Clear(c)
    OBVIOUS
  <2>2. PICK b \in Nat: b = a + 1 /\ b >= a
    OBVIOUS
  <2>3. Mode(d, b, q) => Mode(d, b, Append(q, t))'
    BY <1>8, <2>2, ModeSent
  <2>4. Off(a + 1, c.out.ok)' \/ Mode(Clear(c), a + 1, r)'
    BY <1>5, <1>6, <1>11, <2>1, <2>2, <2>3 DEF Queued, Off, Unread
  <2> QED
    BY <1>6, <1>11, <2>4, ContentKept DEF Queued
<1>12. ASSUME Mode(c, a, q) PROVE Mode(c, a, r)'
  <2>1. Mode(c, a, Append(q, t))'
    BY <1>8, <1>12, ModeSent
  <2> QED
    BY <1>5, <2>1
<1>13. Result(c, a, r)'
  BY <1>7, <1>9, <1>10, <1>11, <1>12 DEF Result
<1>14. c = server' /\ a = Len(answers)' /\ r = rcv'
  BY <1>1, <1>2, <1>3, <1>4, <1>5, <1>6
<1> QED
  BY <1>13, <1>14

-----------------------------------------------------------------------------
(* What the modes say of the client *)

\* In a mode with nothing to read, the client is heard to the end.
LEMMA ModeWaits ==
    ASSUME Sane, NEW a \in Nat, NEW c, Mode(c, a, <<>>)
    PROVE  peer.req <= a + 1
<1>1. peer.req \in Nat
  BY DEF Sane, TypesInv, TypeOK
<1>2. ASSUME NEW p \in Nat, p >= 1, a + 1 \in Requests => p <= Size(a + 1), At(a + 1, p, <<>>)
      PROVE  peer.req <= a + 1
  <2>1. CASE peer.req = a + 1
    BY <1>1, <2>1
  <2>2. CASE a + 1 \in Requests /\ <<>> = Toks(a + 1, p, Size(a + 1) + 1 - p)
    <3>1. PICK j \in Requests: j = a + 1
      BY <2>2
    <3>2. PICK m \in Nat: m = Size(j) + 1 - p /\ m >= 1 /\ p + m - 1 <= Size(j)
      BY <1>2, <2>2, <3>1, SizeIs
    <3>3. Len(Toks(j, p, m)) = m
      BY <1>2, <3>2, ToksTyped
    <3>4. <<>> = Toks(j, p, m)
      BY <2>2, <3>1, <3>2
    <3> QED
      BY <3>2, <3>3, <3>4
  <2> QED
    BY <1>2, <2>1, <2>2 DEF At
<1>3. Heard(a, <<>>) => peer.req <= a + 1
  <2>1. ~HasEnd(<<>>)
    BY DEF HasEnd
  <2> QED
    BY <1>1, <2>1 DEF Heard
<1>4. Size(a + 1) \in Nat /\ Size(a + 1) >= 2
  BY SizeIs
<1>5. CASE Idle(c, a, <<>>)
  <2>1. PICK p \in Nat: p = 1
    OBVIOUS
  <2>2. At(a + 1, p, <<>>)
    BY <1>5, <2>1 DEF Idle
  <2> QED
    BY <1>2, <1>4, <2>1, <2>2
<1>6. CASE Heads(c, a, <<>>)
  <2>1. PICK p \in Nat: p = 2
    OBVIOUS
  <2>2. At(a + 1, p, <<>>)
    BY <1>6, <2>1 DEF Heads
  <2> QED
    BY <1>2, <1>4, <2>1, <2>2
<1>7. CASE Plain(c, a, <<>>)
  <2>1. PICK p \in Nat: p \in 3..4 /\ At(a + 1, p, <<>>) /\ ask[a + 1] = "upload"
    <3>1. PICK m \in 0..1: At(a + 1, 3 + m, <<>>)
      BY <1>7 DEF Plain
    <3> QED
      BY <1>7, <3>1 DEF Plain, Uploading
  <2>2. Size(a + 1) = 4
    BY <2>1, KindFacts
  <2> QED
    BY <1>2, <2>1, <2>2
<1>8. CASE Chunk(c, a, <<>>)
  <2>1. CASE Heard(a, <<>>)
    BY <1>3, <2>1
  <2>2. CASE \E p \in 4..5: At(a + 1, p, <<>>) /\ c.path = a + 1
    <3>1. PICK p \in Nat: p \in 4..5 /\ At(a + 1, p, <<>>) /\ ask[a + 1] = "chunked"
      BY <1>8, <2>2 DEF Chunk
    <3>2. Size(a + 1) = 5
      BY <3>1, KindFacts
    <3> QED
      BY <1>2, <3>1, <3>2
  <2> QED
    BY <1>8, <2>1, <2>2 DEF Chunk
<1>9. CASE Zombie(c, a, <<>>)
  BY <1>3, <1>9 DEF Zombie
<1>10. CASE Doomed(c, a, <<>>)
  BY <1>3, <1>10 DEF Doomed
<1> QED
  BY <1>5, <1>6, <1>7, <1>8, <1>9, <1>10 DEF Mode

\* Where all requests are pages and uploads that do not fail, nothing is
\* answered before it has been sent.
LEMMA ModeOrderly ==
    ASSUME Sane, Easy, NEW a \in Nat, NEW c, Mode(c, a, rcv), c.state = "REQUEST_LINE"
    PROVE  a <= IF peer.pos = 1 THEN peer.req - 1 ELSE peer.req
<1>1. peer.req \in Nat /\ peer.pos \in Nat
  BY DEF Sane, TypesInv, TypeOK
<1>2. (\E p: At(a + 1, p, rcv)) => a <= IF peer.pos = 1 THEN peer.req - 1 ELSE peer.req
  BY <1>1 DEF At
<1>3. ~Chunk(c, a, rcv) /\ ~Zombie(c, a, rcv) /\ ~Doomed(c, a, rcv)
  BY DEF Chunk, Zombie, Doomed
<1>4. ~Heads(c, a, rcv)
  BY DEF Heads
<1>5. Idle(c, a, rcv) \/ Plain(c, a, rcv)
  BY <1>3, <1>4 DEF Mode
<1> QED
  BY <1>2, <1>5 DEF Idle, Plain

-----------------------------------------------------------------------------
(* The invariant *)

\* The connection begins idle.
LEMMA InitFrame == Init => FrameInv
<1> SUFFICES ASSUME Init PROVE FrameInv
  OBVIOUS
<1>1. /\ peer = [req |-> 1, pos |-> 1, gone |-> FALSE] /\ rcv = <<>> /\ server = Fresh
      /\ answers = <<>> /\ Len(answers) = 0
  BY DEF Init
<1>2. PICK a \in Nat: a = 0
  OBVIOUS
<1>3. PICK c: c = Fresh
  OBVIOUS
<1>4. /\ c.up = TRUE /\ c.open = TRUE
      /\ c.MPFlag = FALSE /\ c.multipart = FALSE /\ c.content_type = FALSE
      /\ c.upload_active = FALSE /\ c.chunked = FALSE /\ c.buffer = <<>>
      /\ c.chunk_buf = <<>> /\ c.mp_buf = <<>> /\ c.mp_state = "BOUNDARY"
      /\ c.state = "REQUEST_LINE" /\ c.disk = {} /\ c.out.queued = FALSE
  BY <1>3, SMT DEF Fresh, NoAnswer
<1>5. At(a + 1, 1, <<>>)
  <2>1. PICK j: j = a + 1
    OBVIOUS
  <2>2. <<>> = Toks(j, 1, 0)
    BY ToksEmpty
  <2>3. peer.req = j /\ peer.pos - 1 = 0 /\ peer.pos = 1
    BY <1>1, <1>2, <2>1
  <2>4. At(j, 1, <<>>)
    BY <2>2, <2>3 DEF At
  <2> QED
    BY <2>1, <2>4
<1>6. Mode(c, a, <<>>)
  <2>1. Quiet(c)
    BY <1>4 DEF Quiet
  <2>2. Files(c, a)
    BY <1>4 DEF Files
  <2> QED
    BY <1>4, <1>5, <2>1, <2>2 DEF Mode, Idle
<1>7. Kept(c)
  BY <1>1 DEF Kept
<1>8. Result(c, a, <<>>)
  BY <1>4, <1>6, <1>7 DEF Result
<1>9. NoMisdelivery /\ OneAnswerEach
  BY <1>1 DEF NoMisdelivery, OneAnswerEach
<1> QED
  BY <1>1, <1>2, <1>3, <1>8, <1>9 DEF FrameInv

\* Where all requests are pages and uploads that do not fail, no body is left unread.
LEMMA EasyNotOff ==
    ASSUME Sane, Easy PROVE \A j, ok: ~Off(j, ok)
<1>1. Nested \subseteq {"post", "big", "upload", "badhead"}
  BY FramingAssumption DEF FramingAssumption
<1>2. \A j \in Requests: ask[j] \in {"get", "upload"}
  BY DEF Sane, TypesInv, TypeOK, Easy
<1>3. "upload" \notin Failing
  BY DEF Easy
<1> QED
  BY <1>1, <1>2, <1>3 DEF Off, Unread

LEMMA EasyNotLost ==
    ASSUME Sane, FrameInv, Easy PROVE Result(server, Len(answers), rcv)
<1>1. ~Lost
  BY EasyNotOff DEF Lost
<1> QED
  BY <1>1 DEF FrameInv

\* An answer is sent in an orderly connection after its request.
LEMMA WriteOrderly ==
    ASSUME Sane, FrameInv, Easy, ClientWrite
    PROVE  OneAnswerEach'
<1>1. /\ server.open /\ server.out.queued /\ peer' = peer
      /\ answers' = Append(answers, server.out)
  BY DEF ClientWrite
<1>2. PICK c \in ServerType: c = server
  BY DEF Sane, TypesInv, Typed
<1>3. PICK a \in Nat: a = Len(answers)
  BY AnswersLen DEF Sane
<1>4. PICK b \in Nat: b = a + 1
  OBVIOUS
<1>5. Queued(c, a, rcv) /\ ~Off(a + 1, c.out.ok)
  BY <1>1, <1>2, <1>3, EasyNotLost, EasyNotOff DEF Result
<1>6. PICK d: d = Clear(c) /\ d.state = "REQUEST_LINE"
  BY ClearFields
<1>7. Mode(d, b, rcv)
  BY <1>4, <1>5, <1>6 DEF Queued
<1>8. b <= IF peer.pos = 1 THEN peer.req - 1 ELSE peer.req
  BY <1>6, <1>7, ModeOrderly
<1>9. Len(answers') = b
  BY <1>1, <1>3, <1>4, AnswersLen DEF Sane
<1> QED
  BY <1>1, <1>8, <1>9 DEF OneAnswerEach

\* What is sent later is no answer.
LEMMA SendOrderly ==
    ASSUME Sane, OneAnswerEach, Send
    PROVE  OneAnswerEach'
<1>1. peer \in [req: 1..N + 1, pos: 1..11, gone: BOOLEAN] /\ Len(answers) \in Nat
  BY AnswersLen DEF Sane, TypesInv, TypeOK
<1>2. PICK t \in Tokens: Sent(Len(answers), t)
  BY SendIs
<1>3. answers' = answers
  BY DEF Send
<1>4. PICK s, o: s = peer'.req /\ o = peer'.pos
  OBVIOUS
<1>5. \/ s = peer.req /\ o = peer.pos + 1
      \/ s = peer.req + 1 /\ o = 1
  BY <1>2, <1>4 DEF Sent
<1>6. Len(answers) <= IF o = 1 THEN s - 1 ELSE s
  BY <1>1, <1>5 DEF OneAnswerEach
<1> QED
  BY <1>3, <1>4, <1>6 DEF OneAnswerEach

\* Once a body that reads like a request may have been left unread, all later
\* answers are astray.
LEMMA LostAstray ==
    ASSUME Sane, NEW j \in 1..Len(answers), Off(j, answers[j].ok), NEW n \in Nat, n > j
    PROVE  Astray(n)
<1>1. j \in Requests \cap 1..n - 1 /\ j \in DOMAIN answers
  BY AnswersLen DEF Off, Sane
<1>2. Strays(j)
  BY <1>1 DEF Strays, Off, Unread
<1> QED
  BY <1>1, <1>2 DEF Astray

LEMMA LostKept ==
    ASSUME Sane, NoMisdelivery, Lost, [Next]_vars
    PROVE  Lost' /\ NoMisdelivery'
<1>1. /\ ask' = ask /\ answers \in Seq(Answer) /\ Len(answers) \in Nat
  BY AnswersLen DEF Next, Server, ReadClient, ReadClientGone, ClientWrite, CheckTimeouts, Send,
                    Leave, vars, Sane
<1>2. CASE answers' = answers /\ \E j \in 1..Len(answers): Off(j, answers[j].ok)
  BY <1>1, <1>2 DEF Lost, Off, Unread, NoMisdelivery, Astray, Strays
<1>3. CASE ClientWrite /\ \E j \in 1..Len(answers): Off(j, answers[j].ok)
  <2>1. PICK j \in 1..Len(answers): Off(j, answers[j].ok)
    BY <1>3
  <2>2. answers' = Append(answers, server.out) /\ server.out \in Answer
    BY <1>3, Fields DEF ClientWrite, Sane, TypesInv, Typed
  <2>3. /\ Len(answers') = Len(answers) + 1
        /\ \A k \in 1..Len(answers): answers'[k] = answers[k]
    BY <1>1, <2>2
  <2>4. Lost'
    BY <1>1, <2>1, <2>3 DEF Lost, Off, Unread
  <2>5. ASSUME NEW k \in 1..Len(answers) + 1, answers'[k].ok
        PROVE  answers'[k].to = k \/ Astray(k)'
    <3>1. CASE k \in 1..Len(answers)
      <4>1. answers[k].to = k \/ Astray(k)
        BY <2>3, <2>5, <3>1 DEF NoMisdelivery
      <4> QED
        BY <1>1, <2>2, <2>3, <3>1, <4>1, AstrayKept
    <3>2. CASE k = Len(answers) + 1
      <4>1. k \in Nat /\ k > j
        BY <1>1, <3>2
      <4>2. Astray(k)
        BY <2>1, <4>1, LostAstray
      <4> QED
        BY <1>1, <2>2, <4>2, AstrayKept
    <3> QED
      BY <1>1, <3>1, <3>2
  <2>6. NoMisdelivery'
    BY <2>3, <2>5 DEF NoMisdelivery
  <2> QED
    BY <2>4, <2>6
<1>4. CASE ~server.open /\ Off(Len(answers) + 1, FALSE)
  <2>1. server' = server /\ answers' = answers
    BY <1>4 DEF Next, Server, ReadClient, ReadClientGone, ClientWrite, CheckTimeouts, Send,
                Leave, vars
  <2>2. Lost'
    BY <1>1, <1>4, <2>1 DEF Lost, Off, Unread
  <2>3. NoMisdelivery'
    BY <1>1, <2>1 DEF NoMisdelivery, Astray, Strays
  <2> QED
    BY <2>2, <2>3
<1>5. answers' = answers \/ ClientWrite
  BY DEF Next, Server, ReadClient, ReadClientGone, CheckTimeouts, Send, Leave, vars
<1> QED
  BY <1>2, <1>3, <1>4, <1>5 DEF Lost

\* Every step keeps the invariant, of a connection that is not lost first.
LEMMA StepResult ==
    ASSUME Sane, NoMisdelivery, Result(server, Len(answers), rcv), [Next]_vars
    PROVE  NoMisdelivery' /\ (Lost' \/ Result(server, Len(answers), rcv)')
<1>1. ASSUME ask' = ask, answers' = answers PROVE NoMisdelivery'
  BY <1>1 DEF NoMisdelivery, Astray, Strays
<1>2. CASE ReadClient
  BY <1>1, <1>2, ReadStep DEF ReadClient
<1>3. CASE ReadClientGone \/ CheckTimeouts
  <2>1. /\ server.open /\ server' = CloseClient(server)
        /\ UNCHANGED <<ask, peer, rcv, answers>>
    BY <1>3 DEF ReadClientGone, CheckTimeouts
  <2> QED
    BY <1>1, <2>1, CloseStep
<1>4. CASE ClientWrite
  BY <1>4, WriteStep
<1>5. CASE Send
  BY <1>1, <1>5, SendStep DEF Send
<1>6. CASE Leave \/ UNCHANGED vars
  <2>1. ask' = ask /\ rcv' = rcv /\ server' = server /\ answers' = answers
    BY <1>6 DEF Leave, vars
  <2>2. peer'.req = peer.req /\ peer'.pos = peer.pos
    BY <1>6 DEF Leave, vars, Sane, TypesInv, TypeOK
  <2>3. PICK c, a, q: c = server /\ a = Len(answers) /\ q = rcv
    OBVIOUS
  <2>4. Result(c, a, q)'
    BY <2>1, <2>2, <2>3, ResultKept
  <2>5. c = server' /\ a = Len(answers)' /\ q = rcv'
    BY <2>1, <2>3
  <2>6. Result(server, Len(answers), rcv)'
    BY <2>4, <2>5
  <2> QED
    BY <1>1, <2>1, <2>6
<1> QED
  BY <1>2, <1>3, <1>4, <1>5, <1>6 DEF Next, Server

LEMMA StepOrderly ==
    ASSUME Sane, FrameInv, Easy, [Next]_vars
    PROVE  OneAnswerEach'
<1>1. OneAnswerEach
  BY DEF FrameInv
<1>2. CASE ClientWrite
  BY <1>2, WriteOrderly
<1>3. CASE Send
  BY <1>1, <1>3, SendOrderly
<1>4. CASE ReadClient \/ ReadClientGone \/ CheckTimeouts \/ Leave \/ UNCHANGED vars
  <2>1. answers' = answers /\ peer'.req = peer.req /\ peer'.pos = peer.pos
    BY <1>4 DEF ReadClient, ReadClientGone, CheckTimeouts, Leave, vars, Sane, TypesInv, TypeOK
  <2> QED
    BY <1>1, <2>1 DEF OneAnswerEach
<1> QED
  BY <1>2, <1>3, <1>4 DEF Next, Server

LEMMA StepFrame ==
    ASSUME Sane, FrameInv, [Next]_vars
    PROVE  FrameInv'
<1>1. NoMisdelivery' /\ (Lost' \/ Result(server, Len(answers), rcv)')
  BY LostKept, StepResult DEF FrameInv
<1>2. Easy' => OneAnswerEach'
  BY StepOrderly DEF Easy
<1> QED
  BY <1>1, <1>2 DEF FrameInv

-----------------------------------------------------------------------------
(* The theorems *)

\* The invariant holds where no client sends a multipart body.
LEMMA FrameHolds ==
    ASSUME Kinds \cap MultipartKinds = {}
    PROVE  Spec => [](Sane /\ FrameInv)
<1>1. Init => Sane /\ FrameInv
  BY InitTyped, InitFrame DEF Sane
<1>2. Sane /\ FrameInv /\ [Next]_vars => (Sane /\ FrameInv)'
  BY StepTyped, StepFrame DEF Sane
<1> QED
  BY <1>1, <1>2, PTL DEF Spec

\* A success is the answer to the request it comes after: no bytes left in the
\* parser, and no upload left active, make read_client answer another one, but
\* after a body that reads like a request and may have been left unread.
THEOREM AnswersMatch ==
    ASSUME Kinds \cap MultipartKinds = {}
    PROVE  Spec => []NoMisdelivery
<1>1. FrameInv => NoMisdelivery
  BY DEF FrameInv
<1> QED
  BY <1>1, FrameHolds, PTL

\* The server never waits for bytes while the client waits for an answer: what
\* read_client has left unanswered is not yet sent whole, unless a body that reads
\* like a request may have been left unread.
THEOREM NothingStalls ==
    ASSUME Kinds \cap MultipartKinds = {}
    PROVE  Spec => []NoStall
<1>1. Sane /\ FrameInv => NoStall
  <2> SUFFICES ASSUME Sane, FrameInv, server.open, ~server.out.queued, rcv = <<>>
               PROVE  Len(answers) >= peer.req - 1 \/ Astray(peer.req - 1)
    BY DEF NoStall
  <2>1. PICK a \in Nat: a = Len(answers)
    BY AnswersLen DEF Sane
  <2>2. peer.req \in Nat
    BY DEF Sane, TypesInv, TypeOK
  <2>3. CASE Lost
    <3>1. PICK j \in 1..Len(answers): Off(j, answers[j].ok)
      BY <2>3 DEF Lost
    <3>2. CASE peer.req - 1 > j
      <4>1. peer.req - 1 \in Nat
        BY <2>1, <2>2, <3>2
      <4> QED
        BY <3>1, <3>2, <4>1, LostAstray
    <3>3. CASE peer.req - 1 <= j
      BY <2>1, <2>2, <3>3
    <3> QED
      BY <2>1, <2>2, <3>2, <3>3
  <2>4. CASE Result(server, a, rcv)
    <3>1. Mode(server, a, <<>>)
      BY <2>4 DEF Result
    <3>2. peer.req <= a + 1
      BY <3>1, ModeWaits
    <3> QED
      BY <2>1, <2>2, <3>2
  <2> QED
    BY <2>1, <2>3, <2>4 DEF FrameInv
<1> QED
  BY <1>1, FrameHolds, PTL

\* An upload by length answered with a success has its file, and no file is
\* half-written but that of the upload under way (write_body, close_client), where
\* no body reads like a request but those of uploads whose files do not fail.
THEOREM UploadsAreWhole ==
    ASSUME Kinds \cap MultipartKinds = {}, Nested \subseteq {"upload"} \ Failing
    PROVE  Spec => []UploadsWhole
<1>1. Sane /\ FrameInv => UploadsWhole
  <2> SUFFICES ASSUME Sane, FrameInv PROVE UploadsWhole
    OBVIOUS
  <2>1. PICK c \in ServerType: c = server
    BY DEF Sane, TypesInv, Typed
  <2>2. PICK a, q: a = Len(answers) /\ q = rcv
    OBVIOUS
  <2>3. \A j, ok: ~Off(j, ok)
    BY DEF Off, Unread
  <2>4. Result(c, a, q)
    BY <2>1, <2>2, <2>3 DEF FrameInv, Lost
  <2>5. Kept(c)
    BY <2>4 DEF Result
  <2>6. \A f \in c.disk: ByLength(f.req) => f.data = Content(f.req) \/ c.path = f.req
    <3>1. CASE ~c.open
      BY <2>4, <3>1 DEF Result, Whole
    <3>2. CASE c.open /\ ~c.out.queued
      BY <2>4, <3>2 DEF Result, Mode, Files
    <3>3. CASE c.open /\ c.out.queued
      <4>1. PICK d \in ServerType: d = Clear(c) /\ Same(c, d)
        BY ClearFields
      <4>2. PICK b: b = a + 1
        OBVIOUS
      <4>3. Mode(d, b, q)
        BY <2>3, <2>4, <3>3, <4>1, <4>2 DEF Result, Queued
      <4>4. \A f \in d.disk: ByLength(f.req) => f.data = Content(f.req) \/ d.path = f.req
        BY <4>3 DEF Mode, Files
      <4> QED
        BY <4>1, <4>4 DEF Same
    <3> QED
      BY <3>1, <3>2, <3>3
  <2> QED
    BY <2>1, <2>5, <2>6 DEF UploadsWhole, Kept
<1> QED
  BY <1>1, FrameHolds, PTL

\* Pages and plain uploads are answered once each, and not before they are sent
\* (finalize_response_write clears the parser, uploadComplete the upload).
THEOREM AnswersAreOrderly ==
    ASSUME Kinds \subseteq {"get", "upload"}, Failing = {}
    PROVE  Spec => []OneAnswerEach
<1>1. Easy /\ Kinds \cap MultipartKinds = {}
  BY DEF Easy, MultipartKinds
<1>2. FrameInv => OneAnswerEach
  BY <1>1 DEF FrameInv
<1>3. Spec => [](Sane /\ FrameInv)
  BY <1>1, FrameHolds
<1> QED
  BY <1>2, <1>3, PTL

=============================================================================
