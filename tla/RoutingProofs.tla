---------------------------- MODULE RoutingProofs ----------------------------
(***************************************************************************)
(* What Routing promises, for every configuration, file system and URI.    *)
(*                                                                         *)
(* A DELETE needs of the router only when it says "UPLOAD" (UploadRoute),  *)
(* and of the file system that nothing is below a file. The rest goes      *)
(* along the way of a request: the block (ServerAnswers), the location     *)
(* (LongestIsChosen), the path without ".." (NormalizedType), the script   *)
(* and what is left of the URI (MissingFine), up to what the router says   *)
(* (RouteFine); RouteInv keeps it until the end. The last part routes      *)
(* SCRIPT_NAME, and shows step by step that it takes the same way. An      *)
(* induction is done with the least number that a set does not have        *)
(* (AllNumbers).                                                           *)
(***************************************************************************)
EXTENDS Routing, SequenceTheorems, WellFoundedInduction, TLAPS

\* Until it is answered, a request finds the file system as it was.
Untouched == answer = Unanswered => disk \in Disks

\* Only a location that allows the method and has an upload directory makes the
\* router say "UPLOAD" (Router::route).
LEMMA UploadRoute ==
    ASSUME NEW uri, NEW method, RouteOf(uri, method).type = "UPLOAD"
    PROVE  LET loc == RouteOf(uri, method).location IN
           /\ loc # 0
           /\ method \in server.locations[loc].allow_methods
           /\ server.locations[loc].upload_path # <<>>
<1> DEFINE loc == FindLocation(server.locations, uri)
           l == server.locations[loc]
           through == RoutePath(loc, uri, method)
           plain == RoutePath(0, uri, method)
<1>1. \A i, f, s, p: Script(i, f, s, p).type # "UPLOAD"
  BY DEF Script, Refused, Routed
<1>2. \A i, u: RouteMissing(i, u).type # "UPLOAD"
  BY <1>1 DEF RouteMissing, Refused, Routed
<1>3. \A i, u, d: RouteDir(i, u, d, method).type # "UPLOAD"
  BY <1>1 DEF RouteDir, Refused, Routed
<1>4. \A i: RoutePath(i, uri, method).type # "UPLOAD"
  BY <1>1, <1>2, <1>3 DEF RoutePath, Refused, Routed
<1>5. through.type # "UPLOAD" /\ plain.type # "UPLOAD"
  BY <1>4
<1> HIDE DEF loc, through, plain
<1>6. RouteOf(uri, method) =
          IF loc = 0
          THEN IF method # "GET" THEN Refused(405, 0) ELSE plain
          ELSE IF l.return_ # 0 THEN Routed("RED", l.return_, loc, <<>>)
          ELSE IF method \notin l.allow_methods THEN Refused(405, loc)
          ELSE IF method # "GET" /\ l.upload_path # <<>>
          THEN Routed("UPLOAD", 0, loc, Normalized(uri))
          ELSE through
  BY DEF RouteOf, loc, through, plain
<1>7. loc # 0 /\ method \in l.allow_methods /\ l.upload_path # <<>>
  BY <1>5, <1>6 DEF Refused, Routed
<1>8. RouteOf(uri, method) = Routed("UPLOAD", 0, loc, Normalized(uri))
  BY <1>5, <1>6, <1>7 DEF Refused, Routed
<1> QED
  BY <1>7, <1>8 DEF Routed

\* remove() takes one entry with nothing below it (deleteFile).
LEMMA OneEntry ==
    ASSUME NEW d \in Disks, NEW path, Removable(d, path)
    PROVE  /\ Without(d, path) # d
           /\ Entries(d) = Entries(Without(d, path)) \cup {path}
           /\ \A e \in Entries(Without(d, path)): ~IsPrefix(path, e)
<1>1. /\ d.files \cap d.dirs = {}
      /\ \A f \in d.files: \A e \in d.files \cup d.dirs: IsPrefix(f, e) => e = f
  BY RoutingAssumption DEF RoutingAssumption
<1>2. path \in d.files \cup d.dirs
  BY DEF Removable
<1>3. /\ Without(d, path).files = d.files \ {path}
      /\ Without(d, path).dirs = d.dirs \ {path}
  BY DEF Without
<1>4. Without(d, path) # d
  BY <1>2, <1>3
<1>5. Entries(d) = Entries(Without(d, path)) \cup {path}
  BY <1>2, <1>3 DEF Entries
<1>6. ASSUME NEW e \in Entries(Without(d, path)) PROVE ~IsPrefix(path, e)
  <2>1. e \in d.files \cup d.dirs /\ e # path
    BY <1>3 DEF Entries
  <2>2. CASE path \in d.files
    BY <1>1, <2>1, <2>2
  <2>3. CASE path \in d.dirs /\ IsEmpty(d, path)
    BY <2>1, <2>3 DEF IsEmpty, Entries
  <2> QED
    BY <2>2, <2>3 DEF Removable
<1> QED
  BY <1>4, <1>5, <1>6

\* What deleteFile answers when it keeps the file.
LEMMA KeptStatus ==
    KeepIt => \E status \in {400, 403, 404}: answer' = By("handler", status)
<1> SUFFICES ASSUME KeepIt
             PROVE  \E status \in {400, 403, 404}: answer' = By("handler", status)
  OBVIOUS
<1> DEFINE Code == IF Target \in Entries(disk) THEN 403 ELSE 404
<1>1. \/ answer' = By("handler", 400)
      \/ answer' = By("handler", 404)
      \/ answer' = By("handler", Code)
  BY Zenon DEF KeepIt
<1>2. Code = 403 \/ Code = 404
  OBVIOUS
<1>3. By("handler", Code) = By("handler", 403) \/ By("handler", Code) = By("handler", 404)
  BY <1>2
<1> DEFINE refused == By("handler", 400)
           forbidden == By("handler", 403)
           missing == By("handler", 404)
           kept == By("handler", Code)
<1> HIDE DEF refused, forbidden, missing, kept, Code
<1>4. answer' \in {refused, missing, kept}
  BY <1>1 DEF refused, missing, kept
<1>5. kept \in {forbidden, missing}
  BY <1>3 DEF forbidden, missing, kept
<1>6. answer' \in {refused, forbidden, missing}
  BY <1>4, <1>5
<1> QED
  BY <1>6 DEF refused, forbidden, missing

\* What process_request does is an answer.
LEMMA Answered == Process => answer' # Unanswered
<1> SUFFICES ASSUME Process PROVE answer' # Unanswered
  OBVIOUS
<1>1. \A who, status: By(who, status) = Unanswered => who = "none"
  BY DEF By, Unanswered
<1>2. \E who \in {"gate", "stream", "script", "upload", "handler"}:
          \E status: answer' = By(who, status)
  <2>1. CASE Gate
    BY <2>1 DEF Gate
  <2>2. CASE Stream
    BY <2>2 DEF Stream
  <2>3. CASE Launch
    BY <2>3 DEF Launch
  <2>4. CASE Upload
    BY <2>4 DEF Upload
  <2>5. CASE Redirect \/ Fail \/ Delete
    BY <2>5 DEF Redirect, Fail, Delete
  <2>6. CASE List \/ ServeFile
    BY <2>6 DEF List, ServeFile
  <2>7. CASE KeepIt
    <3>1. \E status \in {400, 403, 404}: answer' = By("handler", status)
      BY <2>7, KeptStatus
    <3> QED
      BY <3>1
  <2> QED
    BY <2>1, <2>2, <2>3, <2>4, <2>5, <2>6, <2>7 DEF Process, Handle
<1> QED
  BY <1>1, <1>2

LEMMA UntouchedHolds == Spec => []Untouched
<1>1. Init => Untouched
  BY DEF Init, Untouched
<1>2. Untouched /\ [Next]_vars => Untouched'
  <2> SUFFICES ASSUME Untouched, [Next]_vars PROVE Untouched'
    OBVIOUS
  <2>1. CASE Process
    <3>1. answer' # Unanswered
      BY <2>1, Answered
    <3> QED
      BY <3>1 DEF Untouched
  <2>2. CASE UNCHANGED vars
    BY <2>2 DEF Untouched, vars
  <2> QED
    BY <2>1, <2>2 DEF Next
<1> QED
  BY <1>1, <1>2, PTL DEF Spec

\* A step that removes something answers 204 to a DELETE that the location
\* allows, and removes what the URI names.
LEMMA DeleteRemovesOne ==
    ASSUME disk \in Disks, result' = RouteOf(req.uri, req.method),
           UNCHANGED <<server, req>>, Delete
    PROVE  /\ disk' # disk /\ answer'.status = 204
           /\ req.method = "DELETE" /\ result'.location # 0
           /\ LET l == server.locations[result'.location]
                  gone == Append(l.upload_path, Last(req.uri))
              IN  /\ "DELETE" \in l.allow_methods /\ l.upload_path # <<>>
                  /\ Entries(disk) = Entries(disk') \cup {gone}
                  /\ \A e \in Entries(disk'): ~IsPrefix(gone, e)
<1> DEFINE route == RouteOf(req.uri, req.method)
           there == server.locations[route.location]
           target == Append(there.upload_path, Last(req.uri))
<1>1. /\ route.type = "UPLOAD" /\ req.method = "DELETE"
      /\ Removable(disk, target)
      /\ disk' = Without(disk, target)
      /\ answer'.status = 204
  BY DEF Delete, Deletes, Target, By
<1>2. route.location # 0 /\ req.method \in there.allow_methods /\ there.upload_path # <<>>
  <2> HIDE DEF route
  <2>1. LET loc == RouteOf(req.uri, req.method).location IN
        /\ loc # 0
        /\ req.method \in server.locations[loc].allow_methods
        /\ server.locations[loc].upload_path # <<>>
    BY <1>1, UploadRoute DEF route
  <2> QED
    BY <2>1 DEF route
<1>3. result' = route
  OBVIOUS
<1> HIDE DEF route
<1>4. /\ Without(disk, target) # disk
      /\ Entries(disk) = Entries(Without(disk, target)) \cup {target}
      /\ \A e \in Entries(Without(disk, target)): ~IsPrefix(target, e)
  <2> HIDE DEF target
  <2> QED
    BY <1>1, OneEntry
<1> QED
  BY <1>1, <1>2, <1>3, <1>4

LEMMA OthersKeepAll ==
    ASSUME Gate \/ Stream \/ Launch \/ Upload \/ Redirect \/ Fail \/ List
           \/ ServeFile \/ KeepIt
    PROVE  disk' = disk /\ (result'.type = "UPLOAD" => answer'.status # 204)
<1>1. \A who, status: By(who, status).status = status
  BY DEF By
<1>2. CASE Gate \/ Stream \/ Launch \/ Upload
  <2>1. disk' = disk /\ \E who: answer' = By(who, 0)
    BY <1>2 DEF Gate, Stream, Launch, Upload
  <2> QED
    BY <1>1, <2>1
<1>3. CASE Redirect \/ Fail \/ List \/ ServeFile
  BY <1>3 DEF Redirect, Fail, List, ServeFile
<1>4. CASE KeepIt
  <2>1. \E status \in {400, 403, 404}: answer' = By("handler", status)
    BY <1>4, KeptStatus
  <2>2. disk' = disk
    BY <1>4 DEF KeepIt
  <2> QED
    BY <1>1, <2>1, <2>2
<1> QED
  BY <1>2, <1>3, <1>4

\* A DELETE takes away one entry, directly in the upload directory of a location
\* that allows DELETE, with nothing below it, and only it is answered 204.
THEOREM DeletesOneUpload == Spec => RemovesOneUpload
<1> DEFINE Right ==
        /\ result'.type = "UPLOAD" => (disk' # disk <=> answer'.status = 204)
        /\ disk' # disk =>
             /\ req.method = "DELETE" /\ result'.location # 0
             /\ LET l == server.locations[result'.location]
                    gone == Append(l.upload_path, Last(req.uri))
                IN  /\ "DELETE" \in l.allow_methods /\ l.upload_path # <<>>
                    /\ Entries(disk) = Entries(disk') \cup {gone}
                    /\ \A e \in Entries(disk'): ~IsPrefix(gone, e)
<1>1. Untouched /\ [Next]_vars => [Right]_vars
  <2> SUFFICES ASSUME Untouched, Process PROVE Right
    BY DEF Next
  <2>1. /\ disk \in Disks /\ UNCHANGED <<server, req>>
        /\ result' = RouteOf(req.uri, req.method)
    BY DEF Process, Untouched
  <2>2. CASE Delete
    BY <2>1, <2>2, DeleteRemovesOne
  <2>3. CASE Gate \/ Stream \/ Launch \/ Upload \/ Redirect \/ Fail \/ List
             \/ ServeFile \/ KeepIt
    BY <2>3, OthersKeepAll
  <2> QED
    BY <2>2, <2>3 DEF Process, Handle
<1> QED
  BY <1>1, UntouchedHolds, PTL DEF Spec, RemovesOneUpload

-----------------------------------------------------------------------------
(* The server block and the location *)

\* The smallest number of a set.
LEMMA MinIsLeast ==
    ASSUME NEW S, S \subseteq Nat, S # {}
    PROVE  Min(S) \in S /\ \A x \in S: Min(S) <= x
<1>1. \E m \in S: \A x \in S: ~(<<x, m>> \in OpToRel(<, Nat))
  BY WFMin, NatLessThanWellFounded
<1>2. \E m \in S: \A x \in S: ~(x < m)
  BY <1>1, Zenon DEF OpToRel
<1>3. \E m \in S: \A x \in S: m <= x
  BY <1>2
<1> QED
  BY <1>3 DEF Min

\* A block that may answer.
Answers(s, address, host) ==
    /\ s \in ToSet(Servers)
    /\ address \in s.listen
    /\ (\E t \in ToSet(Servers): address \in t.listen /\ host \in t.server_name)
           => s.server_name \cap {host, AnyHost} # {}

\* Every address that is listened on has a block, and one that is named by the
\* host comes before those that are not (findServer).
LEMMA ServerAnswers ==
    ASSUME NEW address \in Addresses, NEW host \in Hosts \cup {NoHost}
    PROVE  Answers(FindServer(address, host), address, host)
<1> DEFINE here == {i \in DOMAIN Servers: address \in Servers[i].listen}
           named == {i \in here: host # NoHost
                        /\ {host, AnyHost} \cap Servers[i].server_name # {}}
           m == Min(IF named = {} THEN here ELSE named)
<1>1. here # {} /\ DOMAIN Servers \subseteq Nat
  <2>1. \E i \in DOMAIN Servers: address \in Servers[i].listen
    BY RoutingAssumption, Zenon DEF RoutingAssumption
  <2>2. DOMAIN Servers = 1..Len(Servers) /\ Len(Servers) \in Nat
    <3>1. Servers \in Seq(ServerType)
      BY RoutingAssumption, Zenon DEF RoutingAssumption
    <3> QED
      BY <3>1
  <2> QED
    BY <2>1, <2>2
<1>2. FindServer(address, host) = Servers[m]
  BY DEF FindServer
<1>3. named \subseteq here /\ here \subseteq DOMAIN Servers
  OBVIOUS
<1>4. m \in here /\ (named # {} => m \in named)
  <2> HIDE DEF here, named
  <2>1. CASE named = {}
    BY <1>1, <1>3, <2>1, MinIsLeast
  <2>2. CASE named # {}
    BY <1>1, <1>3, <2>2, MinIsLeast
  <2> QED
    BY <2>1, <2>2
<1> HIDE DEF m
<1>5. Servers[m] \in ToSet(Servers) /\ address \in Servers[m].listen
  BY <1>4 DEF ToSet
<1>6. ASSUME NEW t \in ToSet(Servers), address \in t.listen, host \in t.server_name
      PROVE  Servers[m].server_name \cap {host, AnyHost} # {}
  <2>1. PICK k \in DOMAIN Servers: t = Servers[k]
    BY DEF ToSet
  <2>2. Servers[k] \in ServerType
    <3>1. Servers \in Seq(ServerType)
      BY RoutingAssumption, Zenon DEF RoutingAssumption
    <3> QED
      BY <3>1
  <2>3. host # NoHost
    <3>1. {AnyHost, NoHost} \cap Hosts = {}
      BY RoutingAssumption, Zenon DEF RoutingAssumption
    <3>2. NoHost # AnyHost
      BY DEF NoHost, AnyHost
    <3>3. host \in Hosts \cup {AnyHost}
      BY <1>6, <2>1, <2>2 DEF ServerType
    <3> QED
      BY <3>1, <3>2, <3>3
  <2>4. k \in named
    BY <1>6, <2>1, <2>3
  <2> QED
    BY <1>4, <2>4
<1> QED
  BY <1>2, <1>5, <1>6 DEF Answers

\* The first n elements of a sequence.
LEMMA PrefixFacts ==
    ASSUME NEW S, NEW s \in Seq(S), NEW t \in Seq(S)
    PROVE  IsPrefix(s, t) <=> Len(s) <= Len(t) /\ \A i \in 1..Len(s): s[i] = t[i]
<1>1. Len(s) \in Nat /\ Len(t) \in Nat
  OBVIOUS
<1>2. /\ SubSeq(s, 1, Len(s)) \in Seq(S) /\ Len(SubSeq(s, 1, Len(s))) = Len(s)
      /\ \A i \in 1..Len(s): SubSeq(s, 1, Len(s))[i] = s[i]
  BY <1>1, SubSeqProperties
<1>3. CASE Len(s) <= Len(t)
  <2>1. /\ SubSeq(t, 1, Len(s)) \in Seq(S) /\ Len(SubSeq(t, 1, Len(s))) = Len(s)
        /\ \A i \in 1..Len(s): SubSeq(t, 1, Len(s))[i] = t[i]
    BY <1>1, <1>3, SubSeqProperties
  <2>2. ASSUME \A i \in 1..Len(s): s[i] = t[i]
        PROVE  SubSeq(s, 1, Len(s)) = SubSeq(t, 1, Len(s))
    BY <1>1, <1>2, <2>1, <2>2, SeqEqual
  <2> QED
    BY <1>1, <1>2, <1>3, <2>1, <2>2 DEF IsPrefix
<1> QED
  BY <1>1, <1>3 DEF IsPrefix

\* All but the last element of a sequence.
LEMMA FrontFacts ==
    ASSUME NEW S, NEW p \in Seq(S), p # <<>>
    PROVE  Front(p) \in Seq(S) /\ Len(Front(p)) = Len(p) - 1
           /\ \A i \in 1..Len(p) - 1: Front(p)[i] = p[i]
<1> DEFINE n == Len(p) - 1
<1>1. n \in Nat /\ Len(p) = n + 1
  BY EmptySeq
<1> HIDE DEF n
<1>2. Front(p) = SubSeq(p, 1, n)
  BY DEF Front, n
<1>3. \A i \in 1..n: p[i] \in S
  BY <1>1, ElementOfSeq
<1>4. Front(p) \in Seq(S) /\ Len(Front(p)) = n /\ \A i \in 1..n: Front(p)[i] = p[i]
  BY <1>1, <1>2, <1>3, SubSeqProperties
<1> QED
  BY <1>4 DEF n

\* The part of a location's path that a URI begins with, and how long the URI
\* must be.
Stem(path) == IF Last(path) = "" THEN Len(path) - 1 ELSE Len(path)

LEMMA MatchesFacts ==
    ASSUME NEW S, NEW p \in Seq(S), p # <<>>, NEW u \in Seq(S)
    PROVE  /\ Stem(p) \in Nat /\ Stem(p) <= Len(p)
           /\ Matches(p, u) <=> Len(p) <= Len(u) /\ \A i \in 1..Stem(p): p[i] = u[i]
<1>1. Len(p) \in Nat /\ Len(p) > 0 /\ Len(u) \in Nat
  OBVIOUS
<1>2. CASE Last(p) = ""
  <2>1. Front(p) \in Seq(S) /\ Len(Front(p)) = Len(p) - 1
        /\ \A i \in 1..Len(p) - 1: Front(p)[i] = p[i]
    BY FrontFacts
  <2>2. IsPrefix(Front(p), u) <=> Len(Front(p)) <= Len(u)
                                  /\ \A i \in 1..Len(Front(p)): Front(p)[i] = u[i]
    BY <2>1, PrefixFacts
  <2>3. Stem(p) = Len(p) - 1 /\ (Matches(p, u) <=> Len(p) <= Len(u) /\ IsPrefix(Front(p), u))
    BY <1>1, <1>2 DEF Matches, Stem
  <2> HIDE DEF Stem
  <2>4. Len(Front(p)) = Stem(p) /\ Stem(p) \in Nat /\ Stem(p) <= Len(p)
    BY <1>1, <2>1, <2>3
  <2>5. \A i \in 1..Stem(p): Front(p)[i] = p[i]
    BY <2>1, <2>3
  <2>6. Len(p) <= Len(u) => Len(Front(p)) <= Len(u)
    BY <1>1, <2>1
  <2> QED
    BY <2>2, <2>3, <2>4, <2>5, <2>6
<1>3. CASE Last(p) # ""
  <2>1. Stem(p) = Len(p) /\ (Matches(p, u) <=> IsPrefix(p, u))
    BY <1>3 DEF Matches, Stem
  <2>2. IsPrefix(p, u) <=> Len(p) <= Len(u) /\ \A i \in 1..Len(p): p[i] = u[i]
    BY PrefixFacts
  <2> QED
    BY <1>1, <2>1, <2>2
<1> QED
  BY <1>2, <1>3

\* Of two locations that contain a URI the longer one is in the other.
LEMMA LongerIsWithin ==
    ASSUME NEW S, NEW p \in Seq(S), p # <<>>, NEW q \in Seq(S), q # <<>>, NEW u \in Seq(S),
           Matches(p, u), Matches(q, u), Size(p) <= Size(q)
    PROVE  Matches(p, q)
<1>1. Len(p) \in Nat /\ Len(q) \in Nat /\ Stem(p) <= Stem(q) /\ Len(p) <= Len(q)
      /\ Stem(p) \in Nat /\ Stem(q) \in Nat
  <2>1. Len(p) \in Nat /\ Len(p) > 0 /\ Len(q) \in Nat /\ Len(q) > 0
    OBVIOUS
  <2>2. \A path: \/ Size(path) = 2 * Len(path) - 1 /\ Stem(path) = Len(path) - 1
                 \/ Size(path) = 2 * Len(path) - 0 /\ Stem(path) = Len(path)
    BY Zenon DEF Size, Stem
  <2>3. \/ Size(p) = 2 * Len(p) - 1 /\ Stem(p) = Len(p) - 1
        \/ Size(p) = 2 * Len(p) - 0 /\ Stem(p) = Len(p)
    BY <2>2
  <2>4. \/ Size(q) = 2 * Len(q) - 1 /\ Stem(q) = Len(q) - 1
        \/ Size(q) = 2 * Len(q) - 0 /\ Stem(q) = Len(q)
    BY <2>2
  <2> QED
    BY <2>1, <2>3, <2>4
<1>2. /\ \A i \in 1..Stem(p): p[i] = u[i]
      /\ \A i \in 1..Stem(q): q[i] = u[i]
  BY MatchesFacts
<1>3. \A i \in 1..Stem(p): p[i] = q[i]
  BY <1>1, <1>2
<1> QED
  BY <1>1, <1>3, MatchesFacts

\* Of the locations that match a URI one is the longest.
Longest(locations, uri) ==
    {i \in Matching(locations, uri): \A j \in Matching(locations, uri):
         Size(locations[j].path) <= Size(locations[i].path)}

LEMMA LongestExists ==
    ASSUME NEW S, NEW locations, NEW uri \in Seq(S),
           \A i \in DOMAIN locations:
               locations[i].path \in Seq(S) /\ locations[i].path # <<>>,
           Matching(locations, uri) # {}
    PROVE  /\ Longest(locations, uri) # {}
           /\ \A i \in Matching(locations, uri): Size(locations[i].path) \in Nat
<1> DEFINE matching == Matching(locations, uri)
           Of(i) == Size(locations[i].path)
           spare == {2 * Len(uri) - Of(i): i \in matching}
<1>1. \A i \in matching: Of(i) \in Nat /\ Of(i) <= 2 * Len(uri)
  <2> SUFFICES ASSUME NEW i \in matching PROVE Of(i) \in Nat /\ Of(i) <= 2 * Len(uri)
    OBVIOUS
  <2>1. /\ locations[i].path \in Seq(S) /\ locations[i].path # <<>>
        /\ Matches(locations[i].path, uri)
    BY DEF Matching
  <2>2. Len(locations[i].path) \in Nat /\ Len(locations[i].path) > 0 /\ Len(uri) \in Nat
    BY <2>1
  <2>3. Len(locations[i].path) <= Len(uri)
    BY <2>1, MatchesFacts
  <2>4. \/ Of(i) = 2 * Len(locations[i].path) - 1
        \/ Of(i) = 2 * Len(locations[i].path) - 0
    BY Zenon DEF Size
  <2> HIDE DEF Of
  <2> QED
    BY <2>2, <2>3, <2>4
<1>2. Len(uri) \in Nat
  OBVIOUS
<1> HIDE DEF Of, matching
<1>3. spare \subseteq Nat /\ spare # {}
  BY <1>1, <1>2 DEF matching
<1>4. Min(spare) \in spare /\ \A x \in spare: Min(spare) <= x
  <2> HIDE DEF spare
  <2> QED
    BY <1>3, MinIsLeast
<1>5. PICK i \in matching: Min(spare) = 2 * Len(uri) - Of(i)
  BY <1>4
<1>6. \A j \in matching: 2 * Len(uri) - Of(i) <= 2 * Len(uri) - Of(j)
  BY <1>4, <1>5
<1>7. \A j \in matching: Of(j) <= Of(i)
  BY <1>1, <1>2, <1>6
<1>8. i \in Longest(locations, uri)
  BY <1>7 DEF Longest, matching, Of
<1> QED
  BY <1>1, <1>8 DEF matching, Of

\* findLocation gives the first of the longest.
LEMMA FirstOfLongest ==
    ASSUME NEW S, NEW locations, NEW uri \in Seq(S), DOMAIN locations \subseteq Nat \ {0},
           \A i \in DOMAIN locations:
               locations[i].path \in Seq(S) /\ locations[i].path # <<>>
    PROVE  LET loc == FindLocation(locations, uri) IN
           /\ Matching(locations, uri) = {} => loc = 0
           /\ Matching(locations, uri) # {} =>
                  /\ loc \in Longest(locations, uri)
                  /\ \A i \in Longest(locations, uri): loc <= i
<1> DEFINE longest == Longest(locations, uri)
           matching == Matching(locations, uri)
<1>1. FindLocation(locations, uri) = IF matching = {} THEN 0 ELSE Min(longest)
  BY DEF FindLocation, Longest
<1>2. matching # {} => longest # {}
  BY LongestExists
<1>3. longest \subseteq Nat
  BY DEF Longest, Matching
<1> HIDE DEF longest
<1>4. matching # {} => Min(longest) \in longest /\ \A i \in longest: Min(longest) <= i
  BY <1>2, <1>3, MinIsLeast
<1> QED
  BY <1>1, <1>4 DEF longest

\* A location is chosen if one contains the URI, and every one that does contains
\* the chosen one's path (findLocation).
LEMMA LongestIsChosen ==
    ASSUME NEW S, NEW locations, NEW uri \in Seq(S), DOMAIN locations \subseteq Nat \ {0},
           \A i \in DOMAIN locations:
               locations[i].path \in Seq(S) /\ locations[i].path # <<>>
    PROVE  LET loc == FindLocation(locations, uri) IN
           /\ loc \in DOMAIN locations \cup {0}
           /\ \A i \in DOMAIN locations:
                  Matches(locations[i].path, uri) =>
                      loc # 0 /\ Matches(locations[i].path, locations[loc].path)
<1> DEFINE loc == FindLocation(locations, uri)
<1>1. Matching(locations, uri) = {} => loc = 0
  BY FirstOfLongest
<1>2. CASE Matching(locations, uri) = {}
  BY <1>1, <1>2 DEF Matching
<1>3. CASE Matching(locations, uri) # {}
  <2>1. loc \in Longest(locations, uri)
    BY <1>3, FirstOfLongest
  <2> HIDE DEF loc
  <2>2. loc \in DOMAIN locations /\ loc # 0 /\ Matches(locations[loc].path, uri)
    BY <2>1 DEF Longest, Matching
  <2>3. ASSUME NEW i \in DOMAIN locations, Matches(locations[i].path, uri)
        PROVE  Matches(locations[i].path, locations[loc].path)
    <3>1. Size(locations[i].path) <= Size(locations[loc].path)
      BY <2>1, <2>3 DEF Longest, Matching
    <3>2. /\ locations[i].path \in Seq(S) /\ locations[i].path # <<>>
          /\ locations[loc].path \in Seq(S) /\ locations[loc].path # <<>>
      BY <2>2
    <3> QED
      BY <2>2, <2>3, <3>1, <3>2, LongerIsWithin
  <2> QED
    BY <2>2, <2>3 DEF loc
<1> QED
  BY <1>2, <1>3

\* A URI that the location of a longer one still matches, and that no other
\* location does than those of the longer one, has the same location.
LEMMA SameLocation ==
    ASSUME NEW S, NEW locations, DOMAIN locations \subseteq Nat \ {0},
           \A i \in DOMAIN locations:
               locations[i].path \in Seq(S) /\ locations[i].path # <<>>,
           NEW uri \in Seq(S), NEW part \in Seq(S),
           Matching(locations, part) \subseteq Matching(locations, uri),
           FindLocation(locations, uri) \in Matching(locations, part)
    PROVE  FindLocation(locations, part) = FindLocation(locations, uri)
<1> DEFINE loc == FindLocation(locations, uri)
           m == FindLocation(locations, part)
           Of(i) == Size(locations[i].path)
<1>1. loc \in Longest(locations, uri) /\ \A i \in Longest(locations, uri): loc <= i
  BY FirstOfLongest
<1>2. m \in Longest(locations, part) /\ \A i \in Longest(locations, part): m <= i
  BY FirstOfLongest
<1>3. loc \in Matching(locations, part)
  OBVIOUS
<1>4. \A i \in Matching(locations, uri): Of(i) \in Nat
  BY LongestExists
<1>5. loc \in Nat /\ m \in Nat
  BY <1>1, <1>2 DEF Longest, Matching
<1> HIDE DEF loc, m, Of
<1>6. \A j \in Matching(locations, uri): Of(j) <= Of(loc)
  BY <1>1 DEF Longest, Of
<1>7. m \in Matching(locations, part) /\ Of(loc) <= Of(m)
  BY <1>2, <1>3 DEF Longest, Of
<1>8. loc \in Longest(locations, part)
  BY <1>3, <1>6 DEF Longest, Of
<1>9. m \in Longest(locations, uri)
  <2>1. m \in Matching(locations, uri) /\ Of(m) \in Nat /\ Of(loc) \in Nat
    BY <1>1, <1>4, <1>7 DEF Longest
  <2>2. \A j \in Matching(locations, uri): Of(j) <= Of(m)
    BY <1>4, <1>6, <1>7, <2>1
  <2> QED
    BY <2>1, <2>2 DEF Longest, Of
<1>10. m <= loc /\ loc <= m
  BY <1>1, <1>2, <1>8, <1>9
<1>11. m = loc
  BY <1>5, <1>10
<1> QED
  BY <1>11 DEF m, loc

\* What the router says is about the location that findLocation chose.
LEMMA RouteLocation ==
    ASSUME NEW uri, NEW method
    PROVE  RouteOf(uri, method).location = FindLocation(server.locations, uri)
<1> DEFINE loc == FindLocation(server.locations, uri)
           l == server.locations[loc]
           through == RoutePath(loc, uri, method)
           plain == RoutePath(0, uri, method)
<1>1. \A i, f, s, p: Script(i, f, s, p).location = i
  BY DEF Script, Refused, Routed
<1>2. \A i, u: RouteMissing(i, u).location = i
  BY <1>1 DEF RouteMissing, Refused, Routed
<1>3. \A i, u, d: RouteDir(i, u, d, method).location = i
  BY <1>1 DEF RouteDir, Refused, Routed
<1>4. \A i: RoutePath(i, uri, method).location = i
  BY <1>1, <1>2, <1>3 DEF RoutePath, Refused, Routed
<1>5. through.location = loc /\ plain.location = 0
  BY <1>4
<1>6. RouteOf(uri, method) =
          IF loc = 0
          THEN IF method # "GET" THEN Refused(405, 0) ELSE plain
          ELSE IF l.return_ # 0 THEN Routed("RED", l.return_, loc, <<>>)
          ELSE IF method \notin l.allow_methods THEN Refused(405, loc)
          ELSE IF method # "GET" /\ l.upload_path # <<>>
          THEN Routed("UPLOAD", 0, loc, Normalized(uri))
          ELSE through
  BY DEF RouteOf
<1> HIDE DEF loc, through, plain
<1>7. RouteOf(uri, method).location = loc
  BY <1>5, <1>6 DEF Refused, Routed
<1> QED
  BY <1>7 DEF loc

-----------------------------------------------------------------------------
(* MostSpecific *)

\* The block is that of the request, and the result, once there is one, that of
\* its location.
Placed ==
    /\ req \in Requests
    /\ Answers(server, req.address, req.host)
    /\ result = Pending \/ result.location = FindLocation(server.locations, req.uri)

LEMMA PlacedInit == Init => Placed
<1> SUFFICES ASSUME Init PROVE Placed
  OBVIOUS
<1>1. req \in Requests /\ result = Pending /\ server = FindServer(req.address, req.host)
  BY DEF Init
<1>2. req.address \in Addresses /\ req.host \in Hosts \cup {NoHost}
  BY <1>1 DEF Requests
<1> QED
  BY <1>1, <1>2, ServerAnswers DEF Placed

LEMMA PlacedStep == Placed /\ [Next]_vars => Placed'
<1> SUFFICES ASSUME Placed, [Next]_vars PROVE Placed'
  OBVIOUS
<1>1. CASE Process
  <2>1. result' = RouteOf(req.uri, req.method) /\ UNCHANGED <<server, req>>
    BY <1>1 DEF Process
  <2>2. result'.location = FindLocation(server.locations, req.uri)
    BY <2>1, RouteLocation
  <2> QED
    BY <2>1, <2>2 DEF Placed, Answers
<1>2. CASE UNCHANGED vars
  BY <1>2 DEF Placed, Answers, vars
<1> QED
  BY <1>1, <1>2 DEF Next

\* A configured block, and that its locations have a path.
LEMMA ServerFacts ==
    ASSUME server \in ToSet(Servers)
    PROVE  LET locations == server.locations IN
           /\ server \in ServerType
           /\ DOMAIN locations = 1..Len(locations) /\ Len(locations) \in Nat
           /\ \A i \in DOMAIN locations:
                  locations[i].path \in Seq(Segments) /\ locations[i].path # <<>>
<1> DEFINE locations == server.locations
<1>1. server \in ServerType
  <2>1. PICK k \in DOMAIN Servers: server = Servers[k]
    BY DEF ToSet
  <2>2. Servers \in Seq(ServerType)
    BY RoutingAssumption, Zenon DEF RoutingAssumption
  <2> QED
    BY <2>1, <2>2
<1>2. locations \in Seq(LocationType)
  BY <1>1 DEF ServerType
<1>3. DOMAIN locations = 1..Len(locations) /\ Len(locations) \in Nat
  BY <1>2
<1>4. ASSUME NEW i \in DOMAIN locations
      PROVE  locations[i].path \in Seq(Segments) /\ locations[i].path # <<>>
  <2>1. locations[i].path # <<>>
    BY RoutingAssumption, Zenon DEF RoutingAssumption
  <2>2. locations[i] \in LocationType
    BY <1>2
  <2>3. locations[i].path \in Seq(Names \cup {"", "."})
    BY <2>2 DEF LocationType
  <2>4. Names \cup {"", "."} \subseteq Segments
    BY DEF Segments
  <2>5. locations[i].path \in Seq(Segments)
    BY <2>3, <2>4, SeqMonotonic
  <2> QED
    BY <2>1, <2>5
<1> QED
  BY <1>1, <1>3, <1>4

LEMMA URIType == URIs \subseteq Seq(Segments)
<1> SUFFICES ASSUME NEW uri \in URIs PROVE uri \in Seq(Segments)
  OBVIOUS
<1>1. PICK n \in 1..MaxLength: uri \in [1..n -> Segments]
  BY DEF URIs
<1>2. n \in Nat
  <2>1. MaxLength \in Nat
    BY RoutingAssumption, Zenon DEF RoutingAssumption
  <2> QED
    BY <1>1, <2>1
<1> QED
  BY <1>1, <1>2, SeqDef

LEMMA PlacedIsSpecific == Placed => MostSpecific
<1> SUFFICES ASSUME Placed PROVE MostSpecific
  OBVIOUS
<1> DEFINE locations == server.locations
           loc == FindLocation(locations, req.uri)
<1>1. server \in ToSet(Servers)
  BY DEF Placed, Answers
<1>2. DOMAIN locations \subseteq Nat \ {0}
  <2>1. DOMAIN locations = 1..Len(locations) /\ Len(locations) \in Nat
    BY <1>1, ServerFacts
  <2> QED
    BY <2>1
<1>4. \A i \in DOMAIN locations:
          locations[i].path \in Seq(Segments) /\ locations[i].path # <<>>
  BY <1>1, ServerFacts
<1>5. req.uri \in Seq(Segments)
  BY URIType DEF Placed, Requests
<1> HIDE DEF locations
<1>6. \A i \in DOMAIN locations:
          Matches(locations[i].path, req.uri) =>
              loc # 0 /\ Matches(locations[i].path, locations[loc].path)
  BY <1>2, <1>4, <1>5, LongestIsChosen
<1>7. ASSUME NEW i \in DOMAIN locations, result # Pending,
             Matches(locations[i].path, req.uri)
      PROVE  /\ result.location # 0
             /\ Matches(locations[i].path, locations[result.location].path)
  <2>1. result.location = loc
    BY <1>7 DEF Placed, locations
  <2> QED
    BY <1>6, <1>7, <2>1
<1>8. /\ req.address \in server.listen
      /\ (\E s \in ToSet(Servers): req.address \in s.listen /\ req.host \in s.server_name)
             => server.server_name \cap {req.host, AnyHost} # {}
  BY DEF Placed, Answers
<1> QED
  BY <1>7, <1>8 DEF MostSpecific, locations

\* The right block and its most specific location, for every configuration whose
\* locations have a path and every URI.
THEOREM MostSpecificChosen == Spec => []MostSpecific
  BY PlacedInit, PlacedStep, PlacedIsSpecific, PTL DEF Spec

-----------------------------------------------------------------------------
(* normalizePath *)

\* Induction, for a set of numbers.
LEMMA AllNumbers ==
    ASSUME NEW S, 0 \in S, \A n \in Nat: n \in S => n + 1 \in S
    PROVE  Nat \subseteq S
<1> SUFFICES ASSUME Nat \ S # {} PROVE FALSE
  OBVIOUS
<1> DEFINE m == Min(Nat \ S)
<1>1. m \in Nat \ S /\ \A x \in Nat \ S: m <= x
  BY MinIsLeast
<1> HIDE DEF m
<1>2. m - 1 \in Nat /\ m - 1 \in S
  BY <1>1
<1> QED
  BY <1>1, <1>2

\* The largest number of a set that has a bound.
LEMMA MaxIsGreatest ==
    ASSUME NEW n \in Nat, NEW S, S \subseteq 1..n, S # {}
    PROVE  Max(S) \in S /\ \A x \in S: x <= Max(S)
<1> DEFINE spare == {n - x: x \in S}
<1>1. Min(spare) \in spare /\ \A y \in spare: Min(spare) <= y
  <2>1. \A x \in S: n - x \in Nat
    OBVIOUS
  <2>2. spare \subseteq Nat /\ spare # {}
    BY <2>1
  <2> HIDE DEF spare
  <2> QED
    BY <2>2, MinIsLeast
<1>2. PICK m \in S: Min(spare) = n - m
  BY <1>1
<1>3. \A x \in S: n - m <= n - x
  BY <1>1, <1>2
<1>4. \A x \in S: m >= x
  BY <1>3
<1> QED
  BY <1>4 DEF Max

\* One step of normalizePath.
Step(parts, s) ==
    IF s \in {"", "."} THEN parts
    ELSE IF s # ".." THEN Append(parts, s)
    ELSE IF parts = <<>> THEN parts ELSE Front(parts)

\* What the parts of a path are after the segments that a set numbers.
IsRun(run, path, S) ==
    run = [s \in SUBSET S |->
               IF s = {} THEN <<>> ELSE Step(run[s \ {Max(s)}], path[Max(s)])]

\* There is such a function for every number of segments, so that the fold is it.
LEMMA RunExists ==
    ASSUME NEW path
    PROVE  \A n \in Nat: \E run: IsRun(run, path, 1..n)
<1> DEFINE Good == {n \in Nat: \E run: IsRun(run, path, 1..n)}
<1>1. 0 \in Good
  <2> DEFINE run == [s \in SUBSET (1..0) |-> <<>>]
  <2>1. \A s \in SUBSET (1..0): s = {}
    OBVIOUS
  <2>2. IsRun(run, path, 1..0)
    BY <2>1 DEF IsRun
  <2> QED
    BY <2>2
<1>2. ASSUME NEW n \in Nat, n \in Good PROVE n + 1 \in Good
  <2>1. PICK run: IsRun(run, path, 1..n)
    BY <1>2
  <2> DEFINE next == [s \in SUBSET (1..n + 1) |->
                          IF s = {} THEN <<>> ELSE Step(run[s \ {Max(s)}], path[Max(s)])]
  <2>2. \A s \in SUBSET (1..n + 1): s # {} => s \ {Max(s)} \in SUBSET (1..n)
    <3> SUFFICES ASSUME NEW s \in SUBSET (1..n + 1), s # {}
                 PROVE  s \ {Max(s)} \in SUBSET (1..n)
      OBVIOUS
    <3> DEFINE k == Max(s)
    <3>1. n + 1 \in Nat
      OBVIOUS
    <3>2. k \in s /\ \A x \in s: x <= k
      BY <3>1, MaxIsGreatest
    <3> HIDE DEF k
    <3>3. s \ {k} \in SUBSET (1..n)
      BY <3>2
    <3> QED
      BY <3>3 DEF k
  <2>3. \A s \in SUBSET (1..n): next[s] = run[s]
    <3> SUFFICES ASSUME NEW s \in SUBSET (1..n) PROVE next[s] = run[s]
      OBVIOUS
    <3>1. s \in SUBSET (1..n + 1)
      OBVIOUS
    <3>2. run[s] = IF s = {} THEN <<>> ELSE Step(run[s \ {Max(s)}], path[Max(s)])
      BY <2>1 DEF IsRun
    <3> QED
      BY <3>1, <3>2
  <2>4. next = [s \in SUBSET (1..n + 1) |->
                    IF s = {} THEN <<>> ELSE Step(next[s \ {Max(s)}], path[Max(s)])]
    <3>1. \A s \in SUBSET (1..n + 1): s # {} => next[s \ {Max(s)}] = run[s \ {Max(s)}]
      BY <2>2, <2>3
    <3> HIDE DEF next
    <3>2. \A s \in SUBSET (1..n + 1):
            (IF s = {} THEN <<>> ELSE Step(next[s \ {Max(s)}], path[Max(s)]))
            = (IF s = {} THEN <<>> ELSE Step(run[s \ {Max(s)}], path[Max(s)]))
      BY <3>1
    <3> QED
      BY <3>2 DEF next
  <2>5. IsRun(next, path, 1..n + 1)
    BY <2>4, Zenon DEF IsRun
  <2> QED
    BY <2>5
<1> HIDE DEF Good
<1>3. Nat \subseteq Good
  BY <1>1, <1>2, AllNumbers
<1> QED
  BY <1>3 DEF Good

\* It gives sequences of names.
LEMMA RunType ==
    ASSUME NEW path \in Seq(Segments), NEW run, IsRun(run, path, 1..Len(path))
    PROVE  \A n \in Nat: n <= Len(path) => \A s \in SUBSET (1..n): run[s] \in Seq(Names)
<1> DEFINE Good == {n \in Nat: n <= Len(path) =>
                                  \A s \in SUBSET (1..n): run[s] \in Seq(Names)}
<1>0. Len(path) \in Nat
  BY LenProperties
<1>1. \A s \in SUBSET (1..Len(path)):
        run[s] = IF s = {} THEN <<>> ELSE Step(run[s \ {Max(s)}], path[Max(s)])
  BY DEF IsRun
<1>2. 0 \in Good
  <2>1. \A s \in SUBSET (1..0): s = {} /\ s \in SUBSET (1..Len(path))
    OBVIOUS
  <2>2. <<>> \in Seq(Names)
    BY EmptySeq
  <2> QED
    BY <1>1, <2>1, <2>2
<1>3. ASSUME NEW n \in Nat, n \in Good PROVE n + 1 \in Good
  <2>0. n + 1 \in Nat
    OBVIOUS
  <2> SUFFICES ASSUME n + 1 <= Len(path), NEW s \in SUBSET (1..n + 1)
               PROVE  run[s] \in Seq(Names)
    BY <2>0
  <2>1. s \in SUBSET (1..Len(path))
    BY <1>0
  <2>2. CASE s = {}
    BY <1>1, <2>1, <2>2, EmptySeq
  <2>3. CASE s # {}
    <3> DEFINE k == Max(s)
               before == run[s \ {k}]
    <3>1. k \in s /\ \A x \in s: x <= k
      BY <2>0, <2>3, MaxIsGreatest
    <3> HIDE DEF k
    <3>2. s \ {k} \in SUBSET (1..n)
      BY <3>1
    <3>3. before \in Seq(Names)
      BY <1>0, <1>3, <3>2
    <3>4. run[s] = Step(before, path[k])
      BY <1>1, <2>1, <2>3 DEF k
    <3>5. path[k] \in Segments
      BY <2>1, <3>1, ElementOfSeq
    <3> HIDE DEF before
    <3>6. CASE path[k] \in {"", "."}
      BY <3>3, <3>4, <3>6 DEF Step
    <3>7. CASE path[k] \in Names /\ path[k] \notin {"", ".", ".."}
      <4>1. run[s] = Append(before, path[k])
        BY <3>4, <3>7 DEF Step
      <4>2. path[k] \in Names
        BY <3>7
      <4>3. Append(before, path[k]) \in Seq(Names)
        BY <3>3, <4>2, AppendProperties
      <4> QED
        BY <4>1, <4>3
    <3>8. CASE path[k] = ".."
      BY <3>3, <3>4, <3>8, FrontFacts DEF Step
    <3>9. Names \cap {"", ".", ".."} = {}
      BY RoutingAssumption, Zenon DEF RoutingAssumption
    <3> QED
      BY <3>5, <3>6, <3>7, <3>8, <3>9 DEF Segments
  <2> QED
    BY <2>2, <2>3
<1> HIDE DEF Good
<1>4. Nat \subseteq Good
  BY <1>2, <1>3, AllNumbers
<1> QED
  BY <1>4 DEF Good

\* Only names are left of a path.
LEMMA NormalizedType ==
    ASSUME NEW path \in Seq(Segments)
    PROVE  Normalized(path) \in Seq(Names)
<1> DEFINE S == DOMAIN path
           run == CHOOSE f: f = [s \in SUBSET S |->
                      IF s = {} THEN <<>> ELSE Step(f[s \ {Max(s)}], path[Max(s)])]
<1>1. Normalized(path) = run[S]
  BY Zenon DEF Normalized, FoldLeft, MapThenFoldSet, Step
<1>2. Len(path) \in Nat /\ S = 1..Len(path)
  BY LenProperties
<1>3. \E r: IsRun(r, path, S)
  BY <1>2, RunExists
<1>4. IsRun(run, path, S)
  BY <1>3, Zenon DEF IsRun
<1> HIDE DEF run, S
<1>5. IsRun(run, path, 1..Len(path))
  BY <1>2, <1>4
<1>7. \A n \in Nat: n <= Len(path) => \A s \in SUBSET (1..n): run[s] \in Seq(Names)
  BY <1>5, RunType
<1>6. \A s \in SUBSET (1..Len(path)): run[s] \in Seq(Names)
  BY <1>2, <1>7
<1> QED
  BY <1>1, <1>2, <1>6

LEMMA OneMore ==
    ASSUME NEW n \in Nat
    PROVE  /\ n + 1 \in 1..n + 1 /\ 1..n + 1 # {}
           /\ (1..n + 1) \ {n + 1} = 1..n
           /\ Max(1..n + 1) = n + 1
<1>1. n + 1 \in Nat /\ n + 1 \in 1..n + 1 /\ 1..n + 1 # {}
  BY SMT
<1>2. (1..n + 1) \ {n + 1} = 1..n
  BY SMT
<1> DEFINE S == 1..n + 1
<1>3. Max(S) \in S /\ \A x \in S: x <= Max(S)
  BY <1>1, MaxIsGreatest
<1>4. Max(S) = n + 1
  <2> DEFINE m == Max(S)
  <2>1. m \in 1..n + 1 /\ n + 1 <= m
    BY <1>1, <1>3
  <2> HIDE DEF m
  <2>2. m = n + 1
    BY <2>1
  <2> QED
    BY <2>2 DEF m
<1> QED
  BY <1>1, <1>2, <1>4

\* normalizePath takes one more segment by one more step.
LEMMA NormalizedStep ==
    ASSUME NEW path \in Seq(Segments), NEW s \in Segments
    PROVE  Normalized(Append(path, s)) = Step(Normalized(path), s)
<1> DEFINE longer == Append(path, s)
           n == Len(path)
           S == DOMAIN path
           run == CHOOSE f: f = [t \in SUBSET S |->
                      IF t = {} THEN <<>> ELSE Step(f[t \ {Max(t)}], path[Max(t)])]
           T == DOMAIN longer
           next == CHOOSE f: f = [t \in SUBSET T |->
                      IF t = {} THEN <<>> ELSE Step(f[t \ {Max(t)}], longer[Max(t)])]
<1>1. Normalized(path) = run[S]
  BY Zenon DEF Normalized, FoldLeft, MapThenFoldSet, Step
<1>2. Normalized(longer) = next[T]
  BY Zenon DEF Normalized, FoldLeft, MapThenFoldSet, Step
<1>3. n \in Nat /\ S = 1..n
  BY LenProperties
<1>4. /\ longer \in Seq(Segments) /\ Len(longer) = n + 1
      /\ \A i \in 1..n: longer[i] = path[i]
      /\ longer[n + 1] = s
  BY AppendProperties
<1>5. T = 1..n + 1
  BY <1>4, LenProperties
<1>6. IsRun(run, path, S)
  <2>1. \E r: IsRun(r, path, S)
    BY <1>3, RunExists
  <2> QED
    BY <2>1, Zenon DEF IsRun
<1>7. IsRun(next, longer, T)
  <2>1. n + 1 \in Nat
    BY <1>3
  <2>2. \E r: IsRun(r, longer, T)
    BY <1>5, <2>1, RunExists
  <2> QED
    BY <2>2, Zenon DEF IsRun
<1> HIDE DEF longer, n, S, T, run, next
<1>8. \A t \in SUBSET S: run[t] = IF t = {} THEN <<>> ELSE Step(run[t \ {Max(t)}], path[Max(t)])
  BY <1>6 DEF IsRun
<1>9. \A t \in SUBSET T: next[t] = IF t = {} THEN <<>> ELSE Step(next[t \ {Max(t)}], longer[Max(t)])
  BY <1>7 DEF IsRun
<1> DEFINE Good == {m \in Nat: m <= n => \A t \in SUBSET (1..m): next[t] = run[t]}
<1>10. 0 \in Good
  <2>1. \A t \in SUBSET (1..0): t = {} /\ t \in SUBSET S /\ t \in SUBSET T
    BY <1>3, <1>5
  <2> QED
    BY <1>8, <1>9, <2>1
<1>11. ASSUME NEW m \in Nat, m \in Good PROVE m + 1 \in Good
  <2>0. m + 1 \in Nat
    OBVIOUS
  <2> SUFFICES ASSUME m + 1 <= n, NEW t \in SUBSET (1..m + 1) PROVE next[t] = run[t]
    BY <2>0
  <2>1. t \in SUBSET S /\ t \in SUBSET T
    BY <1>3, <1>5
  <2>2. CASE t = {}
    BY <1>8, <1>9, <2>1, <2>2
  <2>3. CASE t # {}
    <3> DEFINE k == Max(t)
    <3>1. k \in t /\ \A x \in t: x <= k
      BY <2>0, <2>3, MaxIsGreatest
    <3>2. next[t] = Step(next[t \ {k}], longer[k]) /\ run[t] = Step(run[t \ {k}], path[k])
      BY <1>8, <1>9, <2>1, <2>3
    <3> HIDE DEF k
    <3>3. t \ {k} \in SUBSET (1..m)
      BY <3>1
    <3>4. next[t \ {k}] = run[t \ {k}]
      BY <1>3, <1>11, <3>3
    <3>5. longer[k] = path[k]
      BY <1>3, <1>4, <2>1, <3>1
    <3> QED
      BY <3>2, <3>4, <3>5
  <2> QED
    BY <2>2, <2>3
<1>12. Nat \subseteq Good
  <2> HIDE DEF Good
  <2> QED
    BY <1>10, <1>11, AllNumbers
<1>13. next[S] = run[S]
  <2>1. n \in Good
    BY <1>3, <1>12
  <2> QED
    BY <1>3, <2>1
<1>14. Max(T) = n + 1 /\ T # {} /\ T \ {n + 1} = S
  BY <1>3, <1>5, OneMore
<1>15. next[T] = Step(next[S], longer[n + 1])
  <2>1. T \in SUBSET T
    OBVIOUS
  <2> QED
    BY <1>9, <1>14, <2>1
<1>16. Normalized(longer) = Step(Normalized(path), s)
  BY <1>1, <1>2, <1>4, <1>13, <1>15
<1> QED
  BY <1>16 DEF longer

\* A path of names is left as it is.
LEMMA NormalizedNames ==
    ASSUME NEW path \in Seq(Names)
    PROVE  Normalized(path) = path
<1> DEFINE Good == {n \in Nat: \A p \in Seq(Names): Len(p) = n => Normalized(p) = p}
<1>0. Names \subseteq Segments /\ Names \cap {"", ".", ".."} = {}
  BY RoutingAssumption, Zenon DEF RoutingAssumption, Segments
<1>1. 0 \in Good
  <2> SUFFICES ASSUME NEW p \in Seq(Names), Len(p) = 0 PROVE Normalized(p) = p
    OBVIOUS
  <2> DEFINE S == DOMAIN p
             run == CHOOSE f: f = [t \in SUBSET S |->
                        IF t = {} THEN <<>> ELSE Step(f[t \ {Max(t)}], p[Max(t)])]
  <2>1. Normalized(p) = run[S]
    BY Zenon DEF Normalized, FoldLeft, MapThenFoldSet, Step
  <2>2. p = <<>> /\ S = {} /\ 1..0 = {} /\ 0 \in Nat
    BY LenProperties, EmptySeq
  <2>3. IsRun(run, p, S)
    <3>1. \E r: IsRun(r, p, S)
      BY <2>2, RunExists
    <3> QED
      BY <3>1, Zenon DEF IsRun
  <2> HIDE DEF S, run
  <2>4. run[S] = <<>>
    BY <2>2, <2>3 DEF IsRun
  <2> QED
    BY <2>1, <2>2, <2>4
<1>2. ASSUME NEW n \in Nat, n \in Good PROVE n + 1 \in Good
  <2>0. n + 1 \in Nat
    OBVIOUS
  <2> SUFFICES ASSUME NEW p \in Seq(Names), Len(p) = n + 1 PROVE Normalized(p) = p
    BY <2>0
  <2> DEFINE q == Front(p)
             s == p[n + 1]
  <2>1. p # <<>>
    BY EmptySeq
  <2>2. q \in Seq(Names) /\ Len(q) = n /\ \A i \in 1..n: q[i] = p[i]
    <3>1. Len(q) = Len(p) - 1 /\ Len(p) - 1 = n /\ q \in Seq(Names)
          /\ \A i \in 1..Len(p) - 1: q[i] = p[i]
      BY <2>1, FrontFacts
    <3> QED
      BY <3>1
  <2>3. s \in Names
    <3>1. n + 1 \in 1..Len(p)
      OBVIOUS
    <3> QED
      BY <3>1, ElementOfSeq
  <2> HIDE DEF q, s
  <2>4. /\ Append(q, s) \in Seq(Names) /\ Len(Append(q, s)) = n + 1
        /\ \A i \in 1..n: Append(q, s)[i] = q[i]
        /\ Append(q, s)[n + 1] = s
    BY <2>2, <2>3, AppendProperties
  <2>5. Append(q, s) = p
    <3>1. \A i \in 1..n + 1: Append(q, s)[i] = p[i]
      BY <2>2, <2>4 DEF s
    <3> QED
      BY <2>4, <3>1, SeqEqual
  <2>6. q \in Seq(Segments) /\ s \in Segments
    BY <1>0, <2>2, <2>3, SeqMonotonic
  <2>7. Normalized(p) = Step(Normalized(q), s)
    BY <2>5, <2>6, NormalizedStep
  <2>8. Normalized(q) = q
    BY <1>2, <2>2
  <2>9. s \notin {"", ".", ".."}
    BY <1>0, <2>3
  <2> QED
    BY <2>5, <2>7, <2>8, <2>9 DEF Step
<1>3. Nat \subseteq Good
  <2> HIDE DEF Good
  <2> QED
    BY <1>1, <1>2, AllNumbers
<1>4. Len(path) \in Good
  BY <1>3, LenProperties
<1> QED
  BY <1>4

\* A path that has been through normalizePath does not change in it again, so that
\* a path joined from such ones is safe to look up and to compare with a root.
THEOREM NormalizedOnce ==
    ASSUME NEW path \in Seq(Segments)
    PROVE  Normalized(path) \in Seq(Names) /\ Normalized(Normalized(path)) = Normalized(path)
<1>1. Normalized(path) \in Seq(Names)
  BY NormalizedType
<1> QED
  BY <1>1, NormalizedNames

-----------------------------------------------------------------------------
(* The result *)

\* The shape of what the proof needs: the file system and the roots.
Sound ==
    /\ disk \in Disks
    /\ server \in ToSet(Servers)

Places == 0..Len(server.locations)

LEMMA SoundFacts ==
    ASSUME Sound
    PROVE  /\ disk.files \subseteq Seq(Names) /\ disk.dirs \subseteq Seq(Names)
           /\ NoFile \notin disk.files /\ NoFile \notin disk.dirs
           /\ \A loc \in Places: Root(loc) \in Seq(Names)
<1>1. disk \in DiskType
  BY RoutingAssumption, Zenon DEF RoutingAssumption, Sound
<1>2. disk.files \subseteq Seq(Names) /\ disk.dirs \subseteq Seq(Names)
  BY <1>1 DEF DiskType
<1>3. NoFile \notin Seq(Names)
  <2>1. ".." \notin Names
    <3>1. Names \cap {"", ".", ".."} = {}
      BY RoutingAssumption, Zenon DEF RoutingAssumption
    <3> QED
      BY <3>1
  <2>2. Len(<<"..">>) = 1 /\ <<"..">>[1] = ".."
    OBVIOUS
  <2> QED
    BY <2>1, <2>2, ElementOfSeq DEF NoFile
<1>4. server \in ServerType
  <2>1. PICK k \in DOMAIN Servers: server = Servers[k]
    BY DEF Sound, ToSet
  <2>2. Servers \in Seq(ServerType)
    BY RoutingAssumption, Zenon DEF RoutingAssumption
  <2> QED
    BY <2>1, <2>2
<1>5. ASSUME NEW loc \in Places PROVE Root(loc) \in Seq(Names)
  <2>1. server.root \in Seq(Names) /\ server.locations \in Seq(LocationType)
    BY <1>4 DEF ServerType
  <2>2. CASE loc = 0
    BY <2>1, <2>2 DEF Root
  <2>3. CASE loc # 0
    <3>1. server.locations[loc] \in LocationType
      <4>1. Len(server.locations) \in Nat
        BY <2>1
      <4>2. loc \in 1..Len(server.locations)
        BY <2>3, <4>1 DEF Places
      <4> QED
        BY <2>1, <4>2
    <3>2. server.locations[loc].root \in Seq(Names)
      BY <3>1 DEF LocationType
    <3> QED
      BY <2>3, <3>2 DEF Root
  <2> QED
    BY <2>2, <2>3
<1> QED
  BY <1>2, <1>3, <1>5

\* What mapURI gives, when it is a file or a directory at all, is below the root.
LEMMA MappedBelow ==
    ASSUME Sound, NEW loc, NEW uri, MapURI(loc, uri) \in disk.files \cup disk.dirs
    PROVE  IsPrefix(Root(loc), MapURI(loc, uri))
<1>1. MapURI(loc, uri) # NoFile
  BY SoundFacts
<1> QED
  BY <1>1 DEF MapURI, WithinFSRoot

\* mapIndexPath
LEMMA IndexBelow ==
    ASSUME Sound, NEW loc \in Places, NEW dir \in disk.dirs,
           IsPrefix(Root(loc), dir), IndexPath(loc, dir) # NoFile
    PROVE  /\ IndexPath(loc, dir) \in disk.files
           /\ IsPrefix(Root(loc), IndexPath(loc, dir))
<1> DEFINE own == IF loc = 0 THEN <<>> ELSE server.locations[loc].index
           index == IF own = <<>> THEN server.index ELSE own
           found == {i \in 1..Len(index): Append(dir, index[i]) \in disk.files}
           first == IF found # {} THEN Min(found) ELSE 0
<1>1. IndexPath(loc, dir) = IF first = 0 THEN NoFile ELSE Append(dir, index[first])
  BY DEF IndexPath, SelectInSeq
<1>2. first # 0
  BY <1>1
<1>3. first \in found
  <2>1. found # {} /\ first = Min(found)
    BY <1>2
  <2>2. found \subseteq Nat
    OBVIOUS
  <2> HIDE DEF found
  <2> QED
    BY <2>1, <2>2, MinIsLeast
<1> DEFINE name == index[first]
<1>4. IndexPath(loc, dir) = Append(dir, name) /\ Append(dir, name) \in disk.files
  BY <1>1, <1>2, <1>3
<1> HIDE DEF name
<1>5. dir \in Seq(Names) /\ Append(dir, name) \in Seq(Names) /\ Root(loc) \in Seq(Names)
  BY <1>4, SoundFacts
<1>6. /\ Len(dir) \in Nat /\ Len(Append(dir, name)) = Len(dir) + 1
      /\ \A i \in 1..Len(dir): Append(dir, name)[i] = dir[i]
  BY <1>5
<1>7. IsPrefix(Root(loc), Append(dir, name))
  <2>1. /\ Len(Root(loc)) <= Len(dir) /\ Len(Root(loc)) \in Nat
        /\ \A i \in 1..Len(Root(loc)): Root(loc)[i] = dir[i]
    BY <1>5, PrefixFacts, LenProperties
  <2>2. /\ Len(Root(loc)) <= Len(Append(dir, name))
        /\ \A i \in 1..Len(Root(loc)): Root(loc)[i] = Append(dir, name)[i]
    BY <1>6, <2>1
  <2> QED
    BY <1>5, <2>2, PrefixFacts
<1> QED
  BY <1>4, <1>7


\* What keeps the properties.
ResultType ==
    [type: Types, status: Nat, location: 0..Len(server.locations),
     file_path: Seq(Names), script_name: Seq(Names), path_info: Seq(Names)]

Below(r) ==
    r.type \in {"FILES", "CGI", "DIRECTORY_LISTING"} =>
        /\ IsPrefix(Root(r.location), r.file_path)
        /\ r.file_path \in
              IF r.type = "DIRECTORY_LISTING" THEN disk.dirs ELSE disk.files

Splits(r, uri) ==
    r.type = "CGI" =>
        /\ \/ r.script_name \o r.path_info = uri
           \/ r.path_info = <<>> /\ Front(r.script_name) = uri
        /\ \A k \in Len(r.script_name) + 1..Len(uri): ~NamesScript(r.location, uri, k)

\* A result that keeps the properties, for a URI whose "..", "." and empty
\* segments are gone.
Fine(r, uri) == r \in ResultType /\ Below(r) /\ Splits(r, uri)

LEMMA RefusedFine ==
    ASSUME NEW status \in Nat, NEW loc \in Places, NEW uri
    PROVE  Fine(Refused(status, loc), uri)
<1>1. <<>> \in Seq(Names)
  BY EmptySeq
<1>2. Refused(status, loc) \in ResultType
  BY <1>1 DEF Refused, Routed, ResultType, Places, Types
<1> QED
  BY <1>2 DEF Fine, Below, Splits, Refused, Routed

LEMMA ScriptFine ==
    ASSUME Sound, NEW loc \in Places, NEW file \in disk.files, IsPrefix(Root(loc), file),
           NEW name \in Seq(Names), NEW info \in Seq(Names), NEW uri,
           name \o info = uri \/ (info = <<>> /\ Front(name) = uri),
           \A k \in Len(name) + 1..Len(uri): ~NamesScript(loc, uri, k)
    PROVE  Fine(Script(loc, file, name, info), uri)
<1>1. CASE ~server.locations[loc].interpreter
  <2>1. Script(loc, file, name, info) = Refused(500, loc)
    BY <1>1 DEF Script
  <2> QED
    BY <2>1, RefusedFine
<1>2. CASE server.locations[loc].interpreter
  <2> DEFINE r == [type |-> "CGI", status |-> 0, location |-> loc, file_path |-> file,
                   script_name |-> name, path_info |-> info]
  <2>1. Script(loc, file, name, info) = r
    BY <1>2, ZenonT(40) DEF Script, Routed
  <2>2. r \in ResultType
    <3>1. file \in Seq(Names)
      BY SoundFacts
    <3> QED
      BY <3>1 DEF ResultType, Places, Types
  <2>3. Below(r)
    BY DEF Below
  <2>4. Splits(r, uri)
    BY DEF Splits
  <2> QED
    BY <2>1, <2>2, <2>3, <2>4 DEF Fine
<1> QED
  BY <1>1, <1>2

LEMMA FoundFine ==
    ASSUME Sound, NEW loc \in Places, NEW file, IsPrefix(Root(loc), file), NEW uri,
           NEW type \in {"FILES", "DIRECTORY_LISTING"},
           file \in IF type = "FILES" THEN disk.files ELSE disk.dirs
    PROVE  Fine(Routed(type, 0, loc, file), uri)
<1>1. file \in Seq(Names) /\ <<>> \in Seq(Names)
  BY SoundFacts, EmptySeq
<1>2. Routed(type, 0, loc, file) \in ResultType
  BY <1>1 DEF Routed, ResultType, Places, Types
<1> QED
  BY <1>2 DEF Fine, Below, Splits, Routed

\* resolveCgiPathInfo finds the last of the segments that end a script.
LEMMA CutFacts ==
    ASSUME NEW loc, NEW uri \in Seq(Names)
    PROVE  /\ Cut(loc, uri) \in 0..Len(uri)
           /\ Cut(loc, uri) # 0 => NamesScript(loc, uri, Cut(loc, uri))
           /\ \A k \in 1..Len(uri): NamesScript(loc, uri, k) => k <= Cut(loc, uri)
<1> DEFINE n == Len(uri)
           numbers == [k \in 1..n |-> k]
           scripts == {i \in 1..Len(numbers): NamesScript(loc, uri, numbers[i])}
           Found == {k \in 1..n: NamesScript(loc, uri, k)}
<1>1. n \in Nat
  BY LenProperties
<1>2. Cut(loc, uri) = IF scripts # {} THEN Max(scripts) ELSE 0
  BY DEF Cut, SelectLastInSeq
<1> HIDE DEF n
<1>3. Len(numbers) = n /\ \A i \in 1..n: numbers[i] = i
  BY <1>1
<1>4. scripts = Found
  BY <1>3
<1> HIDE DEF scripts
<1>5. CASE Found = {}
  BY <1>1, <1>2, <1>4, <1>5 DEF n
<1>6. CASE Found # {}
  <2>1. Max(Found) \in Found /\ \A k \in Found: k <= Max(Found)
    <3>1. Found \subseteq 1..n
      OBVIOUS
    <3> HIDE DEF Found
    <3> QED
      BY <1>1, <1>6, <3>1, MaxIsGreatest
  <2>2. Cut(loc, uri) = Max(Found)
    BY <1>2, <1>4, <1>6
  <2> QED
    BY <1>1, <2>1, <2>2 DEF n
<1> QED
  BY <1>5, <1>6

\* The two parts of the URI that resolveCgiPathInfo finds are the whole of it.
LEMMA MissingFine ==
    ASSUME Sound, NEW loc \in Places, NEW uri \in Seq(Names)
    PROVE  Fine(RouteMissing(loc, uri), uri)
<1> DEFINE k == Cut(loc, uri)
           file == MapURI(loc, SubSeq(uri, 1, k))
           name == SubSeq(uri, 1, k)
           info == SubSeq(uri, k + 1, Len(uri))
<1>1. CASE loc = 0 \/ k = 0
  BY <1>1, RefusedFine DEF RouteMissing
<1>2. CASE loc # 0 /\ k # 0
  <2>1. k \in 1..Len(uri) /\ NamesScript(loc, uri, k)
    BY <1>2, CutFacts, LenProperties
  <2>2. \A j \in k + 1..Len(uri): ~NamesScript(loc, uri, j)
    BY <2>1, CutFacts, LenProperties
  <2>3. RouteMissing(loc, uri) = Script(loc, file, name, info)
    BY <1>2 DEF RouteMissing
  <2>4. file \in disk.files
    BY <2>1 DEF NamesScript
  <2>5. IsPrefix(Root(loc), file)
    BY <2>4, MappedBelow
  <2> HIDE DEF k, file
  <2>6. Len(uri) \in Nat /\ k \in Nat /\ k <= Len(uri)
    BY <2>1, LenProperties
  <2>7. \A i \in 1..Len(uri): uri[i] \in Names
    BY ElementOfSeq
  <2>8. name \in Seq(Names) /\ Len(name) = k /\ \A i \in 1..k: name[i] = uri[i]
    BY <2>1, <2>6, <2>7, SubSeqProperties
  <2>9. /\ info \in Seq(Names) /\ Len(info) = Len(uri) - k
        /\ \A i \in 1..Len(uri) - k: info[i] = uri[k + i]
    <3>1. k + 1 \in Int /\ Len(uri) \in Int /\ \A i \in k + 1..Len(uri): uri[i] \in Names
      BY <2>6, <2>7
    <3>2. /\ info \in Seq(Names)
          /\ Len(info) = IF k + 1 <= Len(uri) THEN Len(uri) - (k + 1) + 1 ELSE 0
          /\ \A i \in 1..Len(uri) - (k + 1) + 1: info[i] = uri[k + 1 + i - 1]
      BY <3>1, SubSeqProperties
    <3> HIDE DEF info
    <3>3. Len(info) = Len(uri) - k
      BY <2>6, <3>2
    <3>4. \A i \in 1..Len(uri) - k: k + 1 + i - 1 = k + i
      BY <2>6
    <3>5. Len(uri) - (k + 1) + 1 = Len(uri) - k
      BY <2>6
    <3> QED
      BY <3>2, <3>3, <3>4, <3>5
  <2> HIDE DEF name, info
  <2>10. name \o info = uri
    <3>1. /\ name \o info \in Seq(Names) /\ Len(name \o info) = Len(uri)
          /\ \A i \in 1..Len(name): (name \o info)[i] = name[i]
          /\ \A i \in Len(name) + 1..Len(name) + Len(info):
                 (name \o info)[i] = info[i - Len(name)]
      BY <2>6, <2>8, <2>9, ConcatProperties
    <3>2. \A i \in 1..Len(uri): (name \o info)[i] = uri[i]
      <4> TAKE i \in 1..Len(uri)
      <4>1. CASE i <= k
        BY <2>6, <2>8, <3>1, <4>1
      <4>2. CASE i > k
        <5>1. i - k \in 1..Len(uri) - k /\ k + (i - k) = i
          BY <2>6, <4>2
        <5>2. i \in Len(name) + 1..Len(name) + Len(info)
          BY <2>6, <2>8, <2>9, <4>2
        <5> QED
          BY <2>8, <2>9, <3>1, <5>1, <5>2
      <4>3. i <= k \/ i > k
        BY <2>6
      <4> QED
        BY <4>1, <4>2, <4>3
    <3> QED
      BY <3>1, <3>2, SeqEqual
  <2> QED
    BY <2>2, <2>3, <2>4, <2>5, <2>8, <2>9, <2>10, ScriptFine
<1> QED
  BY <1>1, <1>2

\* The index of a directory, or the list of it.
LEMMA DirFine ==
    ASSUME Sound, NEW loc \in Places, NEW uri \in Seq(Names), NEW dir \in disk.dirs,
           IsPrefix(Root(loc), dir), NEW method
    PROVE  Fine(RouteDir(loc, uri, dir, method), uri)
<1> DEFINE file == IndexPath(loc, dir)
           last == Last(file)
           name == Append(uri, last)
<1>1. CASE file # NoFile
  <2>1. file \in disk.files /\ IsPrefix(Root(loc), file)
    BY <1>1, IndexBelow
  <2>2. CASE IsCGI(loc, file)
    <3>1. RouteDir(loc, uri, dir, method) = Script(loc, file, name, <<>>)
      BY <1>1, <2>2 DEF RouteDir
    <3>2. last \in Names
      BY <2>2, RoutingAssumption, Zenon DEF IsCGI, RoutingAssumption
    <3> HIDE DEF file, last
    <3>3. /\ name \in Seq(Names) /\ <<>> \in Seq(Names) /\ name # <<>>
          /\ Len(name) = Len(uri) + 1 /\ Len(uri) \in Nat
          /\ \A i \in 1..Len(uri): name[i] = uri[i]
      BY <3>2, AppendProperties, EmptySeq, LenProperties
    <3>4. Front(name) = uri
      <4> HIDE DEF name
      <4>1. /\ Front(name) \in Seq(Names) /\ Len(Front(name)) = Len(name) - 1
            /\ \A i \in 1..Len(name) - 1: Front(name)[i] = name[i]
        BY <3>3, FrontFacts
      <4>2. Len(name) - 1 = Len(uri)
        BY <3>3
      <4> QED
        BY <3>3, <4>1, <4>2, SeqEqual
    <3> HIDE DEF name
    <3>5. Len(name) + 1..Len(uri) = {}
      BY <3>3
    <3> QED
      BY <2>1, <3>1, <3>3, <3>4, <3>5, ScriptFine
  <2>3. CASE ~IsCGI(loc, file)
    <3>1. RouteDir(loc, uri, dir, method) = Routed("FILES", 0, loc, file)
      BY <1>1, <2>3 DEF RouteDir
    <3> HIDE DEF file
    <3> QED
      BY <2>1, <3>1, FoundFine
  <2> QED
    BY <2>2, <2>3
<1>2. CASE file = NoFile
  <2>1. \/ \E status \in {403, 405}:
              RouteDir(loc, uri, dir, method) = Refused(status, loc)
        \/ RouteDir(loc, uri, dir, method) = Routed("DIRECTORY_LISTING", 0, loc, dir)
    BY <1>2 DEF RouteDir
  <2>2. Fine(Routed("DIRECTORY_LISTING", 0, loc, dir), uri)
    BY FoundFine
  <2> QED
    BY <2>1, <2>2, RefusedFine
<1> QED
  BY <1>1, <1>2

LEMMA PathFine ==
    ASSUME Sound, NEW loc \in Places, NEW uri \in Seq(Segments), NEW method
    PROVE  Fine(RoutePath(loc, uri, method), Normalized(uri))
<1> DEFINE safe_uri == Normalized(uri)
           file == MapURI(loc, uri)
<1>0. safe_uri \in Seq(Names)
  BY NormalizedType
<1> HIDE DEF safe_uri
<1>1. RoutePath(loc, uri, method) =
        IF file = NoFile THEN Refused(403, loc)
        ELSE IF file \in disk.dirs THEN RouteDir(loc, safe_uri, file, method)
        ELSE IF file \notin disk.files THEN RouteMissing(loc, safe_uri)
        ELSE IF IsCGI(loc, file) THEN Script(loc, file, safe_uri, <<>>)
        ELSE Routed("FILES", 0, loc, file)
  BY DEF RoutePath, safe_uri
<1>2. file \in disk.files \cup disk.dirs => IsPrefix(Root(loc), file)
  BY MappedBelow
<1> HIDE DEF file
<1>3. Fine(Refused(403, loc), safe_uri)
  BY RefusedFine
<1>4. file \in disk.dirs => Fine(RouteDir(loc, safe_uri, file, method), safe_uri)
  BY <1>0, <1>2, DirFine
<1>5. Fine(RouteMissing(loc, safe_uri), safe_uri)
  BY <1>0, MissingFine
<1>6. file \in disk.files => Fine(Script(loc, file, safe_uri, <<>>), safe_uri)
  <2>1. /\ safe_uri \o <<>> = safe_uri /\ <<>> \in Seq(Names)
        /\ Len(safe_uri) + 1..Len(safe_uri) = {}
    BY <1>0, EmptySeq, LenProperties
  <2> QED
    BY <1>0, <1>2, <2>1, ScriptFine
<1>7. file \in disk.files => Fine(Routed("FILES", 0, loc, file), safe_uri)
  BY <1>2, FoundFine
<1>8. Fine(RoutePath(loc, uri, method), safe_uri)
  BY <1>1, <1>3, <1>4, <1>5, <1>6, <1>7
<1> QED
  BY <1>8 DEF safe_uri

\* Router::route
LEMMA RouteFine ==
    ASSUME Sound, NEW uri \in Seq(Segments), NEW method
    PROVE  Fine(RouteOf(uri, method), Normalized(uri))
<1> DEFINE loc == FindLocation(server.locations, uri)
           l == server.locations[loc]
           safe_uri == Normalized(uri)
           through == RoutePath(loc, uri, method)
           plain == RoutePath(0, uri, method)
<1>1. RouteOf(uri, method) =
          IF loc = 0
          THEN IF method # "GET" THEN Refused(405, 0) ELSE plain
          ELSE IF l.return_ # 0 THEN Routed("RED", l.return_, loc, <<>>)
          ELSE IF method \notin l.allow_methods THEN Refused(405, loc)
          ELSE IF method # "GET" /\ l.upload_path # <<>>
          THEN Routed("UPLOAD", 0, loc, safe_uri)
          ELSE through
  BY DEF RouteOf
<1>2. loc \in Places /\ 0 \in Places /\ (loc # 0 => l \in LocationType)
  <2> DEFINE locations == server.locations
  <2>1. /\ DOMAIN locations = 1..Len(locations) /\ Len(locations) \in Nat
        /\ \A i \in DOMAIN locations:
               locations[i].path \in Seq(Segments) /\ locations[i].path # <<>>
        /\ server \in ServerType
    BY ServerFacts DEF Sound
  <2>2. locations \in Seq(LocationType)
    BY <2>1 DEF ServerType
  <2> HIDE DEF locations
  <2>3. DOMAIN locations \subseteq Nat \ {0}
    BY <2>1
  <2>4. FindLocation(locations, uri) \in DOMAIN locations \cup {0}
    BY <2>1, <2>3, LongestIsChosen
  <2>5. loc \in DOMAIN locations \cup {0}
    BY <2>4 DEF locations
  <2>6. loc # 0 => l \in LocationType
    BY <2>2, <2>5 DEF locations
  <2>7. loc \in 0..Len(locations) /\ 0 \in 0..Len(locations)
    <3> HIDE DEF loc
    <3> QED
      BY <2>1, <2>5
  <2> QED
    BY <2>6, <2>7 DEF Places, locations
<1>3. safe_uri \in Seq(Names) /\ <<>> \in Seq(Names)
  BY NormalizedType, EmptySeq
<1>4. loc \in Places /\ 0 \in Places
  BY <1>2
<1>5. Fine(plain, safe_uri) /\ Fine(through, safe_uri)
  <2> HIDE DEF loc
  <2> QED
    BY <1>4, PathFine
<1> HIDE DEF loc, plain, through, safe_uri
<1>6. Fine(Refused(405, 0), safe_uri) /\ Fine(Refused(405, loc), safe_uri)
  BY <1>4, RefusedFine
<1>7. loc # 0 => Fine(Routed("RED", l.return_, loc, <<>>), safe_uri)
  <2> SUFFICES ASSUME loc # 0 PROVE Fine(Routed("RED", l.return_, loc, <<>>), safe_uri)
    OBVIOUS
  <2>1. l.return_ \in Nat
    BY <1>2 DEF LocationType
  <2> HIDE DEF l
  <2>2. Routed("RED", l.return_, loc, <<>>) \in ResultType
    BY <1>3, <1>4, <2>1 DEF Routed, ResultType, Places, Types
  <2> QED
    BY <2>2 DEF Fine, Below, Splits, Routed
<1>8. Fine(Routed("UPLOAD", 0, loc, safe_uri), safe_uri)
  <2>1. Routed("UPLOAD", 0, loc, safe_uri) \in ResultType
    BY <1>3, <1>4 DEF Routed, ResultType, Places, Types
  <2> QED
    BY <2>1 DEF Fine, Below, Splits, Routed
<1>9. Fine(RouteOf(uri, method), safe_uri)
  BY <1>1, <1>5, <1>6, <1>7, <1>8
<1> QED
  BY <1>9 DEF safe_uri

\* A redirect and an error have a status.
Coded(r) == r.type \in {"RED", "ERR"} => r.status # 0

LEMMA RouteCoded ==
    ASSUME NEW uri, NEW method
    PROVE  Coded(RouteOf(uri, method))
<1> DEFINE loc == FindLocation(server.locations, uri)
           l == server.locations[loc]
           through == RoutePath(loc, uri, method)
           plain == RoutePath(0, uri, method)
<1>1. \A i: \A status \in {403, 404, 405, 500}: Coded(Refused(status, i))
  BY DEF Coded, Refused, Routed
<1>2. \A i, f: \A type \in {"FILES", "DIRECTORY_LISTING", "UPLOAD"}:
          Coded(Routed(type, 0, i, f))
  BY DEF Coded, Routed
<1>3. \A i, f, s, p: Coded(Script(i, f, s, p))
  BY <1>1 DEF Script, Coded, Routed
<1>4. \A i, u: Coded(RouteMissing(i, u))
  BY <1>1, <1>3 DEF RouteMissing
<1>5. \A i, u, d: Coded(RouteDir(i, u, d, method))
  BY <1>1, <1>2, <1>3 DEF RouteDir
<1>6. \A i: Coded(RoutePath(i, uri, method))
  BY <1>1, <1>2, <1>3, <1>4, <1>5 DEF RoutePath
<1>7. Coded(through) /\ Coded(plain)
  BY <1>6
<1>8. RouteOf(uri, method) =
          IF loc = 0
          THEN IF method # "GET" THEN Refused(405, 0) ELSE plain
          ELSE IF l.return_ # 0 THEN Routed("RED", l.return_, loc, <<>>)
          ELSE IF method \notin l.allow_methods THEN Refused(405, loc)
          ELSE IF method # "GET" /\ l.upload_path # <<>>
          THEN Routed("UPLOAD", 0, loc, Normalized(uri))
          ELSE through
  BY DEF RouteOf
<1> HIDE DEF loc, l, through, plain
<1>9. l.return_ # 0 => Coded(Routed("RED", l.return_, loc, <<>>))
  BY DEF Coded, Routed
<1> QED
  BY <1>1, <1>2, <1>7, <1>8, <1>9

-----------------------------------------------------------------------------
(* TypeOK, BelowRoot, SplitsURI *)

AnswerType == [by: {"none", "gate", "stream", "script", "upload", "handler"}, status: Nat]

\* The inductive invariant.
RouteInv ==
    /\ server \in ToSet(Servers)
    /\ req \in Requests
    /\ disk \in DiskType
    /\ answer \in AnswerType
    /\ answer.by = "handler" <=> answer.status # 0
    /\ answer = Unanswered => disk \in Disks
    /\ Fine(result, Normalized(req.uri))

LEMMA InvInit == Init => RouteInv
<1> SUFFICES ASSUME Init PROVE RouteInv
  OBVIOUS
<1>1. disk \in Disks /\ disk \in DiskType
  BY RoutingAssumption, Zenon DEF RoutingAssumption, Init
<1>2. req \in Requests /\ server \in ToSet(Servers)
  <2>1. req \in Requests
    BY DEF Init
  <2>2. req.address \in Addresses /\ req.host \in Hosts \cup {NoHost}
    BY <2>1 DEF Requests
  <2> QED
    BY <2>1, <2>2, ServerAnswers DEF Init, Answers
<1>3. answer = Unanswered /\ answer \in AnswerType
      /\ (answer.by = "handler" <=> answer.status # 0)
  BY DEF Init, Unanswered, By, AnswerType
<1>4. Fine(result, Normalized(req.uri))
  <2>1. 0 \in Places
    BY <1>2, ServerFacts DEF Places
  <2> QED
    BY <2>1, RefusedFine DEF Init, Pending
<1> QED
  BY <1>1, <1>2, <1>3, <1>4 DEF RouteInv

\* What answers, and with what.
LEMMA AnswerTyped ==
    ASSUME Process, result'.type \in {"RED", "ERR"} => result'.status \in Nat \ {0}
    PROVE  answer' \in AnswerType /\ (answer'.by = "handler" <=> answer'.status # 0)
<1>1. \A by \in {"gate", "stream", "script", "upload"}:
          /\ By(by, 0) \in AnswerType
          /\ By(by, 0).by = "handler" <=> By(by, 0).status # 0
  BY DEF By, AnswerType
<1>2. \A status \in Nat \ {0}:
          /\ By("handler", status) \in AnswerType
          /\ By("handler", status).by = "handler" <=> By("handler", status).status # 0
  BY DEF By, AnswerType
<1>3. \/ \E by \in {"gate", "stream", "script", "upload"}: answer' = By(by, 0)
      \/ \E status \in Nat \ {0}: answer' = By("handler", status)
  <2>1. CASE Gate \/ Stream \/ Launch \/ Upload
    BY <2>1 DEF Gate, Stream, Launch, Upload
  <2>2. CASE Redirect \/ Fail
    BY <2>2 DEF Redirect, Fail
  <2>3. CASE List \/ ServeFile \/ Delete
    BY <2>3 DEF List, ServeFile, Delete
  <2>4. CASE KeepIt
    BY <2>4, KeptStatus
  <2> QED
    BY <2>1, <2>2, <2>3, <2>4 DEF Process, Handle
<1> QED
  BY <1>1, <1>2, <1>3

LEMMA InvStep == RouteInv /\ [Next]_vars => RouteInv'
<1> SUFFICES ASSUME RouteInv, [Next]_vars PROVE RouteInv'
  OBVIOUS
<1>1. CASE Process
  <2> DEFINE r == RouteOf(req.uri, req.method)
             safe_uri == Normalized(req.uri)
  <2>1. answer = Unanswered /\ result' = r /\ UNCHANGED <<server, req>>
    BY <1>1 DEF Process
  <2>2. Sound
    BY <2>1 DEF RouteInv, Sound
  <2>3. Fine(r, safe_uri) /\ Coded(r)
    <3>1. req.uri \in Seq(Segments)
      BY URIType DEF RouteInv, Requests
    <3> QED
      BY <2>2, <3>1, RouteFine, RouteCoded
  <2> HIDE DEF r
  <2>4. answer' \in AnswerType /\ (answer'.by = "handler" <=> answer'.status # 0)
    <3>1. r.status \in Nat
      BY <2>3 DEF Fine, ResultType
    <3> QED
      BY <1>1, <2>1, <2>3, <3>1, AnswerTyped DEF Coded
  <2>5. answer' # Unanswered
    BY <1>1, Answered
  <2>6. disk' = disk \/ (r.type = "UPLOAD" /\ \E path: disk' = Without(disk, path))
    <3>1. CASE Delete
      BY <2>1, <3>1 DEF Delete, Deletes
    <3>2. CASE Gate \/ Stream \/ Launch \/ Upload \/ Redirect \/ Fail \/ List
               \/ ServeFile \/ KeepIt
      BY <3>2, OthersKeepAll
    <3> QED
      BY <1>1, <3>1, <3>2 DEF Process, Handle
  <2>7. disk' \in DiskType
    BY <2>6 DEF RouteInv, DiskType, Without
  <2>8. Fine(result, safe_uri)'
    <3>1. (result \in ResultType)'
      BY <2>1, <2>3 DEF Fine, ResultType
    <3>2. safe_uri' = safe_uri
      BY <2>1
    <3>3. CASE disk' = disk
      <4>1. Below(result)'
        BY <2>1, <2>3, <3>3 DEF Fine, Below, Root
      <4>2. \A loc, uri, k: NamesScript(loc, uri, k)' <=> NamesScript(loc, uri, k)
        <5>1. server' = server /\ disk' = disk
          BY <2>1, <3>3
        <5>2. \A loc: Root(loc)' = Root(loc)
          BY <5>1 DEF Root
        <5>3. \A loc, uri: Mapped(loc, uri)' = Mapped(loc, uri)
          BY <5>1, <5>2, Zenon DEF Mapped
        <5>4. \A loc, uri: MapURI(loc, uri)' = MapURI(loc, uri)
          BY <5>2, <5>3, Zenon DEF MapURI
        <5>5. \A loc, file: IsCGI(loc, file)' <=> IsCGI(loc, file)
          BY <5>1, Zenon DEF IsCGI
        <5> QED
          BY <5>1, <5>4, <5>5, Zenon DEF NamesScript
      <4>3. Splits(result, safe_uri)'
        BY <2>1, <2>3, <3>2, <4>2 DEF Fine, Splits
      <4> QED
        BY <3>1, <4>1, <4>3 DEF Fine
    <3>4. CASE result'.type = "UPLOAD"
      BY <3>1, <3>4 DEF Fine, Below, Splits
    <3> QED
      BY <2>1, <2>6, <3>3, <3>4
  <2> QED
    BY <2>1, <2>4, <2>5, <2>7, <2>8 DEF RouteInv
<1>2. CASE UNCHANGED vars
  BY <1>2, ZenonT(60) DEF RouteInv, vars, Fine, ResultType, Below, Splits, Root, NamesScript,
              IsCGI, MapURI, Mapped, WithinFSRoot
<1> QED
  BY <1>1, <1>2 DEF Next

LEMMA InvAlways == Spec => []RouteInv
  BY InvInit, InvStep, PTL DEF Spec

\* Every variable keeps its type; in particular nothing but names is left of the
\* "..", "." and empty segments of a URI.
THEOREM TypesCorrect == Spec => []TypeOK
<1>1. RouteInv => TypeOK
  BY DEF RouteInv, TypeOK, Fine, ResultType, AnswerType
<1> QED
  BY <1>1, InvAlways, PTL

\* The file, listing or script that answers exists and is below the root of its
\* location, for every URI and every root.
THEOREM AnswersBelowRoot == Spec => []BelowRoot
<1>1. RouteInv => BelowRoot
  BY DEF RouteInv, BelowRoot, Fine, Below
<1> QED
  BY <1>1, InvAlways, PTL

\* SCRIPT_NAME and PATH_INFO add up to the URI, and no longer part of it names a
\* script.
THEOREM SplitAddsUp == Spec => []SplitsURI
<1>1. RouteInv => SplitsURI
  BY DEF RouteInv, SplitsURI, Fine, Splits
<1> QED
  BY <1>1, InvAlways, PTL

-----------------------------------------------------------------------------
(* NameLeadsBack *)

\* Below the root, what mapURI gives for a path of names.
Rest(loc, uri) ==
    LET path == server.locations[loc].path
        slash == IF Last(path) = "" THEN 1 ELSE 0
    IN  IF loc # 0 /\ Matches(path, uri)
        THEN SubSeq(uri, Len(path) + 1 - slash, Len(uri)) ELSE uri

\* A part of a path of names, and the place of each name in it.
LEMMA PartOfNames ==
    ASSUME NEW uri \in Seq(Names), NEW from \in Nat \ {0}
    PROVE  LET part == SubSeq(uri, from, Len(uri)) IN
           /\ part \in Seq(Names)
           /\ Len(part) = IF from <= Len(uri) THEN Len(uri) - from + 1 ELSE 0
           /\ \A i \in 1..Len(part): part[i] = uri[from + i - 1]
<1> DEFINE part == SubSeq(uri, from, Len(uri))
<1>1. Len(uri) \in Nat /\ \A i \in from..Len(uri): uri[i] \in Names
  <2>1. Len(uri) \in Nat
    BY LenProperties
  <2>2. \A i \in from..Len(uri): i \in 1..Len(uri)
    BY <2>1
  <2> QED
    BY <2>1, <2>2, ElementOfSeq
<1>2. from \in Int /\ Len(uri) \in Int
  BY <1>1
<1>3. /\ part \in Seq(Names)
      /\ Len(part) = IF from <= Len(uri) THEN Len(uri) - from + 1 ELSE 0
      /\ \A i \in 1..Len(uri) - from + 1: part[i] = uri[from + i - 1]
  BY <1>1, <1>2, SubSeqProperties
<1> HIDE DEF part
<1>4. \A i \in 1..Len(part): i \in 1..Len(uri) - from + 1
  BY <1>1, <1>3
<1>5. \A i \in 1..Len(part): part[i] = uri[from + i - 1]
  BY <1>3, <1>4
<1> QED
  BY <1>3, <1>5 DEF part

\* Where the rest of a path of names begins.
Beginning(loc) ==
    LET path == server.locations[loc].path IN
    Len(path) + 1 - (IF Last(path) = "" THEN 1 ELSE 0)

LEMMA BeginningFacts ==
    ASSUME server \in ToSet(Servers), NEW loc \in Places \ {0}
    PROVE  /\ Beginning(loc) \in Nat \ {0}
           /\ \A uri: Rest(loc, uri) = IF Matches(server.locations[loc].path, uri)
                                       THEN SubSeq(uri, Beginning(loc), Len(uri)) ELSE uri
<1>1. \A uri: Rest(loc, uri) = IF Matches(server.locations[loc].path, uri)
                               THEN SubSeq(uri, Beginning(loc), Len(uri)) ELSE uri
  BY DEF Rest, Beginning
<1> DEFINE path == server.locations[loc].path
           slash == IF Last(path) = "" THEN 1 ELSE 0
<1>2. path \in Seq(Segments) /\ path # <<>>
  BY ServerFacts DEF Places
<1>3. slash \in {0, 1} /\ Beginning(loc) = Len(path) + 1 - slash
  BY DEF Beginning
<1> HIDE DEF path, slash
<1>4. Len(path) \in Nat \ {0}
  BY <1>2, EmptySeq
<1> QED
  BY <1>1, <1>3, <1>4

LEMMA RestType ==
    ASSUME server \in ToSet(Servers), NEW loc \in Places, NEW uri \in Seq(Names)
    PROVE  Rest(loc, uri) \in Seq(Names)
<1>1. CASE loc = 0
  BY <1>1 DEF Rest
<1>2. CASE loc # 0
  <2>1. \/ Rest(loc, uri) = uri
        \/ Rest(loc, uri) = SubSeq(uri, Beginning(loc), Len(uri))
    BY <1>2, BeginningFacts
  <2>2. Beginning(loc) \in Nat \ {0}
    BY <1>2, BeginningFacts
  <2> QED
    BY <2>1, <2>2, PartOfNames
<1> QED
  BY <1>1, <1>2

\* mapURI, for a path of names.
LEMMA MapNames ==
    ASSUME Sound, NEW loc \in Places, NEW uri \in Seq(Names)
    PROVE  MapURI(loc, uri) = Root(loc) \o Rest(loc, uri)
<1> DEFINE root == Root(loc)
           rest == Rest(loc, uri)
<1>1. root \in Seq(Names) /\ rest \in Seq(Names)
  BY SoundFacts, RestType DEF Sound
<1>2. Mapped(loc, uri) = Normalized(root \o rest)
  BY Zenon DEF Mapped, Rest
<1> HIDE DEF root, rest
<1>3. /\ root \o rest \in Seq(Names) /\ Len(root \o rest) = Len(root) + Len(rest)
      /\ \A i \in 1..Len(root): (root \o rest)[i] = root[i]
      /\ Len(root) \in Nat /\ Len(rest) \in Nat
  BY <1>1, ConcatProperties, LenProperties
<1>4. Mapped(loc, uri) = root \o rest
  BY <1>2, <1>3, NormalizedNames
<1>5. IsPrefix(root, root \o rest)
  <2>1. /\ Len(root) <= Len(root \o rest)
        /\ \A i \in 1..Len(root): root[i] = (root \o rest)[i]
    BY <1>3
  <2> DEFINE whole == root \o rest
  <2>2. whole \in Seq(Names)
    BY <1>3
  <2> HIDE DEF whole
  <2> QED
    BY <1>1, <2>1, <2>2, PrefixFacts DEF whole
<1> QED
  BY <1>4, <1>5 DEF MapURI, WithinFSRoot, root, rest

\* One more name in the URI is one more name in the path of the file.
LEMMA MapOneMore ==
    ASSUME Sound, NEW loc \in Places \ {0}, NEW uri \in Seq(Names), NEW name \in Names,
           Matches(server.locations[loc].path, uri),
           Matches(server.locations[loc].path, Append(uri, name))
    PROVE  MapURI(loc, Append(uri, name)) = Append(MapURI(loc, uri), name)
<1> DEFINE longer == Append(uri, name)
           from == Beginning(loc)
           root == Root(loc)
           rest == SubSeq(uri, from, Len(uri))
           more == SubSeq(longer, from, Len(longer))
<1>1. /\ longer \in Seq(Names) /\ Len(longer) = Len(uri) + 1 /\ Len(uri) \in Nat
      /\ \A i \in 1..Len(uri): longer[i] = uri[i]
      /\ longer[Len(uri) + 1] = name
  BY AppendProperties, LenProperties
<1>2. from \in Nat \ {0} /\ Rest(loc, uri) = rest /\ Rest(loc, longer) = more
  BY BeginningFacts DEF Sound
<1>3. from <= Len(longer)
  <2> DEFINE path == server.locations[loc].path
             slash == IF Last(path) = "" THEN 1 ELSE 0
  <2>1. path \in Seq(Segments) /\ path # <<>>
    BY ServerFacts DEF Sound, Places
  <2>2. uri \in Seq(Segments)
    BY SeqMonotonic DEF Segments
  <2>3. Len(path) <= Len(uri)
    <3> HIDE DEF path
    <3> QED
      BY <2>1, <2>2, MatchesFacts DEF path
  <2>4. from = Len(path) + 1 - slash /\ slash \in {0, 1}
    BY DEF Beginning
  <2>5. Len(path) \in Nat
    BY <2>1, LenProperties
  <2> HIDE DEF path, slash, from
  <2> QED
    BY <1>1, <2>3, <2>4, <2>5
<1>4. root \in Seq(Names)
  BY SoundFacts
<1> HIDE DEF longer, from, root
<1>5. /\ rest \in Seq(Names)
      /\ Len(rest) = IF from <= Len(uri) THEN Len(uri) - from + 1 ELSE 0
      /\ \A i \in 1..Len(rest): rest[i] = uri[from + i - 1]
  BY <1>2, PartOfNames
<1>6. /\ more \in Seq(Names)
      /\ Len(more) = IF from <= Len(longer) THEN Len(longer) - from + 1 ELSE 0
      /\ \A i \in 1..Len(more): more[i] = longer[from + i - 1]
  BY <1>1, <1>2, PartOfNames
<1> HIDE DEF rest, more
<1>7. Len(rest) = Len(uri) - from + 1 /\ Len(more) = Len(rest) + 1 /\ Len(rest) \in Nat
  BY <1>1, <1>2, <1>3, <1>5, <1>6
<1>8. /\ Append(rest, name) \in Seq(Names) /\ Len(Append(rest, name)) = Len(rest) + 1
      /\ \A i \in 1..Len(rest): Append(rest, name)[i] = rest[i]
      /\ Append(rest, name)[Len(rest) + 1] = name
  BY <1>5, AppendProperties
<1>9. more = Append(rest, name)
  <2>1. ASSUME NEW i \in 1..Len(rest) + 1 PROVE more[i] = Append(rest, name)[i]
    <3>1. CASE i = Len(rest) + 1
      <4>1. from + i - 1 = Len(uri) + 1
        BY <1>1, <1>2, <1>7, <3>1
      <4> QED
        BY <1>1, <1>6, <1>7, <1>8, <3>1, <4>1
    <3>2. CASE i # Len(rest) + 1
      <4>1. from + i - 1 \in 1..Len(uri) /\ i \in 1..Len(rest)
        BY <1>1, <1>2, <1>7, <3>2
      <4>2. more[i] = longer[from + i - 1] /\ rest[i] = uri[from + i - 1]
        BY <1>5, <1>6, <1>7, <4>1
      <4> QED
        BY <1>1, <1>8, <4>1, <4>2
    <3> QED
      BY <3>1, <3>2
  <2> QED
    BY <1>6, <1>7, <1>8, <2>1, SeqEqual
<1>10. root \o Append(rest, name) = Append(root \o rest, name)
  BY <1>4, <1>5
<1>11. MapURI(loc, uri) = root \o rest /\ MapURI(loc, longer) = root \o more
  BY <1>1, <1>2, MapNames DEF root
<1> QED
  BY <1>9, <1>10, <1>11 DEF longer

LEMMA BlockFacts ==
    ASSUME Sound
    PROVE  LET locations == server.locations IN
           /\ DOMAIN locations \subseteq Nat \ {0}
           /\ \A i \in DOMAIN locations:
                  locations[i].path \in Seq(Segments) /\ locations[i].path # <<>>
           /\ \A uri \in Seq(Segments): FindLocation(locations, uri) \in Places
           /\ DOMAIN locations = Places \ {0}
<1> DEFINE locations == server.locations
<1>1. /\ DOMAIN locations = 1..Len(locations) /\ Len(locations) \in Nat
      /\ \A i \in DOMAIN locations:
             locations[i].path \in Seq(Segments) /\ locations[i].path # <<>>
  BY ServerFacts DEF Sound
<1> HIDE DEF locations
<1>2. DOMAIN locations \subseteq Nat \ {0}
  BY <1>1
<1>3. \A uri \in Seq(Segments): FindLocation(locations, uri) \in DOMAIN locations \cup {0}
  BY <1>1, <1>2, LongestIsChosen
<1>4. DOMAIN locations = Places \ {0} /\ DOMAIN locations \cup {0} = Places
  BY <1>1 DEF Places, locations
<1> QED
  BY <1>1, <1>2, <1>3, <1>4 DEF locations

\* A location that runs scripts is not left when the URI is cut after a script.
LEMMA CutKeepsLocation ==
    ASSUME Sound, NamesKeepLocation, NEW uri \in Seq(Names), NEW k \in 1..Len(uri),
           NEW loc, loc = FindLocation(server.locations, uri), loc # 0,
           server.locations[loc].interpreter,
           IsCGI(loc, MapURI(loc, SubSeq(uri, 1, k)))
    PROVE  FindLocation(server.locations, SubSeq(uri, 1, k)) = loc
<1> DEFINE locations == server.locations
           part == SubSeq(uri, 1, k)
           path == locations[loc].path
<1>1. /\ DOMAIN locations \subseteq Nat \ {0}
      /\ \A i \in DOMAIN locations:
             locations[i].path \in Seq(Segments) /\ locations[i].path # <<>>
  BY BlockFacts
<1>2. Len(uri) \in Nat /\ k \in Nat /\ k > 0 /\ k <= Len(uri) /\ uri \in Seq(Segments)
  <2>1. Names \subseteq Segments
    BY DEF Segments
  <2> QED
    BY <2>1, LenProperties, SeqMonotonic
<1>3. /\ part \in Seq(Names) /\ part \in Seq(Segments)
      /\ Len(part) = k /\ \A i \in 1..k: part[i] = uri[i]
  <2>1. Names \subseteq Segments
    BY DEF Segments
  <2>2. \A i \in 1..k: uri[i] \in Names
    BY <1>2, ElementOfSeq
  <2>3. part \in Seq(Names) /\ Len(part) = k /\ \A i \in 1..k: part[i] = uri[i]
    BY <1>2, <2>2, SubSeqProperties
  <2> QED
    BY <2>1, <2>3, SeqMonotonic
<1>4. loc \in Places /\ loc \in DOMAIN locations
  BY <1>2, BlockFacts
<1>5. Matches(path, uri)
  <2>1. Matching(locations, uri) # {} /\ loc \in Longest(locations, uri)
    <3>1. Matching(locations, uri) = {} => loc = 0
      BY <1>1, <1>2, FirstOfLongest
    <3> QED
      BY <1>1, <1>2, <3>1, FirstOfLongest
  <2> QED
    BY <2>1 DEF Longest, Matching
<1>6. path \in Seq(Segments) /\ path # <<>>
  BY <1>1, <1>4
<1>7. MapURI(loc, part) = Root(loc) \o Rest(loc, part)
  BY <1>3, <1>4, MapNames
<1>8. IsCGI(loc, MapURI(loc, part))
  OBVIOUS
<1> HIDE DEF part
<1>9. Matches(path, part)
  <2> SUFFICES ASSUME ~Matches(path, part) PROVE FALSE
    OBVIOUS
  <2>1. Rest(loc, part) = part
    BY Zenon DEF Rest
  <2>2. MapURI(loc, part) = Root(loc) \o part
    BY <1>7, <2>1
  <2>3. Last(Root(loc) \o part) = part[k]
    <3> DEFINE root == Root(loc)
    <3>1. root \in Seq(Names)
      BY <1>4, SoundFacts
    <3> HIDE DEF root
    <3>2. /\ Len(root) \in Nat /\ Len(root \o part) = Len(root) + k
          /\ (root \o part)[Len(root) + k] =
                 IF Len(root) + k <= Len(root) THEN root[Len(root) + k]
                 ELSE part[Len(root) + k - Len(root)]
      <4>1. Len(root) \in Nat
        BY <3>1, LenProperties
      <4>2. Len(root) + k \in 1..Len(root) + Len(part)
        BY <1>2, <1>3, <4>1
      <4>3. \A i \in 1..Len(root) + Len(part):
                (root \o part)[i] = IF i <= Len(root) THEN root[i] ELSE part[i - Len(root)]
        BY <1>3, <3>1, ConcatProperties
      <4>4. Len(root \o part) = Len(root) + Len(part)
        BY <1>3, <3>1, ConcatProperties
      <4> QED
        BY <1>3, <4>1, <4>2, <4>3, <4>4
    <3>3. ~(Len(root) + k <= Len(root)) /\ Len(root) + k - Len(root) = k
      BY <1>2, <3>2
    <3> QED
      BY <3>2, <3>3 DEF Last, root
  <2>4. uri[k] \in Scripts
    <3>1. Last(MapURI(loc, part)) \in Scripts
      BY <1>8, Zenon DEF IsCGI
    <3>2. part[k] \in Scripts
      BY <2>2, <2>3, <3>1, Zenon
    <3>3. part[k] = uri[k]
      BY <1>2, <1>3
    <3> QED
      BY <3>2, <3>3
  <2>5. /\ Stem(path) \in Nat /\ Stem(path) <= Len(path) /\ Len(path) <= Len(uri)
        /\ \A i \in 1..Stem(path): path[i] = uri[i]
    BY <1>2, <1>5, <1>6, MatchesFacts
  <2>6. ~(Len(path) <= k /\ \A i \in 1..Stem(path): path[i] = part[i])
    BY <1>3, <1>6, MatchesFacts
  <2>7. Len(path) \in Nat /\ (Stem(path) = Len(path) \/ Stem(path) = Len(path) - 1)
    BY <1>6, LenProperties DEF Stem
  <2>8. ~(Len(path) <= k)
    <3> SUFFICES ASSUME Len(path) <= k PROVE FALSE
      OBVIOUS
    <3>1. \A i \in 1..Stem(path): i \in 1..k
      BY <1>2, <2>5, <2>7
    <3> QED
      BY <1>3, <2>5, <2>6, <3>1
  <2>9. k \in 1..Len(path) - 1 /\ k \in 1..Stem(path)
    BY <1>2, <2>7, <2>8
  <2>10. path[k] \in Scripts
    BY <2>4, <2>5, <2>9
  <2>11. RunsScripts(locations[loc])
    BY DEF RunsScripts, IsCGI
  <2>12. \A i \in 1..Len(path) - 1: path[i] \notin Scripts
    BY <1>4, <2>11, Zenon DEF NamesKeepLocation, Sound
  <2> QED
    BY <2>9, <2>10, <2>12
<1>10. Matching(locations, part) \subseteq Matching(locations, uri)
  <2> SUFFICES ASSUME NEW i \in DOMAIN locations, Matches(locations[i].path, part)
               PROVE  Matches(locations[i].path, uri)
    BY DEF Matching
  <2> DEFINE p == locations[i].path
  <2>1. p \in Seq(Segments) /\ p # <<>>
    BY <1>1
  <2> HIDE DEF p
  <2>2. Stem(p) \in Nat /\ Stem(p) <= Len(p) /\ Len(p) <= k /\ Len(p) \in Nat
        /\ \A j \in 1..Stem(p): p[j] = part[j]
    BY <1>3, <2>1, MatchesFacts, LenProperties DEF p
  <2>3. Len(p) <= Len(uri) /\ \A j \in 1..Stem(p): j \in 1..k
    BY <1>2, <2>2
  <2>4. \A j \in 1..Stem(p): p[j] = uri[j]
    BY <1>3, <2>2, <2>3
  <2> QED
    BY <1>2, <2>1, <2>3, <2>4, MatchesFacts DEF p
<1>11. FindLocation(locations, uri) \in Matching(locations, part)
  BY <1>4, <1>9 DEF Matching
<1>12. FindLocation(locations, part) = FindLocation(locations, uri)
  <2> HIDE DEF locations
  <2> QED
    BY <1>1, <1>2, <1>3, <1>10, <1>11, SameLocation
<1> QED
  BY <1>12 DEF part

\* A location that matches a URI matches it with one more name.
LEMMA StillMatches ==
    ASSUME NEW S, NEW u \in Seq(S), NEW x \in S, NEW p \in Seq(S), p # <<>>, Matches(p, u)
    PROVE  Matches(p, Append(u, x))
<1> DEFINE longer == Append(u, x)
<1>1. /\ longer \in Seq(S) /\ Len(longer) = Len(u) + 1 /\ Len(u) \in Nat
      /\ \A i \in 1..Len(u): longer[i] = u[i]
  BY AppendProperties, LenProperties
<1> HIDE DEF longer
<1>2. /\ Stem(p) \in Nat /\ Stem(p) <= Len(p) /\ Len(p) <= Len(u)
      /\ \A i \in 1..Stem(p): p[i] = u[i]
  BY MatchesFacts
<1>3. Len(p) \in Nat
  BY LenProperties
<1>4. Len(p) <= Len(longer) /\ \A i \in 1..Stem(p): p[i] = longer[i]
  BY <1>1, <1>2, <1>3
<1>5. Matches(p, longer)
  BY <1>1, <1>4, MatchesFacts
<1> QED
  BY <1>5 DEF longer

\* One that matches it only with that name ends there.
LEMMA EndsThere ==
    ASSUME NEW S, NEW u \in Seq(S), NEW x \in S, NEW p \in Seq(S), p # <<>>,
           Matches(p, Append(u, x)), ~Matches(p, u)
    PROVE  Len(p) = Len(u) + 1 /\ Front(p) = u /\ Last(p) \in {"", x}
<1> DEFINE longer == Append(u, x)
           n == Len(u)
           m == Len(p)
           st == Stem(p)
<1>1. /\ longer \in Seq(S) /\ Len(longer) = n + 1 /\ n \in Nat
      /\ \A i \in 1..n: longer[i] = u[i]
      /\ longer[n + 1] = x
  BY AppendProperties, LenProperties
<1> HIDE DEF longer
<1>2. m \in Nat /\ m > 0
  BY EmptySeq
<1>3. \/ st = m - 1 /\ Last(p) = ""
      \/ st = m
  BY DEF Stem
<1>4. Matches(p, longer)
  BY DEF longer
<1>5. m <= n + 1 /\ \A i \in 1..st: p[i] = longer[i]
  BY <1>1, <1>4, MatchesFacts
<1>6. ~(m <= n /\ \A i \in 1..st: p[i] = u[i])
  BY MatchesFacts
<1>7. Last(p) = p[m]
  BY DEF Last
<1>8. st \in {m - 1, m} /\ n \in Nat /\ m \in Nat
  BY <1>1, <1>2, <1>3
<1> HIDE DEF n, m, st
<1>9. m = n + 1
  <2> SUFFICES ASSUME m <= n PROVE FALSE
    BY <1>5, <1>8
  <2>1. \A i \in 1..st: i \in 1..n
    BY <1>8
  <2> QED
    BY <1>1, <1>5, <1>6, <2>1
<1>10. Front(p) = u
  <2>1. \A i \in 1..n: i \in 1..st
    BY <1>8, <1>9
  <2>2. \A i \in 1..n: p[i] = u[i]
    BY <1>1, <1>5, <2>1
  <2>3. Front(p) \in Seq(S) /\ Len(Front(p)) = m - 1 /\ \A i \in 1..m - 1: Front(p)[i] = p[i]
    BY FrontFacts DEF m
  <2>4. m - 1 = n
    BY <1>8, <1>9
  <2> QED
    BY <2>2, <2>3, <2>4, SeqEqual DEF n
<1>11. Last(p) \in {"", x}
  <2>1. CASE st = m
    <3>1. m \in 1..st
      BY <1>2, <2>1
    <3> QED
      BY <1>1, <1>5, <1>7, <1>9, <3>1
  <2> QED
    BY <1>3, <2>1
<1> QED
  BY <1>9, <1>10, <1>11 DEF m, n

\* A location that runs scripts is not left for the index of a directory.
LEMMA IndexKeepsLocation ==
    ASSUME Sound, NamesKeepLocation, NEW uri \in Seq(Names), uri # <<>>,
           NEW loc, loc = FindLocation(server.locations, uri), loc # 0,
           RunsScripts(server.locations[loc]), NEW name \in Names \cap Scripts
    PROVE  /\ FindLocation(server.locations, Append(uri, name)) = loc
           /\ Matches(server.locations[loc].path, uri)
           /\ Matches(server.locations[loc].path, Append(uri, name))
<1> DEFINE locations == server.locations
           longer == Append(uri, name)
<1>1. /\ DOMAIN locations \subseteq Nat \ {0}
      /\ \A i \in DOMAIN locations:
             locations[i].path \in Seq(Segments) /\ locations[i].path # <<>>
  BY BlockFacts
<1>2. /\ uri \in Seq(Segments) /\ name \in Segments
      /\ longer \in Seq(Segments) /\ Len(uri) \in Nat \ {0}
  <2>1. Names \subseteq Segments
    BY DEF Segments
  <2>2. uri \in Seq(Segments) /\ name \in Segments
    BY <2>1, SeqMonotonic
  <2> QED
    BY <2>2, AppendProperties, EmptySeq
<1>3. loc \in Longest(locations, uri)
  <2>1. Matching(locations, uri) = {} => loc = 0
    BY <1>1, <1>2, FirstOfLongest
  <2> QED
    BY <1>1, <1>2, <2>1, FirstOfLongest
<1>4. loc \in DOMAIN locations /\ Matches(locations[loc].path, uri)
  BY <1>3 DEF Longest, Matching
<1>5. ASSUME NEW i \in DOMAIN locations, Matches(locations[i].path, longer)
      PROVE  Matches(locations[i].path, uri)
  <2> SUFFICES ASSUME ~Matches(locations[i].path, uri) PROVE FALSE
    OBVIOUS
  <2> DEFINE p == locations[i].path
  <2>1. p \in Seq(Segments) /\ p # <<>>
    BY <1>1
  <2>2. Matches(p, Append(uri, name)) /\ ~Matches(p, uri)
    BY <1>5
  <2> HIDE DEF p
  <2>3. Len(p) = Len(uri) + 1 /\ Front(p) = uri /\ Last(p) \in {"", name}
    BY <1>2, <2>1, <2>2, EndsThere
  <2>4. Len(p) > 1 /\ Last(p) \in Scripts \cup {""}
    <3>1. Len(p) = Len(uri) + 1 /\ Len(uri) \in Nat \ {0}
      BY <1>2, <2>3
    <3>2. Len(p) > 1
      BY <3>1
    <3> QED
      BY <2>3, <3>2
  <2>5. LET above == FindLocation(locations, Front(p)) IN
        above = 0 \/ ~RunsScripts(locations[above])
    BY <2>4, Zenon DEF NamesKeepLocation, Sound, p
  <2> QED
    BY <2>3, <2>5
<1>6. Matches(locations[loc].path, longer)
  BY <1>1, <1>2, <1>4, StillMatches
<1>7. Matching(locations, longer) \subseteq Matching(locations, uri)
      /\ FindLocation(locations, uri) \in Matching(locations, longer)
  BY <1>4, <1>5, <1>6 DEF Matching
<1>8. FindLocation(locations, longer) = FindLocation(locations, uri)
  <2> HIDE DEF locations, longer
  <2> QED
    BY <1>1, <1>2, <1>7, SameLocation
<1> QED
  BY <1>4, <1>6, <1>8

\* What a request needs besides a script to have it run.
Admits(loc, method) ==
    LET l == server.locations[loc] IN
    /\ loc # 0 /\ l.return_ = 0
    /\ method \in l.allow_methods
    /\ method = "GET" \/ l.upload_path = <<>>

\* The router says "CGI" only on one way.
LEMMA ScriptRoute ==
    ASSUME NEW uri, NEW method, RouteOf(uri, method).type = "CGI"
    PROVE  LET loc == FindLocation(server.locations, uri) IN
           /\ Admits(loc, method)
           /\ RouteOf(uri, method) = RoutePath(loc, uri, method)
<1> DEFINE loc == FindLocation(server.locations, uri)
           l == server.locations[loc]
           through == RoutePath(loc, uri, method)
           plain == RoutePath(0, uri, method)
<1>1. \A i, u: i = 0 => RouteMissing(i, u).type # "CGI"
  BY DEF RouteMissing, Refused, Routed
<1>2. \A f: ~IsCGI(0, f)
  BY DEF IsCGI
<1>3. \A u, d: RouteDir(0, u, d, method).type # "CGI"
  BY <1>2 DEF RouteDir, Refused, Routed
<1>4. plain.type # "CGI"
  BY <1>1, <1>2, <1>3 DEF RoutePath, Refused, Routed
<1> HIDE DEF loc, through, plain
<1>5. RouteOf(uri, method) =
          IF loc = 0
          THEN IF method # "GET" THEN Refused(405, 0) ELSE plain
          ELSE IF l.return_ # 0 THEN Routed("RED", l.return_, loc, <<>>)
          ELSE IF method \notin l.allow_methods THEN Refused(405, loc)
          ELSE IF method # "GET" /\ l.upload_path # <<>>
          THEN Routed("UPLOAD", 0, loc, Normalized(uri))
          ELSE through
  BY DEF RouteOf, loc, through, plain
<1>6. /\ loc # 0 /\ l.return_ = 0 /\ method \in l.allow_methods
      /\ ~(method # "GET" /\ l.upload_path # <<>>)
  BY <1>4, <1>5 DEF Refused, Routed
<1> QED
  BY <1>5, <1>6 DEF Admits, loc, through

\* A path of names that maps to a script reaches it.
LEMMA ReachesScript ==
    ASSUME Sound, NEW name \in Seq(Names), NEW method,
           NEW loc, loc = FindLocation(server.locations, name),
           Admits(loc, method), server.locations[loc].interpreter,
           NEW file \in disk.files, MapURI(loc, name) = file, IsCGI(loc, file)
    PROVE  LET again == RouteOf(name, method) IN
           /\ again.type = "CGI" /\ again.file_path = file
           /\ MapURI(again.location, name) = file
<1> DEFINE l == server.locations[loc]
<1>1. RouteOf(name, method) = RoutePath(loc, name, method)
  BY DEF RouteOf, Admits
<1>2. Normalized(name) = name
  BY NormalizedNames
<1>3. file # NoFile /\ file \notin disk.dirs
  <2>1. file # NoFile
    BY SoundFacts
  <2>2. disk.files \cap disk.dirs = {}
    BY RoutingAssumption, Zenon DEF RoutingAssumption, Sound
  <2> QED
    BY <2>1, <2>2
<1>4. RoutePath(loc, name, method) = Script(loc, file, name, <<>>)
  BY <1>2, <1>3, Zenon DEF RoutePath
<1>5. Script(loc, file, name, <<>>) =
          [Routed("CGI", 0, loc, file) EXCEPT !.script_name = name, !.path_info = <<>>]
  BY DEF Script
<1>6. Script(loc, file, name, <<>>).location = loc
      /\ Script(loc, file, name, <<>>).type = "CGI"
      /\ Script(loc, file, name, <<>>).file_path = file
  BY <1>5 DEF Routed
<1> QED
  BY <1>1, <1>4, <1>6, Zenon

\* What NameLeadsBack says of one result.
LeadsBack(r, method) ==
    LET again == RouteOf(r.script_name, method) IN
    /\ MapURI(again.location, r.script_name) = r.file_path
    /\ again.type = "CGI" /\ again.file_path = r.file_path

\* The name of the index of a directory.
LEMMA IndexName ==
    ASSUME Sound, NEW loc \in Places \ {0}, NEW dir \in disk.dirs,
           IndexPath(loc, dir) # NoFile, IsCGI(loc, IndexPath(loc, dir))
    PROVE  LET name == Last(IndexPath(loc, dir)) IN
           /\ name \in Names \cap Scripts
           /\ IndexPath(loc, dir) \in disk.files
           /\ IndexPath(loc, dir) = Append(dir, name)
<1> DEFINE own == IF loc = 0 THEN <<>> ELSE server.locations[loc].index
           index == IF own = <<>> THEN server.index ELSE own
           found == {i \in 1..Len(index): Append(dir, index[i]) \in disk.files}
           first == IF found # {} THEN Min(found) ELSE 0
           file == IndexPath(loc, dir)
<1>1. file = IF first = 0 THEN NoFile ELSE Append(dir, index[first])
  BY DEF IndexPath, SelectInSeq
<1>2. first # 0
  BY <1>1
<1>3. first \in found
  <2>1. found # {} /\ first = Min(found)
    BY <1>2
  <2>2. found \subseteq Nat
    OBVIOUS
  <2> HIDE DEF found
  <2> QED
    BY <2>1, <2>2, MinIsLeast
<1> DEFINE last == index[first]
<1>4. file = Append(dir, last) /\ file \in disk.files
  BY <1>1, <1>2, <1>3
<1>5. Last(file) \in Scripts
  BY DEF IsCGI
<1>6. Scripts \subseteq Names
  BY RoutingAssumption, Zenon DEF RoutingAssumption
<1>7. dir \in Seq(Names)
  BY SoundFacts
<1> HIDE DEF last, file
<1>8. Last(file) = last
  <2>1. Len(dir) \in Nat /\ Len(Append(dir, last)) = Len(dir) + 1
        /\ Append(dir, last)[Len(dir) + 1] = last
    BY <1>7
  <2> QED
    BY <1>4, <2>1 DEF Last
<1> QED
  BY <1>4, <1>5, <1>6, <1>8 DEF file

\* The three ways to a script: the URI is its name, the name of its directory, or
\* goes on after it.
LEMMA ScriptLeadsBack ==
    ASSUME Sound, NamesKeepLocation, NEW uri \in Seq(Names), uri # <<>>, NEW method,
           RouteOf(uri, method).type = "CGI"
    PROVE  LeadsBack(RouteOf(uri, method), method)
<1> DEFINE loc == FindLocation(server.locations, uri)
           l == server.locations[loc]
           file == MapURI(loc, uri)
           r == RouteOf(uri, method)
<1>1. Admits(loc, method) /\ r = RoutePath(loc, uri, method) /\ r.type = "CGI"
  BY ScriptRoute
<1>2. loc \in Places \ {0} /\ Normalized(uri) = uri
  <2>1. uri \in Seq(Segments)
    BY SeqMonotonic DEF Segments
  <2> QED
    BY <1>1, <2>1, BlockFacts, NormalizedNames DEF Admits
<1>3. ASSUME NEW f, NEW name, NEW info, r = Script(loc, f, name, info)
      PROVE  l.interpreter /\ r.script_name = name /\ r.file_path = f
  <2>1. l.interpreter
    BY <1>1, <1>3 DEF Script, Refused, Routed
  <2> QED
    BY <1>3, <2>1 DEF Script, Routed
<1>4. r = IF file = NoFile THEN Refused(403, loc)
          ELSE IF file \in disk.dirs THEN RouteDir(loc, uri, file, method)
          ELSE IF file \notin disk.files THEN RouteMissing(loc, uri)
          ELSE IF IsCGI(loc, file) THEN Script(loc, file, uri, <<>>)
          ELSE Routed("FILES", 0, loc, file)
  BY <1>1, <1>2, Zenon DEF RoutePath
<1> HIDE DEF loc, r, file
<1>5. file # NoFile
  BY <1>1, <1>4 DEF Refused, Routed
<1>6. CASE file \in disk.dirs
  <2> DEFINE index == IndexPath(loc, file)
             name == Last(index)
  <2>1. r = RouteDir(loc, uri, file, method)
    BY <1>4, <1>5, <1>6
  <2>2. index # NoFile /\ IsCGI(loc, index)
    BY <1>1, <2>1 DEF RouteDir, Refused, Routed
  <2>3. r = Script(loc, index, Append(uri, name), <<>>)
    BY <2>1, <2>2 DEF RouteDir
  <2>4. l.interpreter /\ r.script_name = Append(uri, name) /\ r.file_path = index
    BY <1>3, <2>3
  <2>5. name \in Names \cap Scripts /\ index \in disk.files /\ index = Append(file, name)
    BY <1>2, <1>6, <2>2, IndexName
  <2> HIDE DEF name, index
  <2>6. RunsScripts(l)
    BY <2>2, <2>4 DEF IsCGI, RunsScripts
  <2>7. /\ FindLocation(server.locations, Append(uri, name)) = loc
        /\ Matches(l.path, uri) /\ Matches(l.path, Append(uri, name))
    <3>1. loc # 0 /\ loc = FindLocation(server.locations, uri)
      BY <1>2 DEF loc
    <3> QED
      BY <2>5, <2>6, <3>1, IndexKeepsLocation
  <2>8. MapURI(loc, Append(uri, name)) = index
    BY <1>2, <2>5, <2>7, MapOneMore DEF file
  <2>9. Append(uri, name) \in Seq(Names)
    BY <2>5, AppendProperties
  <2>10. LET again == RouteOf(Append(uri, name), method) IN
         /\ again.type = "CGI" /\ again.file_path = index
         /\ MapURI(again.location, Append(uri, name)) = index
    BY <1>1, <2>2, <2>4, <2>5, <2>7, <2>8, <2>9, ReachesScript
  <2> QED
    BY <2>4, <2>10 DEF LeadsBack, r
<1>7. CASE file \in disk.files /\ file \notin disk.dirs
  <2>1. IsCGI(loc, file)
    BY <1>1, <1>4, <1>5, <1>7 DEF Routed
  <2>2. r = Script(loc, file, uri, <<>>)
    BY <1>4, <1>5, <1>7, <2>1
  <2>3. l.interpreter /\ r.script_name = uri /\ r.file_path = file
    BY <1>3, <2>2
  <2>4. LET again == RouteOf(uri, method) IN
        /\ again.type = "CGI" /\ again.file_path = file
        /\ MapURI(again.location, uri) = file
    BY <1>1, <1>7, <2>1, <2>3, ReachesScript DEF loc, file
  <2> QED
    BY <2>3, <2>4 DEF LeadsBack, r
<1>8. CASE file \notin disk.files /\ file \notin disk.dirs
  <2> DEFINE k == Cut(loc, uri)
             name == SubSeq(uri, 1, k)
             script == MapURI(loc, name)
  <2>1. r = RouteMissing(loc, uri)
    BY <1>4, <1>5, <1>8
  <2>2. ~(loc = 0 \/ k = 0)
    BY <1>1, <2>1 DEF RouteMissing, Refused, Routed
  <2>3. r = Script(loc, script, name, SubSeq(uri, k + 1, Len(uri)))
    BY <2>1, <2>2 DEF RouteMissing
  <2>4. k \in 1..Len(uri) /\ NamesScript(loc, uri, k)
    BY <2>2, CutFacts, LenProperties
  <2>5. script \in disk.files /\ IsCGI(loc, script)
    BY <2>4 DEF NamesScript
  <2>6. l.interpreter /\ r.script_name = name /\ r.file_path = script
    BY <1>3, <2>3
  <2>7. FindLocation(server.locations, name) = loc
    <3> HIDE DEF k
    <3> QED
      BY <1>2, <2>4, <2>5, <2>6, CutKeepsLocation DEF loc
  <2>8. name \in Seq(Names)
    <3> HIDE DEF k
    <3>1. Len(uri) \in Nat
      BY LenProperties
    <3>2. k \in Int /\ k <= Len(uri)
      BY <2>4, <3>1
    <3>3. \A i \in 1..k: uri[i] \in Names
      <4>1. \A i \in 1..k: i \in 1..Len(uri)
        BY <3>1, <3>2
      <4> QED
        BY <4>1, ElementOfSeq
    <3> QED
      BY <3>2, <3>3, SubSeqProperties
  <2> HIDE DEF name, script
  <2>9. LET again == RouteOf(name, method) IN
        /\ again.type = "CGI" /\ again.file_path = script
        /\ MapURI(again.location, name) = script
    BY <1>1, <2>5, <2>6, <2>7, <2>8, ReachesScript DEF script
  <2> QED
    BY <2>6, <2>9 DEF LeadsBack, r
<1> QED
  BY <1>6, <1>7, <1>8

\* A URI that has only names is a sequence of names.
LEMMA PlainType ==
    ASSUME NEW uri \in URIs, Plain(uri)
    PROVE  uri \in Seq(Names) /\ uri # <<>>
<1>1. PICK n \in 1..MaxLength: uri \in [1..n -> Segments]
  BY DEF URIs
<1>2. n \in Nat /\ n > 0
  <2>1. MaxLength \in Nat
    BY RoutingAssumption, Zenon DEF RoutingAssumption
  <2> QED
    BY <1>1, <2>1
<1>3. uri \in [1..n -> Names] /\ DOMAIN uri = 1..n
  BY <1>1 DEF Plain
<1>4. uri \in Seq(Names)
  BY <1>2, <1>3, SeqDef
<1>5. uri # <<>>
  <2>1. 1 \in DOMAIN uri
    BY <1>2, <1>3
  <2> QED
    BY <2>1
<1> QED
  BY <1>4, <1>5

LEMMA LeadsBackStep ==
    ASSUME NamesKeepLocation, RouteInv, NameLeadsBack, [Next]_vars PROVE NameLeadsBack'
<1>1. ASSUME UNCHANGED <<server, disk>>
      PROVE  \A r, method: LeadsBack(r, method)' <=> LeadsBack(r, method)
  <2>1. server' = server /\ disk' = disk
    BY <1>1
  <2>2. \A loc: Root(loc)' = Root(loc)
    BY <2>1 DEF Root
  <2>3. \A loc, uri: Mapped(loc, uri)' = Mapped(loc, uri)
    BY <2>1, <2>2, Zenon DEF Mapped
  <2>4. \A loc, uri: MapURI(loc, uri)' = MapURI(loc, uri)
    BY <2>2, <2>3, Zenon DEF MapURI
  <2>5. \A loc, file: IsCGI(loc, file)' <=> IsCGI(loc, file)
    BY <2>1, Zenon DEF IsCGI
  <2>6. \A loc, uri, k: NamesScript(loc, uri, k)' <=> NamesScript(loc, uri, k)
    BY <2>1, <2>4, <2>5, Zenon DEF NamesScript
  <2>7. \A loc, uri: Cut(loc, uri)' = Cut(loc, uri)
    BY <2>6, Zenon DEF Cut, SelectLastInSeq
  <2>8. \A loc, dir: IndexPath(loc, dir)' = IndexPath(loc, dir)
    BY <2>1 DEF IndexPath, SelectInSeq
  <2>9. \A loc, file, name, info: Script(loc, file, name, info)' = Script(loc, file, name, info)
    BY <2>1, Zenon DEF Script
  <2>10. \A loc, uri: RouteMissing(loc, uri)' = RouteMissing(loc, uri)
    BY <2>4, <2>7, <2>9, ZenonT(30) DEF RouteMissing
  <2>11. \A loc, uri, dir, method:
             RouteDir(loc, uri, dir, method)' = RouteDir(loc, uri, dir, method)
    BY <2>1, <2>5, <2>8, <2>9 DEF RouteDir
  <2>12. \A loc, uri, method: RoutePath(loc, uri, method)' = RoutePath(loc, uri, method)
    BY <2>1, <2>4, <2>5, <2>9, <2>10, <2>11 DEF RoutePath
  <2>13. \A uri, method: RouteOf(uri, method)' = RouteOf(uri, method)
    BY <2>1, <2>12 DEF RouteOf
  <2> QED
    BY <2>4, <2>13, Zenon DEF LeadsBack
<1>2. CASE Process
  <2> DEFINE uri == req.uri
             method == req.method
  <2> SUFFICES ASSUME result'.type = "CGI", Plain(req.uri)' PROVE LeadsBack(result, method)'
    BY DEF NameLeadsBack, LeadsBack
  <2>1. answer = Unanswered /\ result' = RouteOf(uri, method) /\ UNCHANGED <<server, req>>
    BY <1>2 DEF Process
  <2>2. disk' = disk
    <3>1. ~Delete
      BY DEF Delete, Deletes
    <3> QED
      BY <1>2, <3>1, OthersKeepAll DEF Process, Handle
  <2>3. Sound /\ uri \in URIs /\ Plain(uri)
    BY <2>1 DEF RouteInv, Sound, Requests, Plain
  <2>4. uri \in Seq(Names) /\ uri # <<>>
    BY <2>3, PlainType
  <2> HIDE DEF uri, method
  <2>5. LeadsBack(RouteOf(uri, method), method)
    BY <2>1, <2>3, <2>4, ScriptLeadsBack
  <2> DEFINE r == RouteOf(uri, method)
  <2> HIDE DEF r
  <2>6. PICK c: c = r
    OBVIOUS
  <2>7. PICK m: m = method
    OBVIOUS
  <2>8. LeadsBack(c, m)
    BY <2>5, <2>6, <2>7 DEF r
  <2>9. LeadsBack(c, m)'
    BY <1>1, <2>1, <2>2, <2>8
  <2>10. result' = c /\ method' = m
    BY <2>1, <2>6, <2>7 DEF r, method
  <2> QED
    BY <2>9, <2>10, Zenon DEF LeadsBack
<1>3. CASE UNCHANGED vars
  <2>1. server' = server /\ disk' = disk /\ req' = req /\ result' = result
    BY <1>3 DEF vars
  <2> SUFFICES ASSUME result.type = "CGI", Plain(req.uri) PROVE LeadsBack(result, req.method)'
    BY <2>1 DEF NameLeadsBack, LeadsBack
  <2>2. PICK c: c = result
    OBVIOUS
  <2>3. PICK m: m = req.method
    OBVIOUS
  <2>4. LeadsBack(c, m)
    BY <2>2, <2>3, Zenon DEF NameLeadsBack, LeadsBack
  <2>5. LeadsBack(c, m)'
    BY <1>1, <2>1, <2>4
  <2>6. result' = c /\ req'.method = m
    BY <2>1, <2>2, <2>3
  <2> QED
    BY <2>5, <2>6, Zenon DEF LeadsBack
<1> QED
  BY <1>2, <1>3 DEF Next

\* In a configuration that keeps locations, SCRIPT_NAME is a URI of the script.
THEOREM NameReachesScript ==
    ASSUME NamesKeepLocation PROVE Spec => []NameLeadsBack
<1>1. Init => NameLeadsBack
  BY DEF Init, Pending, Refused, Routed, NameLeadsBack
<1>2. RouteInv /\ NameLeadsBack /\ [Next]_vars => NameLeadsBack'
  BY LeadsBackStep
<1> QED
  BY <1>1, <1>2, InvAlways, PTL DEF Spec

=============================================================================
