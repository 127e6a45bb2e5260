------------------------------- MODULE Routing -------------------------------
(***************************************************************************)
(* One request, from its head to what answers it: the server block chosen  *)
(* by Server::findServer, Router::route (which location answers the URI,   *)
(* which file that is, how the URI of a CGI script is split into           *)
(* SCRIPT_NAME and PATH_INFO), the choice Server::process_request makes    *)
(* from it, and RequestHandler, which answers or deletes by itself.        *)
(*                                                                         *)
(* A path is the sequence of its segments: "/cgi/x/" is <<"cgi", "x", "">> *)
(* and "/" is <<"">>.  No name is the beginning of another.                *)
(***************************************************************************)
EXTENDS Integers, SequencesExt

CONSTANTS Names,      \* names of files and directories
          Scripts,    \* those with the extension of a script
          Hosts,      \* what a Host header and a server_name may be
          Addresses,  \* what the server listens on
          Servers,    \* its blocks, in the order of the configuration
          Disks,      \* what the file system may hold
          MaxLength   \* bound of the runs: segments of a URI

Methods == {"GET", "POST", "DELETE"}
AnyHost == "_"
NoHost == ""
Segments == Names \cup {"", ".", ".."}
URIs == UNION {[1..n -> Segments]: n \in 1..MaxLength}

\* A LocationConfig: return_ is the code of a redirect or 0, upload_path empty
\* if there is none, and `interpreter` says whether cgi_path is set.
LocationType ==
    [path: Seq(Names \cup {"", "."}), root: Seq(Names),
     allow_methods: SUBSET Methods, return_: Nat, upload_path: Seq(Names),
     cgi_extension: BOOLEAN, interpreter: BOOLEAN, index: Seq(Names),
     autoindex: BOOLEAN]

ServerType ==
    [listen: SUBSET Addresses, server_name: SUBSET (Hosts \cup {AnyHost}),
     root: Seq(Names), index: Seq(Names), locations: Seq(LocationType)]

DiskType == [files: SUBSET Seq(Names), dirs: SUBSET Seq(Names)]

ASSUME RoutingAssumption ==
    /\ Names \cap {"", ".", ".."} = {}
    /\ Scripts \subseteq Names
    /\ MaxLength \in Nat
    /\ {AnyHost, NoHost} \cap Hosts = {}
    /\ Servers \in Seq(ServerType)
    /\ \A a \in Addresses: \E i \in DOMAIN Servers: a \in Servers[i].listen
    /\ \A s \in ToSet(Servers):
           \A i \in DOMAIN s.locations: s.locations[i].path # <<>>
    /\ \A d \in Disks:
           /\ d \in DiskType /\ d.files \cap d.dirs = {}
           /\ \A f \in d.files: \A e \in d.files \cup d.dirs: IsPrefix(f, e) => e = f

VARIABLES server,    \* conn.servConf
          disk, req,
          result,    \* what the router says
          answer     \* who answers, and the status where that is settled

vars == <<server, disk, req, result, answer>>

Requests == [uri: URIs, method: Methods, host: Hosts \cup {NoHost},
             address: Addresses]

Types == {"RED", "CGI", "FILES", "DIRECTORY_LISTING", "UPLOAD", "ERR"}

Routed(type, status, location, file) ==
    [type |-> type, status |-> status, location |-> location, file_path |-> file,
     script_name |-> <<>>, path_info |-> <<>>]

\* The file_path of an error is not used.
Refused(status, location) == Routed("ERR", status, location, <<>>)

Pending == Refused(0, 0)

By(who, status) == [by |-> who, status |-> status]
Unanswered == By("none", 0)

TypeOK ==
    /\ server \in ToSet(Servers)
    /\ disk \in DiskType
    /\ req \in Requests
    /\ result \in [type: Types, status: Nat,
                   location: 0..Len(server.locations), file_path: Seq(Names),
                   script_name: Seq(Names), path_info: Seq(Names)]
    /\ answer \in [by: {"none", "gate", "stream", "script", "upload", "handler"},
                   status: Nat]
    /\ answer.by = "handler" <=> answer.status # 0

-----------------------------------------------------------------------------
(* The server block *)

\* findServer: the first that answers for the host, or the first.
FindServer(address, host) ==
    LET here == {i \in DOMAIN Servers: address \in Servers[i].listen}
        named == {i \in here: host # NoHost
                     /\ {host, AnyHost} \cap Servers[i].server_name # {}}
    IN  Servers[Min(IF named = {} THEN here ELSE named)]

-----------------------------------------------------------------------------
(* Paths *)

\* Mutant: a ".." at the top stays.
NormalizedAbove(path) ==
    FoldLeft(LAMBDA parts, s:
                 IF s \in {"", "."} THEN parts
                 ELSE IF s # ".." \/ parts = <<>> THEN Append(parts, s)
                 ELSE Front(parts),
             <<>>, path)

\* normalizePath
Normalized(path) ==
    FoldLeft(LAMBDA parts, s:
                 IF s \in {"", "."} THEN parts
                 ELSE IF s # ".." THEN Append(parts, s)
                 ELSE IF parts = <<>> THEN parts ELSE Front(parts),
             <<>>, path)

\* The location's path and, for one that ends with a slash, what is below it.
Matches(path, uri) ==
    IF Last(path) = "" THEN Len(uri) >= Len(path) /\ IsPrefix(Front(path), uri)
    ELSE IsPrefix(path, uri)

\* The order of their lengths, for two that match the same URI.
Size(path) == 2 * Len(path) - (IF Last(path) = "" THEN 1 ELSE 0)

Matching(locations, uri) ==
    {i \in DOMAIN locations: Matches(locations[i].path, uri)}

\* Mutant: the first that matches.
FirstLocation(locations, uri) ==
    LET matching == Matching(locations, uri) IN
    IF matching = {} THEN 0 ELSE Min(matching)

\* findLocation: the index of the first of the longest, 0 for none.
FindLocation(locations, uri) ==
    LET matching == Matching(locations, uri)
        longest == {i \in matching: \A j \in matching:
                       Size(locations[j].path) <= Size(locations[i].path)}
    IN  IF matching = {} THEN 0 ELSE Min(longest)

\* The empty string, where no file is.
NoFile == <<"..">>

Root(loc) == IF loc = 0 THEN server.root ELSE server.locations[loc].root

\* mapURI before it calls isWithinFSRoot
Mapped(loc, uri) ==
    LET path == server.locations[loc].path
        slash == IF Last(path) = "" THEN 1 ELSE 0
        rest == IF loc # 0 /\ Matches(path, uri)
                THEN SubSeq(uri, Len(path) + 1 - slash, Len(uri)) ELSE uri
    IN  Normalized(Root(loc) \o rest)

\* isWithinFSRoot, without symbolic links.
WithinFSRoot(file, root) == IsPrefix(root, file)

\* Mutant: the root is not looked at.
MapAnywhere(loc, uri) == Mapped(loc, uri)

\* mapURI
MapURI(loc, uri) ==
    LET file == Mapped(loc, uri) IN
    IF WithinFSRoot(file, Root(loc)) THEN file ELSE NoFile

-----------------------------------------------------------------------------
(* The file that answers *)

IsCGI(loc, file) ==
    /\ loc # 0
    /\ server.locations[loc].cgi_extension
    /\ file # <<>> /\ Last(file) \in Scripts

\* finalizeCgiRoute, where an interpreter is configured.
Script(loc, file, script_name, path_info) ==
    IF server.locations[loc].interpreter
    THEN [Routed("CGI", 0, loc, file) EXCEPT !.script_name = script_name,
                                             !.path_info = path_info]
    ELSE Refused(500, loc)

\* mapIndexPath
IndexPath(loc, dir) ==
    LET own == IF loc = 0 THEN <<>> ELSE server.locations[loc].index
        index == IF own = <<>> THEN server.index ELSE own
        i == SelectInSeq(index, LAMBDA name: Append(dir, name) \in disk.files)
    IN  IF i = 0 THEN NoFile ELSE Append(dir, index[i])

\* Whether the first k segments name a script.
NamesScript(loc, uri, k) ==
    LET file == MapURI(loc, SubSeq(uri, 1, k)) IN
    file \in disk.files /\ IsCGI(loc, file)

\* resolveCgiPathInfo cuts segments from the end until a script is left.
Cut(loc, uri) ==
    SelectLastInSeq([k \in 1..Len(uri) |-> k], LAMBDA k: NamesScript(loc, uri, k))

\* Mutant: the first segment after the script is lost.
RouteMissingShort(loc, uri) ==
    LET k == Cut(loc, uri) IN
    IF loc = 0 \/ k = 0 THEN Refused(404, loc)
    ELSE Script(loc, MapURI(loc, SubSeq(uri, 1, k)),
                SubSeq(uri, 1, k), SubSeq(uri, k + 2, Len(uri)))

\* Mutant: SCRIPT_NAME is the whole URI.
RouteMissingWhole(loc, uri) ==
    LET k == Cut(loc, uri) IN
    IF loc = 0 \/ k = 0 THEN Refused(404, loc)
    ELSE Script(loc, MapURI(loc, SubSeq(uri, 1, k)), uri, <<>>)

RouteMissing(loc, uri) ==
    LET k == Cut(loc, uri) IN
    IF loc = 0 \/ k = 0 THEN Refused(404, loc)
    ELSE Script(loc, MapURI(loc, SubSeq(uri, 1, k)),
                SubSeq(uri, 1, k), SubSeq(uri, k + 1, Len(uri)))

RouteDir(loc, uri, dir, method) ==
    LET file == IndexPath(loc, dir) IN
    IF file # NoFile
    THEN IF IsCGI(loc, file)
         THEN Script(loc, file, Append(uri, Last(file)), <<>>)
         ELSE Routed("FILES", 0, loc, file)
    ELSE IF loc = 0 \/ ~server.locations[loc].autoindex
    THEN Refused(403, loc)
    ELSE IF method # "GET" THEN Refused(405, loc)
    ELSE Routed("DIRECTORY_LISTING", 0, loc, dir)

RoutePath(loc, uri, method) ==
    LET safe_uri == Normalized(uri)
        file == MapURI(loc, uri)
    IN  IF file = NoFile THEN Refused(403, loc)
        ELSE IF file \in disk.dirs THEN RouteDir(loc, safe_uri, file, method)
        ELSE IF file \notin disk.files THEN RouteMissing(loc, safe_uri)
        ELSE IF IsCGI(loc, file) THEN Script(loc, file, safe_uri, <<>>)
        ELSE Routed("FILES", 0, loc, file)

\* Router::route
RouteOf(uri, method) ==
    LET loc == FindLocation(server.locations, uri)
        l == server.locations[loc]
    IN  IF loc = 0
        THEN IF method # "GET" THEN Refused(405, 0)
             ELSE RoutePath(0, uri, method)
        ELSE IF l.return_ # 0 THEN Routed("RED", l.return_, loc, <<>>)
        ELSE IF method \notin l.allow_methods THEN Refused(405, loc)
        ELSE IF method # "GET" /\ l.upload_path # <<>>
        THEN Routed("UPLOAD", 0, loc, Normalized(uri))
        ELSE RoutePath(loc, uri, method)

-----------------------------------------------------------------------------
(* What is deleted *)

\* deleteFile looks at the last segment of the URI as it came.
Target == Append(server.locations[result'.location].upload_path, Last(req.uri))

Entries(d) == d.files \cup d.dirs
Without(d, path) == [files |-> d.files \ {path}, dirs |-> d.dirs \ {path}]
IsEmpty(d, dir) == \A e \in Entries(d): e = dir \/ ~IsPrefix(dir, e)

\* Mutant: a directory goes with all it holds.
RemovableWhole(d, path) == path \in Entries(d)

\* remove() of the C library: a file, or a directory that holds nothing.
Removable(d, path) ==
    \/ path \in d.files
    \/ path \in d.dirs /\ IsEmpty(d, path)

-----------------------------------------------------------------------------
(* process_request *)

Init ==
    /\ disk \in Disks
    /\ req \in Requests
    /\ server = FindServer(req.address, req.host)
    /\ result = Pending
    /\ answer = Unanswered

\* The body is too long, or the bot gate blocks the client.
Gate ==
    /\ answer' = By("gate", 0)
    /\ UNCHANGED disk

Stream ==
    /\ result'.type = "FILES" /\ req.method = "GET"
    /\ answer' = By("stream", 0)
    /\ UNCHANGED disk

Launch ==
    /\ result'.type = "CGI"
    /\ answer' = By("script", 0)
    /\ UNCHANGED disk

Upload ==
    /\ result'.type = "UPLOAD" /\ req.method = "POST"
    /\ answer' = By("upload", 0)
    /\ UNCHANGED disk

\* handleRedirect; for a code that is none of a redirect the same as Fail.
Redirect ==
    /\ result'.type = "RED"
    /\ answer' = By("handler", result'.status)
    /\ UNCHANGED disk

\* handleError
Fail ==
    /\ result'.type = "ERR"
    /\ answer' = By("handler", result'.status)
    /\ UNCHANGED disk

\* handleDirectoryListing, of a directory that may not be readable.
List ==
    /\ result'.type = "DIRECTORY_LISTING"
    /\ \E status \in {200, 403}: answer' = By("handler", status)
    /\ UNCHANGED disk

\* serveFile, of a file that may not be readable.
ServeFile ==
    /\ result'.type = "FILES" /\ req.method # "GET"
    /\ \E status \in {200, 403}: answer' = By("handler", status)
    /\ UNCHANGED disk

\* deleteFile
Deletes == result'.type = "UPLOAD" /\ req.method = "DELETE"

Delete ==
    /\ Deletes /\ Last(req.uri) \in Names /\ Removable(disk, Target)
    /\ disk' = Without(disk, Target)
    /\ answer' = By("handler", 204)

KeepIt ==
    /\ Deletes
    /\ \/ Last(req.uri) \in {".", ".."} /\ answer' = By("handler", 400)
       \/ Last(req.uri) = "" /\ answer' = By("handler", 404)
       \/ /\ Last(req.uri) \in Names /\ ~Removable(disk, Target)
          /\ answer' = By("handler", IF Target \in Entries(disk) THEN 403 ELSE 404)
    /\ UNCHANGED disk

\* RequestHandler::handle
Handle == Redirect \/ Fail \/ List \/ ServeFile \/ Delete \/ KeepIt

Process ==
    /\ answer = Unanswered
    /\ result' = RouteOf(req.uri, req.method)
    /\ Gate \/ Stream \/ Launch \/ Upload \/ Handle
    /\ UNCHANGED <<server, req>>

Next == Process

Spec == Init /\ [][Next]_vars

-----------------------------------------------------------------------------
(* Properties *)

\* The location is the most specific one of the right server: the block listens
\* where the request came in and, if a block that does is named in the Host
\* header, answers for that name (findServer); every other location of it that
\* contains the URI contains the chosen one's own path (findLocation).
MostSpecific ==
    /\ req.address \in server.listen
    /\ (\E s \in ToSet(Servers): req.address \in s.listen /\ req.host \in s.server_name)
           => server.server_name \cap {req.host, AnyHost} # {}
    /\ \A i \in DOMAIN server.locations:
           result # Pending /\ Matches(server.locations[i].path, req.uri) =>
               /\ result.location # 0
               /\ Matches(server.locations[i].path,
                          server.locations[result.location].path)

Plain(uri) == \A k \in DOMAIN uri: uri[k] \in Names

\* A file, listing or script that answers exists and is below the root of its
\* location, whatever "..", "." and empty segments the URI has (mapURI).
BelowRoot ==
    result.type \in {"FILES", "CGI", "DIRECTORY_LISTING"} =>
        /\ IsPrefix(Root(result.location), result.file_path)
        /\ result.file_path \in
              IF result.type = "DIRECTORY_LISTING" THEN disk.dirs ELSE disk.files

\* SCRIPT_NAME and PATH_INFO put together are the URI, or SCRIPT_NAME is the
\* index of that directory, and no longer part of the URI names a script
\* (resolveCgiPathInfo; docs/CGI.md:11).
SplitsURI ==
    LET uri == Normalized(req.uri)
        name == result.script_name
    IN  result.type = "CGI" =>
            /\ \/ name \o result.path_info = uri
               \/ result.path_info = <<>> /\ Front(name) = uri
            /\ \A k \in Len(name) + 1..Len(uri):
                   ~NamesScript(result.location, uri, k)

\* A request for SCRIPT_NAME reaches the script itself, so that links a script
\* builds from it lead back to it.
NameLeadsBack ==
    result.type = "CGI" /\ Plain(req.uri) =>
        LET again == RouteOf(result.script_name, req.method) IN
        /\ MapURI(again.location, result.script_name) = result.file_path
        /\ again.type = "CGI" /\ again.file_path = result.file_path

\* The configurations that keep that: no location that runs scripts has the name
\* of one within its path, and none that does answers a directory which has, for
\* what is in it or for a script in it, a location of its own.
RunsScripts(l) == l.cgi_extension /\ l.interpreter

NamesKeepLocation ==
    \A s \in ToSet(Servers): \A i \in DOMAIN s.locations:
        LET path == s.locations[i].path
            above == FindLocation(s.locations, Front(path))
        IN  /\ RunsScripts(s.locations[i]) =>
                   \A k \in 1..Len(path) - 1: path[k] \notin Scripts
            /\ Len(path) > 1 /\ Last(path) \in Scripts \cup {""} =>
                   above = 0 \/ ~RunsScripts(s.locations[above])

\* A DELETE takes away one entry, named by the end of the URI, directly in the
\* upload directory of a location that allows DELETE; nothing is lost with it,
\* and the client is told of it and of nothing else (deleteFile).
RemovesOneUpload ==
    [][/\ result'.type = "UPLOAD" => (disk' # disk <=> answer'.status = 204)
       /\ disk' # disk =>
            /\ req.method = "DELETE" /\ result'.location # 0
            /\ LET l == server.locations[result'.location]
                   gone == Append(l.upload_path, Last(req.uri))
               IN  /\ "DELETE" \in l.allow_methods /\ l.upload_path # <<>>
                   /\ Entries(disk) = Entries(disk') \cup {gone}
                   /\ \A e \in Entries(disk'): ~IsPrefix(gone, e)]_vars

=============================================================================
