------------------------------- MODULE CgiTable -------------------------------
(***************************************************************************)
(* Several connections and several CGI processes at once: the descriptors, *)
(* the poller, Server::clients and the five maps of CgiManager, which name *)
(* connections and processes by numbers that the kernel reuses             *)
(* (descriptors, process identifiers) and by pointers.                     *)
(*                                                                         *)
(* What is relayed is left out (CgiRelay): a script writes, closes and     *)
(* exits when it likes but keeps its stderr, empty, as long as it runs; an *)
(* answer is queued or sent, and a request has its body with it.           *)
(* poller->wait returns a batch, which Server::run goes through while the  *)
(* tables change under it.                                                 *)
(***************************************************************************)
EXTENDS Integers, FiniteSets

CONSTANTS Peers,       \* clients
          Procs,       \* CgiProcess objects
          Pids,        \* process identifiers
          FdLimit,     \* descriptors of the server: RLIMIT_NOFILE
          Pipelined,   \* a client may send a request while another one runs
          Nil          \* nullptr, or no entry

Fds == 1..FdLimit
Listen == 1            \* the listening socket
SignalPipe == 2        \* signal_pipe[0]
NoFd == 0              \* -1

ASSUME TableAssumption ==
    /\ FdLimit \in Nat \ {0, 1}
    /\ Pipelined \in BOOLEAN
    /\ Nil \notin Peers \cup Procs \cup Pids

VARIABLES
    open,        \* kernel: what each descriptor of the server refers to
    poll,        \* epoll: the interest in each descriptor
    conn,        \* Server::clients: the ClientCon of each client
    processes, stdin_map, stderr_map, client_map,   \* CgiManager, by descriptor
    pid_map,     \* CgiManager, by process identifier
    proc,        \* the CgiProcess objects
    kid,         \* kernel: the children, by process identifier
    sig,         \* the signal pipe holds a byte
    peer,        \* the clients
    phase,       \* where Server::run is
    batch        \* the events it has not come to yet

maps == <<processes, stdin_map, stderr_map, client_map, pid_map>>
vars == <<open, poll, conn, maps, proc, kid, sig, peer, phase, batch>>

File(kind, x) == [kind |-> kind, of |-> x]
Nothing == File("nothing", Nil)
Files == [kind: {"nothing", "listen", "signal", "lost"}, of: {Nil}]
         \cup [kind: {"sock"}, of: Peers]
         \cup [kind: {"stdin", "stdout", "stderr"}, of: Procs]

\* out is res_ready: an answer, or the end of one, waits to be sent.
Conn == [fd: Fds \cup {NoFd}, active: BOOLEAN, out: BOOLEAN]
NoConn == [fd |-> NoFd, active |-> FALSE, out |-> FALSE]

Proc == [pid: Pids \cup {Nil}, stdin: Fds \cup {NoFd}, stdout: Fds \cup {NoFd},
         stderr: Fds \cup {NoFd}, client: Peers \cup {Nil}, started: BOOLEAN]
NoProc == [pid |-> Nil, stdin |-> NoFd, stdout |-> NoFd, stderr |-> NoFd,
           client |-> Nil, started |-> FALSE]

\* "dying" has been sent SIGKILL, "dead" is a zombie; of is the process object
\* that a running child was started for.  A child inherits the descriptors
\* that are open at the fork; socks are the sockets among them.
Kid == [st: {"none", "running", "dying", "dead"}, of: Procs \cup {Nil},
        socks: SUBSET Peers]
NoKid == [st |-> "none", of |-> Nil, socks |-> {}]

Event == [fd: Fds, r: BOOLEAN, w: BOOLEAN]

TypeOK ==
    /\ open \in [Fds -> Files]
    /\ poll \in [Fds -> {"off", "none", "r", "w"}]
    /\ conn \in [Peers -> Conn]
    /\ processes \in SUBSET (Fds \X Procs)
    /\ stdin_map \in SUBSET (Fds \X Procs)
    /\ stderr_map \in SUBSET (Fds \X Procs)
    /\ client_map \in SUBSET (Fds \X Procs)
    /\ pid_map \in SUBSET (Pids \X Procs)
    /\ proc \in [Procs -> Proc]
    /\ kid \in [Pids -> Kid]
    /\ sig \in BOOLEAN
    /\ peer \in [Peers -> {"away", "knocks", "quiet", "asks", "waits", "left"}]
    /\ phase \in {"batch", "procs", "down"}
    /\ batch \in SUBSET Event

-----------------------------------------------------------------------------
(* Descriptors *)

Live(l) == proc[l] # NoProc
Connected(p) == conn[p].fd # NoFd

Free == {f \in Fds: open[f] = Nothing}

\* The kernel hands out the lowest descriptor: how many free ones are below f.
Below(f) == Cardinality({g \in Free: g < f})

Nth(n) == {f \in Free: Below(f) = n}

\* Mutant: stdin is not closed with the others.
EndsRead(l) == {proc[l].stdout, proc[l].stderr} \ {NoFd}

\* The pipes of l.
Ends(l) == {proc[l].stdin, proc[l].stdout, proc[l].stderr} \ {NoFd}

\* poller.remove and close for the descriptors in S; i is the interest otherwise.
Close(S, i) ==
    /\ open' = [f \in Fds |-> IF f \in S THEN Nothing ELSE open[f]]
    /\ poll' = [f \in Fds |-> IF f \in S THEN "off" ELSE i[f]]

\* Mutant: a socket is read while it is written to.
InterestBoth(P, c) == [f \in Fds |-> IF \E p \in P: conn[p].fd = f
                                     THEN IF \E p \in P: conn[p].fd = f /\ c[p].out
                                          THEN "rw" ELSE "r"
                                     ELSE poll[f]]

\* The interest once that of the clients in P follows their ClientCon c;
\* poller.update of a descriptor that is closed does nothing.
Interest(P, c) == [f \in Fds |-> IF f \in {conn[p].fd: p \in P}
                                 THEN IF \E p \in P: conn[p].fd = f /\ c[p].out
                                      THEN "w" ELSE "r"
                                 ELSE poll[f]]

-----------------------------------------------------------------------------
(* Maps, as sets of keys and values *)

Keys(map) == {m[1]: m \in map}
Erase(map, S) == {m \in map: m[1] \notin S}
Put(map, k, v) == Erase(map, {k}) \cup {<<k, v>>}

-----------------------------------------------------------------------------
(* CgiManager::cleanupProcess and Server::close_client *)

\* Mutant: SIGTERM alone, which the child ignores.
SignalledTerm(k) == IF k.st = "dead" THEN NoKid ELSE k

\* kill(SIGTERM), waitpid(WNOHANG), kill(SIGKILL) if that found it alive.
Signalled(k) == IF k.st = "running" THEN [k EXCEPT !.st = "dying", !.of = Nil]
                ELSE IF k.st = "dead" THEN NoKid
                ELSE k

\* Mutant: the entry of the client stays.
ForgetPipes(L) ==
    /\ processes' = Erase(processes, {proc[l].stdout: l \in L})
    /\ stdin_map' = Erase(stdin_map, {proc[l].stdin: l \in L})
    /\ stderr_map' = Erase(stderr_map, {proc[l].stderr: l \in L})
    /\ proc' = [l \in Procs |-> IF l \in L THEN NoProc ELSE proc[l]]
    /\ UNCHANGED client_map

\* The process objects in L leave the maps and their children are killed.
Forget(L) ==
    /\ processes' = Erase(processes, {proc[l].stdout: l \in L})
    /\ stdin_map' = Erase(stdin_map, {proc[l].stdin: l \in L})
    /\ stderr_map' = Erase(stderr_map, {proc[l].stderr: l \in L})
    /\ client_map' = Erase(client_map, {conn[proc[l].client].fd: l \in L})
    /\ proc' = [l \in Procs |-> IF l \in L THEN NoProc ELSE proc[l]]

\* Mutant: kill takes an identifier for a process group.
KillGroup(L) ==
    /\ pid_map' = Erase(pid_map, {proc[l].pid: l \in L})
    /\ kid' = [k \in Pids |-> IF L # {} THEN Signalled(kid[k]) ELSE kid[k]]

Kill(L) ==
    /\ pid_map' = Erase(pid_map, {proc[l].pid: l \in L})
    /\ kid' = [k \in Pids |-> IF k \in {proc[l].pid: l \in L}
                              THEN Signalled(kid[k]) ELSE kid[k]]

\* The process objects in L end; c is Server::clients by then.  Unless a client
\* is kept alive it is left something to send: an error page, or the end.
Cleanup(L, c, kept) ==
    LET P == {proc[l].client: l \in L}
        d == [p \in Peers |->
                IF p \in P THEN [c[p] EXCEPT !.active = FALSE, !.out = @ \/ ~kept]
                ELSE c[p]]
    IN  /\ Forget(L)
        /\ conn' = d
        /\ Close(UNION {Ends(l): l \in L}, Interest(P, d))
        /\ peer' = [p \in Peers |-> IF p \in P /\ ~d[p].out /\ peer[p] = "waits"
                                    THEN "quiet" ELSE peer[p]]

\* The processes handleClientClose finds.
ProcsOf(p) == {l \in Procs: <<conn[p].fd, l>> \in client_map}

CloseClient(p) ==
    /\ Forget(ProcsOf(p))
    /\ Kill(ProcsOf(p))
    /\ Close((UNION {Ends(l): l \in ProcsOf(p)}) \cup {conn[p].fd}, poll)
    /\ conn' = [conn EXCEPT ![p] = NoConn]
    /\ peer' = [peer EXCEPT ![p] = "away"]

-----------------------------------------------------------------------------
(* Server::run *)

Running(l) == \E k \in Pids: kid[k].of = l

Left(f) == open[f].kind = "sock" /\ peer[open[f].of] = "left"
Ended(f) == open[f].kind \in {"stdin", "stdout", "stderr"} /\ ~Running(open[f].of)

\* The descriptors that have an event, and those that may: a script that runs
\* may have written, or read; a socket may take what is to be sent, or be reset.
Certain == {f \in Fds:
    \/ open[f].kind = "listen" /\ \E p \in Peers: peer[p] = "knocks"
    \/ open[f].kind = "signal" /\ sig
    \/ open[f].kind = "sock" /\ poll[f] = "r" /\ peer[open[f].of] \in {"asks", "left"}
    \/ Ended(f)}
Possible == {f \in Fds:
    \/ open[f].kind = "sock" /\ (poll[f] = "w" \/ (poll[f] = "none" /\ Left(f)))
    \/ open[f].kind \in {"stdin", "stdout"}}

\* What has no other end any more is readable and writable, whatever is polled.
Reported(f, hangup) ==
    [fd |-> f, r |-> hangup \/ poll[f] = "r", w |-> hangup \/ poll[f] = "w"]

\* The loop comes round: poller->wait returns.
Wait ==
    /\ phase = "procs"
    /\ \E S \in SUBSET (Possible \ Certain),
          R \in SUBSET {f \in Possible: Left(f) /\ poll[f] = "w"}:
         batch' = {Reported(f, f \in R \/ Ended(f) \/ poll[f] = "none"): f \in Certain \cup S}
    /\ phase' = "batch"
    /\ UNCHANGED <<open, poll, conn, maps, proc, kid, sig, peer>>

\* The loop comes to the event e.
Take(e) == phase = "batch" /\ e \in batch /\ batch' = batch \ {e}

-----------------------------------------------------------------------------
(* handle_signal_pipe, reap_children and handleChildExit *)

Zombies == {k \in Pids: kid[k].st = "dead"}

\* Mutant: one child for each signal.
ReapedOne == {k \in Zombies: k = CHOOSE c \in Zombies: TRUE}

\* The children that waitpid finds: all.
Reaped == Zombies

\* A script that failed before its head was read ends here; the process object
\* of another keeps pid.  Which did is known only here.
HandleSignal ==
    /\ \E e \in batch: e.fd = SignalPipe /\ Take(e)
    /\ sig' = FALSE
    /\ kid' = [k \in Pids |-> IF k \in Reaped THEN NoKid ELSE kid[k]]
    /\ pid_map' = Erase(pid_map, Reaped)
    /\ \E Failed \in SUBSET {l \in Procs: /\ ~proc[l].started
                                         /\ \E k \in Reaped: <<k, l>> \in pid_map}:
          Cleanup(Failed, conn, FALSE)
    /\ UNCHANGED phase

-----------------------------------------------------------------------------
(* CgiManager::handleEvent *)

IsCgi(f) == f \in Keys(processes \cup stdin_map \cup stderr_map)

\* Server::clients after output of l.
Output(l) == [conn EXCEPT ![proc[l].client].out = TRUE]

\* emitResponse, forwardBody
StdoutOutput(l) ==
    /\ \E e \in batch: <<e.fd, l>> \in processes /\ e.r /\ Take(e)
    /\ Running(l)
    /\ conn' = Output(l)
    /\ proc' = [proc EXCEPT ![l].started = TRUE]
    /\ poll' = Interest({proc[l].client}, Output(l))
    /\ UNCHANGED <<open, maps, kid, sig, peer, phase>>

\* An invalid head, or none.
StdoutInvalid(l) ==
    /\ \E e \in batch: <<e.fd, l>> \in processes /\ e.r /\ Take(e)
    /\ ~proc[l].started
    /\ Cleanup({l}, conn, FALSE)
    /\ Kill({l})
    /\ UNCHANGED <<sig, phase>>

\* The end of the output, perhaps with the last of it.
StdoutEnd(l) ==
    /\ \E e \in batch: <<e.fd, l>> \in processes /\ e.r /\ Take(e)
    /\ \E kept \in BOOLEAN:
          Cleanup({l}, Output(l), kept) \/ (proc[l].started /\ Cleanup({l}, conn, kept))
    /\ Kill({l})
    /\ UNCHANGED <<sig, phase>>

\* The body is written or cannot be: in either case stdin is closed.
HandleStdin(l) ==
    /\ \E e \in batch: /\ <<e.fd, l>> \in stdin_map /\ e.w /\ Take(e)
                       /\ e.fd \notin Keys(processes)
    /\ Close({proc[l].stdin}, poll)
    /\ stdin_map' = Erase(stdin_map, {proc[l].stdin})
    /\ proc' = [proc EXCEPT ![l].stdin = NoFd]
    /\ UNCHANGED <<conn, processes, stderr_map, client_map, pid_map, kid,
                   sig, peer, phase>>

HandleStderr(l) ==
    /\ \E e \in batch: /\ <<e.fd, l>> \in stderr_map /\ e.r /\ Take(e)
                       /\ e.fd \notin Keys(processes \cup stdin_map)
    /\ ~Running(l)
    /\ Close({proc[l].stderr}, poll)
    /\ stderr_map' = Erase(stderr_map, {proc[l].stderr})
    /\ proc' = [proc EXCEPT ![l].stderr = NoFd]
    /\ UNCHANGED <<conn, processes, stdin_map, client_map, pid_map, kid,
                   sig, peer, phase>>

\* An event for a pipe that has nothing, or is not waited for.
HandleNothing ==
    /\ \E e \in batch:
         /\ Take(e)
         /\ \E l \in Procs:
              \/ <<e.fd, l>> \in processes \cup stderr_map /\ (~e.r \/ Running(l))
              \/ <<e.fd, l>> \in stdin_map /\ ~e.w
    /\ UNCHANGED <<open, poll, conn, maps, proc, kid, sig, peer, phase>>

-----------------------------------------------------------------------------
(* new_connection *)

Knocking == {p \in Peers: peer[p] = "knocks"}

\* Clients get the lowest free descriptors, in some order.  accept takes a
\* descriptor before it looks for a client, so one more must be free for the
\* call that finds none.
NewConnection ==
    /\ Cardinality(Knocking) < Cardinality(Free)
    /\ \E e \in batch: e.fd = Listen /\ Take(e)
    /\ \E fd \in [Knocking -> {f \in Free: Below(f) < Cardinality(Knocking)}]:
         /\ \A p, q \in Knocking: fd[p] = fd[q] => p = q
         /\ open' = [f \in Fds |-> IF \E p \in Knocking: fd[p] = f
                                   THEN File("sock", CHOOSE p \in Knocking: fd[p] = f)
                                   ELSE open[f]]
         /\ poll' = [f \in Fds |-> IF \E p \in Knocking: fd[p] = f THEN "r" ELSE poll[f]]
         /\ conn' = [p \in Peers |-> IF p \in Knocking THEN [NoConn EXCEPT !.fd = fd[p]]
                                     ELSE conn[p]]
    /\ peer' = [p \in Peers |-> IF p \in Knocking THEN "quiet" ELSE peer[p]]
    /\ UNCHANGED <<maps, proc, kid, sig, phase>>

\* None is: the exception leaves run, and ~Server calls CgiManager::shutdown.
AcceptFails ==
    LET L == {l \in Procs: Live(l)} IN
    /\ phase = "batch" /\ \E e \in batch: e.fd = Listen
    /\ Cardinality(Knocking) >= Cardinality(Free)
    /\ Forget(L)
    /\ Kill(L)
    /\ Close(Fds, poll)
    /\ conn' = [p \in Peers |-> NoConn]
    /\ peer' = [p \in Peers |-> "away"]
    /\ phase' = "down"
    /\ batch' = {}
    /\ UNCHANGED sig

-----------------------------------------------------------------------------
(* read_client and CgiManager::launch *)

Reads(e, p) == e.fd = conn[p].fd /\ e.r /\ Take(e) /\ ~IsCgi(e.fd)

\* recv has nothing, the end of the stream or an error.
ReadNothing(p) ==
    /\ \E e \in batch: Reads(e, p)
    /\ peer[p] # "asks"
    /\ CloseClient(p)
    /\ UNCHANGED <<sig, phase>>

Answer(p) == [conn EXCEPT ![p].out = TRUE]

\* A request for a page, or for a script that could not be forked.
ReadPage(p) ==
    /\ \E e \in batch: Reads(e, p)
    /\ peer[p] = "asks"
    /\ conn' = Answer(p)
    /\ poll' = Interest({p}, Answer(p))
    /\ peer' = [peer EXCEPT ![p] = "waits"]
    /\ UNCHANGED <<open, maps, proc, kid, sig, phase>>

\* Neither pipe() nor fork() gives back what was made before a pipe() failed.
ReadPipesFail(p) ==
    LET n == Cardinality(Free) IN
    /\ \E e \in batch: Reads(e, p)
    /\ peer[p] = "asks" /\ n < 6
    /\ open' = [f \in Fds |-> IF f \in Free /\ Below(f) < 2 * (n \div 2)
                              THEN File("lost", Nil) ELSE open[f]]
    /\ conn' = Answer(p)
    /\ poll' = Interest({p}, Answer(p))
    /\ peer' = [peer EXCEPT ![p] = "waits"]
    /\ UNCHANGED <<maps, proc, kid, sig, phase>>

\* A CgiProcess that is not there and is named by nothing in the kernel.
Unused(l) == ~Live(l) /\ \A k \in Pids: kid[k].of # l

\* An identifier that no child has.  A CgiProcess may still have it, that of a
\* child that was reaped.
FreePid(k) == kid[k] = NoKid

\* Of the six ends of the pipes the parent keeps the second of stdin, which it
\* closes if there is no body, and the first of stdout and stderr.
Started(p, l, k, body, in, out, err) ==
    /\ open' = [open EXCEPT ![in] = IF body THEN File("stdin", l) ELSE @,
                            ![out] = File("stdout", l),
                            ![err] = File("stderr", l)]
    /\ poll' = [poll EXCEPT ![in] = IF body THEN "w" ELSE @,
                            ![out] = "r", ![err] = "r"]
    /\ stdin_map' = IF body THEN Put(stdin_map, in, l) ELSE stdin_map
    /\ stderr_map' = Put(stderr_map, err, l)
    /\ client_map' = Put(client_map, conn[p].fd, l)
    /\ pid_map' = Put(pid_map, k, l)
    /\ processes' = Put(processes, out, l)
    /\ proc' = [proc EXCEPT ![l] =
           [pid |-> k, stdin |-> IF body THEN in ELSE NoFd, stdout |-> out,
            stderr |-> err, client |-> p, started |-> FALSE]]
    /\ kid' = [kid EXCEPT ![k] =
           [st |-> "running", of |-> l, socks |-> {q \in Peers: Connected(q)}]]
    /\ conn' = [conn EXCEPT ![p].active = TRUE]

Launch(p) ==
    /\ \E e \in batch: Reads(e, p)
    /\ peer[p] = "asks" /\ Cardinality(Free) >= 6
    /\ \E l \in Procs, k \in Pids, body \in BOOLEAN,
          in \in Nth(1), out \in Nth(2), err \in Nth(4):
         Unused(l) /\ FreePid(k) /\ Started(p, l, k, body, in, out, err)
    /\ peer' = [peer EXCEPT ![p] = "waits"]
    /\ UNCHANGED <<sig, phase>>

-----------------------------------------------------------------------------
(* client_write and finalize_response_write *)

Writes(e, p) == e.fd = conn[p].fd /\ ~e.r /\ e.w /\ Take(e) /\ ~IsCgi(e.fd)

\* Nothing to send, or the socket is full again.
WriteNothing(p) ==
    /\ \E e \in batch: Writes(e, p)
    /\ UNCHANGED <<open, poll, conn, maps, proc, kid, sig, peer, phase>>

\* All is sent, and more will come from the script.
WriteActive(p) ==
    /\ \E e \in batch: Writes(e, p)
    /\ conn[p].out /\ conn[p].active
    /\ conn' = [conn EXCEPT ![p].out = FALSE]
    /\ poll' = [poll EXCEPT ![conn[p].fd] = "none"]
    /\ UNCHANGED <<open, maps, proc, kid, sig, peer, phase>>

\* The answer is complete, and the connection kept alive.
WriteLast(p) ==
    /\ \E e \in batch: Writes(e, p)
    /\ conn[p].out /\ ~conn[p].active
    /\ conn' = [conn EXCEPT ![p].out = FALSE]
    /\ poll' = [poll EXCEPT ![conn[p].fd] = "r"]
    /\ peer' = [peer EXCEPT ![p] = IF @ = "waits" THEN "quiet" ELSE @]
    /\ UNCHANGED <<open, maps, proc, kid, sig, phase>>

\* It is complete and not kept alive, or send fails.
WriteCloses(p) ==
    /\ \E e \in batch: Writes(e, p)
    /\ conn[p].out
    /\ peer[p] = "left" \/ ~conn[p].active
    /\ CloseClient(p)
    /\ UNCHANGED <<sig, phase>>

\* A descriptor that was closed after the event, and is not used again.
DropStale ==
    /\ \E e \in batch: /\ Take(e) /\ ~IsCgi(e.fd) /\ \A p \in Peers: conn[p].fd # e.fd
                       /\ e.fd \notin {Listen, SignalPipe}
    /\ UNCHANGED <<open, poll, conn, maps, proc, kid, sig, peer, phase>>

-----------------------------------------------------------------------------
(* check_timeouts, once the batch is done: connections, then processes *)

TimeoutConn(p) ==
    /\ phase = "batch" /\ batch = {} /\ Connected(p)
    /\ CloseClient(p)
    /\ UNCHANGED <<sig, phase, batch>>

EndConns ==
    /\ phase = "batch" /\ batch = {}
    /\ phase' = "procs"
    /\ UNCHANGED <<open, poll, conn, maps, proc, kid, sig, peer, batch>>

TimeoutProc(l) ==
    /\ phase = "procs" /\ Live(l)
    /\ Cleanup({l}, conn, FALSE)
    /\ Kill({l})
    /\ UNCHANGED <<sig, phase, batch>>

-----------------------------------------------------------------------------
(* The clients and the scripts *)

OfServer == <<open, poll, conn, maps, proc, phase, batch>>

\* A client comes back when the end of its connection has reached it: when no
\* descriptor is left on it.
Knock(p) ==
    /\ phase = "procs"
    /\ peer[p] = "away"
    /\ \A k \in Pids: p \notin kid[k].socks
    /\ peer' = [peer EXCEPT ![p] = "knocks"]
    /\ UNCHANGED <<OfServer, kid, sig>>

Ask(p) ==
    /\ phase = "procs"
    /\ peer[p] \in IF Pipelined THEN {"quiet", "waits"} ELSE {"quiet"}
    /\ Connected(p)
    /\ peer' = [peer EXCEPT ![p] = "asks"]
    /\ UNCHANGED <<OfServer, kid, sig>>

Leave(p) ==
    /\ phase = "procs"
    /\ peer[p] \in {"quiet", "asks", "waits"}
    /\ peer' = [peer EXCEPT ![p] = "left"]
    /\ UNCHANGED <<OfServer, kid, sig>>

\* SIGCHLD, and sigchld_handler.  Clients and scripts act before poller->wait
\* returns: what they do meanwhile is in the next batch.
Exit(k) ==
    /\ phase = "procs" /\ kid[k].st \in {"running", "dying"}
    /\ kid' = [kid EXCEPT ![k] = [NoKid EXCEPT !.st = "dead"]]
    /\ sig' = TRUE
    /\ UNCHANGED <<OfServer, peer>>

-----------------------------------------------------------------------------
Init ==
    /\ open = [f \in Fds |-> IF f = Listen THEN File("listen", Nil)
                             ELSE IF f = SignalPipe THEN File("signal", Nil)
                             ELSE Nothing]
    /\ poll = [f \in Fds |-> IF f \in {Listen, SignalPipe} THEN "r" ELSE "off"]
    /\ conn = [p \in Peers |-> NoConn]
    /\ processes = {}
    /\ stdin_map = {}
    /\ stderr_map = {}
    /\ client_map = {}
    /\ pid_map = {}
    /\ proc = [l \in Procs |-> NoProc]
    /\ kid = [k \in Pids |-> NoKid]
    /\ sig = FALSE
    /\ peer = [p \in Peers |-> "away"]
    /\ phase = "procs"
    /\ batch = {}

OfProc(l) ==
    StdoutOutput(l) \/ StdoutInvalid(l) \/ StdoutEnd(l) \/ HandleStdin(l)
    \/ HandleStderr(l) \/ TimeoutProc(l)
OfPeer(p) ==
    ReadNothing(p) \/ ReadPage(p) \/ ReadPipesFail(p) \/ Launch(p)
    \/ WriteNothing(p) \/ WriteActive(p) \/ WriteLast(p) \/ WriteCloses(p)
    \/ TimeoutConn(p)
Server ==
    \/ Wait \/ HandleSignal \/ HandleNothing \/ NewConnection \/ AcceptFails
    \/ DropStale \/ EndConns
    \/ \E l \in Procs: OfProc(l)
    \/ \E p \in Peers: OfPeer(p)

Next ==
    \/ Server
    \/ \E p \in Peers: Knock(p) \/ Ask(p) \/ Leave(p)
    \/ \E k \in Pids: Exit(k)

Spec == Init /\ [][Next]_vars

\* The loop keeps running; a process that stays has its deadline pass; SIGKILL
\* ends a child.
FairSpec ==
    /\ Spec
    /\ WF_vars(Server)
    /\ \A l \in Procs: SF_vars(TimeoutProc(l))
    /\ \A k \in Pids: SF_vars(kid[k].st = "dying" /\ Exit(k))

-----------------------------------------------------------------------------
(* Properties *)

\* The five maps, the process objects and cgi_active agree: what a map holds
\* for a descriptor or an identifier is the process that has it, and a process
\* belongs to an open connection that finds it (launch, cleanupProcess).
TablesAgree ==
    /\ processes  = {<<proc[l].stdout, l>>: l \in {m \in Procs: Live(m)}}
    /\ stdin_map  = {<<proc[l].stdin, l>>: l \in {m \in Procs: proc[m].stdin # NoFd}}
    /\ stderr_map = {<<proc[l].stderr, l>>: l \in {m \in Procs: proc[m].stderr # NoFd}}
    /\ client_map = {<<conn[proc[l].client].fd, l>>: l \in {m \in Procs: Live(m)}}
    /\ \A m \in pid_map: proc[m[2]].pid = m[1]
    /\ \A l \in Procs: Live(l) => Connected(proc[l].client)
    /\ \A l, m \in Procs: Live(l) /\ proc[l].client = proc[m].client => l = m
    /\ \A p \in Peers: conn[p].active <=> \E l \in Procs: proc[l].client = p

\* What an open descriptor of the server is.
Owned(f) ==
    CASE open[f].kind = "nothing" -> poll[f] = "off"
      [] open[f].kind = "lost"    -> poll[f] = "off"
      [] open[f].kind = "listen"  -> f = Listen /\ poll[f] = "r"
      [] open[f].kind = "signal"  -> f = SignalPipe /\ poll[f] = "r"
      [] open[f].kind = "sock"    -> conn[open[f].of].fd = f /\ poll[f] # "off"
      [] open[f].kind = "stdin"   -> proc[open[f].of].stdin = f /\ poll[f] = "w"
      [] open[f].kind = "stdout"  -> proc[open[f].of].stdout = f /\ poll[f] = "r"
      [] open[f].kind = "stderr"  -> proc[open[f].of].stderr = f /\ poll[f] = "r"

\* Every descriptor that is open and was not lost in a failed launch belongs to
\* the connection or the process that has its number, and has its pipe or its
\* socket behind it; none is closed twice, and none is polled after its close.
DescriptorsOwned ==
    /\ \A f \in Fds: Owned(f)
    /\ \A p \in Peers: Connected(p) => open[conn[p].fd] = File("sock", p)
    /\ \A l \in Procs: \A f \in Ends(l): open[f].of = l

\* A script is killed by the end of a process object that has its identifier: its
\* own, or one whose own child was reaped before, which keeps the identifier
\* although the kernel gives it to another child (handleChildExit,
\* cleanupProcess).  No other script is hit.
SignalsByHolder ==
    [][\A k \in Pids: kid[k].st = "running" /\ kid'[k].st = "dying" =>
          \E l \in Procs: /\ proc[l].pid = k /\ proc'[l].pid = Nil
                          /\ kid[k].of = l \/ ~Running(l)]_vars

\* A connection that ends takes no other's script with it, although both are
\* found by descriptors that were others' before (handleClientClose).
ClosesOwnScript ==
    [][\A p \in Peers: Connected(p) /\ conn'[p] = NoConn /\ phase' # "down" =>
          \A l \in Procs: proc[l].client \notin {Nil, p} => proc'[l] = proc[l]]_vars

\* A child that has no process object is dying or dead: none runs on.
NoOrphan == \A k \in Pids: kid[k].st = "running" => proc[kid[k].of].pid = k

\* A child that has ended is announced on the signal pipe until it is reaped,
\* however many ended for one byte (sigchld_handler, reap_children).
ZombiesAnnounced == Zombies # {} => sig \/ phase = "down"

\* docs/CGI.md: no zombies remain, and no script outlives its deadline.
ChildrenReaped ==
    \A k \in Pids: kid[k].st # "none" ~> kid[k].st = "none" \/ phase = "down"

\* A connection that the server has closed ends for its client too, although
\* the scripts that were started meanwhile have its socket.
EndIsSeen ==
    \A p \in Peers: peer[p] = "away" ~> \A k \in Pids: p \notin kid[k].socks

-----------------------------------------------------------------------------
(* What comments say, or a reader expects, and the code does not do *)

\* A signal goes to the child of the process that ends, not to one that has got
\* the identifier since.
SignalsOwnChild ==
    [][\A k \in Pids: kid[k].st = "running" /\ kid'[k].st = "dying" =>
          proc[kid[k].of].pid = k /\ proc'[kid[k].of].pid = Nil]_vars

\* poller.cpp, receive_data: 0 is "No data available".  read_client takes it
\* for the end of the connection, and an event for a pipe that was closed since
\* takes a new connection there that got its descriptor.
QuietIsKept ==
    [][\A p \in Peers: peer[p] = "quiet" /\ peer'[p] = "away" =>
          batch = {} \/ phase' = "down"]_vars

\* cgiManager.cpp, cleanupProcess: "closes the connection for EOF-terminated
\* CGI responses".  Another script has the socket as well.
CutIsSeen ==
    \A p \in Peers, k \in Pids: peer[p] = "away" => p \notin kid[k].socks

=============================================================================
