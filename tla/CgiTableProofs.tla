---------------------------- MODULE CgiTableProofs ----------------------------
(***************************************************************************)
(* Theorems about CgiTable, for any number of clients, scripts and         *)
(* descriptors.  Three invariants, each of its own: the signal pipe        *)
(* (ZombiesAnnounced), the children and who may be signalled (KidInv), and *)
(* the tables with the descriptors behind them (WireInv).  In each, what   *)
(* the common ends of a process do (Forget, Kill, Close) is stated once.   *)
(***************************************************************************)
EXTENDS CgiTable, TLAPS

-----------------------------------------------------------------------------
(* The signal pipe *)

LEMMA SignalledFacts ==
    ASSUME NEW k \in Kid
    PROVE  /\ Signalled(k) \in Kid
           /\ Signalled(k).st = "dead" => k.st = "dead"
           /\ Signalled(k).st # "running"
           /\ Signalled(k).of = Nil \/ (Signalled(k) = k /\ k.st # "running")
<1>1. CASE k.st = "running"
  <2>1. /\ Signalled(k) \in Kid
        /\ Signalled(k).st = "dying" /\ Signalled(k).of = Nil
      BY <1>1 DEF Signalled, Kid
  <2>2. QED
      BY <2>1
<1>2. CASE k.st # "running"
    BY <1>2 DEF Signalled, NoKid, Kid
<1>3. QED
    BY <1>1, <1>2

LEMMA KillFacts ==
    ASSUME kid \in [Pids -> Kid], NEW L, Kill(L)
    PROVE  /\ kid' \in [Pids -> Kid]
           /\ \A k \in Pids: kid'[k].st = "dead" => kid[k].st = "dead"
BY SignalledFacts DEF Kill

LEMMA CloseClientFacts ==
    ASSUME kid \in [Pids -> Kid], NEW p, CloseClient(p)
    PROVE  /\ kid' \in [Pids -> Kid]
           /\ \A k \in Pids: kid'[k].st = "dead" => kid[k].st = "dead"
BY KillFacts DEF CloseClient

\* What no step does but HandleSignal and Exit: the signal pipe is as before
\* and no child is dead that was not.
LEMMA QuietKeeps ==
    ASSUME kid \in [Pids -> Kid], ZombiesAnnounced,
           \A k \in Pids: kid'[k].st = "dead" => kid[k].st = "dead",
           UNCHANGED sig,
           phase = "down" => phase' = "down"
    PROVE  ZombiesAnnounced'
BY DEF ZombiesAnnounced, Zombies

SignalInv ==
    /\ kid \in [Pids -> Kid]
    /\ ZombiesAnnounced

LEMMA SignalOfProc ==
    ASSUME SignalInv, NEW l \in Procs, OfProc(l)
    PROVE  SignalInv'
<1>1. /\ kid' \in [Pids -> Kid] /\ UNCHANGED sig
      /\ \A k \in Pids: kid'[k].st = "dead" => kid[k].st = "dead"
  <2>1. CASE StdoutOutput(l) \/ HandleStdin(l) \/ HandleStderr(l)
      BY <2>1 DEF SignalInv, StdoutOutput, HandleStdin, HandleStderr
  <2>2. CASE StdoutInvalid(l) \/ StdoutEnd(l) \/ TimeoutProc(l)
      BY <2>2, KillFacts DEF SignalInv, StdoutInvalid, StdoutEnd, TimeoutProc
  <2>3. QED
      BY <2>1, <2>2 DEF OfProc
<1>2. UNCHANGED phase
    BY DEF OfProc, StdoutOutput, HandleStdin, HandleStderr,
           StdoutInvalid, StdoutEnd, TimeoutProc
<1>3. QED
    BY <1>1, <1>2, QuietKeeps DEF SignalInv

LEMMA SignalOfPeer ==
    ASSUME SignalInv, NEW p \in Peers, OfPeer(p)
    PROVE  SignalInv'
<1>1. /\ kid' \in [Pids -> Kid] /\ UNCHANGED sig
      /\ \A k \in Pids: kid'[k].st = "dead" => kid[k].st = "dead"
  <2>1. CASE ReadPage(p) \/ ReadPipesFail(p) \/ WriteNothing(p) \/ WriteActive(p)
             \/ WriteLast(p)
      BY <2>1 DEF SignalInv, ReadPage, ReadPipesFail, WriteNothing, WriteActive, WriteLast
  <2>2. CASE ReadNothing(p) \/ WriteCloses(p) \/ TimeoutConn(p)
      BY <2>2, CloseClientFacts DEF SignalInv, ReadNothing, WriteCloses, TimeoutConn
  <2>3. CASE Launch(p)
    <3>1. UNCHANGED sig
        BY <2>3 DEF Launch
    <3>2. PICK l \in Procs, k \in Pids, body \in BOOLEAN,
               in \in Nth(1), out \in Nth(2), err \in Nth(4):
              Started(p, l, k, body, in, out, err)
        BY <2>3 DEF Launch
    <3>5. kid' = [kid EXCEPT ![k] = [st |-> "running", of |-> l,
                                     socks |-> {q \in Peers: Connected(q)}]]
        BY <3>2 DEF Started
    <3>3. [st |-> "running", of |-> l, socks |-> {q \in Peers: Connected(q)}] \in Kid
        BY DEF Kid
    <3>4. QED
        BY <3>1, <3>5, <3>3 DEF SignalInv
  <2>4. QED
      BY <2>1, <2>2, <2>3 DEF OfPeer
<1>2. UNCHANGED phase
    BY DEF OfPeer, ReadPage, ReadPipesFail, WriteNothing, WriteActive,
           WriteLast, ReadNothing, WriteCloses, TimeoutConn, Launch
<1>3. QED
    BY <1>1, <1>2, QuietKeeps DEF SignalInv

LEMMA SignalStep ==
    ASSUME SignalInv, [Next]_vars
    PROVE  SignalInv'
<1>1. CASE HandleSignal
  <2>1. kid' = [k \in Pids |-> IF k \in Zombies THEN NoKid ELSE kid[k]]
      BY <1>1 DEF HandleSignal, Reaped
  <2>2. NoKid \in Kid
      BY DEF NoKid, Kid
  <2>3. kid' \in [Pids -> Kid]
      BY <2>1, <2>2 DEF SignalInv
  <2>4. \A k \in Pids: kid'[k].st # "dead"
      BY <2>1 DEF Zombies, NoKid
  <2>5. QED
      BY <2>3, <2>4 DEF SignalInv, ZombiesAnnounced, Zombies
<1>2. CASE \E k \in Pids: Exit(k)
  <2>1. PICK k \in Pids: kid' = [kid EXCEPT ![k] = [NoKid EXCEPT !.st = "dead"]]
      BY <1>2 DEF Exit
  <2>2. [NoKid EXCEPT !.st = "dead"] \in Kid
      BY DEF NoKid, Kid
  <2>3. sig'
      BY <1>2 DEF Exit
  <2>4. QED
      BY <2>1, <2>2, <2>3 DEF SignalInv, ZombiesAnnounced
<1>3. CASE AcceptFails
    BY <1>3, KillFacts DEF SignalInv, AcceptFails, ZombiesAnnounced
<1>4. CASE Wait \/ HandleNothing \/ NewConnection \/ DropStale \/ EndConns
  <2>1. UNCHANGED <<kid, sig>> /\ (phase = "down" => phase' = "down")
      BY <1>4 DEF Wait, HandleNothing, NewConnection, DropStale, EndConns
  <2>2. QED
      BY <2>1, QuietKeeps DEF SignalInv
<1>5. CASE \E p \in Peers: Knock(p) \/ Ask(p) \/ Leave(p)
    BY <1>5, QuietKeeps DEF SignalInv, Knock, Ask, Leave, OfServer
<1>6. CASE UNCHANGED vars
    BY <1>6, QuietKeeps DEF SignalInv, vars
<1>7. QED
    BY <1>1, <1>2, <1>3, <1>4, <1>5, <1>6, SignalOfProc, SignalOfPeer
    DEF Next, Server

\* reap_children loses no child: however many end for one byte of the signal
\* pipe, those not yet reaped are announced.
THEOREM ChildrenAnnounced == Spec => []ZombiesAnnounced
<1>1. Init => SignalInv
    BY DEF Init, SignalInv, ZombiesAnnounced, Zombies, NoKid, Kid
<1>2. SignalInv /\ [Next]_vars => SignalInv'
    BY SignalStep
<1>3. SignalInv => ZombiesAnnounced
    BY DEF SignalInv
<1>4. QED
    BY <1>1, <1>2, <1>3, PTL DEF Spec

-----------------------------------------------------------------------------
(* The children and their process objects *)

\* pid_map and the kernel name a process object by an identifier that the
\* object has.
KidInv ==
    /\ kid \in [Pids -> Kid]
    /\ proc \in [Procs -> Proc]
    /\ pid_map \in SUBSET (Pids \X Procs)
    /\ \A k \in Pids, l \in Procs: <<k, l>> \in pid_map => proc[l].pid = k
    /\ \A k \in Pids: kid[k].st = "running" => kid[k].of \in Procs
    /\ \A k \in Pids: kid[k].st # "running" => kid[k].of = Nil
    /\ NoOrphan

\* A step signals only children whose identifier a process object has that ends
\* in it: its own child, or one that got the identifier of its own.
Signals ==
    \A k \in Pids: kid[k].st = "running" /\ kid'[k].st = "dying" =>
        \E l \in Procs: /\ proc[l].pid = k /\ proc'[l].pid = Nil
                        /\ kid[k].of = l \/ ~Running(l)

LEMMA EraseFacts ==
    ASSUME NEW K, NEW V, NEW map \in SUBSET (K \X V), NEW S
    PROVE  /\ Erase(map, S) \in SUBSET (K \X V)
           /\ \A k \in K, v \in V: <<k, v>> \in Erase(map, S) <=> <<k, v>> \in map /\ k \notin S
BY DEF Erase

LEMMA PutFacts ==
    ASSUME NEW K, NEW V, NEW map \in SUBSET (K \X V), NEW key \in K, NEW val \in V
    PROVE  /\ Put(map, key, val) \in SUBSET (K \X V)
           /\ \A k \in K, v \in V: <<k, v>> \in Put(map, key, val) <=>
                  IF k = key THEN v = val ELSE <<k, v>> \in map
BY EraseFacts DEF Put

LEMMA NoProcFacts == NoProc \in Proc /\ NoProc.pid = Nil /\ NoProc.client = Nil
BY DEF NoProc, Proc

LEMMA ForgetFacts ==
    ASSUME proc \in [Procs -> Proc], NEW L, Forget(L)
    PROVE  /\ proc' \in [Procs -> Proc]
           /\ \A l \in Procs: proc'[l] = IF l \in L THEN NoProc ELSE proc[l]
BY NoProcFacts DEF Forget

\* The ends of process objects, with their children.
LEMMA KillKeepsKids ==
    ASSUME KidInv, NEW L \in SUBSET Procs, Forget(L), Kill(L)
    PROVE  KidInv' /\ Signals
<1> DEFINE S == {proc[l].pid: l \in L}
<1>1. /\ kid' \in [Pids -> Kid]
      /\ \A k \in Pids: kid'[k] = IF k \in S THEN Signalled(kid[k]) ELSE kid[k]
    BY KillFacts DEF Kill, KidInv
<1>2. /\ proc' \in [Procs -> Proc]
      /\ \A l \in Procs: proc'[l] = IF l \in L THEN NoProc ELSE proc[l]
    BY ForgetFacts DEF KidInv
<1>3. /\ pid_map' \in SUBSET (Pids \X Procs)
      /\ \A k \in Pids, l \in Procs: <<k, l>> \in pid_map' <=> <<k, l>> \in pid_map /\ k \notin S
  <2>1. pid_map' = Erase(pid_map, S) /\ pid_map \in SUBSET (Pids \X Procs)
      BY DEF Kill, KidInv
  <2> HIDE DEF S
  <2>2. QED
      BY <2>1, EraseFacts
<1>4. \A k \in Pids: kid'[k].st = "running" => kid[k].st = "running" /\ kid'[k] = kid[k]
                                               /\ k \notin S
    BY <1>1, SignalledFacts DEF KidInv
<1>5. \A l \in L: l \in Procs /\ proc[l].pid \in S
    OBVIOUS
<1>6. \A k \in S: \E l \in L: proc[l].pid = k
    OBVIOUS
<1> HIDE DEF S
<1>7. Signals
  <2>1. SUFFICES ASSUME NEW k \in Pids, kid[k].st = "running", kid'[k].st = "dying"
                 PROVE  \E l \in Procs: /\ proc[l].pid = k /\ proc'[l].pid = Nil
                                        /\ kid[k].of = l \/ ~Running(l)
      BY DEF Signals
  <2>2. k \in S
      BY <1>1, <2>1
  <2>3. PICK l \in L: proc[l].pid = k
      BY <1>6, <2>2
  <2>4. ASSUME Running(l)
        PROVE  kid[k].of = l
    <3>1. PICK c \in Pids: kid[c].of = l
        BY <2>4 DEF Running
    <3>2. l # Nil /\ kid[c] \in Kid
        BY TableAssumption DEF KidInv
    <3>3. kid[c].st = "running"
        BY <3>1, <3>2 DEF KidInv
    <3>4. QED
        BY <2>3, <3>1, <3>3 DEF KidInv, NoOrphan
  <2>5. l \in Procs /\ proc'[l].pid = Nil
      BY <1>2, <2>3, NoProcFacts
  <2>6. QED
      BY <2>3, <2>4, <2>5
<1>8. \A k \in Pids, l \in Procs: <<k, l>> \in pid_map' => proc'[l].pid = k
    BY <1>2, <1>3, <1>5 DEF KidInv
<1>9. \A k \in Pids: kid'[k].st = "running" => kid'[k].of \in Procs /\ proc'[kid'[k].of].pid = k
    BY <1>2, <1>4, <1>5 DEF KidInv, NoOrphan
<1>10. \A k \in Pids: kid'[k].st # "running" => kid'[k].of = Nil
    BY <1>1, SignalledFacts DEF KidInv
<1>11. QED
    BY <1>1, <1>2, <1>3, <1>7, <1>8, <1>9, <1>10, NoProcFacts DEF KidInv, NoOrphan

LEMMA CloseKeepsKids ==
    ASSUME KidInv, NEW p, CloseClient(p)
    PROVE  KidInv' /\ Signals
BY KillKeepsKids DEF CloseClient, ProcsOf

\* What starts, ends and signals nobody.
LEMMA RestKeepsKids ==
    ASSUME KidInv, UNCHANGED <<kid, pid_map>>, proc' \in [Procs -> Proc],
           \A l \in Procs: proc'[l].pid = proc[l].pid
    PROVE  KidInv' /\ Signals
BY DEF KidInv, NoOrphan, Signals

LEMMA KidsOfProc ==
    ASSUME KidInv, NEW l \in Procs, OfProc(l)
    PROVE  KidInv' /\ Signals
<1>1. CASE StdoutInvalid(l) \/ StdoutEnd(l) \/ TimeoutProc(l)
  <2>1. Kill({l}) /\ Forget({l})
      BY <1>1 DEF StdoutInvalid, StdoutEnd, TimeoutProc, Cleanup
  <2>2. QED
      BY <2>1, KillKeepsKids
<1>2. CASE StdoutOutput(l) \/ HandleStdin(l) \/ HandleStderr(l)
  <2>1. UNCHANGED <<kid, pid_map>>
      BY <1>2 DEF StdoutOutput, HandleStdin, HandleStderr, maps
  <2>2. \/ proc' = [proc EXCEPT ![l].started = TRUE]
        \/ proc' = [proc EXCEPT ![l].stdin = NoFd]
        \/ proc' = [proc EXCEPT ![l].stderr = NoFd]
      BY <1>2 DEF StdoutOutput, HandleStdin, HandleStderr
  <2>3. proc \in [Procs -> Proc] /\ proc[l] \in Proc
      BY DEF KidInv
  <2>4. PICK n \in Proc: n.pid = proc[l].pid /\ proc' = [proc EXCEPT ![l] = n]
    <3>1. /\ [proc[l] EXCEPT !.started = TRUE] \in Proc
          /\ [proc[l] EXCEPT !.stdin = NoFd] \in Proc
          /\ [proc[l] EXCEPT !.stderr = NoFd] \in Proc
        BY <2>3 DEF Proc
    <3>2. /\ [proc[l] EXCEPT !.started = TRUE].pid = proc[l].pid
          /\ [proc[l] EXCEPT !.stdin = NoFd].pid = proc[l].pid
          /\ [proc[l] EXCEPT !.stderr = NoFd].pid = proc[l].pid
        BY <2>3 DEF Proc
    <3>3. QED
        BY <2>2, <3>1, <3>2
  <2>5. proc' \in [Procs -> Proc] /\ \A m \in Procs: proc'[m].pid = proc[m].pid
      BY <2>3, <2>4
  <2>6. QED
      BY <2>1, <2>5, RestKeepsKids
<1>3. QED
    BY <1>1, <1>2 DEF OfProc

\* An identifier that is free belongs to no child, and an object that is not
\* used has none and is named by no child.
LEMMA StartKeepsKids ==
    ASSUME KidInv, NEW p \in Peers, NEW l \in Procs, NEW k \in Pids, NEW body \in BOOLEAN,
           NEW in \in Fds, NEW out \in Fds, NEW err \in Fds,
           Unused(l), FreePid(k), Started(p, l, k, body, in, out, err)
    PROVE  KidInv' /\ Signals
<1> DEFINE new == [pid |-> k, stdin |-> IF body THEN in ELSE NoFd, stdout |-> out,
                   stderr |-> err, client |-> p, started |-> FALSE]
           child == [st |-> "running", of |-> l, socks |-> {q \in Peers: Connected(q)}]
<1>1. new \in Proc /\ new.pid = k
    BY DEF Proc
<1>2. child \in Kid /\ child.st = "running" /\ child.of = l
    BY DEF Kid
<1>3. proc' = [proc EXCEPT ![l] = new] /\ kid' = [kid EXCEPT ![k] = child]
      /\ pid_map' = Put(pid_map, k, l)
    BY DEF Started
<1>4. proc[l].pid = Nil /\ k # Nil /\ kid[k].st = "none"
      /\ \A c \in Pids: kid[c].of # l
    BY NoProcFacts, TableAssumption DEF Unused, Live, FreePid, NoKid
<1> HIDE DEF new, child
<1>5. /\ proc' \in [Procs -> Proc] /\ proc'[l].pid = k
      /\ \A m \in Procs: m # l => proc'[m] = proc[m]
    BY <1>1, <1>3 DEF KidInv
<1>6. /\ kid' \in [Pids -> Kid] /\ kid'[k].st = "running" /\ kid'[k].of = l
      /\ \A c \in Pids: c # k => kid'[c] = kid[c]
    BY <1>2, <1>3 DEF KidInv
<1>7. /\ pid_map' \in SUBSET (Pids \X Procs)
      /\ \A c \in Pids, m \in Procs: <<c, m>> \in pid_map' <=>
            IF c = k THEN m = l ELSE <<c, m>> \in pid_map
    BY <1>3, PutFacts DEF KidInv
<1>8. \A c \in Pids, m \in Procs: <<c, m>> \in pid_map' => proc'[m].pid = c
  <2>1. TAKE c \in Pids, m \in Procs
  <2>2. HAVE <<c, m>> \in pid_map'
  <2>3. CASE c = k
      BY <2>2, <2>3, <1>5, <1>7
  <2>4. CASE c # k
    <3>1. proc[m].pid = c /\ c # Nil
        BY <2>2, <2>4, <1>7, TableAssumption DEF KidInv
    <3>2. QED
        BY <3>1, <1>4, <1>5
  <2>5. QED
      BY <2>3, <2>4
<1>9. \A c \in Pids: kid'[c].st = "running" => kid'[c].of \in Procs /\ proc'[kid'[c].of].pid = c
    BY <1>4, <1>5, <1>6 DEF KidInv, NoOrphan
<1>10. Signals
    BY <1>4, <1>6 DEF Signals
<1>11. QED
    BY <1>5, <1>6, <1>7, <1>8, <1>9, <1>10 DEF KidInv, NoOrphan

LEMMA NthIsFd == \A n: \A f \in Nth(n): f \in Fds /\ f \in Free /\ Below(f) = n
BY DEF Nth, Free

LEMMA KidsOfPeer ==
    ASSUME KidInv, NEW p \in Peers, OfPeer(p)
    PROVE  KidInv' /\ Signals
<1>1. CASE ReadNothing(p) \/ WriteCloses(p) \/ TimeoutConn(p)
    BY <1>1, CloseKeepsKids DEF ReadNothing, WriteCloses, TimeoutConn
<1>2. CASE ReadPage(p) \/ ReadPipesFail(p) \/ WriteNothing(p) \/ WriteActive(p)
           \/ WriteLast(p)
  <2>1. UNCHANGED <<kid, pid_map, proc>>
      BY <1>2 DEF ReadPage, ReadPipesFail, WriteNothing, WriteActive, WriteLast, maps
  <2>2. QED
      BY <2>1, RestKeepsKids DEF KidInv
<1>3. CASE Launch(p)
  <2>1. PICK l \in Procs, k \in Pids, body \in BOOLEAN,
             in \in Nth(1), out \in Nth(2), err \in Nth(4):
            Unused(l) /\ FreePid(k) /\ Started(p, l, k, body, in, out, err)
      BY <1>3 DEF Launch
  <2>2. in \in Fds /\ out \in Fds /\ err \in Fds
      BY NthIsFd
  <2>3. QED
      BY <2>1, <2>2, StartKeepsKids
<1>4. QED
    BY <1>1, <1>2, <1>3 DEF OfPeer

\* A process object that ends with its child reaped signals nobody.
LEMMA ReapKeepsKids ==
    ASSUME KidInv, HandleSignal
    PROVE  KidInv' /\ Signals
<1>1. PICK Failed \in SUBSET {l \in Procs: /\ ~proc[l].started
                                         /\ \E k \in Reaped: <<k, l>> \in pid_map}:
          Cleanup(Failed, conn, FALSE)
    BY DEF HandleSignal
<1>2. /\ proc' \in [Procs -> Proc]
      /\ \A l \in Procs: proc'[l] = IF l \in Failed THEN NoProc ELSE proc[l]
    BY <1>1, ForgetFacts DEF Cleanup, KidInv
<1>3. \A l \in Failed: l \in Procs /\ proc[l].pid \in Zombies
  <2>1. TAKE l \in Failed
  <2>2. PICK k \in Reaped: <<k, l>> \in pid_map /\ l \in Procs
      BY <1>1
  <2>3. k \in Pids /\ k \in Zombies
      BY DEF Reaped, Zombies
  <2>4. QED
      BY <2>2, <2>3 DEF KidInv
<1>4. NoKid \in Kid /\ NoKid.st = "none" /\ NoKid.of = Nil
    BY DEF NoKid, Kid
<1>5. kid' = [k \in Pids |-> IF k \in Zombies THEN NoKid ELSE kid[k]]
    BY DEF HandleSignal, Reaped
<1>6. /\ kid' \in [Pids -> Kid]
      /\ \A k \in Pids: kid'[k].st \in {"running", "dying"} => kid'[k] = kid[k] /\ k \notin Zombies
      /\ \A k \in Pids: kid'[k].st # "running" => kid'[k].of = Nil
    BY <1>4, <1>5 DEF KidInv
<1>7. /\ pid_map' \in SUBSET (Pids \X Procs)
      /\ \A k \in Pids, l \in Procs: <<k, l>> \in pid_map' => <<k, l>> \in pid_map /\ k \notin Zombies
    BY EraseFacts DEF HandleSignal, Reaped, KidInv
<1>8. \A k \in Pids, l \in Procs: <<k, l>> \in pid_map' => proc'[l].pid = k
    BY <1>2, <1>3, <1>7 DEF KidInv
<1>9. \A k \in Pids: kid'[k].st = "running" => kid'[k].of \in Procs /\ proc'[kid'[k].of].pid = k
    BY <1>2, <1>3, <1>6 DEF KidInv, NoOrphan
<1>10. Signals
    BY <1>6 DEF Signals
<1>11. QED
    BY <1>2, <1>6, <1>7, <1>8, <1>9, <1>10, NoProcFacts DEF KidInv, NoOrphan

LEMMA KidStep ==
    ASSUME KidInv, [Next]_vars
    PROVE  KidInv' /\ Signals
<1>1. CASE HandleSignal
    BY <1>1, ReapKeepsKids
<1>2. CASE AcceptFails
    BY <1>2, KillKeepsKids DEF AcceptFails
<1>3. CASE \E k \in Pids: Exit(k)
  <2>1. PICK k \in Pids: Exit(k)
      BY <1>3
  <2>2. /\ [NoKid EXCEPT !.st = "dead"] \in Kid /\ [NoKid EXCEPT !.st = "dead"].st = "dead"
        /\ [NoKid EXCEPT !.st = "dead"].of = Nil
      BY DEF NoKid, Kid
  <2>3. UNCHANGED <<proc, pid_map>> /\ kid' = [kid EXCEPT ![k] = [NoKid EXCEPT !.st = "dead"]]
      BY <2>1 DEF Exit, OfServer, maps
  <2>4. /\ kid' \in [Pids -> Kid] /\ \A c \in Pids: kid'[c].st # "dead" => kid'[c] = kid[c]
        /\ \A c \in Pids: kid'[c].st # "running" => kid'[c].of = Nil
      BY <2>2, <2>3 DEF KidInv
  <2>5. QED
      BY <2>3, <2>4 DEF KidInv, NoOrphan, Signals
<1>4. CASE Wait \/ HandleNothing \/ NewConnection \/ DropStale \/ EndConns
  <2>1. UNCHANGED <<kid, pid_map, proc>>
      BY <1>4 DEF Wait, HandleNothing, NewConnection, DropStale, EndConns, maps
  <2>2. QED
      BY <2>1, RestKeepsKids DEF KidInv
<1>5. CASE UNCHANGED vars \/ \E p \in Peers: Knock(p) \/ Ask(p) \/ Leave(p)
  <2>1. UNCHANGED <<kid, pid_map, proc>>
      BY <1>5 DEF Knock, Ask, Leave, OfServer, maps, vars
  <2>2. QED
      BY <2>1, RestKeepsKids DEF KidInv
<1>6. QED
    BY <1>1, <1>2, <1>3, <1>4, <1>5, KidsOfProc, KidsOfPeer DEF Next, Server

LEMMA KidInit == Init => KidInv
<1>1. NoKid \in Kid /\ NoKid.st = "none" /\ NoKid.of = Nil
    BY DEF NoKid, Kid
<1>2. QED
    BY <1>1, NoProcFacts DEF Init, KidInv, NoOrphan

\* No script runs on without a process object that can end it.
THEOREM NoScriptIsOrphan == Spec => []NoOrphan
<1>1. KidInv => NoOrphan
    BY DEF KidInv
<1>2. KidInv /\ [Next]_vars => KidInv'
    BY KidStep
<1>3. QED
    BY <1>1, <1>2, KidInit, PTL DEF Spec

\* cleanupProcess kills the child it was called for; or, when that was reaped
\* before, the child that got its identifier since; and no other.  The kernel may
\* reuse an identifier as soon as its child is reaped.
THEOREM OnlyHoldersKill == Spec => SignalsByHolder
<1>1. KidInv /\ [Next]_vars => KidInv'
    BY KidStep
<1>2. KidInv /\ [Next]_vars =>
        [\A k \in Pids: kid[k].st = "running" /\ kid'[k].st = "dying" =>
            \E l \in Procs: /\ proc[l].pid = k /\ proc'[l].pid = Nil
                            /\ kid[k].of = l \/ ~Running(l)]_vars
    BY KidStep DEF Signals
<1>3. QED
    BY <1>1, <1>2, KidInit, PTL DEF Spec, SignalsByHolder

-----------------------------------------------------------------------------
(* Types *)

Interests == {"off", "none", "r", "w"}

\* What of TypeOK is not in KidInv.
TableTypes ==
    /\ open \in [Fds -> Files]
    /\ poll \in [Fds -> Interests]
    /\ conn \in [Peers -> Conn]
    /\ processes \in SUBSET (Fds \X Procs)
    /\ stdin_map \in SUBSET (Fds \X Procs)
    /\ stderr_map \in SUBSET (Fds \X Procs)
    /\ client_map \in SUBSET (Fds \X Procs)
    /\ peer \in [Peers -> {"away", "knocks", "quiet", "asks", "waits", "left"}]

LoopTypes ==
    /\ sig \in BOOLEAN
    /\ phase \in {"batch", "procs", "down"}
    /\ batch \in SUBSET Event

TypeInv == TableTypes /\ LoopTypes /\ KidInv

LEMMA FileFacts ==
    /\ Nothing \in Files /\ Nothing.kind = "nothing"
    /\ \A p \in Peers: File("sock", p) \in Files
    /\ \A l \in Procs: File("stdin", l) \in Files /\ File("stdout", l) \in Files
                       /\ File("stderr", l) \in Files
    /\ File("lost", Nil) \in Files /\ File("listen", Nil) \in Files
    /\ File("signal", Nil) \in Files
BY DEF Nothing, File, Files

LEMMA NoConnFacts ==
    /\ NoConn \in Conn /\ NoConn.fd = NoFd /\ ~NoConn.active /\ ~NoConn.out
BY DEF NoConn, Conn

LEMMA CloseType ==
    ASSUME open \in [Fds -> Files], NEW S, NEW i \in [Fds -> Interests], Close(S, i)
    PROVE  open' \in [Fds -> Files] /\ poll' \in [Fds -> Interests]
BY FileFacts DEF Close, Interests

LEMMA InterestType ==
    ASSUME poll \in [Fds -> Interests], NEW P, NEW c
    PROVE  Interest(P, c) \in [Fds -> Interests]
BY DEF Interest, Interests

LEMMA ForgetType ==
    ASSUME TableTypes, NEW L, Forget(L)
    PROVE  /\ processes' \in SUBSET (Fds \X Procs)
           /\ stdin_map' \in SUBSET (Fds \X Procs)
           /\ stderr_map' \in SUBSET (Fds \X Procs)
           /\ client_map' \in SUBSET (Fds \X Procs)
BY DEF Forget, TableTypes, Erase

\* The client of a process that ends.
LEMMA CleanedType ==
    ASSUME NEW c \in Conn, NEW kept \in BOOLEAN
    PROVE  LET d == [c EXCEPT !.active = FALSE, !.out = @ \/ ~kept]
           IN  d \in Conn /\ d.fd = c.fd /\ ~d.active
BY DEF Conn

LEMMA CleanupType ==
    ASSUME TableTypes, NEW L, NEW c \in [Peers -> Conn], NEW kept \in BOOLEAN,
           Cleanup(L, c, kept)
    PROVE  TableTypes'
<1> DEFINE P == {proc[l].client: l \in L}
           d == [p \in Peers |->
                   IF p \in P THEN [c[p] EXCEPT !.active = FALSE, !.out = @ \/ ~kept]
                   ELSE c[p]]
<1>1. d \in [Peers -> Conn]
    BY CleanedType
<1>2. conn' = d /\ Close(UNION {Ends(l): l \in L}, Interest(P, d)) /\ Forget(L)
    BY DEF Cleanup
<1>3. peer' = [p \in Peers |-> IF p \in P /\ ~d[p].out /\ peer[p] = "waits"
                               THEN "quiet" ELSE peer[p]]
    BY DEF Cleanup
<1> HIDE DEF P, d
<1>4. open' \in [Fds -> Files] /\ poll' \in [Fds -> Interests]
    BY <1>2, InterestType, CloseType DEF TableTypes
<1>5. peer' \in [Peers -> {"away", "knocks", "quiet", "asks", "waits", "left"}]
    BY <1>3 DEF TableTypes
<1>6. QED
    BY <1>1, <1>2, <1>4, <1>5, ForgetType DEF TableTypes

LEMMA CloseClientType ==
    ASSUME TableTypes, NEW p \in Peers, CloseClient(p)
    PROVE  TableTypes'
<1>1. open' \in [Fds -> Files] /\ poll' \in [Fds -> Interests]
    BY CloseType DEF CloseClient, TableTypes
<1>2. QED
    BY <1>1, ForgetType, NoConnFacts DEF CloseClient, TableTypes

LEMMA OutputType ==
    ASSUME TableTypes, NEW l \in Procs
    PROVE  /\ Output(l) \in [Peers -> Conn]
           /\ \A p \in Peers: /\ Output(l)[p].fd = conn[p].fd
                              /\ Output(l)[p].active <=> conn[p].active
<1>1. \A c \in Conn: LET d == [c EXCEPT !.out = TRUE]
                     IN  d \in Conn /\ d.fd = c.fd /\ (d.active <=> c.active)
    BY DEF Conn
<1>2. conn \in [Peers -> Conn]
    BY DEF TableTypes
<1>3. Output(l) = [p \in Peers |-> IF p = proc[l].client THEN [conn[p] EXCEPT !.out = TRUE]
                                   ELSE conn[p]]
    BY <1>2 DEF Output
<1>4. QED
    BY <1>1, <1>2, <1>3

LEMMA AnswerType ==
    ASSUME TableTypes, NEW p \in Peers
    PROVE  /\ Answer(p) \in [Peers -> Conn]
           /\ \A q \in Peers: /\ Answer(p)[q].fd = conn[q].fd
                              /\ Answer(p)[q].active <=> conn[q].active
BY DEF Answer, TableTypes, Conn

LEMMA TypesOfProc ==
    ASSUME TypeInv, NEW l \in Procs, OfProc(l)
    PROVE  TableTypes'
<1>1. TableTypes
    BY DEF TypeInv
<1>2. CASE StdoutInvalid(l) \/ TimeoutProc(l)
    BY <1>1, <1>2, CleanupType DEF StdoutInvalid, TimeoutProc, TableTypes
<1>3. CASE StdoutEnd(l)
    BY <1>1, <1>3, CleanupType, OutputType DEF StdoutEnd, TableTypes
<1>4. CASE StdoutOutput(l)
    BY <1>1, <1>4, OutputType, InterestType DEF StdoutOutput, TableTypes, maps
<1>5. CASE HandleStdin(l)
    BY <1>1, <1>5, CloseType DEF HandleStdin, TableTypes, Erase
<1>6. CASE HandleStderr(l)
    BY <1>1, <1>6, CloseType DEF HandleStderr, TableTypes, Erase
<1>7. QED
    BY <1>2, <1>3, <1>4, <1>5, <1>6 DEF OfProc

LEMMA StartedType ==
    ASSUME TypeInv, NEW p \in Peers, NEW l \in Procs, NEW k \in Pids, NEW body \in BOOLEAN,
           NEW in \in Fds, NEW out \in Fds, NEW err \in Fds, conn[p].fd \in Fds,
           Started(p, l, k, body, in, out, err),
           peer' = [peer EXCEPT ![p] = "waits"]
    PROVE  TableTypes'
<1>1. TableTypes
    BY DEF TypeInv
<1>2. open' \in [Fds -> Files] /\ poll' \in [Fds -> Interests]
    BY <1>1, FileFacts DEF Started, TableTypes, Interests
<1>3. conn' \in [Peers -> Conn]
    BY <1>1 DEF Started, TableTypes, Conn
<1>4. /\ processes' \in SUBSET (Fds \X Procs)
      /\ stdin_map' \in SUBSET (Fds \X Procs)
      /\ stderr_map' \in SUBSET (Fds \X Procs)
      /\ client_map' \in SUBSET (Fds \X Procs)
    BY <1>1, PutFacts DEF Started, TableTypes
<1>5. QED
    BY <1>1, <1>2, <1>3, <1>4 DEF TableTypes

\* A client that an event is for has a descriptor.
LEMMA EventFacts ==
    ASSUME LoopTypes, NEW e \in batch
    PROVE  e.fd \in Fds /\ e.r \in BOOLEAN /\ e.w \in BOOLEAN
BY DEF LoopTypes, Event

LEMMA TypesOfPeer ==
    ASSUME TypeInv, NEW p \in Peers, OfPeer(p)
    PROVE  TableTypes'
<1>1. TableTypes /\ LoopTypes
    BY DEF TypeInv
<1>2. CASE ReadNothing(p) \/ WriteCloses(p) \/ TimeoutConn(p)
    BY <1>1, <1>2, CloseClientType DEF ReadNothing, WriteCloses, TimeoutConn
<1>3. CASE ReadPage(p)
    BY <1>1, <1>3, AnswerType, InterestType DEF ReadPage, TableTypes, maps
<1>4. CASE ReadPipesFail(p)
    BY <1>1, <1>4, AnswerType, InterestType, FileFacts DEF ReadPipesFail, TableTypes, maps
<1>5. CASE WriteNothing(p) \/ WriteActive(p) \/ WriteLast(p)
  <2>1. [conn[p] EXCEPT !.out = FALSE] \in Conn
      BY <1>1 DEF TableTypes, Conn
  <2>2. conn' \in [Peers -> Conn]
      BY <1>1, <1>5, <2>1 DEF WriteNothing, WriteActive, WriteLast, TableTypes
  <2>3. poll' \in [Fds -> Interests]
      BY <1>1, <1>5 DEF WriteNothing, WriteActive, WriteLast, TableTypes, Interests
  <2>4. peer' \in [Peers -> {"away", "knocks", "quiet", "asks", "waits", "left"}]
      BY <1>1, <1>5 DEF WriteNothing, WriteActive, WriteLast, TableTypes
  <2>5. UNCHANGED <<open, processes, stdin_map, stderr_map, client_map>>
      BY <1>5 DEF WriteNothing, WriteActive, WriteLast, maps
  <2>6. QED
      BY <1>1, <2>2, <2>3, <2>4, <2>5 DEF TableTypes
<1>6. CASE Launch(p)
  <2>1. PICK l \in Procs, k \in Pids, body \in BOOLEAN,
             in \in Nth(1), out \in Nth(2), err \in Nth(4):
            Unused(l) /\ FreePid(k) /\ Started(p, l, k, body, in, out, err)
      BY <1>6 DEF Launch
  <2>2. in \in Fds /\ out \in Fds /\ err \in Fds
      BY NthIsFd
  <2>3. conn[p].fd \in Fds /\ peer' = [peer EXCEPT ![p] = "waits"]
      BY <1>1, <1>6, EventFacts DEF Launch, Reads
  <2>4. QED
      BY <2>1, <2>2, <2>3, StartedType
<1>7. QED
    BY <1>2, <1>3, <1>4, <1>5, <1>6 DEF OfPeer

LEMMA TypesOfLoop ==
    ASSUME TypeInv, [Next]_vars
    PROVE  LoopTypes'
<1>1. LoopTypes
    BY DEF TypeInv
<1>2. CASE Wait
  <2>1. \A f \in Fds, h \in BOOLEAN: Reported(f, h) \in Event
      BY DEF Reported, Event
  <2>2. PICK S \in SUBSET (Possible \ Certain),
             R \in SUBSET {f \in Possible: Left(f) /\ poll[f] = "w"}:
         batch' = {Reported(f, f \in R \/ Ended(f) \/ poll[f] = "none"): f \in Certain \cup S}
      BY <1>2 DEF Wait
  <2>3. Certain \cup S \subseteq Fds
      BY <2>2 DEF Certain, Possible
  <2>4. batch' \in SUBSET Event
      BY <2>1, <2>2, <2>3
  <2>5. QED
      BY <1>1, <1>2, <2>4 DEF Wait, LoopTypes
<1>3. CASE \E l \in Procs: OfProc(l)
    BY <1>1, <1>3 DEF OfProc, StdoutOutput, StdoutInvalid, StdoutEnd, HandleStdin,
          HandleStderr, TimeoutProc, Take, LoopTypes
<1>4. CASE \E p \in Peers: OfPeer(p)
    BY <1>1, <1>4 DEF OfPeer, ReadNothing, ReadPage, ReadPipesFail, Launch, WriteNothing,
          WriteActive, WriteLast, WriteCloses, TimeoutConn, Reads, Writes, Take, LoopTypes
<1>5. CASE HandleSignal \/ HandleNothing \/ NewConnection \/ DropStale \/ EndConns
    BY <1>1, <1>5 DEF HandleSignal, HandleNothing, NewConnection, DropStale, EndConns,
          Take, LoopTypes
<1>6. CASE AcceptFails
    BY <1>1, <1>6 DEF AcceptFails, LoopTypes
<1>7. CASE \E p \in Peers: Knock(p) \/ Ask(p) \/ Leave(p)
    BY <1>1, <1>7 DEF Knock, Ask, Leave, OfServer, LoopTypes
<1>8. CASE \E k \in Pids: Exit(k)
    BY <1>1, <1>8 DEF Exit, OfServer, LoopTypes
<1>9. CASE UNCHANGED vars
    BY <1>1, <1>9 DEF vars, LoopTypes
<1>10. QED
    BY <1>2, <1>3, <1>4, <1>5, <1>6, <1>7, <1>8, <1>9 DEF Next, Server

LEMMA TypeStep ==
    ASSUME TypeInv, [Next]_vars
    PROVE  TypeInv'
<1>1. TableTypes /\ LoopTypes /\ KidInv
    BY DEF TypeInv
<1> SUFFICES TableTypes'
    BY <1>1, TypesOfLoop, KidStep DEF TypeInv
<1>2. CASE HandleSignal
    BY <1>1, <1>2, CleanupType DEF HandleSignal, TableTypes
<1>3. CASE AcceptFails
  <2>1. open' \in [Fds -> Files] /\ poll' \in [Fds -> Interests]
      BY <1>1, <1>3, CloseType DEF AcceptFails, TableTypes
  <2>2. QED
      BY <1>1, <1>3, <2>1, ForgetType, NoConnFacts
      DEF AcceptFails, TableTypes
<1>4. CASE NewConnection
  <2>1. PICK fd \in [Knocking -> {f \in Free: Below(f) < Cardinality(Knocking)}]:
         /\ open' = [f \in Fds |-> IF \E p \in Knocking: fd[p] = f
                                   THEN File("sock", CHOOSE p \in Knocking: fd[p] = f)
                                   ELSE open[f]]
         /\ poll' = [f \in Fds |-> IF \E p \in Knocking: fd[p] = f THEN "r" ELSE poll[f]]
         /\ conn' = [p \in Peers |-> IF p \in Knocking THEN [NoConn EXCEPT !.fd = fd[p]]
                                     ELSE conn[p]]
      BY <1>4 DEF NewConnection
  <2>2. \A p \in Knocking: p \in Peers /\ fd[p] \in Fds
      BY <2>1 DEF Knocking, Free
  <2>3. \A f \in Fds: [NoConn EXCEPT !.fd = f] \in Conn
      BY DEF NoConn, Conn
  <2>4. open' \in [Fds -> Files] /\ poll' \in [Fds -> Interests]
      BY <1>1, <2>1, <2>2, FileFacts DEF TableTypes, Interests
  <2>5. conn' \in [Peers -> Conn]
      BY <1>1, <2>1, <2>2, <2>3 DEF TableTypes
  <2>6. QED
      BY <1>1, <1>4, <2>4, <2>5 DEF NewConnection, TableTypes, maps
<1>5. CASE Wait \/ HandleNothing \/ DropStale \/ EndConns
    BY <1>1, <1>5 DEF Wait, HandleNothing, DropStale, EndConns, TableTypes, maps
<1>6. CASE \E p \in Peers: Knock(p) \/ Ask(p) \/ Leave(p)
    BY <1>1, <1>6 DEF Knock, Ask, Leave, OfServer, TableTypes, maps
<1>7. CASE \E k \in Pids: Exit(k)
    BY <1>1, <1>7 DEF Exit, OfServer, TableTypes, maps
<1>8. CASE UNCHANGED vars
    BY <1>1, <1>8 DEF vars, TableTypes, maps
<1>9. QED
    BY <1>2, <1>3, <1>4, <1>5, <1>6, <1>7, <1>8, TypesOfProc, TypesOfPeer DEF Next, Server

LEMMA TypeInit == Init => TypeInv
<1>1. SUFFICES ASSUME Init PROVE TableTypes /\ LoopTypes
    BY KidInit DEF TypeInv
<1>2. open \in [Fds -> Files] /\ poll \in [Fds -> Interests] /\ conn \in [Peers -> Conn]
    BY <1>1, FileFacts, NoConnFacts DEF Init, Interests
<1>3. QED
    BY <1>1, <1>2 DEF Init, TableTypes, LoopTypes

\* Descriptors, maps, objects and events keep their types.
THEOREM TypesCorrect == Spec => []TypeOK
<1>1. TypeInv => TypeOK
    BY DEF TypeInv, TypeOK, TableTypes, LoopTypes, KidInv, Interests
<1>2. TypeInv /\ [Next]_vars => TypeInv'
    BY TypeStep
<1>3. QED
    BY <1>1, <1>2, TypeInit, PTL DEF Spec

-----------------------------------------------------------------------------
(* The tables and the descriptors behind them *)

\* The process object l: its connection is open, and its ends are pipes of it.
ProcWired(l) ==
    /\ proc[l].client = Nil => proc[l] = NoProc
    /\ proc[l].client # Nil => proc[l].pid # Nil /\ proc[l].stdout # NoFd
                               /\ conn[proc[l].client].fd # NoFd
    /\ proc[l].stdin # NoFd => open[proc[l].stdin] = File("stdin", l)
    /\ proc[l].stdout # NoFd => open[proc[l].stdout] = File("stdout", l)
    /\ proc[l].stderr # NoFd => open[proc[l].stderr] = File("stderr", l)

\* What the maps hold for the descriptor f and the process object l.
Mapped(f, l) ==
    /\ <<f, l>> \in processes <=> proc[l].stdout = f
    /\ <<f, l>> \in stdin_map <=> proc[l].stdin = f
    /\ <<f, l>> \in stderr_map <=> proc[l].stderr = f
    /\ <<f, l>> \in client_map <=> proc[l].client # Nil /\ conn[proc[l].client].fd = f

\* What Owned says, one kind after the other.
OwnedFd(f) ==
    /\ open[f].kind = "nothing" => poll[f] = "off"
    /\ open[f].kind = "lost" => poll[f] = "off"
    /\ open[f].kind = "listen" => f = Listen /\ poll[f] = "r"
    /\ open[f].kind = "signal" => f = SignalPipe /\ poll[f] = "r"
    /\ open[f].kind = "sock" => conn[open[f].of].fd = f /\ poll[f] # "off"
    /\ open[f].kind = "stdin" => proc[open[f].of].stdin = f /\ poll[f] = "w"
    /\ open[f].kind = "stdout" => proc[open[f].of].stdout = f /\ poll[f] = "r"
    /\ open[f].kind = "stderr" => proc[open[f].of].stderr = f /\ poll[f] = "r"

\* The client p: its socket, and a request is read only when no script runs.
PeerWired(p) ==
    /\ conn[p].fd # NoFd => open[conn[p].fd] = File("sock", p)
    /\ conn[p].active <=> \E l \in Procs: proc[l].client = p
    /\ peer[p] \in {"away", "knocks"} => conn[p].fd = NoFd
    /\ peer[p] \in {"quiet", "asks"} => ~conn[p].active

Wired ==
    /\ \A l \in Procs: ProcWired(l)
    /\ \A f \in Fds, l \in Procs: Mapped(f, l)
    /\ \A f \in Fds: OwnedFd(f)
    /\ \A p \in Peers: PeerWired(p)
    /\ \A l, m \in Procs: proc[l].client # Nil /\ proc[l].client = proc[m].client => l = m

WireInv == TypeInv /\ Wired

LEMMA FdFacts == NoFd \notin Fds /\ Nil \notin Peers /\ Nil \notin Procs /\ Nil \notin Pids
BY TableAssumption DEF NoFd, Fds

\* Two kinds of files, or files of two owners, are not the same.
LEMMA FileFields ==
    \A kind, x: File(kind, x).kind = kind /\ File(kind, x).of = x
BY DEF File

LEMMA WiredTypes ==
    ASSUME TypeInv
    PROVE  /\ \A l \in Procs: /\ proc[l].client \in Peers \cup {Nil}
                              /\ proc[l].stdin \in Fds \cup {NoFd}
                              /\ proc[l].stdout \in Fds \cup {NoFd}
                              /\ proc[l].stderr \in Fds \cup {NoFd}
           /\ \A p \in Peers: conn[p].fd \in Fds \cup {NoFd} /\ conn[p].active \in BOOLEAN
           /\ \A f \in Fds: open[f] \in Files /\ poll[f] \in Interests
BY DEF TypeInv, TableTypes, KidInv, Proc, Conn

\* A socket is of a client, a pipe of a process object.
LEMMA OwnerFacts ==
    ASSUME NEW x \in Files
    PROVE  /\ x.kind = "sock" => x.of \in Peers
           /\ x.kind \in {"stdin", "stdout", "stderr"} => x.of \in Procs
           /\ x.kind \in {"nothing", "listen", "signal", "lost", "sock",
                          "stdin", "stdout", "stderr"}
BY DEF Files

LEMMA NoProcFields ==
    /\ NoProc.stdin = NoFd /\ NoProc.stdout = NoFd /\ NoProc.stderr = NoFd
    /\ NoProc.client = Nil /\ NoProc.pid = Nil
BY DEF NoProc

LEMMA EndsFacts ==
    ASSUME TypeInv, Wired, NEW l \in Procs, NEW f \in Fds
    PROVE  /\ f \in Ends(l) <=> proc[l].stdin = f \/ proc[l].stdout = f \/ proc[l].stderr = f
           /\ f \in Ends(l) => open[f].of = l /\ open[f].kind \in {"stdin", "stdout", "stderr"}
<1>1. f \in Ends(l) <=> proc[l].stdin = f \/ proc[l].stdout = f \/ proc[l].stderr = f
    BY FdFacts DEF Ends
<1>2. QED
    BY <1>1, FdFacts, FileFields DEF Wired, ProcWired

LEMMA SocketFacts ==
    ASSUME Wired, NEW p \in Peers, NEW f \in Fds, conn[p].fd = f
    PROVE  open[f].kind = "sock" /\ open[f].of = p /\ poll[f] # "off"
BY FdFacts, FileFields DEF Wired, PeerWired, OwnedFd

\* Steps that close nothing and open nothing.
LEMMA RestKeepsWired ==
    ASSUME TypeInv, TypeInv', Wired,
           UNCHANGED <<open, processes, stdin_map, stderr_map, client_map>>,
           \A f \in Fds: IF \E p \in Peers: conn[p].fd = f THEN poll'[f] # "off"
                         ELSE poll'[f] = poll[f],
           \A p \in Peers: conn'[p].fd = conn[p].fd /\ (conn'[p].active <=> conn[p].active),
           \A p \in Peers: peer'[p] \in {"away", "knocks"} => peer[p] \in {"away", "knocks"},
           \A p \in Peers: peer'[p] \in {"quiet", "asks"} =>
                               peer[p] \in {"quiet", "asks"} \/ ~conn[p].active,
           \A l \in Procs: /\ proc'[l].client = proc[l].client /\ proc'[l].pid = proc[l].pid
                           /\ proc'[l].stdin = proc[l].stdin
                           /\ proc'[l].stdout = proc[l].stdout
                           /\ proc'[l].stderr = proc[l].stderr
                           /\ proc[l].client = Nil => proc'[l] = proc[l]
    PROVE  Wired'
<1>1. \A l \in Procs: ProcWired(l)'
    BY WiredTypes, FdFacts DEF Wired, ProcWired
<1>2. \A f \in Fds, l \in Procs: Mapped(f, l)'
  <2>1. TAKE f \in Fds, l \in Procs
  <2>2. Mapped(f, l) /\ proc[l].client \in Peers \cup {Nil}
      BY WiredTypes DEF Wired
  <2>3. CASE proc[l].client = Nil
      BY <2>2, <2>3 DEF Mapped
  <2>4. CASE proc[l].client \in Peers
      BY <2>2, <2>4 DEF Mapped
  <2>5. QED
      BY <2>2, <2>3, <2>4
<1>3. \A f \in Fds: OwnedFd(f)'
  <2>1. TAKE f \in Fds
  <2>2. open[f].kind # "sock" => \A p \in Peers: conn[p].fd # f
      BY WiredTypes, FdFacts, FileFields DEF Wired, PeerWired
  <2>3. QED
      BY <2>2, WiredTypes, OwnerFacts DEF Wired, OwnedFd
<1>4. \A p \in Peers: PeerWired(p)'
    BY WiredTypes DEF Wired, PeerWired
<1>5. QED
    BY <1>1, <1>2, <1>3, <1>4 DEF Wired

\* The ends of process objects and connections, L and Q: S are the descriptors
\* that are closed, i the interest in the others.
EndsWith(L, Q, S, i) ==
    /\ L \in SUBSET {l \in Procs: Live(l)} /\ Q \in SUBSET Peers
    /\ Forget(L) /\ Close(S, i)
    /\ \A l \in Procs: proc[l].client \in Q => l \in L
    /\ \A p \in Q: conn'[p] = NoConn
    /\ \A p \in Peers \ Q: /\ conn'[p].fd = conn[p].fd
                           /\ conn'[p].active <=> /\ conn[p].active
                                                  /\ \A l \in L: proc[l].client # p
                           /\ peer'[p] \in {"away", "knocks"} => peer[p] \in {"away", "knocks"}
    /\ \A p \in Peers: peer'[p] \in {"quiet", "asks"} =>
                           peer[p] \in {"quiet", "asks"} \/ ~conn'[p].active
    /\ \A f \in Fds: f \in S <=> \/ \E l \in L: f \in Ends(l)
                                 \/ \E p \in Q: conn[p].fd = f
    /\ \A f \in Fds: IF \E p \in Peers: conn[p].fd = f THEN i[f] # "off" ELSE i[f] = poll[f]

LEMMA EndKeepsWired ==
    ASSUME TypeInv, TypeInv', Wired, NEW L, NEW Q, NEW S, NEW i, EndsWith(L, Q, S, i)
    PROVE  Wired'
<1> USE DEF EndsWith
<1>1. /\ \A l \in Procs: proc'[l] = IF l \in L THEN NoProc ELSE proc[l]
      /\ \A l \in L: l \in Procs /\ proc[l].client \in Peers
    BY ForgetFacts, WiredTypes DEF TypeInv, KidInv, Live, Wired, ProcWired
<1>2. \A f \in Fds: /\ open'[f] = IF f \in S THEN Nothing ELSE open[f]
                    /\ poll'[f] = IF f \in S THEN "off" ELSE i[f]
    BY DEF Close
<1>3. \A l \in Procs, f \in Fds: l \notin L /\ f \in Ends(l) => f \notin S
  <2>1. SUFFICES ASSUME NEW l \in Procs, NEW f \in Fds, l \notin L, f \in Ends(l), f \in S
                 PROVE  FALSE
      OBVIOUS
  <2>2. open[f].of = l /\ open[f].kind \in {"stdin", "stdout", "stderr"}
      BY <2>1, EndsFacts
  <2>3. \A m \in L: f \notin Ends(m)
      BY <1>1, <2>1, <2>2, EndsFacts
  <2>4. \A p \in Q: conn[p].fd # f
      BY <2>2, SocketFacts
  <2>5. QED
      BY <2>1, <2>3, <2>4
<1>4. \A p \in Peers, f \in Fds: p \notin Q /\ conn[p].fd = f => f \notin S
  <2>1. SUFFICES ASSUME NEW p \in Peers, NEW f \in Fds, p \notin Q, conn[p].fd = f, f \in S
                 PROVE  FALSE
      OBVIOUS
  <2>2. open[f].of = p /\ open[f].kind = "sock"
      BY <2>1, SocketFacts
  <2>3. \A m \in L: f \notin Ends(m)
      BY <1>1, <2>2, EndsFacts
  <2>4. \A q \in Q: conn[q].fd # f
      BY <2>1, <2>2, SocketFacts
  <2>5. QED
      BY <2>1, <2>3, <2>4
<1>5. \A l \in Procs: l \notin L /\ proc[l].client # Nil =>
          proc[l].client \in Peers \ Q /\ conn'[proc[l].client].fd = conn[proc[l].client].fd
    BY WiredTypes
<1>6. \A l \in Procs: ProcWired(l)'
  <2>1. TAKE l \in Procs
  <2>2. CASE l \in L
      BY <1>1, <2>2, NoProcFields DEF ProcWired
  <2>3. CASE l \notin L
    <3>1. ProcWired(l) /\ proc'[l] = proc[l]
        BY <1>1, <2>3 DEF Wired
    <3>2. \A f \in Fds: f \in {proc[l].stdin, proc[l].stdout, proc[l].stderr} =>
              open'[f] = open[f]
        BY <1>2, <1>3, <2>3, EndsFacts
    <3>3. proc[l].stdin \in Fds \cup {NoFd} /\ proc[l].stdout \in Fds \cup {NoFd}
          /\ proc[l].stderr \in Fds \cup {NoFd}
        BY WiredTypes
    <3>4. QED
        BY <1>5, <2>3, <3>1, <3>2, <3>3 DEF ProcWired
  <2>4. QED
      BY <2>2, <2>3
<1>7. \A f \in Fds, m \in Procs: Mapped(f, m)'
  <2>1. TAKE f \in Fds, m \in Procs
  <2>2. Mapped(f, m)
      BY DEF Wired
  <2>3. /\ <<f, m>> \in processes' <=> /\ <<f, m>> \in processes
                                       /\ \A l \in L: proc[l].stdout # f
        /\ <<f, m>> \in stdin_map' <=> /\ <<f, m>> \in stdin_map
                                       /\ \A l \in L: proc[l].stdin # f
        /\ <<f, m>> \in stderr_map' <=> /\ <<f, m>> \in stderr_map
                                        /\ \A l \in L: proc[l].stderr # f
        /\ <<f, m>> \in client_map' <=> /\ <<f, m>> \in client_map
                                        /\ \A l \in L: conn[proc[l].client].fd # f
      BY DEF Forget, Erase
  <2>4. CASE m \in L
      BY <1>1, <2>2, <2>3, <2>4, NoProcFields, FdFacts DEF Mapped
  <2>5. CASE m \notin L
    <3>1. proc'[m] = proc[m]
        BY <1>1, <2>5
    <3>2. \A l \in L: f \notin Ends(l) \/ f \notin Ends(m)
        BY <1>3, <2>5
    <3>3. proc[m].client # Nil /\ conn[proc[m].client].fd = f =>
              \A l \in L: conn[proc[l].client].fd # f
      <4>1. SUFFICES ASSUME proc[m].client # Nil, conn[proc[m].client].fd = f,
                            NEW l \in L, conn[proc[l].client].fd = f
                     PROVE  FALSE
          OBVIOUS
      <4>2. proc[m].client \in Peers /\ proc[l].client \in Peers
          BY <1>1, <4>1, WiredTypes
      <4>3. proc[m].client = proc[l].client
          BY <4>1, <4>2, SocketFacts
      <4>4. QED
          BY <1>1, <2>5, <4>1, <4>3 DEF Wired
    <3>4. /\ proc[m].stdout = f => \A l \in L: proc[l].stdout # f
          /\ proc[m].stdin = f => \A l \in L: proc[l].stdin # f
          /\ proc[m].stderr = f => \A l \in L: proc[l].stderr # f
        BY <3>2, EndsFacts
    <3>5. proc[m].client # Nil => conn'[proc[m].client].fd = conn[proc[m].client].fd
        BY <1>5, <2>5
    <3>6. QED
        BY <2>2, <2>3, <3>1, <3>3, <3>4, <3>5 DEF Mapped
  <2>6. QED
      BY <2>4, <2>5
<1>8. \A f \in Fds: OwnedFd(f)'
  <2>1. TAKE f \in Fds
  <2>2. OwnedFd(f) /\ open[f] \in Files
      BY WiredTypes DEF Wired
  <2>3. CASE f \in S
      BY <1>2, <2>3, FileFacts DEF OwnedFd
  <2>4. CASE f \notin S
    <3>1. open'[f] = open[f] /\ poll'[f] = i[f]
        BY <1>2, <2>4
    <3>2. open[f].kind = "sock" => conn'[open[f].of].fd = f /\ i[f] # "off"
        BY <2>2, <2>4, OwnerFacts DEF OwnedFd
    <3>3. open[f].kind # "sock" => i[f] = poll[f]
        BY SocketFacts
    <3>4. open[f].kind = "stdin" => proc'[open[f].of].stdin = f
        BY <1>1, <2>2, <2>4, OwnerFacts, EndsFacts DEF OwnedFd
    <3>5. open[f].kind = "stdout" => proc'[open[f].of].stdout = f
        BY <1>1, <2>2, <2>4, OwnerFacts, EndsFacts DEF OwnedFd
    <3>6. open[f].kind = "stderr" => proc'[open[f].of].stderr = f
        BY <1>1, <2>2, <2>4, OwnerFacts, EndsFacts DEF OwnedFd
    <3>7. QED
        BY <2>2, <3>1, <3>2, <3>3, <3>4, <3>5, <3>6 DEF OwnedFd
  <2>5. QED
      BY <2>3, <2>4
<1>11. \A p \in Peers: PeerWired(p)'
  <2>1. TAKE p \in Peers
  <2>2. PeerWired(p)
      BY DEF Wired
  <2>3. CASE p \in Q
    <3>1. \A l \in Procs: proc'[l].client # p
        BY <1>1, <2>3, NoProcFields, FdFacts
    <3>2. QED
        BY <2>3, <3>1, NoConnFacts DEF PeerWired
  <2>4. CASE p \notin Q
    <3>1. conn'[p].fd = conn[p].fd /\ (conn[p].fd # NoFd => open'[conn[p].fd] = open[conn[p].fd])
        BY <1>2, <1>4, <2>4, WiredTypes
    <3>2. (\E l \in Procs: proc'[l].client = p) <=>
              (\E l \in Procs: proc[l].client = p) /\ \A l \in L: proc[l].client # p
        BY <1>1, NoProcFields, FdFacts DEF Wired
    <3>3. QED
        BY <2>2, <2>4, <3>1, <3>2 DEF PeerWired
  <2>5. QED
      BY <2>3, <2>4
<1>9. \A l, m \in Procs: proc'[l].client # Nil /\ proc'[l].client = proc'[m].client => l = m
    BY <1>1, NoProcFields DEF Wired
<1>10. QED
    BY <1>6, <1>7, <1>8, <1>9, <1>11 DEF Wired

LEMMA InterestWired ==
    ASSUME TypeInv, Wired, NEW P \in SUBSET Peers, NEW c, NEW f \in Fds
    PROVE  IF \E p \in Peers: conn[p].fd = f THEN Interest(P, c)[f] # "off"
           ELSE Interest(P, c)[f] = poll[f]
<1>1. \A p \in Peers: conn[p].fd = f => poll[f] # "off"
    BY SocketFacts
<1>2. Interest(P, c)[f] \in {"w", "r", poll[f]}
      /\ ((\A p \in P: conn[p].fd # f) => Interest(P, c)[f] = poll[f])
    BY DEF Interest
<1>3. QED
    BY <1>1, <1>2

LEMMA CleanupKeepsWired ==
    ASSUME TypeInv, TypeInv', Wired, NEW L \in SUBSET {l \in Procs: Live(l)},
           NEW c \in [Peers -> Conn], NEW kept \in BOOLEAN,
           \A p \in Peers: c[p].fd = conn[p].fd /\ (c[p].active <=> conn[p].active),
           Cleanup(L, c, kept)
    PROVE  Wired'
<1> DEFINE P == {proc[l].client: l \in L}
           d == [p \in Peers |->
                   IF p \in P THEN [c[p] EXCEPT !.active = FALSE, !.out = @ \/ ~kept]
                   ELSE c[p]]
           S == UNION {Ends(l): l \in L}
<1>1. conn' = d /\ Close(S, Interest(P, d)) /\ Forget(L)
    BY DEF Cleanup
<1>2. peer' = [p \in Peers |-> IF p \in P /\ ~d[p].out /\ peer[p] = "waits"
                               THEN "quiet" ELSE peer[p]]
    BY DEF Cleanup
<1>3. \A l \in L: l \in Procs /\ proc[l].client \in Peers
    BY WiredTypes DEF Live, Wired, ProcWired
<1>4. \A p \in Peers: /\ d[p].fd = conn[p].fd
                      /\ p \in P => ~d[p].active
                      /\ p \notin P => (d[p].active <=> conn[p].active)
    BY CleanedType
<1>5. P \subseteq Peers /\ \A p \in Peers: p \in P <=> \E l \in L: proc[l].client = p
    BY <1>3
<1>6. \A f \in Fds: f \in S <=> \E l \in L: f \in Ends(l)
    OBVIOUS
<1>7. Interest(P, d) \in [Fds -> Interests]
    BY InterestType DEF TypeInv, TableTypes
<1> HIDE DEF P, d, S
<1>8. \A f \in Fds: IF \E p \in Peers: conn[p].fd = f THEN Interest(P, d)[f] # "off"
                    ELSE Interest(P, d)[f] = poll[f]
    BY <1>5, InterestWired
<1>9. \A p \in Peers: /\ conn'[p].fd = conn[p].fd
                      /\ conn'[p].active <=> /\ conn[p].active
                                             /\ \A l \in L: proc[l].client # p
    BY <1>1, <1>4, <1>5
<1>10. \A p \in Peers: /\ peer'[p] \in {"away", "knocks"} => peer[p] \in {"away", "knocks"}
                       /\ peer'[p] \in {"quiet", "asks"} =>
                              peer[p] \in {"quiet", "asks"} \/ ~conn'[p].active
    BY <1>1, <1>2, <1>4
<1>11. EndsWith(L, {}, S, Interest(P, d))
    BY <1>1, <1>6, <1>8, <1>9, <1>10 DEF EndsWith
<1>12. QED
    BY <1>11, EndKeepsWired

LEMMA CloseKeepsWired ==
    ASSUME TypeInv, TypeInv', Wired, NEW p \in Peers, conn[p].fd \in Fds, CloseClient(p)
    PROVE  Wired'
<1> DEFINE L == ProcsOf(p)
           S == (UNION {Ends(l): l \in L}) \cup {conn[p].fd}
           Q == {p}
<1>1. \A l \in Procs: l \in L <=> proc[l].client = p
  <2>1. TAKE l \in Procs
  <2>2. l \in L <=> proc[l].client # Nil /\ conn[proc[l].client].fd = conn[p].fd
      BY DEF ProcsOf, Wired, Mapped
  <2>3. proc[l].client # Nil /\ conn[proc[l].client].fd = conn[p].fd => proc[l].client = p
      BY WiredTypes, SocketFacts
  <2>4. QED
      BY <2>2, <2>3, FdFacts
<1>2. L \in SUBSET {l \in Procs: Live(l)}
    BY <1>1, NoProcFields, FdFacts DEF ProcsOf, Live
<1>3. \A f \in Fds: f \in S <=> (\E l \in L: f \in Ends(l)) \/ conn[p].fd = f
  <2> DEFINE U == UNION {Ends(l): l \in L}
  <2>1. \A f: f \in U <=> \E l \in L: f \in Ends(l)
    <3> HIDE DEF L
    <3>1. QED
        OBVIOUS
  <2>2. \A f: f \in S <=> f \in U \/ f = conn[p].fd
    <3> HIDE DEF U
    <3>1. S = U \cup {conn[p].fd}
        BY DEF U
    <3>2. QED
        BY <3>1
  <2> HIDE DEF S, U, L
  <2>3. QED
      BY <2>1, <2>2
<1>4. Forget(L) /\ Close(S, poll)
    BY DEF CloseClient
<1>5. /\ Q \in SUBSET Peers
      /\ \A l \in Procs: proc[l].client \in Q => l \in L
      /\ \A q \in Q: conn'[q] = NoConn
      /\ \A q \in Peers \ Q: conn'[q] = conn[q] /\ peer'[q] = peer[q]
                             /\ \A l \in L: proc[l].client # q
      /\ \A q \in Q: peer'[q] = "away"
    BY <1>1 DEF CloseClient, TypeInv, TableTypes, ProcsOf
<1>6. \A f \in Fds: IF \E q \in Peers: conn[q].fd = f THEN poll[f] # "off"
                    ELSE poll[f] = poll[f]
    BY SocketFacts
<1> HIDE DEF L, S
<1>7. \A f \in Fds: f \in S <=> \/ \E l \in L: f \in Ends(l)
                                \/ \E q \in Q: conn[q].fd = f
    BY <1>3
<1> HIDE DEF Q
<1>8. /\ \A q \in Peers \ Q: /\ conn'[q].fd = conn[q].fd
                             /\ conn'[q].active <=> /\ conn[q].active
                                                    /\ \A l \in L: proc[l].client # q
                             /\ peer'[q] \in {"away", "knocks"} => peer[q] \in {"away", "knocks"}
      /\ \A q \in Peers: peer'[q] \in {"quiet", "asks"} =>
                             peer[q] \in {"quiet", "asks"} \/ ~conn'[q].active
    BY <1>5
<1>9. EndsWith(L, Q, S, poll)
    BY <1>2, <1>4, <1>5, <1>6, <1>7, <1>8 DEF EndsWith
<1>10. QED
    BY <1>9, EndKeepsWired

\* An event for a pipe is for an object that has it.
LEMMA MappedFacts ==
    ASSUME Wired, NEW f \in Fds, NEW l \in Procs
    PROVE  /\ <<f, l>> \in processes => Live(l) /\ proc[l].stdout = f
           /\ <<f, l>> \in stdin_map => Live(l) /\ proc[l].stdin = f
           /\ <<f, l>> \in stderr_map => Live(l) /\ proc[l].stderr = f
BY FdFacts, NoProcFields DEF Wired, Mapped, Live

LEMMA StdinKeepsWired ==
    ASSUME TypeInv, TypeInv', Wired, NEW l \in Procs, HandleStdin(l)
    PROVE  Wired'
<1>1. PICK e \in batch: <<e.fd, l>> \in stdin_map
    BY DEF HandleStdin
<1> DEFINE f == proc[l].stdin
<1>2. f \in Fds /\ open[f].kind = "stdin" /\ open[f].of = l /\ proc[l].client # Nil
    BY <1>1, EventFacts, MappedFacts, EndsFacts, FdFacts, FileFields DEF TypeInv, Wired, ProcWired, Live
<1>3. /\ proc' = [proc EXCEPT ![l].stdin = NoFd] /\ proc \in [Procs -> Proc]
      /\ UNCHANGED <<conn, processes, stderr_map, client_map, peer>>
      /\ stdin_map' = Erase(stdin_map, {f})
      /\ \A g \in Fds: /\ open'[g] = IF g = f THEN Nothing ELSE open[g]
                       /\ poll'[g] = IF g = f THEN "off" ELSE poll[g]
    BY DEF HandleStdin, Close, TypeInv, KidInv
<1>4. /\ \A m \in Procs: m # l => proc'[m] = proc[m]
      /\ proc'[l].stdin = NoFd /\ proc'[l].stdout = proc[l].stdout
      /\ proc'[l].stderr = proc[l].stderr /\ proc'[l].client = proc[l].client
      /\ proc'[l].pid = proc[l].pid
    BY <1>3 DEF Proc
<1> HIDE DEF f
<1>5. \A m \in Procs: ProcWired(m)'
    BY <1>2, <1>3, <1>4, WiredTypes, FileFields, FdFacts DEF Wired, ProcWired, f
<1>6. \A g \in Fds, m \in Procs: Mapped(g, m)'
  <2>1. TAKE g \in Fds, m \in Procs
  <2>2. Mapped(g, m)
      BY DEF Wired
  <2>3. <<g, m>> \in stdin_map' <=> <<g, m>> \in stdin_map /\ g # f
      BY <1>3 DEF Erase
  <2>4. proc'[m].client = proc[m].client /\ proc'[m].stdout = proc[m].stdout
        /\ proc'[m].stderr = proc[m].stderr
      BY <1>4
  <2>5. proc'[m].stdin = g <=> proc[m].stdin = g /\ g # f
      BY <1>2, <1>4, FdFacts, EndsFacts DEF f
  <2>6. QED
      BY <1>3, <2>2, <2>3, <2>4, <2>5 DEF Mapped
<1>7. \A g \in Fds: OwnedFd(g)'
  <2>1. TAKE g \in Fds
  <2>2. OwnedFd(g) /\ open[g] \in Files
      BY WiredTypes DEF Wired
  <2>3. CASE g = f
      BY <1>3, <2>3, FileFacts DEF OwnedFd
  <2>4. CASE g # f
      BY <1>3, <1>4, <2>2, <2>4, OwnerFacts DEF OwnedFd, f
  <2>5. QED
      BY <2>3, <2>4
<1>8. \A p \in Peers: PeerWired(p)'
  <2>1. TAKE p \in Peers
  <2>2. PeerWired(p) /\ conn[p].fd \in Fds \cup {NoFd}
      BY WiredTypes DEF Wired
  <2>3. conn[p].fd # f
      BY <1>2, SocketFacts
  <2>4. \A m \in Procs: proc'[m].client = proc[m].client
      BY <1>4
  <2>5. QED
      BY <1>3, <2>2, <2>3, <2>4 DEF PeerWired
<1>9. QED
    BY <1>4, <1>5, <1>6, <1>7, <1>8 DEF Wired

LEMMA StderrKeepsWired ==
    ASSUME TypeInv, TypeInv', Wired, NEW l \in Procs, HandleStderr(l)
    PROVE  Wired'
<1>1. PICK e \in batch: <<e.fd, l>> \in stderr_map
    BY DEF HandleStderr
<1> DEFINE f == proc[l].stderr
<1>2. f \in Fds /\ open[f].kind = "stderr" /\ open[f].of = l /\ proc[l].client # Nil
    BY <1>1, EventFacts, MappedFacts, EndsFacts, FdFacts, FileFields DEF TypeInv, Wired, ProcWired, Live
<1>3. /\ proc' = [proc EXCEPT ![l].stderr = NoFd] /\ proc \in [Procs -> Proc]
      /\ UNCHANGED <<conn, processes, stdin_map, client_map, peer>>
      /\ stderr_map' = Erase(stderr_map, {f})
      /\ \A g \in Fds: /\ open'[g] = IF g = f THEN Nothing ELSE open[g]
                       /\ poll'[g] = IF g = f THEN "off" ELSE poll[g]
    BY DEF HandleStderr, Close, TypeInv, KidInv
<1>4. /\ \A m \in Procs: m # l => proc'[m] = proc[m]
      /\ proc'[l].stderr = NoFd /\ proc'[l].stdout = proc[l].stdout
      /\ proc'[l].stdin = proc[l].stdin /\ proc'[l].client = proc[l].client
      /\ proc'[l].pid = proc[l].pid
    BY <1>3 DEF Proc
<1> HIDE DEF f
<1>5. \A m \in Procs: ProcWired(m)'
    BY <1>2, <1>3, <1>4, WiredTypes, FileFields, FdFacts DEF Wired, ProcWired, f
<1>6. \A g \in Fds, m \in Procs: Mapped(g, m)'
  <2>1. TAKE g \in Fds, m \in Procs
  <2>2. Mapped(g, m)
      BY DEF Wired
  <2>3. <<g, m>> \in stderr_map' <=> <<g, m>> \in stderr_map /\ g # f
      BY <1>3 DEF Erase
  <2>4. proc'[m].client = proc[m].client /\ proc'[m].stdout = proc[m].stdout
        /\ proc'[m].stdin = proc[m].stdin
      BY <1>4
  <2>5. proc'[m].stderr = g <=> proc[m].stderr = g /\ g # f
      BY <1>2, <1>4, FdFacts, EndsFacts DEF f
  <2>6. QED
      BY <1>3, <2>2, <2>3, <2>4, <2>5 DEF Mapped
<1>7. \A g \in Fds: OwnedFd(g)'
  <2>1. TAKE g \in Fds
  <2>2. OwnedFd(g) /\ open[g] \in Files
      BY WiredTypes DEF Wired
  <2>3. CASE g = f
      BY <1>3, <2>3, FileFacts DEF OwnedFd
  <2>4. CASE g # f
      BY <1>3, <1>4, <2>2, <2>4, OwnerFacts DEF OwnedFd, f
  <2>5. QED
      BY <2>3, <2>4
<1>8. \A p \in Peers: PeerWired(p)'
  <2>1. TAKE p \in Peers
  <2>2. PeerWired(p) /\ conn[p].fd \in Fds \cup {NoFd}
      BY WiredTypes DEF Wired
  <2>3. conn[p].fd # f
      BY <1>2, SocketFacts
  <2>4. \A m \in Procs: proc'[m].client = proc[m].client
      BY <1>4
  <2>5. QED
      BY <1>3, <2>2, <2>3, <2>4 DEF PeerWired
<1>9. QED
    BY <1>4, <1>5, <1>6, <1>7, <1>8 DEF Wired

LEMMA WiredOfProc ==
    ASSUME WireInv, TypeInv', NEW l \in Procs, OfProc(l)
    PROVE  Wired'
<1>1. TypeInv /\ Wired /\ TableTypes /\ LoopTypes
    BY DEF WireInv, TypeInv
<1>2. CASE StdoutInvalid(l) \/ StdoutEnd(l) \/ TimeoutProc(l)
  <2>1. Live(l)
      BY <1>1, <1>2, EventFacts, MappedFacts DEF StdoutInvalid, StdoutEnd, TimeoutProc
  <2>2. PICK c \in {conn, Output(l)}, kept \in BOOLEAN: Cleanup({l}, c, kept)
      BY <1>2 DEF StdoutInvalid, StdoutEnd, TimeoutProc
  <2>3. /\ c \in [Peers -> Conn]
        /\ \A p \in Peers: c[p].fd = conn[p].fd /\ (c[p].active <=> conn[p].active)
      BY <1>1, OutputType DEF TableTypes
  <2>4. {l} \in SUBSET {m \in Procs: Live(m)}
      BY <2>1
  <2>5. QED
      BY <1>1, <2>2, <2>3, <2>4, CleanupKeepsWired
<1>3. CASE StdoutOutput(l)
  <2>1. Live(l)
      BY <1>1, <1>3, EventFacts, MappedFacts DEF StdoutOutput
  <2>2. proc[l].client \in Peers /\ proc \in [Procs -> Proc]
      BY <1>1, <2>1, WiredTypes DEF Live, Wired, ProcWired, TypeInv, KidInv
  <2>3. /\ UNCHANGED <<open, processes, stdin_map, stderr_map, client_map, peer>>
        /\ poll' = Interest({proc[l].client}, Output(l))
        /\ conn' = Output(l)
        /\ proc' = [proc EXCEPT ![l].started = TRUE]
      BY <1>3 DEF StdoutOutput, maps
  <2>4. \A f \in Fds: IF \E p \in Peers: conn[p].fd = f THEN poll'[f] # "off"
                      ELSE poll'[f] = poll[f]
      BY <1>1, <2>2, <2>3, InterestWired
  <2>5. \A m \in Procs: /\ proc'[m].client = proc[m].client /\ proc'[m].pid = proc[m].pid
                        /\ proc'[m].stdin = proc[m].stdin
                        /\ proc'[m].stdout = proc[m].stdout
                        /\ proc'[m].stderr = proc[m].stderr
                        /\ proc[m].client = Nil => proc'[m] = proc[m]
      BY <2>2, <2>3, FdFacts DEF Proc
  <2>6. QED
      BY <1>1, <2>3, <2>4, <2>5, OutputType, RestKeepsWired
<1>4. QED
    BY <1>1, <1>2, <1>3, StdinKeepsWired, StderrKeepsWired DEF OfProc

\* A free descriptor is nobody's.
LEMMA FreeFacts ==
    ASSUME TypeInv, Wired, NEW f \in Free
    PROVE  /\ f \in Fds /\ poll[f] = "off"
           /\ \A p \in Peers: conn[p].fd # f
           /\ \A l \in Procs: proc[l].stdin # f /\ proc[l].stdout # f /\ proc[l].stderr # f
<1>1. f \in Fds /\ open[f] = Nothing
    BY DEF Free
<1>2. open[f].kind = "nothing"
    BY <1>1, FileFacts
<1>3. poll[f] = "off"
    BY <1>1, <1>2 DEF Wired, OwnedFd
<1>4. \A l \in Procs: f \notin Ends(l)
    BY <1>1, <1>2, EndsFacts
<1>5. QED
    BY <1>1, <1>2, <1>3, <1>4, SocketFacts, EndsFacts

LEMMA NewConnectionKeepsWired ==
    ASSUME TypeInv, TypeInv', Wired, NewConnection
    PROVE  Wired'
<1>1. PICK fd \in [Knocking -> {f \in Free: Below(f) < Cardinality(Knocking)}]:
         /\ \A p, q \in Knocking: fd[p] = fd[q] => p = q
         /\ open' = [f \in Fds |-> IF \E p \in Knocking: fd[p] = f
                                   THEN File("sock", CHOOSE p \in Knocking: fd[p] = f)
                                   ELSE open[f]]
         /\ poll' = [f \in Fds |-> IF \E p \in Knocking: fd[p] = f THEN "r" ELSE poll[f]]
         /\ conn' = [p \in Peers |-> IF p \in Knocking THEN [NoConn EXCEPT !.fd = fd[p]]
                                     ELSE conn[p]]
    BY DEF NewConnection
<1>2. /\ UNCHANGED <<processes, stdin_map, stderr_map, client_map, proc>>
      /\ \A p \in Peers: peer'[p] = IF p \in Knocking THEN "quiet" ELSE peer[p]
    BY DEF NewConnection, maps
<1>3. \A p \in Knocking: /\ p \in Peers /\ fd[p] \in Free /\ fd[p] \in Fds
                         /\ conn[p].fd = NoFd /\ ~conn[p].active
                         /\ \A l \in Procs: proc[l].client # p
  <2>1. TAKE p \in Knocking
  <2>2. p \in Peers /\ peer[p] = "knocks" /\ fd[p] \in Free
      BY <1>1 DEF Knocking
  <2>3. conn[p].fd = NoFd /\ PeerWired(p)
      BY <2>2 DEF Wired, PeerWired
  <2>4. \A l \in Procs: proc[l].client # p
      BY <2>2, <2>3, FdFacts DEF Wired, ProcWired
  <2>5. QED
      BY <2>2, <2>3, <2>4, FreeFacts DEF PeerWired
<1>4. \A p \in Knocking: /\ open'[fd[p]] = File("sock", p) /\ poll'[fd[p]] = "r"
                         /\ conn'[p].fd = fd[p] /\ ~conn'[p].active
  <2>1. TAKE p \in Knocking
  <2>2. (CHOOSE q \in Knocking: fd[q] = fd[p]) = p
      BY <1>1
  <2>3. open'[fd[p]] = File("sock", p) /\ poll'[fd[p]] = "r"
      BY <1>1, <1>3, <2>2
  <2>4. conn'[p] = [NoConn EXCEPT !.fd = fd[p]]
      BY <1>1, <1>3
  <2>5. QED
      BY <2>3, <2>4 DEF NoConn
<1>5. \A f \in Fds: (\A p \in Knocking: fd[p] # f) => open'[f] = open[f] /\ poll'[f] = poll[f]
    BY <1>1
<1>6. \A p \in Peers: p \notin Knocking => conn'[p] = conn[p]
    BY <1>1
<1>7. \A l \in Procs: proc[l].client # Nil =>
          proc[l].client \in Peers /\ conn'[proc[l].client] = conn[proc[l].client]
    BY <1>3, <1>6, WiredTypes
<1>8. \A l \in Procs: ProcWired(l)'
  <2>1. TAKE l \in Procs
  <2>2. \A f \in Fds: f \in {proc[l].stdin, proc[l].stdout, proc[l].stderr} => open'[f] = open[f]
      BY <1>3, <1>5, FreeFacts
  <2>3. ProcWired(l)
      BY DEF Wired
  <2>4. QED
      BY <1>2, <1>7, <2>2, <2>3, WiredTypes DEF ProcWired
<1>9. \A f \in Fds, l \in Procs: Mapped(f, l)'
  <2>1. TAKE f \in Fds, l \in Procs
  <2>2. Mapped(f, l)
      BY DEF Wired
  <2>3. QED
      BY <1>2, <1>7, <2>2 DEF Mapped
<1>10. \A f \in Fds: OwnedFd(f)'
  <2>1. TAKE f \in Fds
  <2>2. CASE \E p \in Knocking: fd[p] = f
      BY <1>4, <2>2, FileFields DEF OwnedFd
  <2>3. CASE \A p \in Knocking: fd[p] # f
    <3>1. open'[f] = open[f] /\ poll'[f] = poll[f] /\ OwnedFd(f) /\ open[f] \in Files
        BY <1>5, <2>3, WiredTypes DEF Wired
    <3>2. open[f].kind = "sock" => conn'[open[f].of] = conn[open[f].of]
        BY <1>3, <1>6, <3>1, OwnerFacts, FdFacts DEF OwnedFd
    <3>3. QED
        BY <1>2, <3>1, <3>2 DEF OwnedFd
  <2>4. QED
      BY <2>2, <2>3
<1>11. \A p \in Peers: PeerWired(p)'
  <2>1. TAKE p \in Peers
  <2>2. CASE p \in Knocking
      BY <1>2, <1>3, <1>4, <2>2 DEF PeerWired
  <2>3. CASE p \notin Knocking
    <3>1. conn'[p] = conn[p] /\ peer'[p] = peer[p] /\ PeerWired(p)
        BY <1>2, <1>6, <2>3 DEF Wired
    <3>2. conn[p].fd # NoFd => open'[conn[p].fd] = open[conn[p].fd]
        BY <1>3, <1>5, FreeFacts, WiredTypes
    <3>3. QED
        BY <1>2, <3>1, <3>2 DEF PeerWired
  <2>4. QED
      BY <2>2, <2>3
<1>12. QED
    BY <1>2, <1>8, <1>9, <1>10, <1>11 DEF Wired

\* The ends of the pipes that a failed launch leaves open are nobody's.
LEMMA PipesFailKeepsWired ==
    ASSUME TypeInv, TypeInv', Wired, NEW p \in Peers, ReadPipesFail(p)
    PROVE  Wired'
<1> DEFINE lost(f) == f \in Free /\ Below(f) < 2 * (Cardinality(Free) \div 2)
<1>1. /\ UNCHANGED <<processes, stdin_map, stderr_map, client_map, proc>>
      /\ \A f \in Fds: open'[f] = IF lost(f) THEN File("lost", Nil) ELSE open[f]
      /\ conn' = Answer(p) /\ poll' = Interest({p}, Answer(p))
      /\ \A q \in Peers: peer'[q] = IF q = p THEN "waits" ELSE peer[q]
    BY DEF ReadPipesFail, maps, TypeInv, TableTypes
<1>2. \A f \in Fds: lost(f) => f \in Free
    OBVIOUS
<1> HIDE DEF lost
<1>3. \A q \in Peers: conn'[q].fd = conn[q].fd /\ (conn'[q].active <=> conn[q].active)
    BY <1>1, AnswerType DEF TypeInv
<1>4. \A f \in Fds: IF \E q \in Peers: conn[q].fd = f THEN poll'[f] # "off"
                    ELSE poll'[f] = poll[f]
    BY <1>1, InterestWired
<1>5. \A l \in Procs: ProcWired(l)'
  <2>1. TAKE l \in Procs
  <2>2. \A f \in Fds: f \in {proc[l].stdin, proc[l].stdout, proc[l].stderr} => open'[f] = open[f]
      BY <1>1, <1>2, FreeFacts
  <2>3. ProcWired(l)
      BY DEF Wired
  <2>4. QED
      BY <1>1, <1>3, <2>2, <2>3, WiredTypes DEF ProcWired
<1>6. \A f \in Fds, l \in Procs: Mapped(f, l)'
  <2>1. TAKE f \in Fds, l \in Procs
  <2>2. Mapped(f, l) /\ proc[l].client \in Peers \cup {Nil}
      BY WiredTypes DEF Wired
  <2>3. proc[l].client # Nil => conn'[proc[l].client].fd = conn[proc[l].client].fd
      BY <1>3, <2>2
  <2>4. QED
      BY <1>1, <2>2, <2>3 DEF Mapped
<1>7. \A f \in Fds: OwnedFd(f)'
  <2>1. TAKE f \in Fds
  <2>2. OwnedFd(f) /\ open[f] \in Files
      BY WiredTypes DEF Wired
  <2>3. CASE lost(f)
    <3>1. open'[f] = File("lost", Nil) /\ poll'[f] = "off"
        BY <1>1, <1>2, <1>4, <2>3, FreeFacts
    <3>2. QED
        BY <3>1, FileFields DEF OwnedFd
  <2>4. CASE ~lost(f)
    <3>1. open'[f] = open[f]
        BY <1>1, <2>4
    <3>2. open[f].kind = "sock" => conn'[open[f].of].fd = f /\ poll'[f] # "off"
        BY <1>3, <1>4, <2>2, OwnerFacts DEF OwnedFd
    <3>3. open[f].kind # "sock" => poll'[f] = poll[f]
        BY <1>4, SocketFacts
    <3>4. QED
        BY <1>1, <2>2, <3>1, <3>2, <3>3 DEF OwnedFd
  <2>5. QED
      BY <2>3, <2>4
<1>8. \A q \in Peers: PeerWired(q)'
  <2>1. TAKE q \in Peers
  <2>2. conn[q].fd # NoFd => open'[conn[q].fd] = open[conn[q].fd]
      BY <1>1, <1>2, FreeFacts, WiredTypes
  <2>3. QED
      BY <1>1, <1>3, <2>2 DEF Wired, PeerWired
<1>9. QED
    BY <1>1, <1>5, <1>6, <1>7, <1>8 DEF Wired

\* A script is started for a client that has none, with descriptors that were
\* nobody's.
LEMMA StartKeepsWired ==
    ASSUME TypeInv, TypeInv', Wired,
           NEW p \in Peers, NEW l \in Procs, NEW k \in Pids, NEW body \in BOOLEAN,
           NEW in \in Free, NEW out \in Free, NEW err \in Free,
           in # out, in # err, out # err,
           conn[p].fd \in Fds, peer[p] = "asks", Unused(l),
           Started(p, l, k, body, in, out, err),
           peer' = [peer EXCEPT ![p] = "waits"]
    PROVE  Wired'
<1> DEFINE new == [pid |-> k, stdin |-> IF body THEN in ELSE NoFd, stdout |-> out,
                   stderr |-> err, client |-> p, started |-> FALSE]
           cfd == conn[p].fd
<1>1. /\ new.pid = k /\ new.stdin = (IF body THEN in ELSE NoFd) /\ new.stdout = out
      /\ new.stderr = err /\ new.client = p /\ new \in Proc
    BY FreeFacts DEF Proc
<1>2. /\ in \in Fds /\ out \in Fds /\ err \in Fds /\ cfd \in Fds
      /\ k # Nil /\ p # Nil /\ proc[l] = NoProc
      /\ in # NoFd /\ out # NoFd /\ err # NoFd /\ cfd # NoFd
    BY FreeFacts, FdFacts DEF Unused, Live
<1>3. \A m \in Procs: proc[m].client # p
    BY DEF Wired, PeerWired
<1>4. /\ \A m \in Procs: m # l => proc'[m] = proc[m]
      /\ proc'[l] = new
    BY DEF Started, TypeInv, KidInv
<1>5. /\ open'[in] = (IF body THEN File("stdin", l) ELSE open[in])
      /\ open'[out] = File("stdout", l) /\ open'[err] = File("stderr", l)
      /\ \A f \in Fds: f \notin {in, out, err} => open'[f] = open[f]
    BY <1>2 DEF Started, TypeInv, TableTypes
<1>6. /\ poll'[in] = (IF body THEN "w" ELSE poll[in])
      /\ poll'[out] = "r" /\ poll'[err] = "r"
      /\ \A f \in Fds: f \notin {in, out, err} => poll'[f] = poll[f]
    BY <1>2 DEF Started, TypeInv, TableTypes
<1>7. /\ \A f \in Fds, m \in Procs: <<f, m>> \in processes' <=>
             IF f = out THEN m = l ELSE <<f, m>> \in processes
      /\ \A f \in Fds, m \in Procs: <<f, m>> \in stderr_map' <=>
             IF f = err THEN m = l ELSE <<f, m>> \in stderr_map
      /\ \A f \in Fds, m \in Procs: <<f, m>> \in client_map' <=>
             IF f = cfd THEN m = l ELSE <<f, m>> \in client_map
    BY <1>2, PutFacts DEF Started, TypeInv, TableTypes
<1>8. \A f \in Fds, m \in Procs: <<f, m>> \in stdin_map' <=>
          IF body /\ f = in THEN m = l ELSE <<f, m>> \in stdin_map
  <2>1. stdin_map' = IF body THEN Put(stdin_map, in, l) ELSE stdin_map
      BY DEF Started
  <2>2. stdin_map \in SUBSET (Fds \X Procs)
      BY DEF TypeInv, TableTypes
  <2>3. CASE body
    <3>1. \A f \in Fds, m \in Procs: <<f, m>> \in Put(stdin_map, in, l) <=>
              IF f = in THEN m = l ELSE <<f, m>> \in stdin_map
      <4>1. in \in Fds /\ l \in Procs
          BY <1>2
      <4>2. QED
          BY <2>2, <4>1, PutFacts
    <3>2. stdin_map' = Put(stdin_map, in, l)
        BY <2>1, <2>3
    <3>3. QED
        BY <2>3, <3>1, <3>2
  <2>4. CASE ~body
      BY <2>1, <2>4
  <2>5. QED
      BY <2>3, <2>4
<1>9. \A q \in Peers: /\ conn'[q].fd = conn[q].fd
                      /\ conn'[q].active <=> q = p \/ conn[q].active
  <2>1. \A c \in Conn: [c EXCEPT !.active = TRUE].fd = c.fd /\ [c EXCEPT !.active = TRUE].active
      BY DEF Conn
  <2>2. conn' = [conn EXCEPT ![p] = [conn[p] EXCEPT !.active = TRUE]] /\ conn \in [Peers -> Conn]
      BY DEF Started, TypeInv, TableTypes
  <2>3. QED
      BY <2>1, <2>2
<1>10. \A q \in Peers: peer'[q] = IF q = p THEN "waits" ELSE peer[q]
    BY DEF TypeInv, TableTypes
<1> HIDE DEF new
<1>11. \A m \in Procs: ProcWired(m)'
  <2>1. TAKE m \in Procs
  <2>2. CASE m = l
      BY <1>1, <1>2, <1>4, <1>5, <1>9, <2>2, FdFacts DEF ProcWired
  <2>3. CASE m # l
    <3>1. \A f \in Fds: f \in {proc[m].stdin, proc[m].stdout, proc[m].stderr} =>
              open'[f] = open[f]
        BY <1>5, FreeFacts
    <3>2. ProcWired(m) /\ proc'[m] = proc[m]
        BY <1>4, <2>3 DEF Wired
    <3>3. proc[m].client # Nil => conn'[proc[m].client].fd = conn[proc[m].client].fd
        BY <1>9, WiredTypes
    <3>4. QED
        BY <3>1, <3>2, <3>3, WiredTypes DEF ProcWired
  <2>4. QED
      BY <2>2, <2>3
<1>12. \A f \in Fds, m \in Procs: Mapped(f, m)'
  <2>1. TAKE f \in Fds, m \in Procs
  <2>2. Mapped(f, m)
      BY DEF Wired
  <2>3. CASE m = l
    <3>1. proc[m].stdin # f /\ proc[m].stdout # f /\ proc[m].stderr # f
          /\ proc[m].client = Nil
        BY <1>2, <2>3, NoProcFields, FdFacts
    <3>2. conn'[p].fd = cfd
        BY <1>9
    <3>3. QED
        BY <1>1, <1>2, <1>4, <1>7, <1>8, <2>2, <2>3, <3>1, <3>2, FdFacts DEF Mapped
  <2>4. CASE m # l
    <3>1. proc'[m] = proc[m] /\ proc[m].stdin # in /\ proc[m].stdout # out
          /\ proc[m].stderr # err
        BY <1>4, <2>4, FreeFacts
    <3>2. proc[m].client # Nil => /\ conn'[proc[m].client].fd = conn[proc[m].client].fd
                                  /\ conn[proc[m].client].fd # cfd
        BY <1>2, <1>3, <1>9, WiredTypes, SocketFacts
    <3>3. QED
        BY <1>7, <1>8, <2>2, <2>4, <3>1, <3>2 DEF Mapped
  <2>5. QED
      BY <2>3, <2>4
<1>13. \A f \in Fds: OwnedFd(f)'
  <2>1. TAKE f \in Fds
  <2>2. OwnedFd(f) /\ open[f] \in Files
      BY WiredTypes DEF Wired
  <2>3. CASE f \in {out, err} \/ (f = in /\ body)
      BY <1>1, <1>4, <1>5, <1>6, <2>3, FileFields DEF OwnedFd
  <2>4. CASE f \notin {out, err} /\ ~(f = in /\ body)
    <3>1. open'[f] = open[f] /\ poll'[f] = poll[f]
        BY <1>5, <1>6, <2>4
    <3>2. open[f].kind = "sock" => conn'[open[f].of].fd = conn[open[f].of].fd
        BY <1>9, <2>2, OwnerFacts
    <3>3. open[f].kind = "stdin" => proc'[open[f].of].stdin = f
        BY <1>2, <1>4, <2>2, OwnerFacts, NoProcFields, FdFacts DEF OwnedFd
    <3>4. open[f].kind = "stdout" => proc'[open[f].of].stdout = f
        BY <1>2, <1>4, <2>2, OwnerFacts, NoProcFields, FdFacts DEF OwnedFd
    <3>5. open[f].kind = "stderr" => proc'[open[f].of].stderr = f
        BY <1>2, <1>4, <2>2, OwnerFacts, NoProcFields, FdFacts DEF OwnedFd
    <3>6. QED
        BY <2>2, <3>1, <3>2, <3>3, <3>4, <3>5 DEF OwnedFd
  <2>5. QED
      BY <2>3, <2>4
<1>14. \A q \in Peers: PeerWired(q)'
  <2>1. TAKE q \in Peers
  <2>2. PeerWired(q)
      BY DEF Wired
  <2>3. conn[q].fd # NoFd => open'[conn[q].fd] = open[conn[q].fd]
      BY <1>5, FreeFacts, WiredTypes
  <2>4. (\E m \in Procs: proc'[m].client = q) <=> q = p \/ \E m \in Procs: proc[m].client = q
      BY <1>1, <1>2, <1>4, NoProcFields, FdFacts
  <2>5. QED
      BY <1>9, <1>10, <2>2, <2>3, <2>4 DEF PeerWired
<1>15. \A m, n \in Procs: proc'[m].client # Nil /\ proc'[m].client = proc'[n].client => m = n
    BY <1>1, <1>3, <1>4 DEF Wired
<1>16. QED
    BY <1>11, <1>12, <1>13, <1>14, <1>15 DEF Wired

LEMMA WiredOfPeer ==
    ASSUME WireInv, TypeInv', NEW p \in Peers, OfPeer(p)
    PROVE  Wired'
<1>1. TypeInv /\ Wired /\ TableTypes /\ LoopTypes
    BY DEF WireInv, TypeInv
<1>2. CASE ReadNothing(p) \/ WriteCloses(p) \/ TimeoutConn(p)
  <2>1. conn[p].fd \in Fds
      BY <1>1, <1>2, EventFacts, WiredTypes
      DEF ReadNothing, WriteCloses, TimeoutConn, Reads, Writes, Connected
  <2>2. CloseClient(p)
      BY <1>2 DEF ReadNothing, WriteCloses, TimeoutConn
  <2>3. QED
      BY <1>1, <2>1, <2>2, CloseKeepsWired
<1>3. CASE ReadPage(p)
  <2>1. /\ UNCHANGED <<open, processes, stdin_map, stderr_map, client_map, proc>>
        /\ conn' = Answer(p) /\ poll' = Interest({p}, Answer(p))
        /\ \A q \in Peers: peer'[q] = IF q = p THEN "waits" ELSE peer[q]
      BY <1>1, <1>3 DEF ReadPage, maps, TableTypes
  <2>2. \A f \in Fds: IF \E q \in Peers: conn[q].fd = f THEN poll'[f] # "off"
                      ELSE poll'[f] = poll[f]
      BY <1>1, <2>1, InterestWired
  <2>3. \A q \in Peers: /\ conn'[q].fd = conn[q].fd /\ (conn'[q].active <=> conn[q].active)
                        /\ peer'[q] \in {"away", "knocks"} => peer[q] \in {"away", "knocks"}
                        /\ peer'[q] \in {"quiet", "asks"} => peer[q] \in {"quiet", "asks"}
      BY <1>1, <2>1, AnswerType
  <2>4. QED
      BY <1>1, <2>1, <2>2, <2>3, RestKeepsWired
<1>4. CASE ReadPipesFail(p)
    BY <1>1, <1>4, PipesFailKeepsWired
<1>5. CASE WriteNothing(p) \/ WriteActive(p) \/ WriteLast(p)
  <2>1. PICK e \in batch: Writes(e, p)
      BY <1>5 DEF WriteNothing, WriteActive, WriteLast
  <2>2. conn[p].fd \in Fds
      BY <1>1, <2>1, EventFacts DEF Writes
  <2>3. \A c \in Conn: [c EXCEPT !.out = FALSE].fd = c.fd
                       /\ ([c EXCEPT !.out = FALSE].active <=> c.active)
      BY DEF Conn
  <2>4. conn' \in {conn, [conn EXCEPT ![p] = [conn[p] EXCEPT !.out = FALSE]]}
      BY <1>5 DEF WriteNothing, WriteActive, WriteLast
  <2>5. \A q \in Peers: conn'[q].fd = conn[q].fd /\ (conn'[q].active <=> conn[q].active)
    <3>1. conn \in [Peers -> Conn]
        BY <1>1 DEF TableTypes
    <3>2. CASE conn' = conn
        BY <3>2
    <3>3. CASE conn' = [conn EXCEPT ![p] = [conn[p] EXCEPT !.out = FALSE]]
        BY <2>3, <3>1, <3>3
    <3>4. QED
        BY <2>4, <3>2, <3>3
  <2>6. /\ UNCHANGED <<open, processes, stdin_map, stderr_map, client_map, proc>>
        /\ \/ poll' = poll
           \/ poll' = [poll EXCEPT ![conn[p].fd] = "none"]
           \/ poll' = [poll EXCEPT ![conn[p].fd] = "r"]
      BY <1>5 DEF WriteNothing, WriteActive, WriteLast, maps
  <2>7. \A f \in Fds: /\ f # conn[p].fd => poll'[f] = poll[f]
                      /\ f = conn[p].fd => poll'[f] \in {poll[f], "none", "r"}
      BY <1>1, <2>6 DEF TableTypes
  <2>8. \A f \in Fds: IF \E q \in Peers: conn[q].fd = f THEN poll'[f] # "off"
                      ELSE poll'[f] = poll[f]
      BY <1>1, <2>7, SocketFacts
  <2>9. \A q \in Peers: \/ peer'[q] = peer[q]
                        \/ q = p /\ peer[q] = "waits" /\ peer'[q] = "quiet" /\ ~conn[q].active
      BY <1>1, <1>5 DEF WriteNothing, WriteActive, WriteLast, TableTypes
  <2>10. QED
      BY <1>1, <2>5, <2>6, <2>8, <2>9, RestKeepsWired
<1>6. CASE Launch(p)
  <2>1. PICK l \in Procs, k \in Pids, body \in BOOLEAN,
             in \in Nth(1), out \in Nth(2), err \in Nth(4):
            Unused(l) /\ FreePid(k) /\ Started(p, l, k, body, in, out, err)
      BY <1>6 DEF Launch
  <2>2. in \in Free /\ out \in Free /\ err \in Free /\ in # out /\ in # err /\ out # err
    <3>1. Below(in) = 1 /\ Below(out) = 2 /\ Below(err) = 4
        BY NthIsFd
    <3>2. QED
        BY <3>1, NthIsFd
  <2>3. conn[p].fd \in Fds /\ peer[p] = "asks" /\ peer' = [peer EXCEPT ![p] = "waits"]
      BY <1>1, <1>6, EventFacts DEF Launch, Reads
  <2>4. QED
      BY <1>1, <2>1, <2>2, <2>3, StartKeepsWired
<1>7. QED
    BY <1>2, <1>3, <1>4, <1>5, <1>6 DEF OfPeer

\* At the end of the server nothing is left.
LEMMA ShutdownKeepsWired ==
    ASSUME TypeInv, TypeInv', Wired, AcceptFails
    PROVE  Wired'
<1> DEFINE L == {l \in Procs: Live(l)}
<1>1. /\ Forget(L) /\ Close(Fds, poll)
      /\ \A p \in Peers: conn'[p] = NoConn /\ peer'[p] = "away"
    BY DEF AcceptFails
<1>2. \A l \in Procs: proc'[l] = NoProc
    BY <1>1, ForgetFacts DEF TypeInv, KidInv, Live
<1>3. \A f \in Fds: open'[f] = Nothing /\ poll'[f] = "off"
    BY <1>1 DEF Close
<1>4. \A f \in Fds, m \in Procs: Mapped(f, m)'
  <2>1. TAKE f \in Fds, m \in Procs
  <2>2. <<f, m>> \notin processes' /\ <<f, m>> \notin stdin_map' /\ <<f, m>> \notin stderr_map'
        /\ <<f, m>> \notin client_map'
    <3>1. Mapped(f, m)
        BY DEF Wired
    <3>2. proc[m] # NoProc => m \in L
        BY DEF Live
    <3>3. proc[m] = NoProc => proc[m].stdin # f /\ proc[m].stdout # f /\ proc[m].stderr # f
                              /\ proc[m].client = Nil
        BY NoProcFields, FdFacts
    <3> HIDE DEF L
    <3>4. QED
        BY <1>1, <3>1, <3>2, <3>3 DEF Mapped, Forget, Erase
  <2>3. QED
      BY <1>2, <2>2, NoProcFields, FdFacts DEF Mapped
<1>5. \A f \in Fds: OwnedFd(f)'
    BY <1>3, FileFacts DEF OwnedFd
<1>6. \A p \in Peers: PeerWired(p)'
    BY <1>1, <1>2, NoConnFacts, NoProcFields, FdFacts DEF PeerWired
<1>7. \A l \in Procs: ProcWired(l)'
    BY <1>2, NoProcFields, FdFacts DEF ProcWired
<1>8. QED
    BY <1>2, <1>4, <1>5, <1>6, <1>7, NoProcFields DEF Wired

LEMMA WireStep ==
    ASSUME Pipelined = FALSE, WireInv, [Next]_vars
    PROVE  WireInv'
<1>1. TypeInv /\ TypeInv' /\ Wired /\ TableTypes /\ LoopTypes
    BY TypeStep DEF WireInv, TypeInv
<1> SUFFICES Wired'
    BY <1>1 DEF WireInv
<1>2. CASE HandleSignal
  <2>1. PICK Failed \in SUBSET {l \in Procs: /\ ~proc[l].started
                                           /\ \E k \in Reaped: <<k, l>> \in pid_map}:
            Cleanup(Failed, conn, FALSE)
      BY <1>2 DEF HandleSignal
  <2>2. \A l \in Failed: l \in Procs /\ Live(l)
    <3>1. TAKE l \in Failed
    <3>2. PICK k \in Reaped: <<k, l>> \in pid_map /\ l \in Procs
        BY <2>1
    <3>3. k \in Pids
        BY DEF Reaped, Zombies
    <3>4. proc[l].pid = k /\ k # Nil
        BY <1>1, <3>2, <3>3, FdFacts DEF TypeInv, KidInv
    <3>5. QED
        BY <3>2, <3>4, NoProcFields DEF Live
  <2>3. Failed \in SUBSET {l \in Procs: Live(l)}
      BY <2>2
  <2>4. conn \in [Peers -> Conn]
      BY <1>1 DEF TableTypes
  <2>5. QED
      BY <1>1, <2>1, <2>3, <2>4, CleanupKeepsWired
<1>3. CASE AcceptFails
    BY <1>1, <1>3, ShutdownKeepsWired
<1>4. CASE NewConnection
    BY <1>1, <1>4, NewConnectionKeepsWired
<1>5. CASE Wait \/ HandleNothing \/ DropStale \/ EndConns \/ UNCHANGED vars
           \/ (\E k \in Pids: Exit(k)) \/ (\E p \in Peers: Knock(p) \/ Ask(p) \/ Leave(p))
  <2>1. UNCHANGED <<open, poll, conn, processes, stdin_map, stderr_map, client_map, proc>>
      BY <1>5 DEF Wait, HandleNothing, DropStale, EndConns, vars, maps, Exit, Knock, Ask,
            Leave, OfServer
  <2>2. \A p \in Peers: /\ peer'[p] \in {"away", "knocks"} => peer[p] \in {"away", "knocks"}
                        /\ peer'[p] \in {"quiet", "asks"} => peer[p] \in {"quiet", "asks"}
    <3>1. CASE UNCHANGED peer
        BY <3>1
    <3>2. CASE \E p \in Peers: Knock(p) \/ Ask(p) \/ Leave(p)
        BY <1>1, <3>2 DEF Knock, Ask, Leave, TableTypes
    <3>3. QED
        BY <1>5, <3>1, <3>2 DEF Wait, HandleNothing, DropStale, EndConns, vars, Exit
  <2>3. \A f \in Fds: IF \E q \in Peers: conn[q].fd = f THEN poll'[f] # "off"
                      ELSE poll'[f] = poll[f]
      BY <1>1, <2>1, SocketFacts
  <2>4. QED
      BY <1>1, <2>1, <2>2, <2>3, RestKeepsWired
<1>6. QED
    BY <1>2, <1>3, <1>4, <1>5, WiredOfProc, WiredOfPeer, <1>1 DEF Next, Server, WireInv

LEMMA WireInit == Init => WireInv
<1>1. SUFFICES ASSUME Init PROVE Wired
    BY TypeInit DEF WireInv
<1>2. \A l \in Procs: proc[l] = NoProc
    BY <1>1 DEF Init
<1>3. \A p \in Peers: conn[p] = NoConn
    BY <1>1 DEF Init
<1>4. \A l \in Procs: ProcWired(l)
    BY <1>2, NoProcFields DEF ProcWired
<1>5. \A f \in Fds, l \in Procs: Mapped(f, l)
    BY <1>1, <1>2, NoProcFields, FdFacts DEF Init, Mapped
<1>6. \A f \in Fds: OwnedFd(f)
    BY <1>1, FileFacts, FileFields DEF Init, OwnedFd
<1>7. \A p \in Peers: PeerWired(p)
    BY <1>2, <1>3, NoProcFields, NoConnFacts, FdFacts DEF PeerWired
<1>8. QED
    BY <1>2, <1>4, <1>5, <1>6, <1>7, NoProcFields DEF Wired

LEMMA WireOwned ==
    ASSUME WireInv
    PROVE  DescriptorsOwned
<1>1. TypeInv /\ Wired
    BY DEF WireInv
<1>2. \A f \in Fds: Owned(f)
  <2>1. TAKE f \in Fds
  <2>2. OwnedFd(f) /\ open[f].kind \in {"nothing", "lost", "listen", "signal", "sock",
                                        "stdin", "stdout", "stderr"}
      BY <1>1, WiredTypes, OwnerFacts DEF Wired
  <2>3. QED
      BY <2>2 DEF OwnedFd, Owned
<1>3. \A p \in Peers: Connected(p) => open[conn[p].fd] = File("sock", p)
    BY <1>1 DEF Wired, PeerWired, Connected
<1>4. \A l \in Procs: \A f \in Ends(l): open[f].of = l
  <2>1. TAKE l \in Procs
  <2>2. TAKE f \in Ends(l)
  <2>3. f \in Fds
      BY <1>1, WiredTypes DEF Ends
  <2>4. QED
      BY <1>1, <2>3, EndsFacts
<1>5. QED
    BY <1>2, <1>3, <1>4 DEF DescriptorsOwned

LEMMA WireAgrees ==
    ASSUME WireInv
    PROVE  TablesAgree
<1>1. TypeInv /\ Wired /\ TableTypes /\ KidInv
    BY DEF WireInv, TypeInv
<1>2. \A f \in Fds, l \in Procs: Mapped(f, l)
    BY <1>1 DEF Wired
<1>3. \A l \in Procs: Live(l) <=> proc[l].client # Nil
    BY <1>1, NoProcFields DEF Live, Wired, ProcWired
<1>4. \A l \in Procs: /\ proc[l].client # Nil => proc[l].client \in Peers
                      /\ proc[l].client # Nil => conn[proc[l].client].fd \in Fds
                      /\ proc[l].client # Nil => proc[l].stdout \in Fds
                      /\ proc[l].client = Nil => proc[l].stdout = NoFd
                      /\ proc[l].stdin # NoFd => proc[l].stdin \in Fds
                      /\ proc[l].stderr # NoFd => proc[l].stderr \in Fds
    BY <1>1, WiredTypes, NoProcFields DEF Wired, ProcWired
<1>5. processes = {<<proc[l].stdout, l>>: l \in {m \in Procs: Live(m)}}
    BY <1>1, <1>2, <1>3, <1>4, FdFacts DEF Mapped, TableTypes
<1>6. stdin_map = {<<proc[l].stdin, l>>: l \in {m \in Procs: proc[m].stdin # NoFd}}
    BY <1>1, <1>2, <1>4, FdFacts DEF Mapped, TableTypes
<1>7. stderr_map = {<<proc[l].stderr, l>>: l \in {m \in Procs: proc[m].stderr # NoFd}}
    BY <1>1, <1>2, <1>4, FdFacts DEF Mapped, TableTypes
<1>8. client_map = {<<conn[proc[l].client].fd, l>>: l \in {m \in Procs: Live(m)}}
    BY <1>1, <1>2, <1>3, <1>4, FdFacts DEF Mapped, TableTypes
<1>9. \A m \in pid_map: proc[m[2]].pid = m[1]
    BY <1>1 DEF KidInv
<1>10. \A l \in Procs: Live(l) => Connected(proc[l].client)
    BY <1>1, <1>3 DEF Wired, ProcWired, Connected
<1>11. \A l, m \in Procs: Live(l) /\ proc[l].client = proc[m].client => l = m
    BY <1>1, <1>3 DEF Wired
<1>12. \A p \in Peers: conn[p].active <=> \E l \in Procs: proc[l].client = p
    BY <1>1 DEF Wired, PeerWired
<1>13. QED
    BY <1>5, <1>6, <1>7, <1>8, <1>9, <1>10, <1>11, <1>12 DEF TablesAgree

\* As long as a client waits for the answer of a script before it asks again,
\* the maps of CgiManager, its process objects and Server::clients agree.
THEOREM TablesAlwaysAgree ==
    ASSUME Pipelined = FALSE
    PROVE  Spec => []TablesAgree
<1>1. WireInv /\ [Next]_vars => WireInv'
    BY WireStep
<1>2. WireInv => TablesAgree
    BY WireAgrees
<1>3. QED
    BY <1>1, <1>2, WireInit, PTL DEF Spec

\* And every open descriptor is that of the connection or of the script that
\* has its number, whatever failed before and in whatever order events came.
THEOREM DescriptorsAlwaysOwned ==
    ASSUME Pipelined = FALSE
    PROVE  Spec => []DescriptorsOwned
<1>1. WireInv /\ [Next]_vars => WireInv'
    BY WireStep
<1>2. WireInv => DescriptorsOwned
    BY WireOwned
<1>3. QED
    BY <1>1, <1>2, WireInit, PTL DEF Spec

\* Which connections a step may end.
LEMMA WhoCloses ==
    ASSUME WireInv, [Next]_vars
    PROVE  \/ phase' = "down"
           \/ \E q \in Peers: conn[q].fd \in Fds /\ CloseClient(q)
           \/ \A p \in Peers: conn[p].fd # NoFd => conn'[p].fd = conn[p].fd
<1> DEFINE Kept == \A p \in Peers: conn[p].fd # NoFd => conn'[p].fd = conn[p].fd
<1>1. TypeInv /\ Wired /\ TableTypes /\ LoopTypes /\ conn \in [Peers -> Conn]
    BY DEF WireInv, TypeInv, TableTypes
<1>2. ASSUME NEW L, NEW c \in [Peers -> Conn], NEW kept \in BOOLEAN, Cleanup(L, c, kept),
             \A p \in Peers: c[p].fd = conn[p].fd
      PROVE  Kept
  <2>1. \A p \in Peers: conn'[p] = IF p \in {proc[l].client: l \in L}
                                   THEN [c[p] EXCEPT !.active = FALSE, !.out = @ \/ ~kept]
                                   ELSE c[p]
      BY <1>2 DEF Cleanup
  <2>2. \A x \in Conn: [x EXCEPT !.active = FALSE, !.out = @ \/ ~kept].fd = x.fd
      BY CleanedType, <1>2
  <2>3. \A p \in Peers: c[p] \in Conn
      BY <1>2
  <2>4. \A p \in Peers: conn'[p].fd = c[p].fd
      BY <2>1, <2>2, <2>3
  <2>5. QED
      BY <1>2, <2>4
<1>3. CASE HandleSignal
    BY <1>1, <1>2, <1>3 DEF HandleSignal
<1>4. CASE AcceptFails
    BY <1>4 DEF AcceptFails
<1>5. CASE NewConnection
  <2>1. \A p \in Peers: p \notin Knocking => conn'[p] = conn[p]
      BY <1>5 DEF NewConnection
  <2>2. \A p \in Peers: p \in Knocking => conn[p].fd = NoFd
      BY <1>1 DEF Wired, PeerWired, Knocking
  <2>3. QED
      BY <2>1, <2>2
<1>6. CASE \E l \in Procs: OfProc(l)
  <2>1. PICK l \in Procs: OfProc(l)
      BY <1>6
  <2>2. CASE StdoutInvalid(l) \/ StdoutEnd(l) \/ TimeoutProc(l)
      BY <1>1, <1>2, <2>2, OutputType DEF StdoutInvalid, StdoutEnd, TimeoutProc
  <2>3. CASE StdoutOutput(l) \/ HandleStdin(l) \/ HandleStderr(l)
      BY <1>1, <2>3, OutputType DEF StdoutOutput, HandleStdin, HandleStderr
  <2>4. QED
      BY <2>1, <2>2, <2>3 DEF OfProc
<1>7. CASE \E p \in Peers: OfPeer(p)
  <2>1. PICK p \in Peers: OfPeer(p)
      BY <1>7
  <2>2. CASE ReadNothing(p) \/ WriteCloses(p) \/ TimeoutConn(p)
    <3>1. conn[p].fd \in Fds
        BY <1>1, <2>2, EventFacts, WiredTypes
        DEF ReadNothing, WriteCloses, TimeoutConn, Reads, Writes, Connected
    <3>2. QED
        BY <2>2, <3>1 DEF ReadNothing, WriteCloses, TimeoutConn
  <2>3. CASE ReadPage(p) \/ ReadPipesFail(p)
      BY <1>1, <2>3, AnswerType DEF ReadPage, ReadPipesFail
  <2>4. CASE Launch(p) \/ WriteNothing(p) \/ WriteActive(p) \/ WriteLast(p)
    <3>1. \/ conn' = conn
          \/ conn' = [conn EXCEPT ![p] = [conn[p] EXCEPT !.active = TRUE]]
          \/ conn' = [conn EXCEPT ![p] = [conn[p] EXCEPT !.out = FALSE]]
        BY <2>4 DEF Launch, Started, WriteNothing, WriteActive, WriteLast
    <3>2. \A c \in Conn: [c EXCEPT !.active = TRUE].fd = c.fd /\ [c EXCEPT !.out = FALSE].fd = c.fd
        BY DEF Conn
    <3>3. QED
        BY <1>1, <3>1, <3>2
  <2>5. QED
      BY <2>1, <2>2, <2>3, <2>4 DEF OfPeer
<1>8. CASE Wait \/ HandleNothing \/ DropStale \/ EndConns \/ UNCHANGED vars
           \/ (\E k \in Pids: Exit(k)) \/ (\E p \in Peers: Knock(p) \/ Ask(p) \/ Leave(p))
    BY <1>8 DEF Wait, HandleNothing, DropStale, EndConns, vars, Exit, Knock, Ask, Leave, OfServer
<1>9. QED
    BY <1>3, <1>4, <1>5, <1>6, <1>7, <1>8 DEF Next, Server

LEMMA ClosesOwn ==
    ASSUME WireInv, [Next]_vars, NEW p \in Peers, Connected(p), conn'[p] = NoConn,
           phase' # "down", NEW l \in Procs, proc[l].client \notin {Nil, p}
    PROVE  proc'[l] = proc[l]
<1>1. TypeInv /\ Wired
    BY DEF WireInv
<1>2. PICK q \in Peers: conn[q].fd \in Fds /\ CloseClient(q)
    BY WhoCloses, NoConnFacts DEF Connected
<1>3. q = p
    BY <1>2, NoConnFacts DEF CloseClient, Connected, TypeInv, TableTypes, WireInv
<1>4. l \notin ProcsOf(p)
  <2>1. SUFFICES ASSUME <<conn[p].fd, l>> \in client_map PROVE FALSE
      BY DEF ProcsOf
  <2>2. conn[proc[l].client].fd = conn[p].fd /\ proc[l].client \in Peers
      BY <1>1, <1>2, <1>3, <2>1, WiredTypes DEF Wired, Mapped
  <2>3. proc[l].client = p
      BY <1>1, <1>2, <1>3, <2>2, SocketFacts
  <2>4. QED
      BY <2>3
<1>5. QED
    BY <1>1, <1>2, <1>3, <1>4, ForgetFacts DEF CloseClient, TypeInv, KidInv

\* close_client ends the script of its own connection only.
THEOREM OnlyOwnScriptEnds ==
    ASSUME Pipelined = FALSE
    PROVE  Spec => ClosesOwnScript
<1>1. WireInv /\ [Next]_vars => WireInv'
    BY WireStep
<1>2. WireInv /\ [Next]_vars =>
        [\A p \in Peers: Connected(p) /\ conn'[p] = NoConn /\ phase' # "down" =>
            \A l \in Procs: proc[l].client \notin {Nil, p} => proc'[l] = proc[l]]_vars
    BY ClosesOwn
<1>3. QED
    BY <1>1, <1>2, WireInit, PTL DEF Spec, ClosesOwnScript

=============================================================================
