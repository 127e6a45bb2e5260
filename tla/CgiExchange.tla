---------------------------- MODULE CgiExchange ----------------------------
(***************************************************************************)
(* What a CGI exchange promises the client, whatever the script, the       *)
(* client and the clock do.  The request gets at most one answer, either   *)
(* an error page or the script's own output; what is sent is a prefix of   *)
(* that answer; and the connection is read again for the next request only *)
(* when the whole answer, to the end of the script's output, has been      *)
(* sent.  Otherwise the connection is closed.  CgiRelay implements this.   *)
(***************************************************************************)
EXTENDS Naturals

VARIABLES written,   \* units of output the script has produced
          ended,     \* the script's output has ended
          answer,    \* what the client is being sent
          sent,      \* units of it handed to the client's socket
          link       \* the connection

vars == <<written, ended, answer, sent, link>>

Init ==
    /\ written = 0 /\ ended = FALSE
    /\ answer = "none" /\ sent = 0 /\ link = "busy"

\* The script writes a unit, or its output ends.
Output ==
    \/ UNCHANGED <<written, ended>>
    \/ ~ended /\ written' = written + 1 /\ UNCHANGED ended
    \/ ended' = TRUE /\ UNCHANGED written

\* The answer is chosen once.
Answer ==
    \/ UNCHANGED answer
    \/ answer = "none" /\ link = "busy" /\ written' > 0 /\ answer' = "script"
    \/ answer = "none" /\ link = "busy" /\ answer' = "error"

Length == CASE answer = "none" -> 0 [] answer = "error" -> 1 [] OTHER -> written

\* A prefix of it has been sent.
Deliver ==
    \/ UNCHANGED sent
    \/ link = "busy" /\ sent' \in Nat /\ sent < sent' /\ sent' <= Length

\* The whole answer has been sent.
Whole == answer # "none" /\ sent = Length /\ (answer = "script" => ended)

Connection ==
    \/ UNCHANGED link
    \/ link = "busy" /\ Whole' /\ link' = "reading"
    \/ link' = "closed"

Next == Output /\ Answer /\ Deliver /\ Connection

Spec == Init /\ [][Next]_vars
=============================================================================
