----------------------------- MODULE KeptAlive -----------------------------
(***************************************************************************)
(* What a kept-alive connection promises a client that asks for files,     *)
(* whatever the files, the client and the clock do.  A request is begun    *)
(* once; its answer has a length, fixed when it begins; the units that are *)
(* sent count against it; and the next request is read when, and only      *)
(* when, none is left to send.  An answer that cannot be completed ends    *)
(* with the connection.  StaticStream implements this.                     *)
(***************************************************************************)
EXTENDS Naturals

VARIABLES link,     \* the connection
          pending,  \* the client's next request has come
          client,   \* whether the client still wants its answers
          due       \* units of the answer that are not sent yet

vars == <<link, pending, client, due>>

Init == link = "reading" /\ pending = FALSE /\ client = "here" /\ due = 0

\* A client asks when the last answer is complete.
Ask ==
    /\ client = "here" /\ link = "reading" /\ ~pending
    /\ pending' = TRUE
    /\ UNCHANGED <<link, client, due>>

\* A client that closes, or resets and takes its request with it.
Gone == client' = "left" /\ pending' \in {pending, FALSE}

Leave == client = "here" /\ Gone /\ UNCHANGED <<link, due>>

\* The request is taken, and the length of its answer announced.
Begin ==
    /\ link = "reading" /\ pending
    /\ link' = "answering" /\ pending' = FALSE /\ due' \in Nat \ {0}
    /\ UNCHANGED client

\* Some units are sent.  After the last of them the next request may be read.
Send ==
    /\ link = "answering"
    /\ due' \in Nat /\ due' < due
    /\ link' \in {"answering", "reading"}
    /\ link' = "reading" => due' = 0
    /\ UNCHANGED <<pending, client>> \/ Gone

\* An answer of which nothing is left.
Finish ==
    /\ link = "answering" /\ due = 0
    /\ link' = "reading"
    /\ UNCHANGED <<pending, client, due>>

\* At any time; what was still due stays so.
Close ==
    /\ link # "closed"
    /\ link' = "closed"
    /\ due' \in Nat /\ due' <= due
    /\ UNCHANGED <<pending, client>> \/ Gone

Next == Ask \/ Leave \/ Begin \/ Send \/ Finish \/ Close

Spec == Init /\ [][Next]_vars
=============================================================================
