-------------------------------- MODULE McpLink --------------------------------
(***************************************************************************)
(* What the MCP server manager promises the server processes it starts:    *)
(* a process is greeted before it is asked anything, it is asked one thing *)
(* at a time, and one that left a request unanswered is dropped and never  *)
(* spoken to again.                                                        *)
(***************************************************************************)
CONSTANT Servers

VARIABLE link

\* down: no process; fresh: not greeted yet; greeting: initialize was sent;
\* ready: greeted, owes nothing; asked: a request was sent.
LinkStates == {"down", "fresh", "greeting", "ready", "asked"}

Init == link = [s \in Servers |-> "down"]

Moves(s, from, to) == link[s] \in from /\ link' = [link EXCEPT ![s] = to]

Start(s)    == Moves(s, {"down"}, "fresh")
Greet(s)    == Moves(s, {"fresh"}, "greeting")
Accepted(s) == Moves(s, {"greeting"}, "ready")
Declined(s) == Moves(s, {"greeting"}, "fresh")
Request(s)  == Moves(s, {"ready"}, "asked")
Answered(s) == Moves(s, {"asked"}, "ready")
Drop(s)     == Moves(s, LinkStates \ {"down"}, "down")

LinkStep(s) ==
    \/ Start(s) \/ Greet(s) \/ Accepted(s) \/ Declined(s)
    \/ Request(s) \/ Answered(s) \/ Drop(s)

Spec == Init /\ [][\E s \in Servers : LinkStep(s)]_link
=============================================================================
