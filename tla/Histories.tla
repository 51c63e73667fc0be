------------------------------ MODULE Histories -------------------------------
(***************************************************************************)
(* Abstract: the histories of the sessions, as a client that waits for its *)
(* answers may rely on them.  A history only grows, by one message at a    *)
(* time; a message is said once, in one session, and the answer to it in   *)
(* order; a fork begins with what its source had when it was asked for; a  *)
(* file holds what its session had when it was saved, and a restart brings *)
(* back exactly the files.                                                 *)
(***************************************************************************)
EXTENDS Naturals

CONSTANTS
    Sessions,  \* ids
    Queries,   \* what users ask; message 0 is the question, 1.. the answer
    MaxBlocks  \* bound: messages of one answer

VARIABLES
    up,     \* the server runs
    used,   \* ids handed out
    hist,   \* the history of each session there is
    forks,  \* copies under way to a session of their own
    saved   \* the history in each file there is

histVars == <<up, used, hist, forks, saved>>

Message == [q : Queries, n : 0..MaxBlocks]

Init ==
    /\ up = TRUE
    /\ used = {} /\ forks = {}
    /\ hist = [s \in {} |-> {}]
    /\ saved = [s \in {} |-> {}]

\* f with the history h for s.
With(f, s, h) == [t \in DOMAIN f \cup {s} |-> IF t = s THEN h ELSE f[t]]

\* The files once the sessions of some are saved.
Saved(some) ==
    [s \in DOMAIN saved \cup some |-> IF s \in some THEN hist[s] ELSE saved[s]]

Create(s) ==
    /\ up /\ s \notin used
    /\ used' = used \cup {s}
    /\ hist' = With(hist, s, {})
    /\ UNCHANGED <<up, forks, saved>>

\* A message nobody has yet, in no session, no fork and no file.
Unheard(m) ==
    /\ \A s \in DOMAIN hist : m \notin hist[s]
    /\ \A f \in forks : m \notin f.hist
    /\ \A s \in DOMAIN saved : m \notin saved[s]

\* An answer follows what it answers, piece after piece.
Append(s, m) ==
    /\ up /\ s \in DOMAIN hist
    /\ m.n > 0 => [m EXCEPT !.n = @ - 1] \in hist[s]
    /\ Unheard(m)
    /\ hist' = With(hist, s, hist[s] \cup {m})
    /\ UNCHANGED <<up, used, forks, saved>>

\* A fork, as it is asked for and as it is there.
TakeCopy(source, target) ==
    /\ up /\ source \in DOMAIN hist /\ target \notin used
    /\ used' = used \cup {target}
    /\ forks' = forks \cup {[to |-> target, hist |-> hist[source]]}
    /\ UNCHANGED <<up, hist, saved>>

PutCopy(f) ==
    /\ up /\ f \in forks /\ f.to \notin DOMAIN hist
    /\ hist' = With(hist, f.to, f.hist)
    /\ forks' = forks \ {f}
    /\ UNCHANGED <<up, used, saved>>

\* The file of a deleted session stays.
Delete(s) ==
    /\ up /\ s \in DOMAIN hist
    /\ hist' = [t \in DOMAIN hist \ {s} |-> hist[t]]
    /\ UNCHANGED <<up, used, forks, saved>>

Save(some) ==
    /\ up
    /\ UNCHANGED <<up, used, hist, forks>>
    /\ saved' = Saved(some)

\* The server ends; a kill may come in the middle of a save.
Down(some) ==
    /\ up /\ up' = FALSE
    /\ saved' = Saved(some)
    /\ hist' = [s \in {} |-> {}]
    /\ forks' = {}
    /\ UNCHANGED used

Up ==
    /\ ~up /\ up' = TRUE
    /\ hist' = saved
    /\ UNCHANGED <<used, forks, saved>>

Next ==
    \/ \E s \in Sessions : Create(s) \/ Delete(s) \/ \E m \in Message : Append(s, m)
    \/ \E source, target \in Sessions : TakeCopy(source, target)
    \/ \E f \in forks : PutCopy(f)
    \/ \E some \in SUBSET DOMAIN hist : Save(some) \/ Down(some)
    \/ Up

Spec == Init /\ [][Next]_histVars
=============================================================================
