------------------------------- MODULE MCNtp -------------------------------
(* Small instances of Ntp: two datastore names, two addresses.             *)
EXTENDS Ntp

CONSTANTS main, augeas, n1, n2, x, y, p1

Entry(a, q, t, f) == [addr |-> a, port |-> q, type |-> t, prefer |-> f]

\* No server, a server, a pool with a port, a server and a preferred pool.
Confs == {<<>>,
          <<Entry(x, NONE, "server", FALSE)>>,
          <<Entry(x, p1, "pool", FALSE)>>,
          <<Entry(x, NONE, "server", FALSE), Entry(y, NONE, "pool", TRUE)>>}

\* Entries of the datastore a client may configure: one for each address and
\* port, and some that differ from those in their options.
PlainServers == {Entry(x, NONE, "server", FALSE), Entry(y, NONE, "pool", TRUE),
                 Entry(x, p1, "pool", FALSE)}
Servers == PlainServers \cup {Entry(x, NONE, "server", TRUE),
                              Entry(x, NONE, "pool", FALSE)}

AllEdits == [enabled : BOOLEAN, servers : [Names -> Servers \cup {NONE}]]
PlainEdits == [enabled : BOOLEAN, servers : [Names -> PlainServers \cup {NONE}]]

\* Bound: one plain transaction when both processes are started;
\* the two are interchangeable, so the one that is started alone is main.
BothStarted == \A p \in Procs : pc[p] # "down"
Bound ==
    /\ pc[main] # "down"
    /\ BothStarted => txns <= 1 /\ cand \in PlainEdits
BoundedInit == Init /\ Bound
BoundedSpec ==
    /\ BoundedInit /\ [][Next /\ Bound']_vars
    /\ \A p \in Procs : WF_vars(Step(p))
    /\ WF_vars(Rejected)
=============================================================================
