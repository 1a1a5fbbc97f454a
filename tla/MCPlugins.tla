----------------------------- MODULE MCPlugins -----------------------------
(* A small instance of Plugins: one host name and "none", two installed    *)
(* zones and one that is not, one ntp server.                              *)
EXTENDS Plugins

CONSTANTS h1, none, z1, z2, z3, s1

MCConfs == {<<>>, <<s1>>}

Content(h, z, n) == [hostname |-> h, tz |-> z, ntp |-> n]

\* Nothing, all leaves, and a zone that is not installed.
MCStartups == {Content(NONE, NONE, NONE), Content(h1, z1, {s1}), Content(h1, z2, NONE)}

MCEdits == {Content(NONE, NONE, NONE), Content(h1, z1, NONE), Content(h1, z2, NONE),
            Content(h1, z1, {s1})}

\* The host name differs from that of the datastore, and /etc/localtime is a
\* link to another zone, a link that leads nowhere or a file; it goes missing
\* on the way.  /etc/ntp.conf has the server or not, the other way round than
\* the datastore.
SmallInit ==
    /\ Init
    /\ name = none /\ localtime \in {z2, z3, Foreign}
    /\ (conf = <<>>) = (startup.ntp # NONE)

SmallSpec ==
    /\ SmallInit /\ [][Next]_vars
    /\ \A p \in Procs : WF_vars(Step(p))
    /\ WF_vars(Commit \/ Reject)
=============================================================================
