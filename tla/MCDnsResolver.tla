--------------------------- MODULE MCDnsResolver ---------------------------
(* Small instances of DnsResolver: two links, one of them SYSTEMD_IFINDEX. *)
EXTENDS DnsResolver

CONSTANTS d1, d2, a1, a2, b1, n1, n2, eth, wlan

\* The first four bytes of the IPv6 address are those of a1.
MCFirstBytes == [b \in V6 |-> a1]

\* Bound: one search domain, on one link, or else one server.
OneDomain ==
    /\ domains[wlan] = {} /\ d2 \notin domains[eth]
    /\ d2 \notin cand.search
OneServer ==
    /\ \A l \in Links : a2 \notin servers[l]
    /\ cand.server[n2] = NONE /\ cand.server[n1] # a2
Bound == OneDomain \/ OneServer

BoundedInit == Init /\ Bound
BoundedSpec ==
    BoundedInit /\ [][Next /\ Bound']_vars /\ WF_vars(Callback)
=============================================================================
