------------------------------ MODULE Resolver ------------------------------
(***************************************************************************)
(* systemd-resolved as the plugin uses it: search domains and DNS servers  *)
(* for each network link, read for all links and written for one           *)
(* (core/api/system/dns_resolver/{load,store}.c), and what the conversions *)
(* of an address do (core/data/system/ip_address.c).                       *)
(*                                                                         *)
(* This is the code under #ifdef SYSTEMD.  No build file of the repository *)
(* defines SYSTEMD, only SYSTEMD_IFINDEX; without it the loads and stores  *)
(* of the resolver do nothing.                                             *)
(***************************************************************************)
CONSTANTS Domains,    \* search domains
          V4, V6,     \* IPv4 and IPv6 addresses
          FirstBytes, \* the first four bytes of an IPv6 address, as IPv4
          Links,      \* network links known to resolved
          Link        \* the link SYSTEMD_IFINDEX

Addresses == V4 \cup V6

ASSUME ResolverAssumption ==
    /\ V4 \cap V6 = {}
    /\ FirstBytes \in [V6 -> V4]
    /\ Link \in Links

VARIABLES domains,    \* link -> search domains
          servers     \* link -> addresses

resolved == <<domains, servers>>

\* Mutant: an IPv6 address keeps its family.
FromStrV6(a) == a

\* system_ip_address_from_str: the family is AF_INET in both branches, so
\* only the first four bytes of an IPv6 address are sent to resolved.
FromStr(a) == IF a \in V4 THEN a ELSE FirstBytes[a]

\* system_ip_address_to_str returns -1 for every IPv6 address.
ToStrFails(a) == a \in V6

\* What the loads return for all links; one IPv6 server and the load fails.
AllDomains == UNION {domains[l] : l \in Links}
AllServers == UNION {servers[l] : l \in Links}
LoadServerFails == \E a \in AllServers : ToStrFails(a)
=============================================================================
