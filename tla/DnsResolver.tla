---------------------------- MODULE DnsResolver ----------------------------
(***************************************************************************)
(* The dns-resolver part of the ietf-system plugin: the module-change      *)
(* callbacks for the leaf-list `search' and for the list `server'          *)
(* (core/subscription/change.c) with the load, change and store functions  *)
(* they call (core/api/system/dns_resolver).  A callback loads what        *)
(* systemd-resolved holds for ALL its links, edits that list by the        *)
(* changes of the transaction, and writes the result to ONE link           *)
(* (SYSTEMD_IFINDEX).  The load and the store are two D-Bus calls, and     *)
(* resolved's other clients (networkd, DHCP, an administrator) may change  *)
(* a link between them.                                                    *)
(*                                                                         *)
(* An element of a temporary list is a pair <<origin, value>>: the same    *)
(* value may be in the list twice, once for each link that has it.         *)
(*                                                                         *)
(* The loads and stores are those under #ifdef SYSTEMD, see Resolver.      *)
(***************************************************************************)
EXTENDS Naturals, Resolver

CONSTANTS Names,      \* names of list entries `server' in the datastore
          NONE,       \* no such server
          MaxTxns,    \* bound: transactions started
          MaxFaults   \* bound: failures and foreign changes of a link

Config == [search : SUBSET Domains, server : [Names -> Addresses \cup {NONE}]]
SearchList == SUBSET ((Links \cup {NONE}) \X Domains)
ServerList == SUBSET ((Links \cup Names) \X Addresses)

ASSUME ConstantsAssumption ==
    /\ Links \cap Names = {}
    /\ NONE \notin Addresses \cup Links
    /\ MaxTxns \in Nat /\ MaxFaults \in Nat

VARIABLES
    running, cand,     \* datastore, and what the transaction would commit
    search, list,      \* ctx->temp_dns_search, ctx->temp_dns_servers
    todo,              \* servers whose address change is still to be visited
    pc, result,
    stale,             \* a link changed since the transaction began
    txns, faults

lists    == <<search, list>>
vars     == <<running, cand, resolved, lists, todo, pc, result, stale, txns, faults>>

----------------------------------------------------------------------------
(* The changes of the transaction.                                         *)

DomainsCreated == cand.search \ running.search
DomainsDeleted == running.search \ cand.search
Old(n) == running.server[n]
New(n) == cand.server[n]
ChangedServers == {n \in Names : Old(n) # New(n)}

\* The callback that follows the one for `search'.
AfterSearch == IF ChangedServers # {} THEN "server_load" ELSE "replied"

----------------------------------------------------------------------------
(* The plugin was started with an empty startup datastore and has loaded   *)
(* resolved's data; that load fails on an IPv6 server.                     *)

Init ==
    /\ domains \in [Links -> SUBSET Domains]
    /\ servers \in [Links -> SUBSET V4]
    /\ running \in Config
    /\ running.search = AllDomains
    /\ {running.server[n] : n \in Names} \ {NONE} = AllServers
    /\ \A m, n \in Names : running.server[m] = running.server[n]
                             => m = n \/ running.server[m] = NONE
    /\ cand = running
    /\ search = {} /\ list = {} /\ todo = {}
    /\ pc = "idle" /\ result = "ok" /\ stale = FALSE
    /\ txns = 0 /\ faults = 0

\* A client commits a change; each callback sees only its own subtree.
Edit(c) ==
    /\ pc = "idle"
    /\ txns < MaxTxns
    /\ c # running
    /\ cand' = c
    /\ txns' = txns + 1
    /\ pc' = IF c.search # running.search THEN "search_load" ELSE "server_load"
    /\ result' = "ok"
    /\ stale' = FALSE
    /\ UNCHANGED <<running, resolved, lists, todo, faults>>

\* goto error_out.
Failed == pc' = "out" /\ result' = "failed"

\* Something outside the plugin fails or changes.
Fault == faults < MaxFaults /\ faults' = faults + 1

----------------------------------------------------------------------------
(* system_subscription_change_dns_resolver_search                          *)

\* The domains of all links, not only of the one that is written.
LoadSearch ==
    /\ pc = "search_load"
    /\ search' = {e \in Links \X Domains : e[2] \in domains[e[1]]}
    /\ pc' = "search_change"
    /\ UNCHANGED <<running, cand, resolved, list, todo, result, stale, txns, faults>>

\* Created domains are appended; for a deleted one the first element with
\* its name is removed, whichever link that came from.
ChangeSearch ==
    /\ pc = "search_change"
    /\ IF \E d \in DomainsDeleted : \A e \in search : e[2] # d
       THEN Failed /\ UNCHANGED search
       ELSE /\ \E first \in [DomainsDeleted -> Links] :
                 /\ \A d \in DomainsDeleted : <<first[d], d>> \in search
                 /\ search' = (search \ {<<first[d], d>> : d \in DomainsDeleted})
                                 \cup {<<NONE, d>> : d \in DomainsCreated}
            /\ pc' = "search_store"
            /\ UNCHANGED result
    /\ UNCHANGED <<running, cand, resolved, list, todo, stale, txns, faults>>

\* SetLinkDomains replaces the domains of the link; the list is freed.
StoreSearch ==
    /\ pc = "search_store"
    /\ domains' = [domains EXCEPT ![Link] = {e[2] : e \in search}]
    /\ search' = {}
    /\ pc' = AfterSearch
    /\ UNCHANGED <<running, cand, servers, list, todo, result, stale, txns, faults>>

----------------------------------------------------------------------------
(* system_subscription_change_dns_resolver_server                          *)

LoadServer ==
    /\ pc = "server_load"
    /\ IF LoadServerFails
       THEN Failed /\ UNCHANGED <<list, todo>>
       ELSE /\ list' = {e \in Links \X V4 : e[2] \in servers[e[1]]}
            /\ todo' = ChangedServers
            /\ pc' = "server_change"
            /\ UNCHANGED result
    /\ UNCHANGED <<running, cand, resolved, search, stale, txns, faults>>

\* Mutant: the case of a deleted server is missing.
ChangeServerAddressNoDelete(n) ==
    /\ pc = "server_change"
    /\ n \in todo
    /\ todo' = todo \ {n}
    /\ list' = {e \in list : e[2] # Old(n)} \cup {<<n, New(n)>>}
    /\ UNCHANGED <<running, cand, resolved, search, pc, result, stale, txns, faults>>

\* Mutant: a changed server is appended and its old element stays.
ChangeServerAddressAppend(n) ==
    /\ pc = "server_change"
    /\ n \in todo
    /\ todo' = todo \ {n}
    /\ list' = IF New(n) = NONE THEN {e \in list : e[2] # Old(n)}
               ELSE list \cup {<<n, New(n)>>}
    /\ UNCHANGED <<running, cand, resolved, search, pc, result, stale, txns, faults>>

\* Mutant: the loop does not go on after a deleted server.
ChangeServerAddressStuck(n) ==
    /\ pc = "server_change"
    /\ n \in todo
    /\ todo' = IF New(n) = NONE THEN todo ELSE todo \ {n}
    /\ list' = IF New(n) = NONE THEN {e \in list : e[2] # Old(n)}
               ELSE list \cup {<<n, New(n)>>}
    /\ UNCHANGED <<running, cand, resolved, search, pc, result, stale, txns, faults>>

\* One change of an address, in any order: a created server is appended, a
\* changed or deleted one is looked up by its old address.
ChangeServerAddress(n) ==
    /\ pc = "server_change"
    /\ n \in todo
    /\ IF Old(n) = NONE
       THEN /\ list' = list \cup {<<n, New(n)>>}
            /\ todo' = todo \ {n}
            /\ UNCHANGED <<pc, result>>
       ELSE IF \A e \in list : e[2] # Old(n)
       THEN Failed /\ UNCHANGED <<list, todo>>
       ELSE /\ \E e \in list :
                 /\ e[2] = Old(n)
                 /\ list' = (list \ {e}) \cup
                            (IF New(n) = NONE THEN {} ELSE {<<n, New(n)>>})
            /\ todo' = todo \ {n}
            /\ UNCHANGED <<pc, result>>
    /\ UNCHANGED <<running, cand, resolved, search, stale, txns, faults>>

\* Mutant: only the changes of the transaction are sent.
StoreServerOnlyNew ==
    /\ pc = "server_change"
    /\ todo = {}
    /\ servers' = [servers EXCEPT ![Link] = {FromStr(e[2]) :
                                   e \in {f \in list : f[1] \in Names}}]
    /\ list' = {}
    /\ pc' = "replied"
    /\ UNCHANGED <<running, cand, domains, search, todo, result, stale, txns, faults>>

\* SetLinkDNS replaces the servers of the link; the list is freed.
StoreServer ==
    /\ pc = "server_change"
    /\ todo = {}
    /\ servers' = [servers EXCEPT ![Link] = {FromStr(e[2]) : e \in list}]
    /\ list' = {}
    /\ pc' = "replied"
    /\ UNCHANGED <<running, cand, domains, search, todo, result, stale, txns, faults>>

----------------------------------------------------------------------------
\* A D-Bus call or an allocation fails.
CallFails ==
    /\ pc \notin {"idle", "out", "replied"}
    /\ Fault
    /\ Failed
    /\ UNCHANGED <<running, cand, resolved, lists, todo, stale, txns>>

\* Mutant: an early return leaves the servers behind.
ReturnKeepsServers ==
    /\ pc = "out"
    /\ search' = {}
    /\ todo' = {}
    /\ pc' = "replied"
    /\ UNCHANGED <<running, cand, resolved, list, result, stale, txns, faults>>

\* out: the list of the callback that failed is freed.
Return ==
    /\ pc = "out"
    /\ search' = {} /\ list' = {}
    /\ todo' = {}
    /\ pc' = "replied"
    /\ UNCHANGED <<running, cand, resolved, result, stale, txns, faults>>

\* sysrepo commits the transaction; the DONE event is a no-op.
Done ==
    /\ pc = "replied" /\ result = "ok"
    /\ running' = cand
    /\ pc' = "idle"
    /\ UNCHANGED <<cand, resolved, lists, todo, result, stale, txns, faults>>

\* One of the callbacks failed.  The other may have changed its link: it
\* answers the ABORT event with an error and restores nothing.
Rejected ==
    /\ pc = "replied" /\ result = "failed"
    /\ cand' = running
    /\ pc' = "idle"
    /\ UNCHANGED <<running, resolved, lists, todo, result, stale, txns, faults>>

\* A later subscriber failed.
Aborted ==
    /\ pc = "replied" /\ result = "ok"
    /\ Fault
    /\ result' = "failed"
    /\ cand' = running
    /\ pc' = "idle"
    /\ UNCHANGED <<running, resolved, lists, todo, stale, txns>>

\* Another client of resolved sets the domains of a link, or its servers.
LinkChanged(l) ==
    /\ Fault
    /\ \/ /\ \E ds \in SUBSET Domains : domains' = [domains EXCEPT ![l] = ds]
          /\ UNCHANGED servers
       \/ /\ \E as \in SUBSET Addresses : servers' = [servers EXCEPT ![l] = as]
          /\ UNCHANGED domains
    /\ stale' = TRUE
    /\ UNCHANGED <<running, cand, lists, todo, pc, result, txns>>

Callback ==
    \/ LoadSearch \/ ChangeSearch \/ StoreSearch
    \/ LoadServer \/ (\E n \in Names : ChangeServerAddress(n)) \/ StoreServer
    \/ Return \/ Done \/ Rejected

Environment ==
    \/ \E c \in Config : Edit(c)
    \/ \E l \in Links : LinkChanged(l)
    \/ CallFails \/ Aborted

Next == Callback \/ Environment

Spec == Init /\ [][Next]_vars

\* sysrepo's event thread keeps running the callback.
FairSpec == Spec /\ WF_vars(Callback)

----------------------------------------------------------------------------
(* Properties.                                                             *)

\* Every variable of the callbacks and of resolved has its type.
TypeOK ==
    /\ running \in Config /\ cand \in Config
    /\ domains \in [Links -> SUBSET Domains]
    /\ servers \in [Links -> SUBSET Addresses]
    /\ search \in SearchList /\ list \in ServerList
    /\ todo \in SUBSET Names
    /\ pc \in {"idle", "search_load", "search_change", "search_store",
               "server_load", "server_change", "out", "replied"}
    /\ result \in {"ok", "failed"}
    /\ stale \in BOOLEAN
    /\ txns \in 0..MaxTxns /\ faults \in 0..MaxFaults

\* The assertions at the start of the two callbacks hold: whatever way the
\* last event ended, its temporary lists were freed.
ListsFreed ==
    /\ pc \in {"idle", "search_load"} => search = {}
    /\ pc \in {"idle", "search_load", "search_change", "search_store",
               "server_load"} => list = {}

\* Addresses that the transaction takes from an entry, and what it leaves
\* configured, as resolved is told about them.
Dropped == {Old(n) : n \in ChangedServers}
Configured == {FromStr(New(n)) : n \in {m \in Names : New(m) # NONE}}

\* A transaction that both callbacks accept has reached the link, provided
\* that nobody else reconfigured it meanwhile: created domains and the (first
\* four bytes of the) new addresses are on the link, and what was deleted is
\* there only if a second link had it too, or if it is configured again.  An
\* address that moves from one entry to another is left out: elements are
\* looked up by address, so the second change may take the first one's.
AcceptedApplied ==
    pc = "replied" /\ result = "ok" /\ ~ stale =>
        /\ DomainsCreated \subseteq domains[Link]
        /\ \A d \in DomainsDeleted \cap domains[Link] :
              \E l \in Links \ {Link} : d \in domains[l]
        /\ \A n \in ChangedServers :
              New(n) \notin Dropped \cup {NONE} => FromStr(New(n)) \in servers[Link]
        /\ \A a \in Dropped \cap servers[Link] :
              a \in Configured \/ \E l \in Links \ {Link} : a \in servers[l]

\* SetLinkDomains and SetLinkDNS replace everything the link had, and the
\* plugin rebuilds it from its load: no domain and no server that the
\* transaction does not take away is lost from a link that nobody changed
\* since the load, and no link but SYSTEMD_IFINDEX changes.
UnmentionedKept ==
    [][faults' = faults /\ pc \in {"search_store", "server_change"} =>
          /\ ~ stale => /\ domains[Link] \ DomainsDeleted \subseteq domains'[Link]
                        /\ servers[Link] \ Dropped \subseteq servers'[Link]
          /\ \A l \in Links \ {Link} :
                domains'[l] = domains[l] /\ servers'[l] = servers[l]]_vars

\* What the plugin writes it can read again: a load fails on an IPv6 server,
\* and the plugin itself never gives the link one.
StoredServersLoadable ==
    [][servers' # servers /\ faults' = faults =>
          \A a \in servers'[Link] : ~ ToStrFails(a)]_vars

\* A transaction is always answered.
EventAnswered == pc \in {"search_load", "server_load"} ~> pc = "idle"

=============================================================================
