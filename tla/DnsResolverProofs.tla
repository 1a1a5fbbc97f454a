------------------------- MODULE DnsResolverProofs -------------------------
(***************************************************************************)
(* Proofs about DnsResolver, for any links, domains, addresses and edits   *)
(* and any number of transactions, failures and foreign changes.           *)
(***************************************************************************)
EXTENDS DnsResolver, TLAPS

USE DEF lists, resolved

----------------------------------------------------------------------------
(* The inductive invariant.                                                *)

\* Which lists are in use at which stage; only a failure jumps to the exit.
StageInv ==
    /\ pc \in {"idle", "search_load", "server_load", "replied"}
         => search = {} /\ list = {}
    /\ pc \in {"search_change", "search_store"} => list = {}
    /\ pc = "server_change" => search = {} /\ todo \subseteq ChangedServers
    /\ pc = "out" => result = "failed"

\* The domains that resolved holds, as they are loaded.
LoadedDomains == {e \in Links \X Domains : e[2] \in domains[e[1]]}

SearchLoaded == pc = "search_change" /\ ~ stale => search = LoadedDomains

\* What the list of domains is when it is stored: the created ones are in it,
\* a deleted one only if a second link had it, and the link's others.
SearchEdited ==
    pc = "search_store" /\ ~ stale =>
        /\ \A d \in DomainsCreated : \E e \in search : e[2] = d
        /\ \A e \in search : e[2] \in DomainsDeleted =>
              \E l \in Links \ {Link} : e[2] \in domains[l]
        /\ \A d \in domains[Link] \ DomainsDeleted : \E e \in search : e[2] = d

\* The domains of the transaction have reached the link.
SearchApplied ==
    /\ DomainsCreated \subseteq domains[Link]
    /\ \A d \in DomainsDeleted \cap domains[Link] :
          \E l \in Links \ {Link} : d \in domains[l]

SearchStored ==
    pc \in {"server_load", "server_change", "replied"} /\ result = "ok" /\ ~ stale
        => SearchApplied

\* Servers whose change was visited.
Handled == ChangedServers \ todo

\* An element of the list of servers was loaded from a link, and is an IPv4
\* address, or was put there by a change that was visited.
ListOrigin ==
    pc = "server_change" => \A e \in list :
        \/ e[1] \in Links /\ e[2] \in V4 /\ (~ stale => e[2] \in servers[e[1]])
        \/ e[1] \in Handled /\ e[2] = New(e[1]) /\ New(e[1]) # NONE

\* A visited change has put its address into the list, unless another change
\* may take it away, and has taken the old one of the link, or an equal one
\* that another link or entry has.  All else of the link is still there.
ListEdited ==
    pc = "server_change" /\ ~ stale =>
        /\ \A n \in Handled : New(n) \notin Dropped \cup {NONE} => <<n, New(n)>> \in list
        /\ \A n \in Handled : <<Link, Old(n)>> \in list =>
              Old(n) \in Configured \/ \E l \in Links \ {Link} : Old(n) \in servers[l]
        /\ \A a \in servers[Link] \ Dropped : a \in V4 /\ <<Link, a>> \in list

\* The servers of the transaction have reached the link.
ServerApplied ==
    /\ \A n \in ChangedServers :
          New(n) \notin Dropped \cup {NONE} => FromStr(New(n)) \in servers[Link]
    /\ \A a \in Dropped \cap servers[Link] :
          a \in Configured \/ \E l \in Links \ {Link} : a \in servers[l]

ServerStored == pc = "replied" /\ result = "ok" /\ ~ stale => ServerApplied

IInv ==
    /\ TypeOK /\ StageInv
    /\ SearchLoaded /\ SearchEdited /\ SearchStored
    /\ ListOrigin /\ ListEdited /\ ServerStored

----------------------------------------------------------------------------
(* Facts about the operators.                                              *)

\* An address that was parsed is an IPv4 address; one that is stays the same.
LEMMA FromStrType ==
  ASSUME NEW a \in Addresses
  PROVE  FromStr(a) \in V4 /\ (a \in V4 => FromStr(a) = a) /\ ~ ToStrFails(FromStr(a))
  BY ResolverAssumption DEF FromStr, Addresses, ToStrFails

\* The addresses of the entries of the two contents.
LEMMA EntryType ==
  ASSUME TypeOK
  PROVE  \A n \in Names : Old(n) \in Addresses \cup {NONE} /\ New(n) \in Addresses \cup {NONE}
  BY DEF TypeOK, Config, Old, New

LEMMA ChangedServersType == ChangedServers \subseteq Names
  BY DEF ChangedServers

\* Everything starts with empty lists and no transaction.
LEMMA InitIInv == Init => IInv
  <1> SUFFICES ASSUME Init PROVE IInv
    OBVIOUS
  <1>1. TypeOK
    <2>1. servers \in [Links -> SUBSET Addresses]
      BY DEF Init, Addresses
    <2>2. txns \in 0..MaxTxns /\ faults \in 0..MaxFaults
      BY ConstantsAssumption DEF Init
    <2>3. search \in SearchList /\ list \in ServerList
      BY DEF Init, SearchList, ServerList
    <2>4. QED
      BY <2>1, <2>2, <2>3 DEF Init, TypeOK
  <1>2. QED
    BY <1>1 DEF Init, IInv, StageInv, SearchLoaded, SearchEdited, SearchStored,
                ListOrigin, ListEdited, ServerStored

----------------------------------------------------------------------------
(* Types and stages.                                                       *)

LEMMA NextTypeOK == TypeOK /\ StageInv /\ [Next]_vars => TypeOK'
  <1> SUFFICES ASSUME TypeOK, StageInv, [Next]_vars PROVE TypeOK'
    OBVIOUS
  <1> USE DEF Failed, Fault
  <1>1. ASSUME NEW c \in Config, Edit(c) PROVE TypeOK'
    <2>1. txns' \in 0..MaxTxns
      BY <1>1, ConstantsAssumption DEF Edit, TypeOK
    <2>2. QED
      BY <1>1, <2>1 DEF Edit, TypeOK
  <1>2. CASE LoadSearch
    <2>1. search' \in SearchList
      BY <1>2 DEF LoadSearch, SearchList
    <2>2. QED
      BY <1>2, <2>1 DEF LoadSearch, TypeOK
  <1>3. CASE ChangeSearch
    <2>1. search' \in SearchList
      <3>1. CASE UNCHANGED search
        BY <3>1 DEF TypeOK
      <3>2. CASE ~ UNCHANGED search
        <4>1. PICK first \in [DomainsDeleted -> Links] :
                search' = (search \ {<<first[d], d>> : d \in DomainsDeleted})
                             \cup {<<NONE, d>> : d \in DomainsCreated}
          BY <1>3, <3>2 DEF ChangeSearch
        <4>2. DomainsCreated \subseteq Domains
          BY DEF TypeOK, Config, DomainsCreated
        <4>3. {<<NONE, d>> : d \in DomainsCreated} \in SearchList
          BY <4>2 DEF SearchList
        <4>4. QED
          BY <4>1, <4>3 DEF TypeOK, SearchList
      <3>3. QED
        BY <3>1, <3>2
    <2>2. QED
      BY <1>3, <2>1 DEF ChangeSearch, TypeOK
  <1>4. CASE StoreSearch
    <2>1. {e[2] : e \in search} \in SUBSET Domains
      BY DEF TypeOK, SearchList
    <2>2. domains' \in [Links -> SUBSET Domains] /\ search' \in SearchList
      BY <1>4, <2>1 DEF StoreSearch, TypeOK, SearchList
    <2>3. QED
      BY <1>4, <2>2 DEF StoreSearch, AfterSearch, TypeOK
  <1>5. CASE LoadServer
    <2>1. list' \in ServerList
      BY <1>5 DEF LoadServer, ServerList, Addresses, TypeOK
    <2>2. QED
      BY <1>5, <2>1, ChangedServersType DEF LoadServer, TypeOK
  <1>6. ASSUME NEW n \in Names, ChangeServerAddress(n) PROVE TypeOK'
    <2>1. CASE UNCHANGED list
      BY <1>6, <2>1 DEF ChangeServerAddress, TypeOK
    <2>2. CASE ~ UNCHANGED list
      <3>1. \/ New(n) # NONE /\ list' \subseteq list \cup {<<n, New(n)>>}
            \/ list' \subseteq list
        <4>1. CASE Old(n) = NONE
          <5>1. New(n) # NONE
            BY <1>6, <4>1 DEF ChangeServerAddress, StageInv, ChangedServers
          <5>2. list' = list \cup {<<n, New(n)>>}
            BY <1>6, <4>1 DEF ChangeServerAddress
          <5>3. QED
            BY <5>1, <5>2
        <4>2. CASE Old(n) # NONE
          BY <1>6, <2>2, <4>2 DEF ChangeServerAddress
        <4>3. QED
          BY <4>1, <4>2
      <3>2. list' \in ServerList
        BY <3>1, EntryType DEF TypeOK, ServerList
      <3>3. QED
        BY <1>6, <3>2 DEF ChangeServerAddress, TypeOK
    <2>3. QED
      BY <2>1, <2>2
  <1>7. CASE StoreServer
    <2>1. {FromStr(e[2]) : e \in list} \in SUBSET Addresses
      BY FromStrType DEF TypeOK, ServerList, Addresses
    <2>2. servers' \in [Links -> SUBSET Addresses] /\ list' \in ServerList
      BY <1>7, <2>1 DEF StoreServer, TypeOK, ServerList
    <2>3. QED
      BY <1>7, <2>2 DEF StoreServer, TypeOK
  <1>8. CASE Return
    BY <1>8 DEF Return, TypeOK, SearchList, ServerList
  <1>9. CASE Done \/ Rejected
    BY <1>9 DEF Done, Rejected, TypeOK
  <1>10. CASE CallFails \/ Aborted
    <2>1. faults' \in 0..MaxFaults
      BY <1>10, ConstantsAssumption DEF CallFails, Aborted, TypeOK
    <2>2. QED
      BY <1>10, <2>1 DEF CallFails, Aborted, TypeOK
  <1>11. ASSUME NEW l \in Links, LinkChanged(l) PROVE TypeOK'
    <2>1. domains' \in [Links -> SUBSET Domains] /\ servers' \in [Links -> SUBSET Addresses]
      BY <1>11 DEF LinkChanged, TypeOK
    <2>2. faults' \in 0..MaxFaults
      BY <1>11, ConstantsAssumption DEF LinkChanged, TypeOK
    <2>3. QED
      BY <1>11, <2>1, <2>2 DEF LinkChanged, TypeOK
  <1>12. CASE UNCHANGED vars
    BY <1>12 DEF vars, TypeOK
  <1>13. QED
    BY <1>1, <1>2, <1>3, <1>4, <1>5, <1>6, <1>7, <1>8, <1>9, <1>10, <1>11, <1>12
    DEF Next, Callback, Environment

LEMMA NextStageInv == TypeOK /\ StageInv /\ [Next]_vars => StageInv'
  <1> SUFFICES ASSUME TypeOK, StageInv, [Next]_vars PROVE StageInv'
    OBVIOUS
  <1> USE DEF StageInv, Failed
  <1>1. ASSUME NEW c \in Config, Edit(c) PROVE StageInv'
    BY <1>1 DEF Edit
  <1>2. CASE LoadSearch \/ ChangeSearch \/ StoreSearch
    BY <1>2 DEF LoadSearch, ChangeSearch, StoreSearch, AfterSearch
  <1>3. CASE LoadServer
    <2>1. ChangedServers' = ChangedServers
      BY <1>3 DEF LoadServer, ChangedServers, Old, New
    <2>2. QED
      BY <1>3, <2>1 DEF LoadServer
  <1>4. ASSUME NEW n \in Names, ChangeServerAddress(n) PROVE StageInv'
    <2>1. ChangedServers' = ChangedServers
      BY <1>4 DEF ChangeServerAddress, ChangedServers, Old, New
    <2>2. QED
      BY <1>4, <2>1 DEF ChangeServerAddress
  <1>5. CASE StoreServer \/ Return \/ Done \/ Rejected \/ CallFails \/ Aborted
    BY <1>5 DEF StoreServer, Return, Done, Rejected, CallFails, Aborted
  <1>6. ASSUME NEW l \in Links, LinkChanged(l) PROVE StageInv'
    <2>1. ChangedServers' = ChangedServers
      BY <1>6 DEF LinkChanged, ChangedServers, Old, New
    <2>2. QED
      BY <1>6, <2>1 DEF LinkChanged
  <1>7. CASE UNCHANGED vars
    <2>1. ChangedServers' = ChangedServers
      BY <1>7 DEF vars, ChangedServers, Old, New
    <2>2. QED
      BY <1>7, <2>1 DEF vars
  <1>8. QED
    BY <1>1, <1>2, <1>3, <1>4, <1>5, <1>6, <1>7 DEF Next, Callback, Environment

----------------------------------------------------------------------------
(* The search domains.                                                     *)

\* Until it is edited, the list is what resolved holds.
LEMMA NextSearchLoaded == TypeOK /\ SearchLoaded /\ [Next]_vars => SearchLoaded'
  <1> SUFFICES ASSUME TypeOK, SearchLoaded, [Next]_vars PROVE SearchLoaded'
    OBVIOUS
  <1> USE DEF SearchLoaded, LoadedDomains, Failed
  <1>1. ASSUME NEW c \in Config, Edit(c) PROVE SearchLoaded'
    BY <1>1 DEF Edit
  <1>2. CASE LoadSearch
    BY <1>2 DEF LoadSearch
  <1>3. CASE ChangeSearch \/ StoreSearch \/ LoadServer \/ StoreServer
    BY <1>3 DEF ChangeSearch, StoreSearch, AfterSearch, LoadServer, StoreServer
  <1>4. ASSUME NEW n \in Names, ChangeServerAddress(n) PROVE SearchLoaded'
    BY <1>4 DEF ChangeServerAddress
  <1>5. CASE Return \/ Done \/ Rejected \/ CallFails \/ Aborted
    BY <1>5 DEF Return, Done, Rejected, CallFails, Aborted
  <1>6. ASSUME NEW l \in Links, LinkChanged(l) PROVE SearchLoaded'
    BY <1>6 DEF LinkChanged
  <1>7. CASE UNCHANGED vars
    BY <1>7 DEF vars
  <1>8. QED
    BY <1>1, <1>2, <1>3, <1>4, <1>5, <1>6, <1>7 DEF Next, Callback, Environment

\* The edit of the list.  Of a deleted domain one element goes: when another
\* one stays, two links had the domain, and one of them is not written.
LEMMA EditSearch ==
  ASSUME TypeOK, SearchLoaded, ChangeSearch, ~ stale, pc' = "search_store"
  PROVE  SearchEdited'
  <1>1. PICK first \in [DomainsDeleted -> Links] :
          /\ \A d \in DomainsDeleted : <<first[d], d>> \in search
          /\ search' = (search \ {<<first[d], d>> : d \in DomainsDeleted})
                          \cup {<<NONE, d>> : d \in DomainsCreated}
    BY DEF ChangeSearch, Failed
  <1>2. search = LoadedDomains
    BY DEF SearchLoaded, ChangeSearch
  <1>3. UNCHANGED <<domains, running, cand>>
    BY DEF ChangeSearch
  <1>4. DomainsCreated' = DomainsCreated /\ DomainsDeleted' = DomainsDeleted
    BY <1>3 DEF DomainsCreated, DomainsDeleted
  <1>5. ASSUME NEW d \in DomainsCreated PROVE \E e \in search' : e[2] = d
    <2>1. <<NONE, d>> \in search'
      BY <1>1
    <2>2. QED
      BY <2>1
  <1>6. ASSUME NEW e \in search', e[2] \in DomainsDeleted
        PROVE  \E l \in Links \ {Link} : e[2] \in domains[l]
    <2>1. e \in search /\ e # <<first[e[2]], e[2]>>
      BY <1>1, <1>6 DEF DomainsCreated, DomainsDeleted
    <2>2. e \in Links \X Domains /\ e[2] \in domains[e[1]]
      BY <1>2, <2>1 DEF LoadedDomains
    <2>3. first[e[2]] \in Links /\ e[2] \in domains[first[e[2]]]
      BY <1>1, <1>2, <1>6 DEF LoadedDomains
    <2>4. e[1] # first[e[2]]
      BY <2>1, <2>2
    <2>5. QED
      BY <2>2, <2>3, <2>4
  <1>7. ASSUME NEW d \in domains[Link] \ DomainsDeleted
        PROVE  \E e \in search' : e[2] = d
    <2>1. <<Link, d>> \in search
      BY <1>2, ResolverAssumption DEF LoadedDomains, TypeOK
    <2>2. <<Link, d>> \in search'
      BY <1>1, <1>7, <2>1
    <2>3. QED
      BY <2>2
  <1>8. QED
    BY <1>3, <1>4, <1>5, <1>6, <1>7 DEF SearchEdited

LEMMA NextSearchEdited ==
  TypeOK /\ SearchLoaded /\ SearchEdited /\ [Next]_vars => SearchEdited'
  <1> SUFFICES ASSUME TypeOK, SearchLoaded, SearchEdited, [Next]_vars
               PROVE  SearchEdited'
    OBVIOUS
  <1>1. CASE ChangeSearch
    <2>1. CASE stale \/ pc' # "search_store"
      BY <1>1, <2>1 DEF ChangeSearch, SearchEdited
    <2>2. QED
      BY <1>1, <2>1, EditSearch
  <1> USE DEF SearchEdited, Failed, DomainsCreated, DomainsDeleted
  <1>2. ASSUME NEW c \in Config, Edit(c) PROVE SearchEdited'
    BY <1>2 DEF Edit
  <1>3. CASE LoadSearch \/ StoreSearch \/ LoadServer \/ StoreServer
    BY <1>3 DEF LoadSearch, StoreSearch, AfterSearch, LoadServer, StoreServer
  <1>4. ASSUME NEW n \in Names, ChangeServerAddress(n) PROVE SearchEdited'
    BY <1>4 DEF ChangeServerAddress
  <1>5. CASE Return \/ Done \/ Rejected \/ CallFails \/ Aborted
    BY <1>5 DEF Return, Done, Rejected, CallFails, Aborted
  <1>6. ASSUME NEW l \in Links, LinkChanged(l) PROVE SearchEdited'
    BY <1>6 DEF LinkChanged
  <1>7. CASE UNCHANGED vars
    BY <1>7 DEF vars
  <1>8. QED
    BY <1>1, <1>2, <1>3, <1>4, <1>5, <1>6, <1>7 DEF Next, Callback, Environment

\* The domains are on the link when they were stored, and when there was
\* nothing to store.
LEMMA NextSearchStored ==
  TypeOK /\ StageInv /\ SearchEdited /\ SearchStored /\ [Next]_vars => SearchStored'
  <1> SUFFICES ASSUME TypeOK, StageInv, SearchEdited, SearchStored, [Next]_vars
               PROVE  SearchStored'
    OBVIOUS
  <1>1. CASE StoreSearch
    <2> SUFFICES ASSUME ~ stale PROVE SearchApplied'
      BY <1>1 DEF StoreSearch, SearchStored
    <2>1. domains'[Link] = {e[2] : e \in search}
      BY <1>1, ResolverAssumption DEF StoreSearch, TypeOK
    <2>2. \A l \in Links \ {Link} : domains'[l] = domains[l]
      BY <1>1 DEF StoreSearch, TypeOK
    <2>3. DomainsCreated' = DomainsCreated /\ DomainsDeleted' = DomainsDeleted
      BY <1>1 DEF StoreSearch, DomainsCreated, DomainsDeleted
    <2>4. /\ \A d \in DomainsCreated : \E e \in search : e[2] = d
          /\ \A e \in search : e[2] \in DomainsDeleted =>
                \E l \in Links \ {Link} : e[2] \in domains[l]
      BY <1>1 DEF StoreSearch, SearchEdited
    <2>5. QED
      BY <2>1, <2>2, <2>3, <2>4 DEF SearchApplied
  <1> USE DEF SearchStored, SearchApplied, Failed, DomainsCreated, DomainsDeleted
  <1>2. ASSUME NEW c \in Config, Edit(c) PROVE SearchStored'
    BY <1>2 DEF Edit
  <1>3. CASE LoadSearch \/ ChangeSearch \/ LoadServer \/ StoreServer
    BY <1>3 DEF LoadSearch, ChangeSearch, LoadServer, StoreServer
  <1>4. ASSUME NEW n \in Names, ChangeServerAddress(n) PROVE SearchStored'
    BY <1>4 DEF ChangeServerAddress
  <1>5. CASE Return \/ Done \/ Rejected \/ CallFails \/ Aborted
    BY <1>5 DEF Return, Done, Rejected, CallFails, Aborted, StageInv
  <1>6. ASSUME NEW l \in Links, LinkChanged(l) PROVE SearchStored'
    BY <1>6 DEF LinkChanged
  <1>7. CASE UNCHANGED vars
    BY <1>7 DEF vars
  <1>8. QED
    BY <1>1, <1>2, <1>3, <1>4, <1>5, <1>6, <1>7 DEF Next, Callback, Environment

----------------------------------------------------------------------------
(* The servers.                                                            *)

\* What one visited change does to the list: it may add its new address, and
\* takes away one element with its old one if it has one.
LEMMA OneChange ==
  ASSUME TypeOK, StageInv, NEW n \in Names, ChangeServerAddress(n), pc' = "server_change"
  PROVE  /\ UNCHANGED <<running, cand, servers, stale>>
         /\ n \in ChangedServers /\ todo' = todo \ {n} /\ Handled' = Handled \cup {n}
         /\ New(n) # NONE => <<n, New(n)>> \in list'
         /\ \E gone \in SUBSET list :
               /\ \A e \in gone : e[2] = Old(n)
               /\ Old(n) # NONE => gone # {}
               /\ list' = (list \ gone) \cup
                          (IF New(n) = NONE THEN {} ELSE {<<n, New(n)>>})
  <1>1. /\ UNCHANGED <<running, cand, servers, stale>>
        /\ n \in todo /\ n \in ChangedServers
    BY DEF ChangeServerAddress, StageInv
  <1>2. todo' = todo \ {n}
    BY DEF ChangeServerAddress, Failed
  <1>3. ChangedServers' = ChangedServers
    BY <1>1 DEF ChangedServers, Old, New
  <1>4. Handled' = Handled \cup {n}
    BY <1>1, <1>2, <1>3 DEF Handled
  <1>5. \E gone \in SUBSET list :
           /\ \A e \in gone : e[2] = Old(n)
           /\ Old(n) # NONE => gone # {}
           /\ list' = (list \ gone) \cup
                      (IF New(n) = NONE THEN {} ELSE {<<n, New(n)>>})
    <2>1. CASE Old(n) = NONE
      <3>1. New(n) # NONE
        BY <1>1, <2>1 DEF ChangedServers
      <3>2. list' = (list \ {}) \cup {<<n, New(n)>>}
        BY <2>1 DEF ChangeServerAddress
      <3>3. QED
        BY <2>1, <3>1, <3>2
    <2>2. CASE Old(n) # NONE
      <3>1. PICK e \in list :
               /\ e[2] = Old(n)
               /\ list' = (list \ {e}) \cup
                          (IF New(n) = NONE THEN {} ELSE {<<n, New(n)>>})
        BY <2>2 DEF ChangeServerAddress, Failed
      <3>2. {e} \in SUBSET list /\ {e} # {} /\ \A f \in {e} : f[2] = Old(n)
        BY <3>1
      <3>3. QED
        BY <3>1, <3>2
    <2>3. QED
      BY <2>1, <2>2
  <1>6. QED
    BY <1>1, <1>2, <1>4, <1>5

\* The list holds loaded IPv4 addresses and those of the visited changes.
LEMMA NextListOrigin ==
  TypeOK /\ StageInv /\ ListOrigin /\ [Next]_vars => ListOrigin'
  <1> SUFFICES ASSUME TypeOK, StageInv, ListOrigin, [Next]_vars PROVE ListOrigin'
    OBVIOUS
  <1>1. CASE LoadServer
    BY <1>1 DEF LoadServer, ListOrigin, Failed
  <1>2. ASSUME NEW n \in Names, ChangeServerAddress(n) PROVE ListOrigin'
    <2> SUFFICES ASSUME pc' = "server_change", NEW e \in list'
                 PROVE  \/ /\ e[1] \in Links /\ e[2] \in V4
                           /\ ~ stale' => e[2] \in servers'[e[1]]
                        \/ /\ e[1] \in Handled' /\ e[2] = New(e[1])' /\ New(e[1])' # NONE
      BY DEF ListOrigin
    <2>0. PICK gone \in SUBSET list :
             list' = (list \ gone) \cup
                     (IF New(n) = NONE THEN {} ELSE {<<n, New(n)>>})
      BY <1>2, OneChange
    <2>1. /\ UNCHANGED <<running, cand, servers, stale>>
          /\ Handled' = Handled \cup {n}
          /\ e \in list \/ (New(n) # NONE /\ e = <<n, New(n)>>)
      BY <1>2, <2>0, OneChange
    <2>2. CASE e \in list
      BY <1>2, <2>1, <2>2 DEF ListOrigin, New, ChangeServerAddress
    <2>3. CASE New(n) # NONE /\ e = <<n, New(n)>>
      BY <2>1, <2>3 DEF New
    <2>4. QED
      BY <2>1, <2>2, <2>3
  <1> USE DEF ListOrigin, Failed, Handled, ChangedServers, Old, New
  <1>3. ASSUME NEW c \in Config, Edit(c) PROVE ListOrigin'
    BY <1>3 DEF Edit
  <1>4. CASE LoadSearch \/ ChangeSearch \/ StoreSearch \/ StoreServer
    BY <1>4 DEF LoadSearch, ChangeSearch, StoreSearch, AfterSearch, StoreServer
  <1>5. CASE Return \/ Done \/ Rejected \/ CallFails \/ Aborted
    BY <1>5 DEF Return, Done, Rejected, CallFails, Aborted
  <1>6. ASSUME NEW l \in Links, LinkChanged(l) PROVE ListOrigin'
    BY <1>6 DEF LinkChanged
  <1>7. CASE UNCHANGED vars
    BY <1>7 DEF vars
  <1>8. QED
    BY <1>1, <1>2, <1>3, <1>4, <1>5, <1>6, <1>7 DEF Next, Callback, Environment

\* The list as it was loaded has all servers of the link, none visited.
LEMMA LoadList ==
  ASSUME TypeOK, LoadServer, pc' = "server_change"
  PROVE  ListEdited'
  <1>1. /\ ~ LoadServerFails
        /\ list' = {e \in Links \X V4 : e[2] \in servers[e[1]]}
        /\ todo' = ChangedServers
        /\ UNCHANGED <<running, cand, servers>>
    BY DEF LoadServer, Failed
  <1>2. Handled' = {}
    BY <1>1 DEF Handled, ChangedServers, Old, New
  <1>3. ASSUME NEW a \in servers[Link] PROVE a \in V4 /\ <<Link, a>> \in list'
    <2>1. a \in Addresses /\ a \in AllServers
      BY ResolverAssumption DEF TypeOK, AllServers
    <2>2. a \in V4
      BY <1>1, <2>1 DEF LoadServerFails, ToStrFails, Addresses
    <2>3. QED
      BY <1>1, <2>2, ResolverAssumption
  <1>4. QED
    BY <1>1, <1>2, <1>3 DEF ListEdited

\* One change keeps the list in line with the changes that were visited.
LEMMA EditList ==
  ASSUME TypeOK, StageInv, ListOrigin, ListEdited,
         NEW n \in Names, ChangeServerAddress(n), pc' = "server_change", ~ stale
  PROVE  ListEdited'
  <1>1. /\ UNCHANGED <<running, cand, servers, stale>>
        /\ n \in ChangedServers /\ Handled' = Handled \cup {n}
        /\ New(n) # NONE => <<n, New(n)>> \in list'
    BY OneChange
  <1>2. PICK gone \in SUBSET list :
           /\ \A e \in gone : e[2] = Old(n)
           /\ Old(n) # NONE => gone # {}
           /\ list' = (list \ gone) \cup
                      (IF New(n) = NONE THEN {} ELSE {<<n, New(n)>>})
    BY OneChange
  <1>3. pc = "server_change"
    BY DEF ChangeServerAddress
  <1>4. Old(n) \in Dropped
    BY <1>1 DEF Dropped
  <1>5. /\ \A m : Old(m)' = Old(m) /\ New(m)' = New(m)
        /\ Dropped' = Dropped /\ Configured' = Configured
    BY <1>1 DEF Old, New, Dropped, Configured, ChangedServers
  <1>6. ASSUME NEW m \in Handled', New(m) \notin Dropped \cup {NONE}
        PROVE  <<m, New(m)>> \in list'
    <2>1. CASE m = n
      BY <1>1, <1>6, <2>1
    <2>2. CASE m \in Handled
      <3>1. <<m, New(m)>> \in list
        BY <1>3, <1>6, <2>2 DEF ListEdited
      <3>2. <<m, New(m)>> \notin gone
        BY <1>2, <1>4, <1>6
      <3>3. QED
        BY <1>2, <3>1, <3>2
    <2>3. QED
      BY <1>1, <2>1, <2>2
  <1>7. ASSUME NEW m \in Handled', <<Link, Old(m)>> \in list'
        PROVE  Old(m) \in Configured \/ \E l \in Links \ {Link} : Old(m) \in servers[l]
    <2>1. Link \notin Names
      BY ConstantsAssumption, ResolverAssumption
    <2>2. <<Link, Old(m)>> \in list
      BY <1>2, <1>7, <2>1
    <2>3. CASE m \in Handled
      BY <1>3, <2>2, <2>3 DEF ListEdited
    <2>4. CASE m = n
      <3>1. Old(n) \in V4
        <4>1. Link \notin Handled
          BY <2>1 DEF Handled, ChangedServers
        <4>2. QED
          BY <1>3, <2>2, <2>4, <4>1 DEF ListOrigin
      <3>2. Old(n) # NONE
        BY <3>1, ConstantsAssumption DEF Addresses
      <3>3. PICK e \in gone : e \in list /\ e[2] = Old(n)
        BY <1>2, <3>2
      <3>4. CASE e[1] \in Handled /\ e[2] = New(e[1]) /\ New(e[1]) # NONE
        <4>1. e[1] \in Names
          BY <3>4 DEF Handled, ChangedServers
        <4>2. FromStr(New(e[1])) \in Configured
          BY <3>4, <4>1 DEF Configured
        <4>3. FromStr(Old(n)) = Old(n)
          BY <3>1 DEF FromStr
        <4>4. QED
          BY <2>4, <3>3, <3>4, <4>2, <4>3
      <3>5. CASE e[1] \in Links /\ e[2] \in servers[e[1]]
        <4>1. e[1] # Link
          <5>1. e = <<e[1], e[2]>>
            BY <3>3 DEF TypeOK, ServerList
          <5>2. <<Link, Old(n)>> \notin gone
            BY <1>2, <1>7, <2>1, <2>4
          <5>3. QED
            BY <3>3, <5>1, <5>2
        <4>2. QED
          BY <2>4, <3>3, <3>5, <4>1
      <3>6. QED
        BY <1>3, <3>3, <3>4, <3>5 DEF ListOrigin
    <2>5. QED
      BY <1>1, <2>3, <2>4
  <1>8. ASSUME NEW a \in servers[Link] \ Dropped
        PROVE  a \in V4 /\ <<Link, a>> \in list'
    <2>1. a \in V4 /\ <<Link, a>> \in list
      BY <1>3 DEF ListEdited
    <2>2. <<Link, a>> \notin gone
      BY <1>2, <1>4, <1>8
    <2>3. QED
      BY <1>2, <2>1, <2>2
  <1>9. QED
    BY <1>1, <1>5, <1>6, <1>7, <1>8 DEF ListEdited

LEMMA NextListEdited ==
  TypeOK /\ StageInv /\ ListOrigin /\ ListEdited /\ [Next]_vars => ListEdited'
  <1> SUFFICES ASSUME TypeOK, StageInv, ListOrigin, ListEdited, [Next]_vars
               PROVE  ListEdited'
    OBVIOUS
  <1>1. CASE LoadServer
    <2>1. CASE pc' # "server_change"
      BY <2>1 DEF ListEdited
    <2>2. QED
      BY <1>1, <2>1, LoadList
  <1>2. ASSUME NEW n \in Names, ChangeServerAddress(n) PROVE ListEdited'
    <2>1. CASE stale \/ pc' # "server_change"
      BY <1>2, <2>1 DEF ChangeServerAddress, ListEdited
    <2>2. QED
      BY <1>2, <2>1, EditList
  <1> USE DEF ListEdited, Failed, Handled, ChangedServers, Old, New, Dropped, Configured
  <1>3. ASSUME NEW c \in Config, Edit(c) PROVE ListEdited'
    BY <1>3 DEF Edit
  <1>4. CASE LoadSearch \/ ChangeSearch \/ StoreSearch \/ StoreServer
    BY <1>4 DEF LoadSearch, ChangeSearch, StoreSearch, AfterSearch, StoreServer
  <1>5. CASE Return \/ Done \/ Rejected \/ CallFails \/ Aborted
    BY <1>5 DEF Return, Done, Rejected, CallFails, Aborted
  <1>6. ASSUME NEW l \in Links, LinkChanged(l) PROVE ListEdited'
    BY <1>6 DEF LinkChanged
  <1>7. CASE UNCHANGED vars
    BY <1>7 DEF vars
  <1>8. QED
    BY <1>1, <1>2, <1>3, <1>4, <1>5, <1>6, <1>7 DEF Next, Callback, Environment

\* When the list is sent to the link, every change was visited.
LEMMA StoreList ==
  ASSUME TypeOK, StageInv, ListOrigin, ListEdited, StoreServer, ~ stale
  PROVE  ServerApplied'
  <1>1. /\ pc = "server_change" /\ todo = {}
        /\ UNCHANGED <<running, cand>>
    BY DEF StoreServer
  <1>2. /\ servers'[Link] = {FromStr(e[2]) : e \in list}
        /\ \A l \in Links \ {Link} : servers'[l] = servers[l]
    BY ResolverAssumption DEF StoreServer, TypeOK
  <1>3. Handled = ChangedServers
    BY <1>1 DEF Handled
  <1>4. /\ \A m : Old(m)' = Old(m) /\ New(m)' = New(m)
        /\ ChangedServers' = ChangedServers
        /\ Dropped' = Dropped /\ Configured' = Configured
    BY <1>1 DEF Old, New, Dropped, Configured, ChangedServers
  <1>5. ASSUME NEW n \in ChangedServers, New(n) \notin Dropped \cup {NONE}
        PROVE  FromStr(New(n)) \in servers'[Link]
    <2>1. <<n, New(n)>> \in list
      BY <1>1, <1>3, <1>5 DEF ListEdited
    <2>2. QED
      BY <1>2, <2>1
  <1>6. ASSUME NEW a \in Dropped \cap servers'[Link]
        PROVE  a \in Configured \/ \E l \in Links \ {Link} : a \in servers'[l]
    <2>1. PICK e \in list : a = FromStr(e[2])
      BY <1>2
    <2>2. PICK m \in ChangedServers : a = Old(m)
      BY DEF Dropped
    <2>3. CASE e[1] \in Handled /\ e[2] = New(e[1]) /\ New(e[1]) # NONE
      BY <2>1, <2>3 DEF Configured, Handled, ChangedServers
    <2>4. CASE e[1] \in Links /\ e[2] \in V4 /\ e[2] \in servers[e[1]]
      <3>1. a = e[2]
        BY <2>1, <2>4 DEF FromStr
      <3>2. CASE e[1] = Link
        <4>1. <<Link, Old(m)>> \in list
          <5>1. e = <<e[1], e[2]>>
            BY DEF TypeOK, ServerList
          <5>2. QED
            BY <2>2, <3>1, <3>2, <5>1
        <4>2. Old(m) \in Configured \/ \E l \in Links \ {Link} : Old(m) \in servers[l]
          BY <1>1, <1>3, <4>1 DEF ListEdited
        <4>3. QED
          BY <1>2, <2>2, <4>2
      <3>3. CASE e[1] # Link
        BY <1>2, <2>4, <3>1, <3>3
      <3>4. QED
        BY <3>2, <3>3
    <2>5. QED
      BY <1>1, <2>3, <2>4 DEF ListOrigin
  <1>7. QED
    BY <1>4, <1>5, <1>6 DEF ServerApplied

LEMMA NextServerStored ==
  TypeOK /\ StageInv /\ ListOrigin /\ ListEdited /\ ServerStored /\ [Next]_vars
    => ServerStored'
  <1> SUFFICES ASSUME TypeOK, StageInv, ListOrigin, ListEdited, ServerStored, [Next]_vars
               PROVE  ServerStored'
    OBVIOUS
  <1>1. CASE StoreServer
    BY <1>1, StoreList DEF StoreServer, ServerStored
  <1>2. CASE StoreSearch
    <2>1. pc' = "replied" => ChangedServers' = {}
      BY <1>2 DEF StoreSearch, AfterSearch, ChangedServers, Old, New
    <2>2. QED
      BY <2>1 DEF ServerStored, ServerApplied, Dropped
  <1> USE DEF ServerStored, ServerApplied, Failed, ChangedServers, Old, New, Dropped,
              Configured
  <1>3. ASSUME NEW c \in Config, Edit(c) PROVE ServerStored'
    BY <1>3 DEF Edit
  <1>4. CASE LoadSearch \/ ChangeSearch \/ LoadServer
    BY <1>4 DEF LoadSearch, ChangeSearch, LoadServer
  <1>5. ASSUME NEW n \in Names, ChangeServerAddress(n) PROVE ServerStored'
    BY <1>5 DEF ChangeServerAddress
  <1>6. CASE Return \/ Done \/ Rejected \/ CallFails \/ Aborted
    BY <1>6 DEF Return, Done, Rejected, CallFails, Aborted, StageInv
  <1>7. ASSUME NEW l \in Links, LinkChanged(l) PROVE ServerStored'
    BY <1>7 DEF LinkChanged
  <1>8. CASE UNCHANGED vars
    BY <1>8 DEF vars
  <1>9. QED
    BY <1>1, <1>2, <1>3, <1>4, <1>5, <1>6, <1>7, <1>8 DEF Next, Callback, Environment

----------------------------------------------------------------------------
(* The theorems.                                                           *)

\* What the callbacks know at each stage is true of every reachable state.
THEOREM Inductive == Spec => []IInv
  <1>1. IInv /\ [Next]_vars => IInv'
    BY NextTypeOK, NextStageInv, NextSearchLoaded, NextSearchEdited,
       NextSearchStored, NextListOrigin, NextListEdited, NextServerStored DEF IInv
  <1>2. QED
    BY <1>1, InitIInv, PTL DEF Spec

\* Every variable of the two callbacks keeps its type; in particular resolved
\* is only given addresses (change.c 403-575).
THEOREM TypeCorrect == Spec => []TypeOK
  <1>1. IInv => TypeOK
    BY DEF IInv
  <1>2. QED
    BY <1>1, Inductive, PTL

\* The assertions at the start of the two callbacks never fail, however many
\* events ended in whatever way before.
THEOREM ListsAlwaysFreed == Spec => []ListsFreed
  <1>1. IInv => ListsFreed
    BY DEF IInv, StageInv, ListsFreed
  <1>2. QED
    BY <1>1, Inductive, PTL

\* A transaction that both callbacks accept has reached the link, unless some
\* other client of resolved changed a link meanwhile.
THEOREM AcceptedAlwaysApplied == Spec => []AcceptedApplied
  <1>1. IInv => AcceptedApplied
    BY DEF IInv, SearchStored, SearchApplied, ServerStored, ServerApplied,
           AcceptedApplied
  <1>2. QED
    BY <1>1, Inductive, PTL

\* A failure of the environment is counted.
LEMMA FaultCounts == TypeOK /\ Fault => faults' # faults
  BY ConstantsAssumption DEF TypeOK, Fault

\* Writing the link takes away nothing but what the transaction drops, and no
\* other link is written.
THEOREM UnmentionedAlwaysKept == Spec => UnmentionedKept
  <1> DEFINE Keeps ==
        faults' = faults /\ pc \in {"search_store", "server_change"} =>
          /\ ~ stale => /\ domains[Link] \ DomainsDeleted \subseteq domains'[Link]
                        /\ servers[Link] \ Dropped \subseteq servers'[Link]
          /\ \A l \in Links \ {Link} :
                domains'[l] = domains[l] /\ servers'[l] = servers[l]
  <1>1. ASSUME IInv, [Next]_vars PROVE Keeps \/ UNCHANGED vars
    <2> USE <1>1
    <2>1. CASE StoreSearch
      <3>1. /\ domains'[Link] = {e[2] : e \in search}
            /\ \A l \in Links \ {Link} : domains'[l] = domains[l]
            /\ servers' = servers /\ pc = "search_store"
        BY <2>1, ResolverAssumption DEF StoreSearch, IInv, TypeOK
      <3>2. ~ stale => \A d \in domains[Link] \ DomainsDeleted : \E e \in search : e[2] = d
        BY <3>1 DEF IInv, SearchEdited
      <3>3. ~ stale => domains[Link] \ DomainsDeleted \subseteq domains'[Link]
        BY <3>1, <3>2
      <3>4. QED
        BY <3>1, <3>3
    <2>2. CASE StoreServer
      <3>1. /\ servers'[Link] = {FromStr(e[2]) : e \in list}
            /\ \A l \in Links \ {Link} : servers'[l] = servers[l]
            /\ domains' = domains /\ pc = "server_change"
        BY <2>2, ResolverAssumption DEF StoreServer, IInv, TypeOK
      <3>2. ASSUME ~ stale, NEW a \in servers[Link] \ Dropped PROVE a \in servers'[Link]
        <4>1. a \in V4 /\ <<Link, a>> \in list
          BY <3>1, <3>2 DEF IInv, ListEdited
        <4>2. FromStr(<<Link, a>>[2]) = a
          BY <4>1 DEF FromStr
        <4>3. QED
          BY <3>1, <4>1, <4>2
      <3>3. QED
        BY <3>1, <3>2
    <2>3. ASSUME NEW n \in Names, ChangeServerAddress(n) PROVE Keeps
      BY <2>3 DEF ChangeServerAddress
    <2>4. CASE \/ LoadSearch \/ ChangeSearch \/ LoadServer
               \/ Return \/ Done \/ Rejected
      BY <2>4 DEF LoadSearch, ChangeSearch, LoadServer, Return, Done, Rejected
    <2>5. ASSUME NEW c \in Config, Edit(c) PROVE Keeps
      BY <2>5 DEF Edit
    <2>6. ASSUME NEW l \in Links, CallFails \/ Aborted \/ LinkChanged(l) PROVE Keeps
      BY <2>6, FaultCounts DEF IInv, CallFails, Aborted, LinkChanged
    <2>7. QED
      BY <2>1, <2>2, <2>3, <2>4, <2>5, <2>6, ResolverAssumption
      DEF Next, Callback, Environment
  <1>2. QED
    BY <1>1, Inductive, PTL DEF Spec, UnmentionedKept

\* The plugin never gives the link a server that its own load, and so every
\* later edit and start, would fail on (ip_address.c 17-72).
THEOREM StoredAlwaysLoadable == Spec => StoredServersLoadable
  <1> DEFINE Loadable ==
        servers' # servers /\ faults' = faults =>
          \A a \in servers'[Link] : ~ ToStrFails(a)
  <1>1. ASSUME IInv, [Next]_vars PROVE Loadable \/ UNCHANGED vars
    <2> USE <1>1
    <2>1. CASE StoreServer
      <3>1. servers'[Link] = {FromStr(e[2]) : e \in list}
        BY <2>1, ResolverAssumption DEF StoreServer, IInv, TypeOK
      <3>2. \A e \in list : e[2] \in Addresses
        BY DEF IInv, TypeOK, ServerList
      <3>3. QED
        BY <3>1, <3>2, FromStrType
    <2>2. ASSUME NEW n \in Names, ChangeServerAddress(n) PROVE Loadable
      BY <2>2 DEF ChangeServerAddress
    <2>3. CASE \/ LoadSearch \/ ChangeSearch \/ StoreSearch \/ LoadServer
               \/ Return \/ Done \/ Rejected
      BY <2>3 DEF LoadSearch, ChangeSearch, StoreSearch, LoadServer, Return, Done,
                  Rejected
    <2>4. ASSUME NEW c \in Config, Edit(c) PROVE Loadable
      BY <2>4 DEF Edit
    <2>5. ASSUME NEW l \in Links, CallFails \/ Aborted \/ LinkChanged(l) PROVE Loadable
      BY <2>5, FaultCounts DEF IInv, CallFails, Aborted, LinkChanged
    <2>6. QED
      BY <2>1, <2>2, <2>3, <2>4, <2>5, ResolverAssumption
      DEF Next, Callback, Environment
  <1>2. QED
    BY <1>1, Inductive, PTL DEF Spec, StoredServersLoadable
=============================================================================
