------------------------------ MODULE Startup ------------------------------
(***************************************************************************)
(* The start of the main plugin (sr_plugin_init_cb in                      *)
(* plugins/ietf-system/plugin.c): when the startup datastore has no        *)
(* hostname it counts as empty and the system is loaded into the running   *)
(* datastore (running/load.c); otherwise every part of it is checked       *)
(* against the system and stored when it is not there (running/store.c and *)
(* the check functions of core/api/system).  Each store is several calls,  *)
(* any of which may fail or be the last one of the process; nothing is     *)
(* undone, and the next start begins with what the last one left.          *)
(*                                                                         *)
(* The features timezone-name, authentication and local-users are enabled. *)
(* contact and location are checked by functions that never look at the    *)
(* system and are left out.                                                *)
(***************************************************************************)
EXTENDS Accounts, Resolver, Timezone

CONSTANTS ServerNames,  \* names of the list `server': an address has a name
                        \* of its own, its text
          Startups,     \* contents the startup datastore may have
          MaxStarts,    \* bound: starts of the plugin
          MaxFaults     \* bound: calls that fail, deaths, lost writes

Data == [tz : Zones \cup {NONE}, search : SUBSET Domains,
         server : [ServerNames -> Addresses \cup {NONE}], users : Datastore]

ASSUME StartupAssumption ==
    /\ V4 \subseteq ServerNames
    /\ NONE \notin Zones \cup Addresses \cup Data
    /\ Startups \subseteq Data
    /\ MaxStarts \in Nat /\ MaxFaults \in Nat

VARIABLES
    startup,    \* the startup datastore
    hostname,   \* it holds a hostname
    running,    \* the running datastore
    hidden,     \* accounts whose uid the load leaves out
    want,       \* subtree that is being stored; NONE: none was read
    pc, todo,
    synced,     \* the system was brought in line with the startup datastore
    starts, faults

system == <<os, hidden, resolved, localtime>>
store  == <<startup, hostname, running>>
vars   == <<system, errno, store, want, pc, todo, synced, starts, faults>>

----------------------------------------------------------------------------
(* What the loads return.                                                  *)

Listed == In(db) \ hidden

LoadFails == LoadServerFails \/ \E u \in Listed : LoadKeysFails(u)

\* An empty password is not written to the tree.
LoadedUser(u) ==
    [pw |-> IF db[u] = Empty THEN NULL ELSE LoadedPassword(db[u]),
     keys |-> LoadedKeys(u)]

\* An error of the load of the timezone is overwritten: the leaf is empty.
Loaded ==
    [tz |-> IF Unreadable THEN NoName ELSE localtime,
     search |-> AllDomains,
     server |-> [n \in ServerNames |-> IF n \in AllServers THEN n ELSE NONE],
     users |-> [u \in Users |-> IF u \in Listed THEN LoadedUser(u) ELSE NONE]]

\* sr_edit_batch() with "merge": what the datastore has and the system has
\* not stays.
MergedUser(old, new) ==
    IF old = NONE THEN new ELSE IF new = NONE THEN old
    ELSE [pw |-> IF new.pw = NULL THEN old.pw ELSE new.pw,
          keys |-> [k \in Keys |-> IF new.keys[k] = NONE THEN old.keys[k]
                                   ELSE new.keys[k]]]

Merge(old, new) ==
    [tz |-> new.tz,
     search |-> old.search \cup new.search,
     server |-> [n \in ServerNames |-> IF new.server[n] = NONE THEN old.server[n]
                                       ELSE new.server[n]],
     users |-> [u \in Users |-> MergedUser(old.users[u], new.users[u])]]

----------------------------------------------------------------------------
(* The plugin is not running.  sysrepo has copied the startup datastore    *)
(* to the running one when it was first used.                              *)

Init ==
    /\ db \in [Users -> Hashes \cup {Locked, NONE}]
    /\ db[Root] # NONE
    /\ home \in SUBSET (Users \ {Root})
    /\ group \in SUBSET In(db)
    /\ ssh \in [Users -> KeyFiles \cup {NoDir}]
    /\ \A u \in Users \ {Root} : u \notin home => ssh[u] = NoDir
    /\ hidden \in SUBSET (In(db) \ {Root})
    /\ domains \in [Links -> SUBSET Domains]
    /\ servers \in [Links -> SUBSET Addresses]
    /\ localtime \in Zones \cup {NoFile, Foreign}
    /\ startup \in Startups /\ hostname \in BOOLEAN /\ running = startup
    /\ want = NONE /\ pc = "down" /\ todo = {} /\ errno = "other"
    /\ synced = FALSE
    /\ starts = 0 /\ faults = 0

\* The plugin is started.
Start ==
    /\ pc = "down"
    /\ starts < MaxStarts
    /\ starts' = starts + 1
    /\ pc' = "empty"
    /\ UNCHANGED <<system, errno, store, want, todo, synced, faults>>

\* srpc_check_empty_datastore asks for the hostname only.
CheckEmpty ==
    /\ pc = "empty"
    /\ pc' = IF hostname THEN "read" ELSE "load"
    /\ UNCHANGED <<system, errno, store, want, todo, synced, starts, faults>>

\* goto error_out: the process exits.
Failed == pc' = "down" /\ want' = NONE /\ todo' = {}

\* Everything is loaded, then merged into the running datastore at once.
Load ==
    /\ pc = "load"
    /\ IF LoadFails
       THEN Failed /\ UNCHANGED running
       ELSE /\ running' = Merge(running, Loaded)
            /\ pc' = "subscribe"
            /\ UNCHANGED <<want, todo>>
    /\ UNCHANGED <<system, errno, startup, hostname, synced, starts, faults>>

\* sr_get_subtree: the stores below see this content.
Read ==
    /\ pc = "read"
    /\ want' = startup
    /\ pc' = "timezone"
    /\ UNCHANGED <<system, errno, store, todo, synced, starts, faults>>

----------------------------------------------------------------------------
(* system_running_store_timezone_name                                      *)

\* Mutant: the timezone is stored whether the system has it or not.
TimezonePresentNever == Unreadable \/ want.tz = NONE

\* Nothing is wanted, or the system has it; an error of the check, when the
\* current value cannot be read, ends in `return 0'.
TimezonePresent == Unreadable \/ want.tz \in {NONE, localtime}

\* Mutant: a zone without a file does not stop the start.
StoreTimezoneSwallowed ==
    /\ pc = "timezone"
    /\ IF TimezonePresent \/ want.tz \notin Installed
       THEN pc' = "search" /\ UNCHANGED localtime
       ELSE pc' = "symlink" /\ UnlinkLocaltime(want.tz)
    /\ UNCHANGED <<os, hidden, resolved, errno, store, want, todo, synced,
                   starts, faults>>

StoreTimezone ==
    /\ pc = "timezone"
    /\ \/ /\ TimezonePresent
          /\ pc' = "search"
          /\ UNCHANGED <<localtime, want, todo>>
       \/ /\ ~ TimezonePresent
          /\ UnlinkLocaltime(want.tz)
          /\ pc' = "symlink"
          /\ UNCHANGED <<want, todo>>
       \/ /\ ~ TimezonePresent
          /\ want.tz \notin Installed
          /\ Failed
          /\ UNCHANGED localtime
    /\ UNCHANGED <<os, hidden, resolved, errno, store, synced, starts, faults>>

LinkTimezone ==
    /\ pc = "symlink"
    /\ \/ /\ Symlink(want.tz)
          /\ pc' = "search"
          /\ UNCHANGED <<want, todo>>
       \/ /\ localtime # NoFile
          /\ Failed
          /\ UNCHANGED localtime
    /\ UNCHANGED <<os, hidden, resolved, errno, store, synced, starts, faults>>

----------------------------------------------------------------------------
(* The checks of a list count how many of its elements the system has.     *)

Status(wanted, found) ==
    IF wanted \cap found = {} THEN "non_existant"
    ELSE IF wanted \subseteq found THEN "equal" ELSE "partial"

\* Mutant: a list that is there in part is stored too.
StoresIncomplete(wanted, found) == wanted # {} /\ Status(wanted, found) # "equal"

\* A list that is there in part is left as it is.
Stores(wanted, found) ==
    wanted # {} /\ Status(wanted, found) = "non_existant"

\* system_running_store_dns_resolver: a domain is found on any link, and is
\* stored on one.
StoreSearch ==
    /\ pc = "search"
    /\ domains' = IF Stores(want.search, AllDomains)
                  THEN [domains EXCEPT ![Link] = want.search] ELSE domains
    /\ pc' = "server"
    /\ UNCHANGED <<os, hidden, servers, localtime, errno, store, want, todo,
                   synced, starts, faults>>

WantedServers == {n \in ServerNames : want.server[n] # NONE}

\* Mutant: the servers are sent one by one, each call replacing the last.
StoreServerOneByOne ==
    /\ pc = "server"
    /\ IF Stores(WantedServers, AllServers)
       THEN \E n \in WantedServers :
               servers' = [servers EXCEPT ![Link] = {FromStr(want.server[n])}]
       ELSE UNCHANGED servers
    /\ pc' = "users"
    /\ UNCHANGED <<os, hidden, domains, localtime, errno, store, want, todo,
                   synced, starts, faults>>

\* A server is found by its name; the name of a loaded one is its address.
StoreServer ==
    /\ pc = "server"
    /\ IF WantedServers # {} /\ LoadServerFails
       THEN Failed /\ UNCHANGED servers
       ELSE /\ servers' = IF Stores(WantedServers, AllServers)
                          THEN [servers EXCEPT ![Link] =
                                  {FromStr(want.server[n]) : n \in WantedServers}]
                          ELSE servers
            /\ pc' = "users"
            /\ UNCHANGED <<want, todo>>
    /\ UNCHANGED <<os, hidden, domains, localtime, errno, store, synced,
                   starts, faults>>

----------------------------------------------------------------------------
(* system_running_store_authentication                                     *)

\* Mutant: as for the other lists, nothing is stored when some are there.
MissingIfNone ==
    IF Stores(In(want.users), Listed) THEN In(want.users) ELSE {}

\* The users that are not listed are stored: all of them, the complement of
\* the listed ones, or none.
Missing == In(want.users) \ Listed

\* system_authentication_store_user: an account the load leaves out makes it
\* fail; otherwise the database is written once.
StoreUser ==
    /\ pc = "users"
    /\ IF \E u \in Missing : db[u] # NONE
       THEN Failed /\ UNCHANGED <<db, group>>
       ELSE /\ db' = [u \in Users |-> IF u \in Missing
                                      THEN DiskHash(want.users[u].pw) ELSE db[u]]
            /\ group' = group \cup Missing
            /\ todo' = Missing
            /\ pc' = "homes"
            /\ UNCHANGED want
    /\ UNCHANGED <<home, ssh, hidden, resolved, localtime, errno, store, synced,
                   starts, faults>>

CreateHome(u) ==
    /\ pc = "homes"
    /\ u \in todo
    /\ IF u \in home
       THEN Failed /\ UNCHANGED home
       ELSE /\ home' = home \cup {u}
            /\ todo' = todo \ {u}
            /\ UNCHANGED <<pc, want>>
    /\ UNCHANGED <<db, group, ssh, hidden, resolved, localtime, errno, store,
                   synced, starts, faults>>

WantedKeys(u) == {k \in Keys : want.users[u].keys[k] # NONE}
FoundKeys(u) == {k \in Keys : LoadedKeys(u)[k] # NONE}

\* The calls so far leave any errno.
HomesDone(e) ==
    /\ pc = "homes"
    /\ todo = {}
    /\ errno' = e
    /\ todo' = {u \in In(want.users) : WantedKeys(u) # {}}
    /\ pc' = "keys"
    /\ UNCHANGED <<system, store, want, synced, starts, faults>>

\* errno after the check: closedir(NULL) when there was no directory.
CheckedErrno(u) == IF LoadDir(u) = NoDir THEN "other" ELSE errno

StoresKeys(u) == u # Root /\ Stores(WantedKeys(u), FoundKeys(u))

\* Mutant: a user whose keys need not be stored is checked again and again.
StoreKeysStuck(u, lost) ==
    /\ pc = "keys"
    /\ u \in todo
    /\ ~ MkdirFails(u, CheckedErrno(u)) /\ StoresKeys(u)
    /\ ssh' = [ssh EXCEPT ![u] = Written(ssh[u], want.users[u].keys, lost)]
    /\ todo' = todo \ {u}
    /\ UNCHANGED <<db, group, home, hidden, resolved, localtime, errno, store,
                   want, pc, starts>>

\* The keys of one user: checked in the directory that is read for the user,
\* stored in the user's own; root's are never stored.
StoreKeys(u, lost) ==
    /\ pc = "keys"
    /\ u \in todo
    /\ IF LoadKeysFails(u) \/ (StoresKeys(u) /\ MkdirFails(u, CheckedErrno(u)))
       THEN Failed /\ UNCHANGED <<ssh, errno>>
       ELSE /\ ssh' = IF StoresKeys(u)
                      THEN [ssh EXCEPT ![u] = Written(ssh[u], want.users[u].keys, lost)]
                      ELSE ssh
            /\ errno' = IF StoresKeys(u) /\ ssh[u] = NoDir THEN "ENOENT"
                        ELSE CheckedErrno(u)
            /\ todo' = todo \ {u}
            /\ UNCHANGED <<pc, want>>
    /\ UNCHANGED <<db, group, home, hidden, resolved, localtime, store, starts>>

KeysDone ==
    /\ pc = "keys"
    /\ todo = {}
    /\ pc' = "subscribe"
    /\ UNCHANGED <<system, errno, store, want, todo, synced, starts, faults>>

\* No key file was lost on its way to the disk.
KeysOnDisk == \A u \in Users, k \in Keys : KeyFile(ssh[u], k) # Torn

\* The subscriptions are made and the plugin is up.
Subscribe ==
    /\ pc = "subscribe"
    /\ pc' = "up"
    /\ synced' = (want = startup /\ KeysOnDisk)
    /\ UNCHANGED <<system, errno, store, want, todo, starts, faults>>

----------------------------------------------------------------------------
(* The environment.                                                        *)

Fault == faults < MaxFaults /\ faults' = faults + 1

Starting == pc \notin {"down", "up"}

\* A call fails or the process dies, anywhere in the start.
Dies ==
    /\ Starting
    /\ Fault
    /\ Failed
    /\ synced' = FALSE
    /\ UNCHANGED <<system, errno, store, starts>>

\* The same between mkdir() of a home and the end of the copy of /etc/skel.
DiesInHome(u) ==
    /\ pc = "homes"
    /\ u \in todo \ home
    /\ Fault
    /\ home' = home \cup {u}
    /\ Failed
    /\ synced' = FALSE
    /\ UNCHANGED <<db, group, ssh, hidden, resolved, localtime, errno, store, starts>>

\* Key data that never reaches the disk; the code goes on.
KeysLost(u) ==
    /\ Fault
    /\ pc = "keys" /\ u \in todo /\ StoresKeys(u)
    /\ synced' = FALSE
    /\ \E lost \in SUBSET WantedKeys(u) : lost # {} /\ StoreKeys(u, lost)

\* A call fails or the process dies after the directory was made and some of
\* the files were written; a file may be open and empty.
DiesInKeys(u) ==
    /\ pc = "keys" /\ u \in todo /\ StoresKeys(u)
    /\ ~ LoadKeysFails(u) /\ ~ MkdirFails(u, CheckedErrno(u))
    /\ Fault
    /\ \E ks \in SUBSET WantedKeys(u) : \E lost \in SUBSET ks :
           ssh' = [ssh EXCEPT ![u] =
                      Written(ssh[u], Part(want.users[u].keys, ks), lost)]
    /\ Failed
    /\ synced' = FALSE
    /\ UNCHANGED <<db, group, home, hidden, resolved, localtime, errno, store, starts>>

Stop ==
    /\ pc = "up"
    /\ Failed
    /\ UNCHANGED <<system, errno, store, synced, starts, faults>>

\* A client sets a hostname and saves the running datastore as the startup
\* one, at any time.
Save ==
    /\ startup' = running
    /\ hostname' = TRUE
    /\ synced' = (running = Loaded /\ pc \in {"down", "up"})
    /\ UNCHANGED <<system, errno, running, want, pc, todo, starts, faults>>

Step ==
    \/ CheckEmpty \/ Load \/ Read
    \/ StoreTimezone \/ LinkTimezone
    \/ StoreSearch \/ StoreServer
    \/ StoreUser
    \/ \E u \in Users : CreateHome(u)
    \/ \E e \in {"ENOENT", "other"} : HomesDone(e)
    \/ \E u \in Users : StoreKeys(u, {}) /\ UNCHANGED <<synced, faults>>
    \/ KeysDone \/ Subscribe

Environment ==
    \/ Start \/ Dies
    \/ \E u \in Users : DiesInHome(u) \/ KeysLost(u) \/ DiesInKeys(u)
    \/ Stop \/ Save

Next == Step \/ Environment

Spec == Init /\ [][Next]_vars

\* A process that was started goes on until it is up or has exited.
FairSpec == Spec /\ WF_vars(Step)

----------------------------------------------------------------------------
(* Properties.                                                             *)

Stages == {"down", "empty", "load", "read", "timezone", "symlink", "search",
           "server", "users", "homes", "keys", "subscribe", "up"}

\* Every variable of the start, the system and the datastores has its type.
TypeOK ==
    /\ db \in [Users -> DiskHashes \cup {NONE}]
    /\ group \in SUBSET Users /\ home \in SUBSET Users
    /\ ssh \in [Users -> KeyFiles \cup {NoDir}]
    /\ errno \in {"ENOENT", "other"}
    /\ hidden \in SUBSET Users
    /\ domains \in [Links -> SUBSET Domains]
    /\ servers \in [Links -> SUBSET Addresses]
    /\ localtime \in Zones \cup {NoFile, Foreign}
    /\ startup \in Data /\ hostname \in BOOLEAN /\ running \in Data
    /\ want \in Data \cup {NONE}
    /\ pc \in Stages /\ todo \in SUBSET Users
    /\ synced \in BOOLEAN
    /\ starts \in 0..MaxStarts /\ faults \in 0..MaxFaults

\* The startup data was stored and the plugin is up.
Stored == pc = "up" /\ want # NONE

\* However the earlier starts ended, a plugin that is up has given every user
\* of the startup datastore an account, and the key directory of a user with
\* keys at least one of them (not root's, and not that of a user whose keys
\* are looked for in root's).
AccountsStored ==
    Stored => \A u \in In(want.users) :
        /\ db[u] # NONE
        /\ u \notin RootPrefixed /\ WantedKeys(u) # {} =>
              \E k \in WantedKeys(u) : KeyFile(ssh[u], k) # NONE

\* A plugin that is up serves at least one of the search domains and of the
\* servers of the startup datastore; servers that were not found by their
\* name are all on the link, as far as their first four bytes go.
ResolverStored ==
    Stored =>
        /\ want.search \cap AllDomains # {} \/ want.search = {}
        /\ \/ WantedServers \cap AllServers # {}
           \/ \A n \in WantedServers : FromStr(want.server[n]) \in servers[Link]

\* A plugin that is up has set the timezone, unless it could not read the
\* one that was set: an error of the store stops the start, only that of the
\* check does not.
TimezoneStored == Stored => want.tz \in {NONE, localtime} \/ Unreadable

\* A start only adds: it never changes an account, never takes away a home,
\* a group or a key file, and never overwrites a key that can be loaded.
OnlyAdds ==
    [][/\ \A u \in In(db) : db'[u] = db[u]
       /\ home \subseteq home' /\ group \subseteq group'
       /\ \A u \in Users \ RootPrefixed, k \in PubKeys :
             KeyFile(ssh[u], k) # NONE => KeyFile(ssh'[u], k) = KeyFile(ssh[u], k)
      ]_vars

\* A start that follows a complete one, or a load whose result was saved as
\* the startup datastore, leaves the system as it is: what was stored is
\* found again, and what was loaded can be stored.
RestartKeepsSystem == [][synced /\ faults' = faults => UNCHANGED system]_vars

\* A start ends: the plugin is up or has exited.
StartEnds == pc = "empty" ~> pc \in {"up", "down"}

----------------------------------------------------------------------------
(* What the comments say.                                                  *)

\* plugin.c: "make sure the data from startup DS is stored in the system".
TimezoneApplied == Stored => want.tz \in {NONE, localtime}
=============================================================================
