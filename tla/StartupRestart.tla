-------------------------- MODULE StartupRestart --------------------------
(***************************************************************************)
(* A start of the plugin on a system that is in line with the startup      *)
(* datastore changes nothing: proved for every system and datastore.       *)
(***************************************************************************)
EXTENDS StartupProofs

USE DEF system, store, os, resolved

----------------------------------------------------------------------------
(* What a start knows at each stage, sharper than in StartupProofs.        *)

\* Accounts that the load leaves out have always been there, and a datastore
\* that was found to hold a hostname keeps it.
OriginInv ==
    /\ hidden \subseteq In(db)
    /\ pc = "read" \/ want # NONE => hostname

\* The servers of the data d: nothing is to be stored, or exactly what would be
\* stored is there.
WantedOf(d) == {n \in ServerNames : d.server[n] # NONE}
ServersQuiet(d) ==
    \/ ~ Stores(WantedOf(d), AllServers)
    \/ servers[Link] = {FromStr(d.server[n]) : n \in WantedOf(d)}

\* A user of the data d and the keys: none is to be stored, or every file that
\* would be written has that content; a file that was lost is Torn.
KeysOf(d, u) == {k \in Keys : d.users[u].keys[k] # NONE}
KeysWritten(d, u) ==
    \/ ~ Stores(KeysOf(d, u), FoundKeys(u))
    \/ /\ ssh[u] # NoDir
       /\ \A k \in KeysOf(d, u) : ssh[u][k] \in {d.users[u].keys[k], Torn}

ServersExact ==
    pc \in {"users", "homes", "keys", "subscribe", "up"} /\ want # NONE
      => ServersQuiet(want)

UsersExact ==
    pc \in {"homes", "keys", "subscribe", "up"} /\ want # NONE
      => In(want.users) \subseteq Listed

KeysExact ==
    pc \in {"keys", "subscribe", "up"} /\ want # NONE
      => \A u \in In(want.users) \ {Root} :
            (pc = "keys" => u \notin todo) => KeysWritten(want, u)

----------------------------------------------------------------------------
(* A start that stores the data d finds nothing to do.                     *)

Quiet(d) ==
    /\ d.tz \in {NONE, localtime} \/ Unreadable
    /\ ~ Stores(d.search, AllDomains)
    /\ ServersQuiet(d)
    /\ In(d.users) \subseteq Listed
    /\ \A u \in In(d.users) \ {Root} :
          \/ ~ Stores(KeysOf(d, u), FoundKeys(u))
          \/ /\ ssh[u] # NoDir
             /\ \A k \in KeysOf(d, u) : ssh[u][k] = d.users[u].keys[k]

\* While the system is in line with the startup datastore, a start reads that
\* datastore and passes the stages without work.
SyncedInv ==
    synced =>
        /\ hostname
        /\ Quiet(startup)
        /\ pc \notin {"load", "symlink"}
        /\ pc \in Storing \cup {"subscribe"} => want = startup
        /\ pc = "homes" => todo = {}

RInv ==
    /\ IInv /\ OriginInv
    /\ ServersExact /\ UsersExact /\ KeysExact
    /\ SyncedInv

----------------------------------------------------------------------------
(* The stages.                                                             *)

LEMMA InitRInv == Init => RInv
  <1> SUFFICES ASSUME Init PROVE RInv
    OBVIOUS
  <1>1. pc = "down" /\ want = NONE /\ ~ synced /\ hidden \subseteq In(db)
    BY DEF Init
  <1>2. OriginInv /\ ServersExact /\ UsersExact /\ KeysExact /\ SyncedInv
    BY <1>1 DEF OriginInv, ServersExact, UsersExact, KeysExact, SyncedInv
  <1>3. QED
    BY <1>2, InitIInv DEF RInv

LEMMA NextOriginInv == TypeOK /\ WantInv /\ OriginInv /\ [Next]_vars => OriginInv'
  <1> SUFFICES ASSUME TypeOK, WantInv, OriginInv, [Next]_vars PROVE OriginInv'
    OBVIOUS
  <1> USE DEF OriginInv, Failed
  <1>1. CASE Start \/ CheckEmpty \/ Load \/ Read \/ StoreTimezone \/ LinkTimezone
               \/ StoreSearch \/ StoreServer
    BY <1>1 DEF Start, CheckEmpty, Load, Read, StoreTimezone, LinkTimezone,
                StoreSearch, StoreServer
  <1>2. CASE StoreUser
    <2>1. hidden' = hidden /\ \A u \in hidden : db'[u] = db[u]
      BY <1>2 DEF StoreUser, In, TypeOK
    <2>2. hidden' \subseteq In(db')
      BY <2>1 DEF In
    <2>3. pc' # "read" /\ hostname' = hostname /\ want' \in {want, NONE} /\ want # NONE
      BY <1>2 DEF StoreUser, WantInv, Storing
    <2>4. QED
      BY <2>2, <2>3
  <1>3. ASSUME NEW u \in Users, CreateHome(u) \/ DiesInHome(u) \/ DiesInKeys(u)
        PROVE  OriginInv'
    BY <1>3 DEF CreateHome, DiesInHome, DiesInKeys
  <1>4. ASSUME NEW e, HomesDone(e) PROVE OriginInv'
    BY <1>4 DEF HomesDone
  <1>5. ASSUME NEW u \in Users, NEW lost, StoreKeys(u, lost) PROVE OriginInv'
    BY <1>5 DEF StoreKeys
  <1>6. CASE KeysDone \/ Subscribe \/ Stop \/ Dies \/ Save
    BY <1>6 DEF KeysDone, Subscribe, Stop, Dies, Save
  <1>7. CASE UNCHANGED vars
    BY <1>7 DEF vars
  <1>8. QED
    BY <1>1, <1>2, <1>3, <1>4, <1>5, <1>6, <1>7
    DEF Next, Step, Environment, KeysLost

\* Only the server stage touches the servers, and it stores all or nothing.
LEMMA NextServersExact == TypeOK /\ WantInv /\ ServersExact /\ [Next]_vars => ServersExact'
  <1> SUFFICES ASSUME TypeOK, WantInv, ServersExact, [Next]_vars PROVE ServersExact'
    OBVIOUS
  <1> USE DEF WantInv, Storing, ServersExact, Failed
  <1>1. CASE Start \/ CheckEmpty \/ Load \/ Read \/ StoreTimezone \/ LinkTimezone
               \/ StoreSearch
    BY <1>1 DEF Start, CheckEmpty, Load, Read, StoreTimezone, LinkTimezone, StoreSearch
  <1>2. ASSUME UNCHANGED servers, want' = NONE \/ want' = want,
               pc' \in {"users", "homes", "keys", "subscribe", "up"} =>
                  pc \in {"users", "homes", "keys", "subscribe", "up"}
        PROVE  ServersExact'
    BY <1>2 DEF ServersQuiet, WantedOf, AllServers
  <1>3. CASE StoreServer
    <2>1. CASE want' = NONE
      BY <2>1
    <2>2. CASE want' # NONE
      <3>1. /\ want' = want
            /\ servers' = IF Stores(WantedServers, AllServers)
                          THEN [servers EXCEPT ![Link] =
                                  {FromStr(want.server[n]) : n \in WantedServers}]
                          ELSE servers
        BY <1>3, <2>2 DEF StoreServer
      <3>2. WantedServers = WantedOf(want) /\ WantedOf(want)' = WantedOf(want)
        BY <3>1 DEF WantedServers, WantedOf
      <3>3. CASE Stores(WantedServers, AllServers)
        <4>1. servers'[Link] = {FromStr(want.server[n]) : n \in WantedServers}
          BY <3>1, <3>3, ResolverAssumption DEF TypeOK
        <4>2. QED
          BY <3>1, <3>2, <4>1 DEF ServersQuiet
      <3>4. CASE ~ Stores(WantedServers, AllServers)
        <4>1. AllServers' = AllServers
          BY <3>1, <3>4 DEF AllServers
        <4>2. QED
          BY <3>1, <3>2, <3>4, <4>1 DEF ServersQuiet
      <3>5. QED
        BY <3>3, <3>4
    <2>3. QED
      BY <2>1, <2>2
  <1>4. CASE StoreUser
    BY <1>2, <1>4 DEF StoreUser
  <1>5. ASSUME NEW u \in Users, CreateHome(u) \/ DiesInHome(u) \/ DiesInKeys(u)
        PROVE  ServersExact'
    BY <1>2, <1>5 DEF CreateHome, DiesInHome, DiesInKeys
  <1>6. ASSUME NEW e, HomesDone(e) PROVE ServersExact'
    BY <1>2, <1>6 DEF HomesDone
  <1>7. ASSUME NEW u \in Users, NEW lost, StoreKeys(u, lost) PROVE ServersExact'
    BY <1>2, <1>7 DEF StoreKeys
  <1>8. CASE KeysDone \/ Subscribe \/ Stop \/ Dies \/ Save
    BY <1>2, <1>8 DEF KeysDone, Subscribe, Stop, Dies, Save
  <1>9. CASE UNCHANGED vars
    BY <1>2, <1>9 DEF vars
  <1>10. QED
    BY <1>1, <1>3, <1>4, <1>5, <1>6, <1>7, <1>8, <1>9
    DEF Next, Step, Environment, KeysLost

\* A user that was added is not one of those the load leaves out.
LEMMA NextUsersExact ==
  TypeOK /\ WantInv /\ OriginInv /\ UsersExact /\ [Next]_vars => UsersExact'
  <1> SUFFICES ASSUME TypeOK, WantInv, OriginInv, UsersExact, [Next]_vars
               PROVE  UsersExact'
    OBVIOUS
  <1> USE DEF WantInv, Storing, UsersExact, Failed
  <1>1. CASE Start \/ CheckEmpty \/ Load \/ Read \/ StoreTimezone \/ LinkTimezone
               \/ StoreSearch \/ StoreServer
    BY <1>1 DEF Start, CheckEmpty, Load, Read, StoreTimezone, LinkTimezone,
                StoreSearch, StoreServer
  <1>2. CASE StoreUser
    <2>1. CASE want' = NONE
      BY <2>1
    <2>2. CASE want' # NONE
      <3>1. /\ want' = want /\ want # NONE /\ hidden' = hidden
            /\ \A u \in Missing : db[u] = NONE
            /\ db' = [u \in Users |-> IF u \in Missing
                                      THEN DiskHash(want.users[u].pw) ELSE db[u]]
        BY <1>2, <2>2 DEF StoreUser
      <3>2. ASSUME NEW u \in In(want.users) PROVE u \in Users /\ db'[u] # NONE /\ u \notin hidden
        <4>1. CASE u \in Missing
          <5>1. want.users[u].pw \in Passwords
            BY <3>1, WantType
          <5>2. DiskHash(want.users[u].pw) # NONE
            BY <5>1, AccountsAssumption DEF DiskHash, Passwords
          <5>3. u \notin hidden
            BY <3>1, <4>1 DEF OriginInv, In
          <5>4. QED
            BY <3>1, <4>1, <5>2, <5>3 DEF In
        <4>2. CASE u \notin Missing
          BY <3>1, <4>2 DEF Missing, Listed, In
        <4>3. QED
          BY <4>1, <4>2
      <3>3. QED
        BY <3>1, <3>2 DEF Listed, In
    <2>3. QED
      BY <2>1, <2>2
  <1>3. ASSUME UNCHANGED <<db, hidden>>, want' = NONE \/ want' = want,
               pc' \in {"homes", "keys", "subscribe", "up"} =>
                  pc \in {"homes", "keys", "subscribe", "up"}
        PROVE  UsersExact'
    BY <1>3 DEF Listed, In
  <1>4. ASSUME NEW u \in Users, CreateHome(u) \/ DiesInHome(u) \/ DiesInKeys(u)
        PROVE  UsersExact'
    BY <1>3, <1>4 DEF CreateHome, DiesInHome, DiesInKeys
  <1>5. ASSUME NEW e, HomesDone(e) PROVE UsersExact'
    BY <1>3, <1>5 DEF HomesDone
  <1>6. ASSUME NEW u \in Users, NEW lost, StoreKeys(u, lost) PROVE UsersExact'
    BY <1>3, <1>6 DEF StoreKeys
  <1>7. CASE KeysDone \/ Subscribe \/ Stop \/ Dies \/ Save
    BY <1>3, <1>7 DEF KeysDone, Subscribe, Stop, Dies, Save
  <1>8. CASE UNCHANGED vars
    BY <1>3, <1>8 DEF vars
  <1>9. QED
    BY <1>1, <1>2, <1>4, <1>5, <1>6, <1>7, <1>8
    DEF Next, Step, Environment, KeysLost

\* The keys that are found depend on the directory that is read alone.
LEMMA FoundFrame ==
  ASSUME NEW u \in Users, LoadDir(u)' = LoadDir(u) PROVE FoundKeys(u)' = FoundKeys(u)
  BY DEF FoundKeys, LoadedKeys, TwoWords, KeyFile

\* The turn of one user: the keys of that user are there as they are wanted or
\* torn, and nobody else's are touched.
LEMMA OneTurn ==
  ASSUME TypeOK, WantInv, NEW u \in Users, NEW lost, StoreKeys(u, lost), want' # NONE
  PROVE  /\ want' = want /\ pc = "keys" /\ pc' = "keys" /\ todo' = todo \ {u}
         /\ u # Root => KeysWritten(want, u)'
         /\ \A v \in Users \ {u} : ssh'[v] = ssh[v] /\ LoadDir(v)' = LoadDir(v)
  <1>1. /\ u \in In(want.users) /\ want # NONE
        /\ want' = want /\ pc = "keys" /\ pc' = "keys" /\ todo' = todo \ {u}
        /\ ssh' = IF StoresKeys(u)
                  THEN [ssh EXCEPT ![u] = Written(ssh[u], want.users[u].keys, lost)]
                  ELSE ssh
    BY DEF StoreKeys, WantInv, Storing, Failed
  <1>2. KeysOf(want, u)' = KeysOf(want, u) /\ KeysOf(want, u) = WantedKeys(u)
    BY <1>1 DEF KeysOf, WantedKeys
  <1>3. CASE ~ StoresKeys(u)
    <2>1. ssh' = ssh
      BY <1>1, <1>3
    <2>2. \A v \in Users : LoadDir(v)' = LoadDir(v)
      BY <2>1 DEF LoadDir
    <2>3. u # Root => ~ Stores(KeysOf(want, u), FoundKeys(u))'
      BY <1>2, <1>3, <2>2, FoundFrame DEF StoresKeys, Stores, Status
    <2>4. QED
      BY <1>1, <2>1, <2>2, <2>3 DEF KeysWritten
  <1>4. CASE StoresKeys(u)
    <2>1. u # Root
      BY <1>4 DEF StoresKeys
    <2>2. ssh'[u] = Written(ssh[u], want.users[u].keys, lost)
      BY <1>1, <1>4 DEF TypeOK
    <2>3. \A v \in Users \ {u} : ssh'[v] = ssh[v]
      BY <1>1, <1>4 DEF TypeOK
    <2>4. \A v \in Users \ {u} : LoadDir(v)' = LoadDir(v)
      BY <2>1, <2>3, AccountsAssumption DEF LoadDir
    <2>5. want.users[u].keys \in KeyLists /\ ssh[u] \in KeyFiles \cup {NoDir}
      BY <1>1, WantType DEF TypeOK
    <2>6. ssh'[u] # NoDir
      BY <2>2, <2>5, WrittenType, AccountsAssumption
    <2>7. \A k \in WantedKeys(u) : ssh'[u][k] \in {want.users[u].keys[k], Torn}
      BY <2>2 DEF Written, WantedKeys
    <2>8. KeysWritten(want, u)'
      BY <1>1, <1>2, <2>6, <2>7 DEF KeysWritten
    <2>9. QED
      BY <1>1, <2>3, <2>4, <2>8
  <1>5. QED
    BY <1>3, <1>4

LEMMA NextKeysExact == TypeOK /\ WantInv /\ KeysExact /\ [Next]_vars => KeysExact'
  <1> SUFFICES ASSUME TypeOK, WantInv, KeysExact, [Next]_vars PROVE KeysExact'
    OBVIOUS
  <1> USE DEF WantInv, Storing, KeysExact, Failed
  <1>1. CASE Start \/ CheckEmpty \/ Load \/ Read \/ StoreTimezone \/ LinkTimezone
               \/ StoreSearch \/ StoreServer \/ StoreUser
    BY <1>1 DEF Start, CheckEmpty, Load, Read, StoreTimezone, LinkTimezone,
                StoreSearch, StoreServer, StoreUser
  <1>2. ASSUME NEW u \in Users, CreateHome(u) \/ DiesInHome(u) \/ DiesInKeys(u)
        PROVE  KeysExact'
    BY <1>2 DEF CreateHome, DiesInHome, DiesInKeys
  <1>3. ASSUME NEW e, HomesDone(e) PROVE KeysExact'
    <2>1. ASSUME NEW u \in In(want.users), u \notin todo' PROVE KeysOf(want, u)' = {}
      BY <1>3, <2>1 DEF HomesDone, WantedKeys, KeysOf
    <2>2. want' = want /\ pc' = "keys"
      BY <1>3 DEF HomesDone
    <2>3. QED
      BY <2>1, <2>2 DEF KeysWritten, Stores
  <1>4. ASSUME NEW u \in Users, NEW lost, StoreKeys(u, lost) PROVE KeysExact'
    <2>1. CASE want' = NONE
      BY <2>1
    <2>2. CASE want' # NONE
      <3>1. /\ want' = want /\ pc = "keys" /\ pc' = "keys" /\ todo' = todo \ {u}
            /\ u # Root => KeysWritten(want, u)'
            /\ \A v \in Users \ {u} : ssh'[v] = ssh[v] /\ LoadDir(v)' = LoadDir(v)
        BY <1>4, <2>2, OneTurn
      <3>2. ASSUME NEW v \in In(want.users) \ {Root}, v \notin todo', v # u
            PROVE  KeysWritten(want, v)'
        <4>1. v \in Users \ {u} /\ v \notin todo
          BY <3>1, <3>2 DEF In
        <4>2. KeysWritten(want, v) /\ ssh'[v] = ssh[v] /\ FoundKeys(v)' = FoundKeys(v)
          BY <2>2, <3>1, <4>1, FoundFrame
        <4>3. KeysOf(want, v)' = KeysOf(want, v)
          BY <3>1 DEF KeysOf
        <4>4. QED
          BY <3>1, <4>2, <4>3 DEF KeysWritten
      <3>3. QED
        BY <3>1, <3>2
    <2>3. QED
      BY <2>1, <2>2
  <1>5. CASE KeysDone \/ Subscribe \/ Stop \/ Dies \/ Save \/ UNCHANGED vars
    <2>1. CASE want' = NONE
      BY <2>1
    <2>2. CASE want' # NONE
      <3>1. want' = want /\ ssh' = ssh
        BY <1>5, <2>2 DEF KeysDone, Subscribe, Stop, Dies, Save, vars
      <3>2. /\ pc' \in {"keys", "subscribe", "up"} => pc \in {"keys", "subscribe", "up"}
            /\ \A u : (pc' = "keys" => u \notin todo') => (pc = "keys" => u \notin todo)
               \/ pc' \notin {"keys", "subscribe", "up"}
        BY <1>5, <2>2 DEF KeysDone, Subscribe, Stop, Dies, Save, vars
      <3>3. ASSUME NEW u \in Users PROVE KeysWritten(want, u)' <=> KeysWritten(want, u)
        <4>1. FoundKeys(u)' = FoundKeys(u)
          BY <3>1, FoundFrame DEF LoadDir
        <4>2. KeysOf(want, u)' = KeysOf(want, u)
          BY <3>1 DEF KeysOf
        <4>3. QED
          BY <3>1, <4>1, <4>2 DEF KeysWritten
      <3>4. QED
        BY <2>2, <3>1, <3>2, <3>3 DEF In
    <2>3. QED
      BY <2>1, <2>2
  <1>6. QED
    BY <1>1, <1>2, <1>3, <1>4, <1>5
    DEF Next, Step, Environment, KeysLost

----------------------------------------------------------------------------
(* A system that is in line with the startup datastore.                    *)

\* Writing what is there changes nothing.
LEMMA WrittenSame ==
  ASSUME NEW dir \in KeyFiles, NEW list \in KeyLists,
         \A k \in Keys : list[k] # NONE => dir[k] = list[k]
  PROVE  Written(dir, list, {}) = dir
  <1>1. dir # NoDir
    BY AccountsAssumption
  <1>2. \A k \in Keys : Written(dir, list, {})[k] = dir[k]
    BY <1>1 DEF Written, KeyFile
  <1>3. Written(dir, list, {}) = [k \in Keys |-> dir[k]]
    BY <1>2 DEF Written
  <1>4. QED
    BY <1>3 DEF KeyFiles

\* No step without a failure changes such a system.
LEMMA Idle ==
  ASSUME RInv, synced, [Next]_vars, faults' = faults
  PROVE  UNCHANGED system
  <1> USE DEF Failed
  <1>1. TypeOK /\ WantInv
    BY DEF RInv, IInv
  <1>2. /\ Quiet(startup) /\ pc # "symlink"
        /\ pc \in Storing => want = startup /\ want # NONE
        /\ pc = "homes" => todo = {}
    BY <1>1 DEF RInv, SyncedInv, WantInv
  <1>3. ~ Dies /\ \A u \in Users : ~ DiesInHome(u) /\ ~ KeysLost(u) /\ ~ DiesInKeys(u)
    BY <1>1 DEF DiesInHome, DiesInKeys, KeysLost, Dies, Fault, TypeOK
  <1>4. CASE Start \/ CheckEmpty \/ Load \/ Read \/ KeysDone \/ Subscribe \/ Stop \/ Save
    BY <1>4 DEF Start, CheckEmpty, Load, Read, KeysDone, Subscribe, Stop, Save
  <1>5. CASE StoreTimezone
    BY <1>2, <1>5 DEF StoreTimezone, Storing, Quiet, TimezonePresent
  <1>6. CASE LinkTimezone
    BY <1>2, <1>6 DEF LinkTimezone
  <1>7. CASE StoreSearch
    BY <1>2, <1>7 DEF StoreSearch, Storing, Quiet
  <1>8. CASE StoreServer
    <2>1. WantedServers = WantedOf(want) /\ ServersQuiet(want)
      BY <1>2, <1>8 DEF StoreServer, Storing, Quiet, WantedServers, WantedOf
    <2>2. CASE ~ Stores(WantedServers, AllServers)
      BY <1>8, <2>2 DEF StoreServer
    <2>3. CASE servers[Link] = {FromStr(want.server[n]) : n \in WantedServers}
      <3>1. [servers EXCEPT ![Link] = {FromStr(want.server[n]) : n \in WantedServers}]
              = servers
        BY <1>1, <2>3 DEF TypeOK
      <3>2. QED
        BY <1>8, <3>1 DEF StoreServer
    <2>4. QED
      BY <2>1, <2>2, <2>3 DEF ServersQuiet
  <1>9. CASE StoreUser
    <2>1. Missing = {}
      BY <1>2, <1>9 DEF StoreUser, Storing, Quiet, Missing
    <2>2. [u \in Users |-> IF u \in Missing THEN DiskHash(want.users[u].pw) ELSE db[u]] = db
      BY <1>1, <2>1 DEF TypeOK
    <2>3. group \cup Missing = group
      BY <2>1
    <2>4. QED
      BY <1>9, <2>2, <2>3 DEF StoreUser
  <1>10. ASSUME NEW u \in Users, CreateHome(u) PROVE FALSE
    BY <1>2, <1>10 DEF CreateHome
  <1>11. ASSUME NEW e, HomesDone(e) PROVE UNCHANGED system
    BY <1>11 DEF HomesDone
  <1>12. ASSUME NEW u \in Users, StoreKeys(u, {}) PROVE UNCHANGED system
    <2>1. /\ u \in In(want.users) /\ want = startup /\ want # NONE
          /\ UNCHANGED <<db, group, home, hidden, domains, servers, localtime>>
          /\ \/ ssh' = ssh
             \/ /\ StoresKeys(u)
                /\ ssh' = [ssh EXCEPT ![u] = Written(ssh[u], want.users[u].keys, {})]
      BY <1>1, <1>2, <1>12 DEF StoreKeys, WantInv, Storing
    <2>2. CASE StoresKeys(u)
      <3>1. u # Root /\ Stores(KeysOf(want, u), FoundKeys(u))
        BY <2>2 DEF StoresKeys, WantedKeys, KeysOf
      <3>2. /\ ssh[u] # NoDir
            /\ \A k \in KeysOf(want, u) : ssh[u][k] = want.users[u].keys[k]
        BY <1>2, <2>1, <3>1 DEF Quiet
      <3>3. ssh[u] \in KeyFiles /\ want.users[u].keys \in KeyLists
        BY <1>1, <2>1, <3>2, WantType DEF TypeOK
      <3>4. Written(ssh[u], want.users[u].keys, {}) = ssh[u]
        BY <3>2, <3>3, WrittenSame DEF KeysOf
      <3>5. [ssh EXCEPT ![u] = ssh[u]] = ssh
        BY <1>1 DEF TypeOK
      <3>6. QED
        BY <2>1, <3>4, <3>5
    <2>3. QED
      BY <2>1, <2>2
  <1>13. CASE UNCHANGED vars
    BY <1>13 DEF vars
  <1>14. QED
    BY <1>3, <1>4, <1>5, <1>6, <1>7, <1>8, <1>9, <1>10, <1>11, <1>12, <1>13
    DEF Next, Step, Environment

\* Quiet speaks of the system and of the data alone.
LEMMA QuietFrame ==
  ASSUME UNCHANGED <<system, startup>>, Quiet(startup) PROVE Quiet(startup)'
  <1>1. AllDomains' = AllDomains /\ AllServers' = AllServers /\ Listed' = Listed
    BY DEF AllDomains, AllServers, Listed, In
  <1>2. (startup.tz \in {NONE, localtime} \/ Unreadable)'
    BY DEF Quiet, Unreadable
  <1>3. (~ Stores(startup.search, AllDomains))'
    BY <1>1 DEF Quiet, Stores, Status
  <1>4. ServersQuiet(startup)'
    <2>1. WantedOf(startup)' = WantedOf(startup)
      BY DEF WantedOf
    <2>2. QED
      BY <1>1, <2>1 DEF Quiet, ServersQuiet, Stores, Status
  <1>5. (In(startup.users) \subseteq Listed)'
    BY <1>1 DEF Quiet, In
  <1>6. ASSUME NEW u \in In(startup.users) \ {Root}
        PROVE  (\/ ~ Stores(KeysOf(startup, u), FoundKeys(u))
                \/ /\ ssh[u] # NoDir
                   /\ \A k \in KeysOf(startup, u) :
                         ssh[u][k] = startup.users[u].keys[k])'
    <2>1. KeysOf(startup, u)' = KeysOf(startup, u)
      BY DEF KeysOf
    <2>2. FoundKeys(u)' = FoundKeys(u)
      BY FoundFrame DEF LoadDir, In
    <2>3. QED
      BY <2>1, <2>2 DEF Quiet, Stores, Status
  <1>7. In(startup.users)' = In(startup.users)
    BY DEF In
  <1>8. QED
    BY <1>2, <1>3, <1>4, <1>5, <1>6, <1>7 DEF Quiet

\* A start that reached its end has left nothing to do.
LEMMA SubscribeQuiet ==
  ASSUME RInv, Subscribe, want = startup, KeysOnDisk PROVE hostname /\ Quiet(startup)
  <1>1. TypeOK /\ want # NONE /\ pc = "subscribe"
    BY StartupAssumption DEF RInv, IInv, TypeOK, Subscribe
  <1>2. hostname
    BY <1>1 DEF RInv, OriginInv
  <1>3. want.tz \in {NONE, localtime} \/ Unreadable
    BY <1>1 DEF RInv, IInv, ZoneInv
  <1>4. ~ Stores(want.search, AllDomains)
    BY <1>1 DEF RInv, IInv, SearchInv, Stores, Status
  <1>5. ServersQuiet(want)
    BY <1>1 DEF RInv, ServersExact
  <1>6. In(want.users) \subseteq Listed
    BY <1>1 DEF RInv, UsersExact
  <1>7. ASSUME NEW u \in In(want.users) \ {Root},
               Stores(KeysOf(want, u), FoundKeys(u))
        PROVE  /\ ssh[u] # NoDir
               /\ \A k \in KeysOf(want, u) : ssh[u][k] = want.users[u].keys[k]
    <2>1. KeysWritten(want, u)
      BY <1>1 DEF RInv, KeysExact
    <2>2. /\ ssh[u] # NoDir
          /\ \A k \in KeysOf(want, u) : ssh[u][k] \in {want.users[u].keys[k], Torn}
      BY <1>7, <2>1 DEF KeysWritten
    <2>3. \A k \in Keys : ssh[u][k] # Torn
      BY <2>2 DEF KeysOnDisk, KeyFile, In
    <2>4. QED
      BY <2>2, <2>3 DEF KeysOf
  <1>8. QED
    BY <1>2, <1>3, <1>4, <1>5, <1>6, <1>7 DEF Quiet

\* What was loaded need not be stored.
LEMMA SaveQuiet ==
  ASSUME Save, running = Loaded PROVE Quiet(startup)'
  <1>1. startup' = Loaded /\ UNCHANGED system
    BY DEF Save
  <1>2. AllDomains' = AllDomains /\ AllServers' = AllServers /\ Listed' = Listed
    BY <1>1 DEF AllDomains, AllServers, Listed, In
  <1>3. (startup.tz \in {NONE, localtime} \/ Unreadable)'
    BY <1>1 DEF Loaded, Unreadable
  <1>4. (~ Stores(startup.search, AllDomains))'
    <2>1. startup'.search = AllDomains'
      BY <1>1, <1>2 DEF Loaded
    <2>2. QED
      BY <2>1 DEF Stores, Status
  <1>5. ServersQuiet(startup)'
    <2>1. startup'.server = [n \in ServerNames |-> IF n \in AllServers THEN n ELSE NONE]
      BY <1>1 DEF Loaded
    <2>2. WantedOf(startup)' \subseteq AllServers'
      BY <1>2, <2>1 DEF WantedOf
    <2>3. QED
      BY <2>2 DEF ServersQuiet, Stores, Status
  <1>6. startup'.users = [u \in Users |-> IF u \in Listed THEN LoadedUser(u) ELSE NONE]
    BY <1>1 DEF Loaded
  <1>7. In(startup.users)' \subseteq Listed
    BY <1>6 DEF In
  <1>8. ASSUME NEW u \in In(startup.users)' PROVE (~ Stores(KeysOf(startup, u), FoundKeys(u)))'
    <2>1. u \in Users /\ u \in Listed
      BY <1>7 DEF Listed, In
    <2>2. startup'.users[u] = LoadedUser(u)
      BY <1>6, <2>1
    <2>3. startup'.users[u].keys = LoadedKeys(u)
      BY <2>2 DEF LoadedUser
    <2>4. KeysOf(startup, u)' = FoundKeys(u)
      BY <2>3 DEF KeysOf, FoundKeys
    <2>5. FoundKeys(u)' = FoundKeys(u)
      BY <1>1, <2>1, FoundFrame DEF LoadDir
    <2>6. QED
      BY <2>4, <2>5 DEF Stores, Status
  <1>9. QED
    BY <1>2, <1>3, <1>4, <1>5, <1>7, <1>8 DEF Quiet

\* How a start passes the stages while the system is in line.
LEMMA NextSyncedInv == RInv /\ [Next]_vars => SyncedInv'
  <1> SUFFICES ASSUME RInv, [Next]_vars, synced' PROVE SyncedInv'
    BY DEF SyncedInv
  <1> USE DEF Failed, Storing
  <1>1. TypeOK /\ WantInv /\ SyncedInv
    BY DEF RInv, IInv
  <1>2. CASE Subscribe
    <2>1. want = startup /\ KeysOnDisk /\ UNCHANGED <<system, startup, hostname>> /\ pc' = "up"
      BY <1>2 DEF Subscribe
    <2>2. hostname /\ Quiet(startup)
      BY <1>2, <2>1, SubscribeQuiet
    <2>3. Quiet(startup)'
      BY <2>1, <2>2, QuietFrame
    <2>4. QED
      BY <2>1, <2>2, <2>3 DEF SyncedInv
  <1>3. CASE Save
    <2>1. running = Loaded /\ hostname' /\ pc' \in {"down", "up"}
      BY <1>3 DEF Save
    <2>2. Quiet(startup)'
      BY <1>3, <2>1, SaveQuiet
    <2>3. QED
      BY <2>1, <2>2 DEF SyncedInv
  <1>4. ASSUME UNCHANGED <<synced, faults, startup, hostname>>,
               pc' \notin {"load", "symlink"},
               pc' \in Storing \cup {"subscribe"} => want' = startup,
               pc' = "homes" => todo' = {}
        PROVE  SyncedInv'
    <2>1. synced
      BY <1>4
    <2>2. UNCHANGED system
      BY <1>4, <2>1, Idle
    <2>3. hostname /\ Quiet(startup)
      BY <1>1, <2>1 DEF SyncedInv
    <2>4. Quiet(startup)'
      BY <1>4, <2>2, <2>3, QuietFrame
    <2>5. QED
      BY <1>4, <2>3, <2>4 DEF SyncedInv
  <1>5. ASSUME synced
        PROVE  /\ hostname /\ Quiet(startup) /\ pc \notin {"load", "symlink"}
               /\ pc \in Storing \cup {"subscribe"} => want = startup
               /\ pc = "homes" => todo = {}
    BY <1>1, <1>5 DEF SyncedInv
  <1>6. CASE Start \/ CheckEmpty \/ Load \/ Read
    BY <1>4, <1>5, <1>6 DEF Start, CheckEmpty, Load, Read
  <1>7. CASE StoreTimezone
    BY <1>4, <1>5, <1>7 DEF StoreTimezone, TimezonePresent, Quiet
  <1>8. CASE LinkTimezone \/ StoreSearch \/ StoreServer
    BY <1>4, <1>5, <1>8 DEF LinkTimezone, StoreSearch, StoreServer
  <1>9. CASE StoreUser
    <2>1. synced
      BY <1>9 DEF StoreUser
    <2>2. Missing = {}
      BY <1>5, <1>9, <2>1 DEF StoreUser, Quiet, Missing
    <2>3. QED
      BY <1>4, <1>5, <1>9, <2>1, <2>2 DEF StoreUser
  <1>10. ASSUME NEW u \in Users, CreateHome(u) PROVE SyncedInv'
    BY <1>5, <1>10 DEF CreateHome
  <1>11. ASSUME NEW e, HomesDone(e) PROVE SyncedInv'
    BY <1>4, <1>5, <1>11 DEF HomesDone
  <1>12. ASSUME NEW u \in Users, StoreKeys(u, {}), UNCHANGED <<synced, faults>>
         PROVE  SyncedInv'
    BY <1>4, <1>5, <1>12 DEF StoreKeys
  <1>13. CASE KeysDone \/ Stop
    BY <1>4, <1>5, <1>13 DEF KeysDone, Stop
  <1>14. ~ Dies /\ \A u \in Users : ~ DiesInHome(u) /\ ~ KeysLost(u) /\ ~ DiesInKeys(u)
    BY DEF Dies, DiesInHome, KeysLost, DiesInKeys
  <1>15. CASE UNCHANGED vars
    BY <1>4, <1>5, <1>15 DEF vars
  <1>16. QED
    BY <1>2, <1>3, <1>6, <1>7, <1>8, <1>9, <1>10, <1>11, <1>12, <1>13, <1>14, <1>15
    DEF Next, Step, Environment

----------------------------------------------------------------------------
(* The theorems.                                                           *)

\* RInv is an invariant of the start.
THEOREM RInductive == Spec => []RInv
  <1>1. Init => RInv
    BY InitRInv
  <1>2. RInv /\ [Next]_vars => RInv'
    <2> SUFFICES ASSUME RInv, [Next]_vars PROVE RInv'
      OBVIOUS
    <2>1. /\ IInv /\ TypeOK /\ WantInv /\ OriginInv
          /\ ServersExact /\ UsersExact /\ KeysExact
      BY DEF RInv, IInv
    <2>2. IInv'
      BY <2>1, NextTypeOK, NextWantInv, NextZoneInv, NextSearchInv, NextServerInv,
         NextUsersInv, NextKeysInv DEF IInv
    <2>3. OriginInv' /\ ServersExact' /\ UsersExact' /\ KeysExact'
      BY <2>1, NextOriginInv, NextServersExact, NextUsersExact, NextKeysExact
    <2>4. SyncedInv'
      BY NextSyncedInv
    <2>5. QED
      BY <2>2, <2>3, <2>4 DEF RInv
  <1>3. QED
    BY <1>1, <1>2, PTL DEF Spec

\* A start that follows a complete one, or a load that was saved, leaves
\* accounts, homes, key files, resolver and timezone as they are: every check of
\* running/store.c finds what the last start stored or loaded.
THEOREM RestartAlwaysKeepsSystem == Spec => RestartKeepsSystem
  <1>1. ASSUME RInv, [Next]_vars
        PROVE  (synced /\ faults' = faults => UNCHANGED system) \/ UNCHANGED vars
    BY <1>1, Idle
  <1>2. QED
    BY <1>1, RInductive, PTL DEF Spec, RestartKeepsSystem
=============================================================================
