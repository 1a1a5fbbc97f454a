--------------------------- MODULE StartupProofs ---------------------------
(***************************************************************************)
(* Proofs about Startup, for every system, every startup datastore and     *)
(* every number of starts and failures.                                    *)
(***************************************************************************)
EXTENDS Startup, TLAPS

USE DEF system, store, os, resolved

----------------------------------------------------------------------------
(* The inductive invariant: what a start knows at each stage.  Parts of it *)
(* are needed for the types: the subtree is there while it is stored, and  *)
(* the loop over the keys runs over its users.                             *)

Storing == {"timezone", "symlink", "search", "server", "users", "homes", "keys"}

WantInv ==
    /\ pc \in Storing => want # NONE
    /\ pc \in {"down", "empty", "load", "read"} => want = NONE
    /\ pc = "symlink" => want.tz \in Installed
    /\ pc = "keys" => todo \subseteq In(want.users)

\* Once the timezone was handled, it stays as it is.
ZoneInv ==
    pc \in {"search", "server", "users", "homes", "keys", "subscribe", "up"}
      /\ want # NONE => want.tz \in {NONE, localtime} \/ Unreadable

\* The same for the search domains and for the servers.
SearchInv ==
    pc \in {"server", "users", "homes", "keys", "subscribe", "up"} /\ want # NONE
      => want.search \cap AllDomains # {} \/ want.search = {}

ServerInv ==
    pc \in {"users", "homes", "keys", "subscribe", "up"} /\ want # NONE
      => \/ WantedServers \cap AllServers # {}
         \/ \A n \in WantedServers : FromStr(want.server[n]) \in servers[Link]

\* The users are stored before their homes and keys.
UsersInv ==
    pc \in {"homes", "keys", "subscribe", "up"} /\ want # NONE
      => \A u \in In(want.users) : db[u] # NONE

\* The loop over the keys has handled the users that are not in todo.
KeysInv ==
    pc \in {"keys", "subscribe", "up"} /\ want # NONE
      => \A u \in In(want.users) \ RootPrefixed :
            WantedKeys(u) # {} /\ (pc = "keys" => u \notin todo) =>
              \E k \in WantedKeys(u) : KeyFile(ssh[u], k) # NONE

IInv ==
    /\ TypeOK /\ WantInv
    /\ ZoneInv /\ SearchInv /\ ServerInv /\ UsersInv /\ KeysInv

----------------------------------------------------------------------------
(* Types.                                                                  *)

\* The fields of the subtree that is being stored.
LEMMA WantType ==
  ASSUME TypeOK, want # NONE
  PROVE  /\ want \in Data
         /\ want.tz \in Zones \cup {NONE}
         /\ want.search \in SUBSET Domains
         /\ want.server \in [ServerNames -> Addresses \cup {NONE}]
         /\ \A u \in In(want.users) :
               /\ want.users[u].pw \in Passwords
               /\ want.users[u].keys \in KeyLists
  <1>1. want \in Data
    BY DEF TypeOK
  <1>2. want.users \in [Users -> Conf \cup {NONE}]
    BY <1>1 DEF Data, Datastore
  <1>3. \A u \in In(want.users) : want.users[u] \in Conf
    BY <1>2 DEF In
  <1>4. QED
    BY <1>1, <1>3 DEF Data, Conf

\* Two words were read, or the file has not got them; the directory of a user
\* may be root's.
LEMMA LoadedKeysType ==
  ASSUME TypeOK, NEW u \in Users
  PROVE  LoadedKeys(u) \in [Keys -> Blobs \cup {Torn, NONE}]
  <1>1. ASSUME NEW k \in Keys
        PROVE  KeyFile(LoadDir(u), k) \in Blobs \cup LongFiles \cup {Torn, NONE}
    BY AccountsAssumption DEF TypeOK, LoadDir, KeyFile, KeyFiles, Content
  <1>2. ASSUME NEW k \in Keys
        PROVE  TwoWords(KeyFile(LoadDir(u), k)) \in Blobs \cup {Torn, NONE}
    BY <1>1, AccountsAssumption DEF TwoWords
  <1>3. QED
    BY <1>2 DEF LoadedKeys

\* A file has two words to read, or is torn, exactly when it is there.
LEMMA TwoWordsThere ==
  ASSUME NEW c PROVE TwoWords(c) # NONE <=> c # NONE
  BY AccountsAssumption DEF TwoWords, Content

\* Writing keys to a directory gives a directory.
LEMMA WrittenType ==
  ASSUME NEW dir \in KeyFiles \cup {NoDir}, NEW list \in KeyLists, NEW lost
  PROVE  Written(dir, list, lost) \in KeyFiles
  BY DEF Written, KeyFile, KeyFiles, KeyLists, Content

\* The first keys of a list are a list.
LEMMA PartType ==
  ASSUME NEW list \in KeyLists, NEW ks
  PROVE  Part(list, ks) \in KeyLists
  BY DEF Part, KeyLists

\* What is loaded can be put into the datastore.
LEMMA LoadedType ==
  ASSUME TypeOK, ~ LoadFails
  PROVE  Loaded \in Data
  <1>1. (IF Unreadable THEN NoName ELSE localtime) \in Zones
    BY TimezoneAssumption DEF TypeOK, Unreadable
  <1>2. AllDomains \in SUBSET Domains
    BY DEF TypeOK, AllDomains
  <1>3. AllServers \in SUBSET Addresses
    BY DEF TypeOK, AllServers
  <1>4. [n \in ServerNames |-> IF n \in AllServers THEN n ELSE NONE]
          \in [ServerNames -> Addresses \cup {NONE}]
    BY <1>3
  <1>5. ASSUME NEW u \in Users, u \in Listed
        PROVE  LoadedUser(u) \in Conf
    <2>1. LoadedKeys(u) \in KeyLists
      <3>1. \A k \in Keys : LoadedKeys(u)[k] # Torn
        BY <1>5 DEF LoadFails, LoadKeysFails
      <3>2. QED
        BY <3>1, LoadedKeysType DEF KeyLists
    <2>2. db[u] \in DiskHashes
      BY <1>5 DEF TypeOK, Listed, In
    <2>3. (IF db[u] = Empty THEN NULL ELSE LoadedPassword(db[u])) \in Passwords
      BY <2>2 DEF LoadedPassword, Passwords, DiskHashes
    <2>4. QED
      BY <2>1, <2>3 DEF LoadedUser, Conf
  <1>6. [u \in Users |-> IF u \in Listed THEN LoadedUser(u) ELSE NONE] \in Datastore
    BY <1>5 DEF Datastore
  <1>7. QED
    BY <1>1, <1>2, <1>4, <1>6 DEF Loaded, Data

LEMMA MergedUserType ==
  ASSUME NEW old \in Conf \cup {NONE}, NEW new \in Conf \cup {NONE}
  PROVE  MergedUser(old, new) \in Conf \cup {NONE}
  <1>1. CASE old = NONE \/ new = NONE
    BY <1>1 DEF MergedUser
  <1>2. CASE old # NONE /\ new # NONE
    <2>1. old \in Conf /\ new \in Conf
      BY <1>2
    <2>2. [k \in Keys |-> IF new.keys[k] = NONE THEN old.keys[k] ELSE new.keys[k]]
             \in KeyLists
      BY <2>1 DEF Conf, KeyLists
    <2>3. (IF new.pw = NULL THEN old.pw ELSE new.pw) \in Passwords
      BY <2>1 DEF Conf
    <2>4. QED
      BY <1>2, <2>2, <2>3 DEF MergedUser, Conf
  <1>3. QED
    BY <1>1, <1>2

LEMMA MergeType ==
  ASSUME NEW old \in Data, NEW new \in Data
  PROVE  Merge(old, new) \in Data
  <1>1. /\ old.users \in [Users -> Conf \cup {NONE}]
        /\ new.users \in [Users -> Conf \cup {NONE}]
    BY DEF Data, Datastore
  <1>2. [u \in Users |-> MergedUser(old.users[u], new.users[u])] \in Datastore
    BY <1>1, MergedUserType DEF Datastore
  <1>3. /\ [n \in ServerNames |-> IF new.server[n] = NONE THEN old.server[n]
                                  ELSE new.server[n]]
             \in [ServerNames -> Addresses \cup {NONE}]
        /\ new.tz \in Zones \cup {NONE}
        /\ old.search \cup new.search \in SUBSET Domains
    BY DEF Data
  <1>4. QED
    BY <1>2, <1>3 DEF Merge, Data

\* The plugin begins with well-typed datastores and system.
LEMMA InitIInv == Init => IInv
  <1> SUFFICES ASSUME Init PROVE IInv
    OBVIOUS
  <1>1. TypeOK
    <2>1. db \in [Users -> DiskHashes \cup {NONE}]
      BY DEF Init, DiskHashes
    <2>2. startup \in Data /\ running \in Data
      BY StartupAssumption DEF Init
    <2>3. starts \in 0..MaxStarts /\ faults \in 0..MaxFaults
      BY StartupAssumption DEF Init
    <2>4. group \in SUBSET Users /\ home \in SUBSET Users /\ hidden \in SUBSET Users
      BY DEF Init, In
    <2>5. want \in Data \cup {NONE} /\ todo \in SUBSET Users /\ synced \in BOOLEAN
      BY DEF Init
    <2>6. pc \in Stages /\ errno \in {"ENOENT", "other"}
      BY DEF Init, Stages
    <2>7. QED
      BY <2>1, <2>2, <2>3, <2>4, <2>5, <2>6 DEF Init, TypeOK
  <1>2. QED
    BY <1>1 DEF Init, IInv, WantInv, Storing, ZoneInv, SearchInv, ServerInv,
                UsersInv, KeysInv

\* The keys of one user: what the step does to the directory of that user.
LEMMA StoreKeysType ==
  ASSUME TypeOK, WantInv, NEW u \in Users, NEW lost, StoreKeys(u, lost)
  PROVE  /\ ssh' \in [Users -> KeyFiles \cup {NoDir}]
         /\ errno' \in {"ENOENT", "other"}
         /\ todo' \in SUBSET Users
         /\ pc' \in Stages
         /\ want' \in Data \cup {NONE}
  <1>1. u \in In(want.users) /\ want # NONE
    BY DEF StoreKeys, WantInv, Storing
  <1>2. Written(ssh[u], want.users[u].keys, lost) \in KeyFiles
    BY <1>1, WantType, WrittenType DEF TypeOK
  <1>3. CheckedErrno(u) \in {"ENOENT", "other"}
    BY DEF TypeOK, CheckedErrno
  <1>4. QED
    BY <1>2, <1>3 DEF TypeOK, StoreKeys, Failed, Stages

\* The same for a process that does not get to the end of them.
LEMMA DiesInKeysType ==
  ASSUME TypeOK, WantInv, NEW u \in Users, DiesInKeys(u)
  PROVE  ssh' \in [Users -> KeyFiles \cup {NoDir}]
  <1>1. u \in In(want.users) /\ want # NONE
    BY DEF DiesInKeys, WantInv, Storing
  <1>2. PICK ks, lost :
          ssh' = [ssh EXCEPT ![u] =
                    Written(ssh[u], Part(want.users[u].keys, ks), lost)]
    BY DEF DiesInKeys
  <1>3. Part(want.users[u].keys, ks) \in KeyLists
    BY <1>1, WantType, PartType
  <1>4. Written(ssh[u], Part(want.users[u].keys, ks), lost) \in KeyFiles
    BY <1>3, WrittenType DEF TypeOK
  <1>5. QED
    BY <1>2, <1>4 DEF TypeOK

\* Every step keeps the types.
LEMMA NextTypeOK == TypeOK /\ WantInv /\ [Next]_vars => TypeOK'
  <1> SUFFICES ASSUME TypeOK, WantInv, [Next]_vars PROVE TypeOK'
    OBVIOUS
  <1> USE DEF Failed, Fault, Stages
  <1>1. CASE Start
    BY <1>1, StartupAssumption DEF Start, TypeOK
  <1>2. CASE CheckEmpty
    BY <1>2 DEF CheckEmpty, TypeOK
  <1>3. CASE Load
    <2>1. running' \in Data
      BY <1>3, LoadedType, MergeType DEF Load, TypeOK
    <2>2. QED
      BY <1>3, <2>1 DEF Load, TypeOK
  <1>4. CASE Read
    BY <1>4 DEF Read, TypeOK
  <1>5. CASE StoreTimezone
    BY <1>5 DEF StoreTimezone, UnlinkLocaltime, TypeOK
  <1>6. CASE LinkTimezone
    <2>1. want.tz \in Zones
      BY <1>6, TimezoneAssumption DEF LinkTimezone, WantInv
    <2>2. QED
      BY <1>6, <2>1 DEF LinkTimezone, Symlink, TypeOK
  <1>7. CASE StoreSearch
    <2>1. want.search \in SUBSET Domains
      BY <1>7, WantType DEF StoreSearch, WantInv, Storing
    <2>2. domains' \in [Links -> SUBSET Domains]
      BY <1>7, <2>1 DEF StoreSearch, TypeOK
    <2>3. QED
      BY <1>7, <2>2 DEF StoreSearch, TypeOK
  <1>8. CASE StoreServer
    <2>1. {FromStr(want.server[n]) : n \in WantedServers} \in SUBSET Addresses
      <3>1. want.server \in [ServerNames -> Addresses \cup {NONE}]
        BY <1>8, WantType DEF StoreServer, WantInv, Storing
      <3>2. ASSUME NEW n \in WantedServers
            PROVE  FromStr(want.server[n]) \in Addresses
        BY <3>1, ResolverAssumption DEF WantedServers, FromStr, Addresses
      <3>3. QED
        BY <3>2
    <2>2. servers' \in [Links -> SUBSET Addresses]
      BY <1>8, <2>1 DEF StoreServer, TypeOK
    <2>3. QED
      BY <1>8, <2>2 DEF StoreServer, TypeOK
  <1>9. CASE StoreUser
    <2>1. ASSUME NEW u \in Missing
          PROVE  DiskHash(want.users[u].pw) \in DiskHashes
      BY <1>9, WantType DEF StoreUser, WantInv, Storing, Missing, DiskHash,
                            DiskHashes, Passwords
    <2>2. db' \in [Users -> DiskHashes \cup {NONE}]
      BY <1>9, <2>1 DEF StoreUser, TypeOK
    <2>3. Missing \subseteq Users
      BY DEF Missing, In
    <2>4. QED
      BY <1>9, <2>2, <2>3 DEF StoreUser, TypeOK
  <1>10. ASSUME NEW u \in Users, CreateHome(u) \/ DiesInHome(u) PROVE TypeOK'
    <2>1. CASE CreateHome(u)
      BY <2>1 DEF CreateHome, TypeOK
    <2>2. CASE DiesInHome(u)
      <3>1. faults' \in 0..MaxFaults
        BY <2>2, StartupAssumption DEF DiesInHome, TypeOK
      <3>2. QED
        BY <2>2, <3>1 DEF DiesInHome, TypeOK
    <2>3. QED
      BY <1>10, <2>1, <2>2
  <1>11. ASSUME NEW e \in {"ENOENT", "other"}, HomesDone(e) PROVE TypeOK'
    BY <1>11 DEF HomesDone, TypeOK, In
  <1>12. ASSUME NEW u \in Users, StoreKeys(u, {}), UNCHANGED <<synced, faults>>
         PROVE  TypeOK'
    <2>1. UNCHANGED <<db, group, home, hidden, resolved, localtime, store, starts>>
      BY <1>12 DEF StoreKeys
    <2>2. QED
      BY <1>12, <2>1, StoreKeysType DEF TypeOK
  <1>13. ASSUME NEW u \in Users, KeysLost(u) PROVE TypeOK'
    <2>1. PICK lost : StoreKeys(u, lost)
      BY <1>13 DEF KeysLost
    <2>2. UNCHANGED <<db, group, home, hidden, resolved, localtime, store, starts>>
      BY <2>1 DEF StoreKeys
    <2>3. faults' \in 0..MaxFaults /\ synced' = FALSE
      BY <1>13, StartupAssumption DEF KeysLost, TypeOK
    <2>4. QED
      BY <2>1, <2>2, <2>3, StoreKeysType DEF TypeOK
  <1>d. ASSUME NEW u \in Users, DiesInKeys(u) PROVE TypeOK'
    <2>1. faults' \in 0..MaxFaults
      BY <1>d, StartupAssumption DEF DiesInKeys, TypeOK
    <2>2. /\ UNCHANGED <<db, group, home, hidden, resolved, localtime, errno,
                        store, starts>>
          /\ pc' = "down" /\ want' = NONE /\ todo' = {} /\ synced' = FALSE
      BY <1>d DEF DiesInKeys
    <2>3. ssh' \in [Users -> KeyFiles \cup {NoDir}]
      BY <1>d, DiesInKeysType
    <2>4. QED
      BY <2>1, <2>2, <2>3 DEF TypeOK
  <1>14. CASE KeysDone \/ Subscribe \/ Stop
    BY <1>14 DEF KeysDone, Subscribe, Stop, TypeOK
  <1>15. CASE Dies
    <2>1. faults' \in 0..MaxFaults
      BY <1>15, StartupAssumption DEF Dies, TypeOK
    <2>2. QED
      BY <1>15, <2>1 DEF Dies, TypeOK
  <1>16. CASE Save
    BY <1>16 DEF Save, TypeOK
  <1>17. CASE UNCHANGED vars
    BY <1>17 DEF vars, TypeOK
  <1>18. QED
    BY <1>1, <1>2, <1>3, <1>4, <1>5, <1>6, <1>7, <1>8, <1>9, <1>10, <1>11,
       <1>12, <1>13, <1>d, <1>14, <1>15, <1>16, <1>17
    DEF Next, Step, Environment

----------------------------------------------------------------------------
(* The stages.                                                             *)

\* A step either leaves the list of the loop over the keys to its users, or
\* begins that loop with them; a subtree is there from the read to the end.
LEMMA NextWantInv == TypeOK /\ WantInv /\ [Next]_vars => WantInv'
  <1> SUFFICES ASSUME TypeOK, WantInv, [Next]_vars PROVE WantInv'
    OBVIOUS
  <1> USE DEF WantInv, Storing, Failed
  <1>1. CASE Start \/ CheckEmpty \/ Load
    BY <1>1 DEF Start, CheckEmpty, Load
  <1>2. CASE Read
    BY <1>2, StartupAssumption DEF Read, TypeOK
  <1>3. CASE StoreTimezone \/ LinkTimezone
    BY <1>3 DEF StoreTimezone, LinkTimezone, UnlinkLocaltime
  <1>4. CASE StoreSearch \/ StoreServer \/ StoreUser
    BY <1>4 DEF StoreSearch, StoreServer, StoreUser
  <1>5. ASSUME NEW u \in Users, CreateHome(u) \/ DiesInHome(u) \/ DiesInKeys(u)
        PROVE  WantInv'
    BY <1>5 DEF CreateHome, DiesInHome, DiesInKeys
  <1>6. ASSUME NEW e, HomesDone(e) PROVE WantInv'
    BY <1>6 DEF HomesDone
  <1>7. ASSUME NEW u \in Users, NEW lost, StoreKeys(u, lost) PROVE WantInv'
    BY <1>7 DEF StoreKeys
  <1>8. CASE KeysDone \/ Subscribe \/ Stop \/ Dies \/ Save
    BY <1>8 DEF KeysDone, Subscribe, Stop, Dies, Save
  <1>9. CASE UNCHANGED vars
    BY <1>9 DEF vars
  <1>10. QED
    BY <1>1, <1>2, <1>3, <1>4, <1>5, <1>6, <1>7, <1>8, <1>9
    DEF Next, Step, Environment, KeysLost

\* Only the first stage changes the timezone: it ends with the one that is
\* wanted, or with one that cannot be read.
LEMMA NextZoneInv == TypeOK /\ WantInv /\ ZoneInv /\ [Next]_vars => ZoneInv'
  <1> SUFFICES ASSUME TypeOK, WantInv, ZoneInv, [Next]_vars PROVE ZoneInv'
    OBVIOUS
  <1> USE DEF WantInv, Storing, ZoneInv, Unreadable, Failed
  <1>1. CASE Start \/ CheckEmpty \/ Load \/ Read
    BY <1>1 DEF Start, CheckEmpty, Load, Read
  <1>2. CASE StoreTimezone
    BY <1>2 DEF StoreTimezone, TimezonePresent
  <1>3. CASE LinkTimezone
    BY <1>3 DEF LinkTimezone, Symlink
  <1>4. CASE StoreSearch \/ StoreServer \/ StoreUser
    BY <1>4 DEF StoreSearch, StoreServer, StoreUser
  <1>5. ASSUME NEW u \in Users, CreateHome(u) \/ DiesInHome(u) \/ DiesInKeys(u)
        PROVE  ZoneInv'
    BY <1>5 DEF CreateHome, DiesInHome, DiesInKeys
  <1>6. ASSUME NEW e, HomesDone(e) PROVE ZoneInv'
    BY <1>6 DEF HomesDone
  <1>7. ASSUME NEW u \in Users, NEW lost, StoreKeys(u, lost) PROVE ZoneInv'
    BY <1>7 DEF StoreKeys
  <1>8. CASE KeysDone \/ Subscribe \/ Stop \/ Dies \/ Save
    BY <1>8 DEF KeysDone, Subscribe, Stop, Dies, Save
  <1>9. CASE UNCHANGED vars
    BY <1>9 DEF vars
  <1>10. QED
    BY <1>1, <1>2, <1>3, <1>4, <1>5, <1>6, <1>7, <1>8, <1>9
    DEF Next, Step, Environment, KeysLost

\* A list that is not stored is empty, or some of it was found.
LEMMA NotStored ==
  ASSUME NEW wanted, NEW found, ~ Stores(wanted, found)
  PROVE  wanted = {} \/ wanted \cap found # {}
  BY DEF Stores, Status

\* After the search stage some wanted domain is on a link, if there is one.
LEMMA NextSearchInv == TypeOK /\ WantInv /\ SearchInv /\ [Next]_vars => SearchInv'
  <1> SUFFICES ASSUME TypeOK, WantInv, SearchInv, [Next]_vars PROVE SearchInv'
    OBVIOUS
  <1> USE DEF WantInv, Storing, SearchInv, AllDomains, Failed
  <1>1. CASE Start \/ CheckEmpty \/ Load \/ Read \/ StoreTimezone \/ LinkTimezone
    BY <1>1 DEF Start, CheckEmpty, Load, Read, StoreTimezone, LinkTimezone
  <1>2. CASE StoreSearch
    <2>1. CASE Stores(want.search, AllDomains)
      <3>1. domains'[Link] = want.search
        BY <1>2, <2>1, ResolverAssumption DEF StoreSearch, TypeOK
      <3>2. want.search \subseteq AllDomains'
        BY <3>1, ResolverAssumption
      <3>3. want' = want
        BY <1>2 DEF StoreSearch
      <3>4. QED
        BY <3>2, <3>3
    <2>2. CASE ~ Stores(want.search, AllDomains)
      <3>1. UNCHANGED <<domains, want>>
        BY <1>2, <2>2 DEF StoreSearch
      <3>2. want.search = {} \/ want.search \cap AllDomains # {}
        BY <2>2, NotStored
      <3>3. QED
        BY <3>1, <3>2
    <2>3. QED
      BY <2>1, <2>2
  <1>3. CASE StoreServer \/ StoreUser
    BY <1>3 DEF StoreServer, StoreUser
  <1>4. ASSUME NEW u \in Users, CreateHome(u) \/ DiesInHome(u) \/ DiesInKeys(u)
        PROVE  SearchInv'
    BY <1>4 DEF CreateHome, DiesInHome, DiesInKeys
  <1>5. ASSUME NEW e, HomesDone(e) PROVE SearchInv'
    BY <1>5 DEF HomesDone
  <1>6. ASSUME NEW u \in Users, NEW lost, StoreKeys(u, lost) PROVE SearchInv'
    BY <1>6 DEF StoreKeys
  <1>7. CASE KeysDone \/ Subscribe \/ Stop \/ Dies \/ Save
    BY <1>7 DEF KeysDone, Subscribe, Stop, Dies, Save
  <1>8. CASE UNCHANGED vars
    BY <1>8 DEF vars
  <1>9. QED
    BY <1>1, <1>2, <1>3, <1>4, <1>5, <1>6, <1>7, <1>8
    DEF Next, Step, Environment, KeysLost

\* After the server stage the wanted servers are on the link, or one of them
\* was found.
LEMMA NextServerInv == TypeOK /\ WantInv /\ ServerInv /\ [Next]_vars => ServerInv'
  <1> SUFFICES ASSUME TypeOK, WantInv, ServerInv, [Next]_vars PROVE ServerInv'
    OBVIOUS
  <1> USE DEF WantInv, Storing, ServerInv, WantedServers, AllServers, Failed
  <1>1. CASE Start \/ CheckEmpty \/ Load \/ Read \/ StoreTimezone \/ LinkTimezone
               \/ StoreSearch
    BY <1>1 DEF Start, CheckEmpty, Load, Read, StoreTimezone, LinkTimezone, StoreSearch
  <1>2. CASE StoreServer
    <2>1. CASE want' = NONE
      BY <2>1
    <2>2. CASE want' # NONE
      <3>1. /\ want' = want /\ WantedServers' = WantedServers
            /\ servers' = IF Stores(WantedServers, AllServers)
                          THEN [servers EXCEPT ![Link] =
                                  {FromStr(want.server[n]) : n \in WantedServers}]
                          ELSE servers
        BY <1>2, <2>2 DEF StoreServer
      <3>2. CASE Stores(WantedServers, AllServers)
        <4>1. servers'[Link] = {FromStr(want.server[n]) : n \in WantedServers}
          BY <3>1, <3>2, ResolverAssumption DEF TypeOK
        <4>2. QED
          BY <3>1, <4>1
      <3>3. CASE ~ Stores(WantedServers, AllServers)
        <4>1. WantedServers = {} \/ WantedServers \cap AllServers # {}
          BY <3>3, NotStored
        <4>2. AllServers' = AllServers
          BY <3>1, <3>3
        <4>3. QED
          BY <3>1, <4>1, <4>2
      <3>4. QED
        BY <3>2, <3>3
    <2>3. QED
      BY <2>1, <2>2
  <1>3. CASE StoreUser
    BY <1>3 DEF StoreUser
  <1>4. ASSUME NEW u \in Users, CreateHome(u) \/ DiesInHome(u) \/ DiesInKeys(u)
        PROVE  ServerInv'
    BY <1>4 DEF CreateHome, DiesInHome, DiesInKeys
  <1>5. ASSUME NEW e, HomesDone(e) PROVE ServerInv'
    BY <1>5 DEF HomesDone
  <1>6. ASSUME NEW u \in Users, NEW lost, StoreKeys(u, lost) PROVE ServerInv'
    BY <1>6 DEF StoreKeys
  <1>7. CASE KeysDone \/ Subscribe \/ Stop \/ Dies \/ Save
    BY <1>7 DEF KeysDone, Subscribe, Stop, Dies, Save
  <1>8. CASE UNCHANGED vars
    BY <1>8 DEF vars
  <1>9. QED
    BY <1>1, <1>2, <1>3, <1>4, <1>5, <1>6, <1>7, <1>8
    DEF Next, Step, Environment, KeysLost

\* The database has every wanted user from the user stage on: the missing
\* ones were added, and the others were listed.
LEMMA NextUsersInv == TypeOK /\ WantInv /\ UsersInv /\ [Next]_vars => UsersInv'
  <1> SUFFICES ASSUME TypeOK, WantInv, UsersInv, [Next]_vars PROVE UsersInv'
    OBVIOUS
  <1> USE DEF WantInv, Storing, UsersInv, In, Failed
  <1>1. CASE Start \/ CheckEmpty \/ Load \/ Read \/ StoreTimezone \/ LinkTimezone
               \/ StoreSearch \/ StoreServer
    BY <1>1 DEF Start, CheckEmpty, Load, Read, StoreTimezone, LinkTimezone,
                StoreSearch, StoreServer
  <1>2. CASE StoreUser
    <2>1. CASE want' = NONE
      BY <2>1
    <2>2. CASE want' # NONE
      <3>1. /\ want' = want
            /\ db' = [u \in Users |-> IF u \in Missing
                                      THEN DiskHash(want.users[u].pw) ELSE db[u]]
        BY <1>2, <2>2 DEF StoreUser
      <3>2. ASSUME NEW u \in In(want.users) PROVE db'[u] # NONE
        <4>1. CASE u \in Missing
          <5>1. want.users[u].pw \in Passwords
            BY <1>2, WantType DEF StoreUser
          <5>2. DiskHash(want.users[u].pw) # NONE
            BY <5>1, AccountsAssumption DEF DiskHash, Passwords
          <5>3. QED
            BY <3>1, <4>1, <5>2
        <4>2. CASE u \notin Missing
          BY <3>1, <4>2 DEF Missing, Listed
        <4>3. QED
          BY <4>1, <4>2
      <3>3. QED
        BY <3>1, <3>2
    <2>3. QED
      BY <2>1, <2>2
  <1>3. ASSUME NEW u \in Users, CreateHome(u) \/ DiesInHome(u) \/ DiesInKeys(u)
        PROVE  UsersInv'
    BY <1>3 DEF CreateHome, DiesInHome, DiesInKeys
  <1>4. ASSUME NEW e, HomesDone(e) PROVE UsersInv'
    BY <1>4 DEF HomesDone
  <1>5. ASSUME NEW u \in Users, NEW lost, StoreKeys(u, lost) PROVE UsersInv'
    BY <1>5 DEF StoreKeys
  <1>6. CASE KeysDone \/ Subscribe \/ Stop \/ Dies \/ Save
    BY <1>6 DEF KeysDone, Subscribe, Stop, Dies, Save
  <1>7. CASE UNCHANGED vars
    BY <1>7 DEF vars
  <1>8. QED
    BY <1>1, <1>2, <1>3, <1>4, <1>5, <1>6, <1>7
    DEF Next, Step, Environment, KeysLost

\* The keys of a user whose own directory is read: those that were found are
\* its files.
LEMMA FoundInOwnDirectory ==
  ASSUME NEW u \in Users \ RootPrefixed, NEW k \in FoundKeys(u)
  PROVE  k \in PubKeys /\ KeyFile(ssh[u], k) # NONE
  BY TwoWordsThere DEF FoundKeys, LoadedKeys, LoadDir

\* A wanted key that was written is in the directory, whole or torn.
LEMMA WrittenThere ==
  ASSUME NEW dir \in KeyFiles \cup {NoDir},
         NEW list \in KeyLists, NEW lost, NEW k \in Keys, list[k] # NONE
  PROVE  /\ Written(dir, list, lost)[k] # NONE
         /\ Written(dir, list, lost) # NoDir
  <1>1. Written(dir, list, lost) # NoDir
    BY WrittenType, AccountsAssumption
  <1>2. Written(dir, list, lost)[k] # NONE
    BY AccountsAssumption DEF Written, KeyLists, Content
  <1>3. QED
    BY <1>1, <1>2

\* The turn of one user in the loop over the keys leaves one of the wanted
\* keys in the user's directory.
LEMMA OneKeyThere ==
  ASSUME TypeOK, WantInv, NEW u \in Users \ RootPrefixed, NEW lost,
         StoreKeys(u, lost), want' # NONE, WantedKeys(u) # {}
  PROVE  \E k \in WantedKeys(u) : KeyFile(ssh'[u], k) # NONE
  <1>1. /\ u \in In(want.users) /\ want # NONE
        /\ ssh' = IF StoresKeys(u)
                  THEN [ssh EXCEPT ![u] = Written(ssh[u], want.users[u].keys, lost)]
                  ELSE ssh
    BY DEF StoreKeys, WantInv, Storing, Failed
  <1>2. CASE StoresKeys(u)
    <2>1. PICK k \in WantedKeys(u) : TRUE
      OBVIOUS
    <2>2. want.users[u].keys \in KeyLists
      BY <1>1, WantType
    <2>3. ssh'[u] = Written(ssh[u], want.users[u].keys, lost)
      BY <1>1, <1>2 DEF TypeOK
    <2>4. ssh'[u][k] # NONE /\ ssh'[u] # NoDir
      <3>1. ssh[u] \in KeyFiles \cup {NoDir}
        BY DEF TypeOK
      <3>2. k \in Keys /\ want.users[u].keys[k] # NONE
        BY <2>1 DEF WantedKeys
      <3>3. /\ Written(ssh[u], want.users[u].keys, lost)[k] # NONE
            /\ Written(ssh[u], want.users[u].keys, lost) # NoDir
        BY <2>2, <3>1, <3>2, WrittenThere
      <3>4. QED
        BY <2>3, <3>3
    <2>5. QED
      BY <2>1, <2>4 DEF KeyFile
  <1>3. CASE ~ StoresKeys(u)
    <2>1. u # Root
      BY AccountsAssumption
    <2>2. WantedKeys(u) \cap FoundKeys(u) # {}
      BY <1>3, <2>1, NotStored DEF StoresKeys
    <2>3. QED
      BY <1>1, <1>3, <2>2, FoundInOwnDirectory
  <1>4. QED
    BY <1>2, <1>3

\* The users that the loop over the keys has passed keep their keys.
LEMMA NextKeysInv == TypeOK /\ WantInv /\ KeysInv /\ [Next]_vars => KeysInv'
  <1> SUFFICES ASSUME TypeOK, WantInv, KeysInv, [Next]_vars PROVE KeysInv'
    OBVIOUS
  <1> USE DEF WantInv, Storing, KeysInv, WantedKeys, Failed
  <1>1. CASE Start \/ CheckEmpty \/ Load \/ Read \/ StoreTimezone \/ LinkTimezone
               \/ StoreSearch \/ StoreServer \/ StoreUser
    BY <1>1 DEF Start, CheckEmpty, Load, Read, StoreTimezone, LinkTimezone,
                StoreSearch, StoreServer, StoreUser
  <1>2. ASSUME NEW u \in Users, CreateHome(u) \/ DiesInHome(u) \/ DiesInKeys(u)
        PROVE  KeysInv'
    BY <1>2 DEF CreateHome, DiesInHome, DiesInKeys
  <1>3. ASSUME NEW e, HomesDone(e) PROVE KeysInv'
    BY <1>3 DEF HomesDone
  <1>4. ASSUME NEW u \in Users, NEW lost, StoreKeys(u, lost) PROVE KeysInv'
    <2>1. CASE want' = NONE
      BY <2>1
    <2>2. CASE want' # NONE
      <3>1. /\ want' = want /\ pc = "keys" /\ pc' = "keys" /\ todo' = todo \ {u}
            /\ \A v \in Users : v # u => ssh'[v] = ssh[v]
        BY <1>4, <2>2 DEF StoreKeys, TypeOK
      <3>2. ASSUME NEW v \in In(want.users) \ RootPrefixed, WantedKeys(v) # {},
                   v \notin todo'
            PROVE  \E k \in WantedKeys(v) : KeyFile(ssh'[v], k) # NONE
        <4>1. v \in Users
          BY DEF In
        <4>2. CASE v = u
          <5>1. u \in Users \ RootPrefixed /\ WantedKeys(u) # {}
            BY <3>2, <4>2
          <5>2. \E k \in WantedKeys(u) : KeyFile(ssh'[u], k) # NONE
            BY <1>4, <2>2, <5>1, OneKeyThere
          <5>3. QED
            BY <4>2, <5>2
        <4>3. CASE v # u
          <5>1. v \notin todo /\ ssh'[v] = ssh[v]
            BY <3>1, <3>2, <4>1, <4>3
          <5>2. \E k \in WantedKeys(v) : KeyFile(ssh[v], k) # NONE
            BY <3>1, <3>2, <2>2, <5>1
          <5>3. QED
            BY <5>1, <5>2 DEF KeyFile
        <4>4. QED
          BY <4>2, <4>3
      <3>3. QED
        BY <3>1, <3>2 DEF In, KeyFile
    <2>3. QED
      BY <2>1, <2>2
  <1>5. CASE KeysDone \/ Subscribe \/ Stop \/ Dies \/ Save
    BY <1>5 DEF KeysDone, Subscribe, Stop, Dies, Save
  <1>6. CASE UNCHANGED vars
    BY <1>6 DEF vars
  <1>7. QED
    BY <1>1, <1>2, <1>3, <1>4, <1>5, <1>6
    DEF Next, Step, Environment, KeysLost

\* The files of a list are written to the directory of a user.
Writes(u, list, lost) == ssh' = [ssh EXCEPT ![u] = Written(ssh[u], list, lost)]

\* Keys are stored when none of the wanted ones is found: writing some of them
\* leaves every file that can be loaded.
LEMMA WritesOnlyAdd ==
  ASSUME TypeOK, NEW u \in Users, StoresKeys(u), NEW list \in KeyLists, NEW lost,
         \A k \in Keys : list[k] # NONE => k \in WantedKeys(u),
         Writes(u, list, lost)
  PROVE  \A v \in Users \ RootPrefixed, k \in PubKeys :
            KeyFile(ssh[v], k) # NONE => KeyFile(ssh'[v], k) = KeyFile(ssh[v], k)
  <1> SUFFICES ASSUME NEW v \in Users \ RootPrefixed, NEW k \in PubKeys,
                      KeyFile(ssh[v], k) # NONE
               PROVE  KeyFile(ssh'[v], k) = KeyFile(ssh[v], k)
    OBVIOUS
  <1>1. CASE v # u
    <2>1. ssh'[v] = ssh[v]
      BY <1>1 DEF Writes, TypeOK
    <2>2. QED
      BY <2>1 DEF KeyFile
  <1>2. CASE v = u
    <2>1. k \in Keys /\ k \in FoundKeys(u)
      BY <1>2, TwoWordsThere, AccountsAssumption DEF FoundKeys, LoadedKeys, LoadDir
    <2>2. WantedKeys(u) \cap FoundKeys(u) = {}
      BY DEF StoresKeys, Stores, Status
    <2>3. list[k] = NONE
      BY <2>1, <2>2
    <2>4. ssh[u] \in KeyFiles \cup {NoDir} /\ ssh'[u] = Written(ssh[u], list, lost)
      BY DEF Writes, TypeOK
    <2>5. ssh'[u] # NoDir
      BY <2>4, WrittenType, AccountsAssumption
    <2>6. ssh'[u][k] = KeyFile(ssh[u], k)
      BY <2>1, <2>3, <2>4 DEF Written
    <2>7. QED
      BY <1>2, <2>5, <2>6 DEF KeyFile
  <1>3. QED
    BY <1>1, <1>2

----------------------------------------------------------------------------
(* The theorems.                                                           *)

\* What a start knows at each stage is true of every reachable state.
THEOREM Inductive == Spec => []IInv
  <1>1. IInv /\ [Next]_vars => IInv'
    BY NextTypeOK, NextWantInv, NextZoneInv, NextSearchInv, NextServerInv,
       NextUsersInv, NextKeysInv DEF IInv
  <1>2. QED
    BY <1>1, InitIInv, PTL DEF Spec

\* Every variable of the start keeps its type; in particular a torn key file
\* and a locked hash never reach the datastore.
THEOREM TypeCorrect == Spec => []TypeOK
  <1>1. IInv => TypeOK
    BY DEF IInv
  <1>2. QED
    BY <1>1, Inductive, PTL

\* A plugin that is up has an account for every user of the startup datastore,
\* and one of the keys of every user that has some, however many starts died
\* before and whatever they left (running/store.c 585-670).
THEOREM AccountsAlwaysStored == Spec => []AccountsStored
  <1>1. IInv => AccountsStored
    BY DEF IInv, AccountsStored, Stored, UsersInv, KeysInv
  <1>2. QED
    BY <1>1, Inductive, PTL

\* The same for the search domains and the servers (running/store.c 297-437).
THEOREM ResolverAlwaysStored == Spec => []ResolverStored
  <1>1. IInv => ResolverStored
    BY DEF IInv, ResolverStored, Stored, SearchInv, ServerInv
  <1>2. QED
    BY <1>1, Inductive, PTL

\* Only a timezone that cannot be read keeps a start from setting the wanted
\* one (running/store.c 172-230).
THEOREM TimezoneAlwaysStored == Spec => []TimezoneStored
  <1>1. IInv => TimezoneStored
    BY DEF IInv, TimezoneStored, Stored, ZoneInv
  <1>2. QED
    BY <1>1, Inductive, PTL

\* No step changes an account, takes away a home, a group or a key file, or
\* overwrites a key that can be loaded.
THEOREM StartsOnlyAdd == Spec => OnlyAdds
  <1> DEFINE Adds ==
        /\ \A u \in In(db) : db'[u] = db[u]
        /\ home \subseteq home' /\ group \subseteq group'
        /\ \A u \in Users \ RootPrefixed, k \in PubKeys :
              KeyFile(ssh[u], k) # NONE => KeyFile(ssh'[u], k) = KeyFile(ssh[u], k)
  <1>1. ASSUME IInv, [Next]_vars PROVE Adds \/ UNCHANGED vars
    <2> USE <1>1
    <2>1. CASE \/ Start \/ CheckEmpty \/ Load \/ Read \/ StoreTimezone
               \/ LinkTimezone \/ StoreSearch \/ StoreServer \/ KeysDone
               \/ Subscribe \/ Stop \/ Dies \/ Save
      BY <2>1 DEF Start, CheckEmpty, Load, Read, StoreTimezone, LinkTimezone,
                  StoreSearch, StoreServer, KeysDone, Subscribe, Stop, Dies,
                  Save, KeyFile
    <2>2. CASE StoreUser
      <3>1. \A u \in In(db) : db'[u] = db[u]
        BY <2>2 DEF StoreUser, IInv, TypeOK, In
      <3>2. QED
        BY <2>2, <3>1 DEF StoreUser, KeyFile
    <2>3. ASSUME NEW u \in Users, CreateHome(u) \/ DiesInHome(u) PROVE Adds
      BY <2>3 DEF CreateHome, DiesInHome, KeyFile
    <2>4. ASSUME NEW e, HomesDone(e) PROVE Adds
      BY <2>4 DEF HomesDone, KeyFile
    <2>5. ASSUME NEW u \in Users, NEW lost, StoreKeys(u, lost) PROVE Adds
      <3>1. UNCHANGED <<db, home, group>>
        BY <2>5 DEF StoreKeys
      <3>2. CASE ssh' = ssh
        BY <3>1, <3>2 DEF KeyFile
      <3>3. CASE ssh' # ssh
        <4>1. /\ Writes(u, want.users[u].keys, lost) /\ StoresKeys(u)
              /\ u \in In(want.users) /\ want # NONE
          BY <2>5, <3>3 DEF StoreKeys, Writes, IInv, WantInv, Storing
        <4>2. want.users[u].keys \in KeyLists
          BY <4>1, WantType DEF IInv
        <4>3. QED
          BY <3>1, <4>1, <4>2, WritesOnlyAdd DEF IInv, WantedKeys
      <3>4. QED
        BY <3>2, <3>3
    <2>6. ASSUME NEW u \in Users, DiesInKeys(u) PROVE Adds
      <3>1. UNCHANGED <<db, home, group>>
        BY <2>6 DEF DiesInKeys
      <3>2. PICK ks, lost : Writes(u, Part(want.users[u].keys, ks), lost)
        BY <2>6 DEF DiesInKeys, Writes
      <3>3. StoresKeys(u) /\ u \in In(want.users) /\ want # NONE
        BY <2>6 DEF DiesInKeys, IInv, WantInv, Storing
      <3>4. Part(want.users[u].keys, ks) \in KeyLists
        BY <3>3, WantType, PartType DEF IInv
      <3>5. \A k \in Keys : Part(want.users[u].keys, ks)[k] # NONE => k \in WantedKeys(u)
        BY DEF Part, WantedKeys
      <3>6. QED
        BY <3>1, <3>2, <3>3, <3>4, <3>5, WritesOnlyAdd DEF IInv
    <2>7. QED
      BY <2>1, <2>2, <2>3, <2>4, <2>5, <2>6 DEF Next, Step, Environment, KeysLost
  <1>2. QED
    BY <1>1, Inductive, PTL DEF Spec, OnlyAdds
=============================================================================
