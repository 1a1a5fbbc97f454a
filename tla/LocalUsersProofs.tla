-------------------------- MODULE LocalUsersProofs --------------------------
(***************************************************************************)
(* Proofs about LocalUsers, for every set of users, keys, hashes and edits *)
(* and every number of transactions and failures.                          *)
(***************************************************************************)
EXTENDS LocalUsers, TLAPS

USE DEF store, os, users, keys, mem, bounds

----------------------------------------------------------------------------
(* Type correctness.                                                       *)

\* The initial states are well typed.
LEMMA InitTypeOK == Init => TypeOK
  <1> SUFFICES ASSUME Init PROVE TypeOK
    OBVIOUS
  <1> USE ConstantsAssumption, AccountsAssumption
  <1>1. /\ db \in [Users -> DiskHashes \cup {NONE}]
        /\ group \in SUBSET Users
        /\ home \in SUBSET Users
        /\ ssh \in [Users -> KeyFiles \cup {NoDir}]
    BY DEF Init, DiskHashes, In, KeyFiles, Content
  <1>2. ASSUME NEW u \in Users
        PROVE  LoadedKeys(u) \in KeyLists
    <2>1. \A k \in Keys : KeyFile(LoadDir(u), k) \in Blobs \cup LongFiles \cup {NONE}
      BY DEF Init, LoadDir, KeyFile
    <2>2. QED
      BY <2>1 DEF LoadedKeys, TwoWords, KeyLists
  <1>3. running \in Datastore
    <2>1. ASSUME NEW u \in Users, db[u] # NONE
          PROVE  LoadedPassword(db[u]) \in Passwords
      BY <2>1 DEF Init, LoadedPassword, Passwords
    <2>2. QED
      BY <1>2, <2>1 DEF Init, Datastore, Conf
  <1>4. /\ created \in [Users -> Passwords \cup {NONE}]
        /\ modified \in [Users -> Passwords \cup {Empty, NONE}]
        /\ keysCreated \in [Users -> KeyLists \cup {NONE}]
        /\ keysModified \in [Users -> KeyLists \cup {NONE}]
        /\ memdb \in [Users -> DiskHashes \cup {NONE}]
    BY DEF Init, NoList
  <1>5. QED
    BY <1>1, <1>3, <1>4 DEF Init, TypeOK, Stages

\* Loading and storing keep the types of the lists and of the key files.
LEMMA LoadedKeysType ==
  ASSUME TypeOK, NEW u \in Users, ~ LoadKeysFails(u)
  PROVE  LoadedKeys(u) \in KeyLists
  <1>1. \A k \in Keys : KeyFile(LoadDir(u), k) \in Content \cup {NONE}
    BY AccountsAssumption DEF TypeOK, LoadDir, KeyFile, KeyFiles
  <1>2. \A k \in Keys : LoadedKeys(u)[k] \in Blobs \cup {Torn, NONE}
    BY <1>1, AccountsAssumption DEF LoadedKeys, TwoWords, Content
  <1>3. QED
    BY <1>2 DEF LoadedKeys, LoadKeysFails, KeyLists

LEMMA WrittenType ==
  ASSUME NEW dir \in KeyFiles \cup {NoDir}, NEW list \in KeyLists, NEW lost
  PROVE  Written(dir, list, lost) \in KeyFiles
  BY DEF Written, KeyFile, KeyFiles, KeyLists, Content

LEMMA PartType ==
  ASSUME NEW list \in KeyLists, NEW ks PROVE Part(list, ks) \in KeyLists
  BY DEF Part, KeyLists

LEMMA KeyTypes ==
  ASSUME TypeOK, NEW u \in Users, NEW k \in Keys
  PROVE  /\ OldKey(u, k) \in Blobs \cup {NONE}
         /\ NewKey(u, k) \in Blobs \cup {NONE}
  BY DEF TypeOK, OldKey, NewKey, Datastore, Conf, KeyLists

LEMMA StoreAuthorizedKeyType ==
  ASSUME TypeOK, NEW u \in Users, NEW list \in KeyLists, NEW lost,
         StoreAuthorizedKey(u, list, lost),
         pc \in {"keys_created", "keys_modified"}
  PROVE  /\ ssh' \in [Users -> KeyFiles \cup {NoDir}]
         /\ todo' \in SUBSET Users
         /\ errno' \in {"ENOENT", "other"}
         /\ pc' \in Stages
         /\ result' \in {"ok", "failed"}
  <1>1. Written(ssh[u], list, lost) \in KeyFiles
    BY WrittenType DEF TypeOK
  <1>2. QED
    BY <1>1 DEF TypeOK, StoreAuthorizedKey, MkdirFails, Failed, Stages

\* The loops over the key lists iterate over elements of their list.
TodoListed ==
    /\ pc = "keys_created" => todo \subseteq In(keysCreated)
    /\ pc = "keys_modified" => todo \subseteq In(keysModified)

\* Removing the keys of u only takes files out of its directory.
LEMMA RemoveKeysShape ==
  ASSUME TypeOK, NEW u \in Users, RemoveKeys(u)
  PROVE  \/ ssh' = ssh
         \/ /\ ssh[u] \in KeyFiles
            /\ \E ks \in SUBSET Keys :
                 /\ \A k \in ks : <<u, k>> \in keysDeleted
                 /\ ssh' = [ssh EXCEPT ![u] =
                       [k \in Keys |-> IF k \in ks THEN NONE ELSE ssh[u][k]]]
  <1>1. PICK ks \in SUBSET RemovableKeys(u) : ssh' = SshWithout(u, ks)
    BY DEF RemoveKeys
  <1>2. ks \subseteq Keys /\ \A k \in ks : <<u, k>> \in keysDeleted
    BY DEF RemovableKeys, DeletedKeys
  <1>3. CASE ks = {}
    BY <1>1, <1>3 DEF SshWithout
  <1>4. CASE ks # {}
    <2>1. ssh[u] # NoDir
      BY <1>4 DEF RemovableKeys, KeyFile
    <2>2. ssh[u] \in KeyFiles
      BY <2>1 DEF TypeOK
    <2>3. QED
      BY <1>1, <1>2, <1>4, <2>2 DEF SshWithout
  <1>5. QED
    BY <1>3, <1>4

\* Every step keeps the types.
LEMMA NextTypeOK == TypeOK /\ TodoListed /\ [Next]_vars => TypeOK'
  <1> SUFFICES ASSUME TypeOK, TodoListed, [Next]_vars PROVE TypeOK'
    OBVIOUS
  <1> USE DEF TypeOK, Failed, Fault, Stages
  <1>1. ASSUME NEW c \in Edits, Edit(c) PROVE TypeOK'
    BY <1>1, ConstantsAssumption, AccountsAssumption DEF Edit
  <1>2. CASE LoadUser
    <2>1. ASSUME NEW u \in Users, db[u] # NONE
          PROVE  LoadedPassword(db[u]) \in Passwords \cup {Empty}
      BY <2>1 DEF LoadedPassword, Passwords, DiskHashes
    <2>2. modified' \in [Users -> Passwords \cup {Empty, NONE}]
      BY <1>2, <2>1 DEF LoadUser
    <2>3. QED
      BY <1>2, <2>2 DEF LoadUser
  <1>3. CASE LoadKeys
    <2>1. keysModified' \in [Users -> KeyLists \cup {NONE}]
      BY <1>3, LoadedKeysType DEF LoadKeys, In
    <2>2. QED
      BY <1>3, <2>1 DEF LoadKeys
  <1>4. CASE ChangeUserName
    BY <1>4 DEF ChangeUserName, Passwords
  <1>5. CASE ChangeUserPassword
    <2>1. ASSUME NEW u \in Users, cand[u] # NONE PROVE cand[u].pw \in Passwords
      BY <2>1 DEF Datastore, Conf
    <2>2. ASSUME NEW u \in Users, PasswordCreated(u) \/ PasswordModified(u)
          PROVE  cand[u] # NONE
      BY <2>2 DEF PasswordCreated, PasswordModified, UserKept
    <2>3. created' \in [Users -> Passwords \cup {NONE}]
      BY <1>5, <2>1, <2>2 DEF ChangeUserPassword
    <2>4. modified' \in [Users -> Passwords \cup {Empty, NONE}]
      <3>1. NULL \in Passwords
        BY DEF Passwords
      <3>2. QED
        BY <1>5, <2>1, <2>2, <3>1 DEF ChangeUserPassword
    <2>5. QED
      BY <1>5, <2>3, <2>4 DEF ChangeUserPassword
  <1>6. CASE ChangeAuthorizedKeyName
    BY <1>6 DEF ChangeAuthorizedKeyName, NoKeys, KeyLists
  <1>7. CASE ChangeAuthorizedKeyData
    <2>1. keysCreated' \in [Users -> KeyLists \cup {NONE}]
      BY <1>7, KeyTypes DEF ChangeAuthorizedKeyData, KeyLists
    <2>2. ASSUME NEW u \in Users, keysModified[u] # NONE
          PROVE  [k \in Keys |-> IF KeyModified(u, k) THEN NewKey(u, k)
                                 ELSE keysModified[u][k]] \in KeyLists
      BY <2>2, KeyTypes DEF KeyLists
    <2>3. keysModified' \in [Users -> KeyLists \cup {NONE}]
      BY <1>7, <2>2 DEF ChangeAuthorizedKeyData
    <2>4. QED
      BY <1>7, <2>1, <2>3 DEF ChangeAuthorizedKeyData
  <1>8. CASE StoreUser
    <2>1. db' \in [Users -> DiskHashes \cup {NONE}]
      BY <1>8 DEF StoreUser, DiskHash, DiskHashes, Passwords
    <2>2. QED
      BY <1>8, <2>1 DEF StoreUser, In
  <1>9. ASSUME NEW u \in Users, CreateHome(u) PROVE TypeOK'
    BY <1>9 DEF CreateHome
  <1>10. ASSUME NEW u \in Users, CreateHomeFault(u) PROVE TypeOK'
    BY <1>10, ConstantsAssumption, AccountsAssumption DEF CreateHomeFault
  <1>11. CASE ChangePasswords
    <2>1. memdb' \in [Users -> DiskHashes \cup {NONE}]
      BY <1>11 DEF ChangePasswords, DiskHash, DiskHashes, Passwords
    <2>2. QED
      BY <1>11, <2>1 DEF ChangePasswords
  <1>12. ASSUME NEW u \in Users, DeleteUser(u) PROVE TypeOK'
    BY <1>12 DEF DeleteUser, RmFails
  <1>13. ASSUME NEW e \in {"ENOENT", "other"}, StoreDb(e) PROVE TypeOK'
    BY <1>13 DEF StoreDb, In
  <1>14. ASSUME NEW u \in Users, StoreKeysCreated(u) PROVE TypeOK'
    BY <1>14, StoreAuthorizedKeyType DEF StoreKeysCreated, TodoListed, In
  <1>15. CASE StoreKeysModifiedStart
    BY <1>15 DEF StoreKeysModifiedStart, In
  <1>16. ASSUME NEW u \in Users, StoreKeysModified(u) PROVE TypeOK'
    BY <1>16, StoreAuthorizedKeyType DEF StoreKeysModified, TodoListed, In
  <1>17. ASSUME NEW u \in Users, StoreKeysLost(u) PROVE TypeOK'
    <2>1. KeyList[u] \in KeyLists
      BY <1>17 DEF StoreKeysLost, KeyList, TodoListed, In
    <2>2. PICK lost : StoreAuthorizedKey(u, KeyList[u], lost)
      BY <1>17 DEF StoreKeysLost
    <2>3. /\ ssh' \in [Users -> KeyFiles \cup {NoDir}]
          /\ todo' \in SUBSET Users
          /\ errno' \in {"ENOENT", "other"}
          /\ pc' \in Stages
          /\ result' \in {"ok", "failed"}
      BY <1>17, <2>1, <2>2, StoreAuthorizedKeyType DEF StoreKeysLost
    <2>4. QED
      BY <1>17, <2>3, ConstantsAssumption, AccountsAssumption DEF StoreKeysLost
  <1>18. CASE RemoveKeysStart
    BY <1>18 DEF RemoveKeysStart
  <1>19. ASSUME NEW u \in Users, RemoveKeys(u) PROVE TypeOK'
    <2>1. ssh' \in [Users -> KeyFiles \cup {NoDir}]
      BY <1>19, RemoveKeysShape DEF KeyFiles
    <2>2. QED
      BY <1>19, <2>1 DEF RemoveKeys
  <1>20. CASE Applied
    BY <1>20 DEF Applied
  <1>21. CASE CallFails
    BY <1>21, ConstantsAssumption, AccountsAssumption DEF CallFails
  <1>22. CASE Return
    BY <1>22 DEF Return, NoList
  <1>23. CASE Done
    BY <1>23 DEF Done
  <1>24. CASE Rejected
    BY <1>24 DEF Rejected
  <1>25. CASE Aborted
    BY <1>25, ConstantsAssumption, AccountsAssumption DEF Aborted
  <1>26. CASE Crash
    BY <1>26, ConstantsAssumption, AccountsAssumption DEF Crash, NoList
  <1>27. CASE UNCHANGED vars
    BY <1>27 DEF vars
  <1>28. ASSUME NEW u \in Users, StoreKeysPartly(u) PROVE TypeOK'
    <2>1. KeyList[u] \in KeyLists
      BY <1>28 DEF StoreKeysPartly, KeyList, TodoListed, In
    <2>2. PICK ks, lost :
             ssh' = [ssh EXCEPT ![u] = Written(ssh[u], Part(KeyList[u], ks), lost)]
      BY <1>28 DEF StoreKeysPartly
    <2>3. Written(ssh[u], Part(KeyList[u], ks), lost) \in KeyFiles
      BY <2>1, PartType, WrittenType
    <2>4. ssh' \in [Users -> KeyFiles \cup {NoDir}]
      BY <2>2, <2>3
    <2>5. QED
      BY <1>28, <2>4, ConstantsAssumption DEF StoreKeysPartly
  <1>29. QED
    BY <1>1, <1>2, <1>3, <1>4, <1>5, <1>6, <1>7, <1>8, <1>9, <1>10, <1>11,
       <1>12, <1>13, <1>14, <1>15, <1>16, <1>17, <1>18, <1>19, <1>20, <1>21,
       <1>22, <1>23, <1>24, <1>25, <1>26, <1>27, <1>28
       DEF Next, Callback, Environment

\* The loops over the key lists never leave their list.
LEMMA NextTodoListed == TypeOK /\ TodoListed /\ [Next]_vars => TodoListed'
  <1> SUFFICES ASSUME TypeOK, TodoListed, [Next]_vars PROVE TodoListed'
    OBVIOUS
  <1> USE DEF TodoListed, In
  <1>1. CASE UNCHANGED vars
    BY <1>1 DEF vars
  <1>2. ASSUME NEW u \in Users, StoreKeysCreated(u) PROVE TodoListed'
    BY <1>2 DEF StoreKeysCreated, StoreAuthorizedKey, Failed
  <1>3. ASSUME NEW u \in Users, StoreKeysModified(u) PROVE TodoListed'
    BY <1>3 DEF StoreKeysModified, StoreAuthorizedKey, Failed
  <1>4. ASSUME NEW u \in Users, StoreKeysLost(u) \/ StoreKeysPartly(u)
        PROVE  TodoListed'
    BY <1>4 DEF StoreKeysLost, StoreKeysPartly, StoreAuthorizedKey, Failed
  <1>5. ASSUME NEW e \in {"ENOENT", "other"}, StoreDb(e) PROVE TodoListed'
    BY <1>5 DEF StoreDb
  <1>6. CASE StoreKeysModifiedStart
    BY <1>6 DEF StoreKeysModifiedStart
  <1>7. CASE LoadUser \/ LoadKeys \/ ChangeUserName \/ ChangeUserPassword
             \/ ChangeAuthorizedKeyName \/ ChangeAuthorizedKeyData \/ StoreUser
             \/ ChangePasswords \/ RemoveKeysStart \/ Applied \/ Return
             \/ Done \/ Rejected \/ CallFails \/ Aborted \/ Crash
    BY <1>7 DEF LoadUser, LoadKeys, ChangeUserName, ChangeUserPassword,
         ChangeAuthorizedKeyName, ChangeAuthorizedKeyData, StoreUser,
         ChangePasswords, RemoveKeysStart, Applied, Return, Done, Rejected,
         CallFails, Aborted, Crash, Failed
  <1>8. ASSUME NEW u \in Users,
               CreateHome(u) \/ CreateHomeFault(u) \/ DeleteUser(u) \/ RemoveKeys(u)
        PROVE  TodoListed'
    BY <1>8 DEF CreateHome, CreateHomeFault, DeleteUser, RmFails, RemoveKeys, Failed
  <1>9. ASSUME NEW c \in Edits, Edit(c) PROVE TodoListed'
    BY <1>9 DEF Edit
  <1>10. QED
    BY <1>1, <1>2, <1>3, <1>4, <1>5, <1>6, <1>7, <1>8, <1>9
       DEF Next, Callback, Environment

\* In every behaviour the variables have their types: loading, the six lists
\* and the writes of passwords, homes and key files fit together.
THEOREM TypeCorrect == Spec => []TypeOK
  <1>1. Init => TypeOK /\ TodoListed
    BY InitTypeOK DEF Init, TodoListed
  <1>2. TypeOK /\ TodoListed /\ [Next]_vars => (TypeOK /\ TodoListed)'
    BY NextTypeOK, NextTodoListed
  <1>3. QED
    BY <1>1, <1>2, PTL DEF Spec

----------------------------------------------------------------------------
(* The inductive invariant: what each stage of the callback knows about    *)
(* the lists, the database copy and the system.                            *)

\* The password of an account that stays is changed.
NewPassword(u) == UserKept(u) /\ PasswordChanged(u)

\* Up to the iteration over the passwords the list is what was loaded.
LoadedInv ==
    pc \in {"load_keys", "user_name", "user_password"} =>
        \A u \in Users :
            modified[u] = IF db[u] = NONE THEN NONE ELSE LoadedPassword(db[u])

\* From the iteration over the names on, two lists follow the edit.
NamesInv ==
    /\ pc = "user_password" =>
          \A u \in Users : created[u] = IF UserCreated(u) THEN NULL ELSE NONE
    /\ pc \in {"user_password", "key_name", "key_data", "store_user",
               "create_home", "delete_users"} =>
          \A u \in Users : u \in deleted <=> UserDeleted(u)

\* From the iteration over the passwords on, created and modified users carry
\* the configured password, all others the one that was loaded.
ListsInv ==
    pc \in {"key_name", "key_data", "store_user", "create_home"} =>
        \A u \in Users :
            /\ created[u] = IF UserCreated(u) THEN cand[u].pw ELSE NONE
            /\ NewPassword(u) => modified[u] = cand[u].pw
            /\ ~ NewPassword(u) /\ modified[u] # NONE =>
                  modified[u] = LoadedPassword(db[u])
            /\ modified[u] # NONE => db[u] # NONE

\* While homes are made the created users are in the database and not in the
\* list of modified ones.
HomesInv ==
    pc = "create_home" =>
        /\ \A u \in todo : UserCreated(u)
        /\ \A u \in Users :
              UserCreated(u) => /\ modified[u] = NONE
                                /\ db[u] = DiskHash(cand[u].pw)
                                /\ u \in todo \/ u \in home

\* The copy of the database holds the outcome for all but the users still to
\* be deleted, and the old entry of unmentioned users.
CopyInv ==
    pc = "delete_users" =>
        /\ todo \subseteq deleted
        /\ \A u \in Users :
              /\ UserCreated(u) => /\ memdb[u] = DiskHash(cand[u].pw)
                                   /\ db[u] = DiskHash(cand[u].pw)
                                   /\ u \in home
              /\ NewPassword(u) => /\ memdb[u] = DiskHash(cand[u].pw)
                                   /\ modified[u] # NONE
              /\ UserDeleted(u) => u \in todo \/ (memdb[u] = NONE /\ u \notin home)
              /\ ~ AccountMentioned(u) =>
                    /\ memdb[u] = db[u] \/ (db[u] = Locked /\ memdb[u] = Empty)
                    /\ u \in memgroup <=> u \in group

\* Once the database is written the accounts are those of the new content.
AccountApplied(u) ==
    /\ UserCreated(u) => db[u] = DiskHash(cand[u].pw) /\ u \in home
    /\ NewPassword(u) => db[u] = DiskHash(cand[u].pw)
    /\ UserDeleted(u) => db[u] = NONE /\ u \notin home

AppliedInv ==
    (\/ pc \in {"keys_created", "keys_modified", "keys_deleted"}
     \/ pc \in {"out", "replied"} /\ result = "ok") =>
        \A u \in Users : AccountApplied(u)

\* root is in the database and in its copy, and never under /home.
RootInv ==
    /\ db[Root] # NONE
    /\ Root \notin home
    /\ pc = "create_home" => Root \notin todo
    /\ pc = "delete_users" => memdb[Root] # NONE

\* The lists are empty from the return of the callback to the next event.
FreedInv ==
    pc \in {"idle", "load_user", "replied"} =>
        /\ created = NoList /\ modified = NoList /\ deleted = {}
        /\ keysCreated = NoList /\ keysModified = NoList /\ keysDeleted = {}

AccountInv == LoadedInv /\ NamesInv /\ ListsInv /\ HomesInv /\ CopyInv /\ AppliedInv
IInv == TypeOK /\ TodoListed /\ AccountInv /\ RootInv /\ FreedInv

----------------------------------------------------------------------------
(* What the steps keep.                                                    *)

\* The edit is the same edit as long as the two contents are.
LEMMA SameEdit ==
  ASSUME UNCHANGED <<running, cand>>, NEW u \in Users
  PROVE  /\ UserCreated(u)' <=> UserCreated(u)
         /\ UserDeleted(u)' <=> UserDeleted(u)
         /\ NewPassword(u)' <=> NewPassword(u)
         /\ AccountMentioned(u)' <=> AccountMentioned(u)
         /\ cand'[u] = cand[u]
  BY DEF UserCreated, UserDeleted, NewPassword, AccountMentioned, UserKept,
         PasswordChanged, PasswordCreated, PasswordModified, PasswordDeleted

\* A user is created, deleted or kept, never two of them.
LEMMA EditCases ==
  ASSUME NEW u \in Users
  PROVE  /\ ~ (UserCreated(u) /\ UserDeleted(u))
         /\ ~ (UserCreated(u) /\ NewPassword(u))
         /\ ~ (UserDeleted(u) /\ NewPassword(u))
         /\ UserCreated(u) \/ NewPassword(u) => cand[u] # NONE
         /\ NewPassword(u) \/ UserCreated(u) \/ UserDeleted(u)
              => AccountMentioned(u)
  BY DEF UserCreated, UserDeleted, NewPassword, AccountMentioned, UserKept

\* Passwords and hashes, on disk and loaded.
LEMMA HashFacts ==
  /\ \A p \in Passwords : DiskHash(p) \in DiskHashes /\ DiskHash(p) # NONE
  /\ \A h \in DiskHashes :
        DiskHash(LoadedPassword(h)) = IF h = Locked THEN Empty ELSE h
  /\ NONE \notin DiskHashes /\ NONE \notin Passwords
  BY ConstantsAssumption, AccountsAssumption DEF DiskHash, LoadedPassword, DiskHashes, Passwords

LEMMA CandPassword ==
  ASSUME TypeOK, NEW u \in Users, cand[u] # NONE
  PROVE  cand[u].pw \in Passwords
  BY DEF TypeOK, Datastore, Conf

\* Every step keeps what the stages know about the accounts.
LEMMA NextAccountInv ==
  TypeOK /\ AccountInv /\ [Next]_vars => AccountInv'
  <1> SUFFICES ASSUME TypeOK, AccountInv, [Next]_vars PROVE AccountInv'
    OBVIOUS
  <1> USE DEF AccountInv, LoadedInv, NamesInv, ListsInv, HomesInv, CopyInv,
              AppliedInv, AccountApplied, Failed
  <1>1. CASE UNCHANGED vars
    <2>1. /\ UNCHANGED <<running, cand>>
          /\ UNCHANGED <<db, group, home, created, modified, deleted>>
          /\ UNCHANGED <<pc, result, todo, memdb, memgroup>>
      BY <1>1 DEF vars
    <2>2. LoadedInv'
      BY <2>1, SameEdit
    <2>3. NamesInv'
      BY <2>1, SameEdit
    <2>4. ListsInv'
      BY <2>1, SameEdit
    <2>5. HomesInv'
      <3>1. ASSUME NEW u \in Users
            PROVE  /\ UserCreated(u)' <=> UserCreated(u)
                   /\ DiskHash(cand[u].pw)' = DiskHash(cand[u].pw)
        BY <2>1 DEF UserCreated, DiskHash
      <3>2. pc = "create_home" => todo \subseteq Users
        BY DEF TypeOK
      <3>3. QED
        BY <2>1, <3>1, <3>2
    <2>6. CopyInv' /\ AppliedInv'
      BY <2>1, SameEdit
    <2>7. QED
      BY <2>2, <2>3, <2>4, <2>5, <2>6
  <1>2. ASSUME NEW c \in Edits, Edit(c) PROVE AccountInv'
    BY <1>2 DEF Edit
  <1>3. CASE LoadUser
    BY <1>3 DEF LoadUser, TypeOK
  <1>4. CASE LoadKeys
    BY <1>4, SameEdit DEF LoadKeys
  <1>5. CASE ChangeUserName
    BY <1>5, SameEdit DEF ChangeUserName, TypeOK
  <1>6. CASE ChangeUserPassword
    <2>1. CASE PasswordTargetMissing
      BY <1>6, <2>1, SameEdit DEF ChangeUserPassword
    <2>2. CASE ~ PasswordTargetMissing
      <3>1. /\ pc = "user_password" /\ pc' = "key_name"
            /\ UNCHANGED <<running, cand, db, deleted>>
        BY <1>6, <2>2 DEF ChangeUserPassword
      <3>2. ASSUME NEW u \in Users
            PROVE  created'[u] = IF UserCreated(u) THEN cand[u].pw ELSE NONE
        <4>1. created[u] = IF UserCreated(u) THEN NULL ELSE NONE
          BY <3>1
        <4>2. created'[u] = IF PasswordCreated(u) /\ created[u] # NONE
                            THEN cand[u].pw ELSE created[u]
          BY <1>6, <2>2 DEF ChangeUserPassword
        <4>3. UserCreated(u) /\ ~ PasswordCreated(u) => cand[u].pw = NULL
          BY DEF UserCreated, PasswordCreated
        <4>4. QED
          BY <4>1, <4>2, <4>3, ConstantsAssumption, AccountsAssumption
      <3>3. ASSUME NEW u \in Users
            PROVE  /\ NewPassword(u) => modified'[u] = cand[u].pw
                   /\ ~ NewPassword(u) => modified'[u] = modified[u]
                   /\ NewPassword(u) => db[u] # NONE
        <4>1. /\ created[u] = IF UserCreated(u) THEN NULL ELSE NONE
              /\ u \in deleted <=> UserDeleted(u)
              /\ modified[u] = IF db[u] = NONE THEN NONE
                               ELSE LoadedPassword(db[u])
          BY <3>1
        <4>2. modified'[u] =
                IF PasswordModified(u) \/ (PasswordCreated(u) /\ created[u] = NONE)
                THEN cand[u].pw
                ELSE IF PasswordDeleted(u) /\ u \notin deleted
                THEN NULL ELSE modified[u]
          BY <1>6, <2>2 DEF ChangeUserPassword
        <4>3. /\ PasswordCreated(u) /\ created[u] = NONE => modified[u] # NONE
              /\ PasswordModified(u) => modified[u] # NONE
              /\ PasswordDeleted(u) /\ u \notin deleted => modified[u] # NONE
          BY <2>2 DEF PasswordTargetMissing
        <4>4. PasswordModified(u) \/ (PasswordCreated(u) /\ created[u] = NONE)
                \/ (PasswordDeleted(u) /\ u \notin deleted)
              <=> NewPassword(u)
          BY <4>1, ConstantsAssumption, AccountsAssumption
             DEF PasswordModified, PasswordCreated, PasswordDeleted, NewPassword,
                 PasswordChanged, UserKept, UserCreated, UserDeleted
        <4>5. PasswordDeleted(u) /\ u \notin deleted
                 /\ ~ PasswordModified(u) /\ ~ PasswordCreated(u)
              => cand[u].pw = NULL
          BY <4>1 DEF PasswordDeleted, UserDeleted
        <4>6. ~ (PasswordDeleted(u) /\ PasswordCreated(u) /\ u \notin deleted)
          BY <4>1 DEF PasswordDeleted, PasswordCreated, UserDeleted
        <4>7. QED
          BY <4>1, <4>2, <4>3, <4>4, <4>5, <4>6
      <3>4. ASSUME NEW u \in Users
            PROVE  /\ modified[u] = IF db[u] = NONE THEN NONE
                                    ELSE LoadedPassword(db[u])
                   /\ u \in deleted <=> UserDeleted(u)
        BY <3>1
      <3>5. QED
        BY <3>1, <3>2, <3>3, <3>4, SameEdit
    <2>3. QED
      BY <2>1, <2>2
  <1>7. CASE ChangeAuthorizedKeyName \/ ChangeAuthorizedKeyData
    BY <1>7, SameEdit DEF ChangeAuthorizedKeyName, ChangeAuthorizedKeyData
  <1>8. CASE StoreUser
    BY <1>8, SameEdit, HashFacts, CandPassword, EditCases DEF StoreUser, TypeOK, In
  <1>9. ASSUME NEW u \in Users, CreateHome(u) PROVE AccountInv'
    BY <1>9, SameEdit DEF CreateHome, TypeOK
  <1>10. ASSUME NEW u \in Users, CreateHomeFault(u) PROVE AccountInv'
    BY <1>10, SameEdit DEF CreateHomeFault
  <1>11. CASE ChangePasswords
    BY <1>11, SameEdit, HashFacts, CandPassword, EditCases DEF ChangePasswords, TypeOK, In
  <1>12. ASSUME NEW u \in Users, DeleteUser(u) PROVE AccountInv'
    BY <1>12, SameEdit, EditCases DEF DeleteUser, RmFails, TypeOK
  <1>13. ASSUME NEW e \in {"ENOENT", "other"}, StoreDb(e) PROVE AccountInv'
    BY <1>13, SameEdit, EditCases DEF StoreDb, TypeOK, In
  <1>14. ASSUME NEW u \in Users,
                StoreKeysCreated(u) \/ StoreKeysModified(u) \/ StoreKeysLost(u)
                  \/ StoreKeysPartly(u)
         PROVE  AccountInv'
    BY <1>14, SameEdit DEF StoreKeysCreated, StoreKeysModified, StoreKeysLost, StoreKeysPartly,
                           StoreAuthorizedKey
  <1>15. CASE StoreKeysModifiedStart \/ RemoveKeysStart \/ Applied
    BY <1>15, SameEdit DEF StoreKeysModifiedStart, RemoveKeysStart, Applied
  <1>16. ASSUME NEW u \in Users, RemoveKeys(u) PROVE AccountInv'
    BY <1>16, SameEdit DEF RemoveKeys
  <1>17. CASE CallFails
    BY <1>17, SameEdit DEF CallFails
  <1>18. CASE Return
    BY <1>18, SameEdit DEF Return
  <1>19. CASE Done \/ Rejected \/ Aborted \/ Crash
    BY <1>19 DEF Done, Rejected, Aborted, Crash
  <1>20. QED
    BY <1>1, <1>2, <1>3, <1>4, <1>5, <1>6, <1>7, <1>8, <1>9, <1>10, <1>11,
       <1>12, <1>13, <1>14, <1>15, <1>16, <1>17, <1>18, <1>19
       DEF Next, Callback, Environment

\* No step takes root out of the database or makes /home/root.
LEMMA NextRootInv ==
  TypeOK /\ AccountInv /\ RootInv /\ [Next]_vars => RootInv'
  <1> SUFFICES ASSUME TypeOK, AccountInv, RootInv, [Next]_vars PROVE RootInv'
    OBVIOUS
  <1> USE ConstantsAssumption, AccountsAssumption DEF RootInv, Failed
  <1>1. CASE UNCHANGED vars
    BY <1>1 DEF vars
  <1>2. CASE StoreUser
    BY <1>2, HashFacts DEF StoreUser, TypeOK, In
  <1>3. ASSUME NEW u \in Users, CreateHome(u) \/ CreateHomeFault(u) PROVE RootInv'
    BY <1>3 DEF CreateHome, CreateHomeFault
  <1>4. CASE ChangePasswords
    <2>1. modified[Root] # NONE => DiskHash(modified[Root]) # NONE
      BY DEF TypeOK, DiskHash, Passwords
    <2>2. QED
      BY <1>4, <2>1 DEF ChangePasswords
  <1>5. ASSUME NEW u \in Users, DeleteUser(u) PROVE RootInv'
    BY <1>5 DEF DeleteUser, RmFails, TypeOK
  <1>6. ASSUME NEW e \in {"ENOENT", "other"}, StoreDb(e) PROVE RootInv'
    BY <1>6 DEF StoreDb
  <1>7. ASSUME NEW u \in Users,
               StoreKeysCreated(u) \/ StoreKeysModified(u) \/ StoreKeysLost(u)
                  \/ StoreKeysPartly(u)
                  \/ RemoveKeys(u)
        PROVE  RootInv'
    BY <1>7 DEF StoreKeysCreated, StoreKeysModified, StoreKeysLost, StoreKeysPartly,
                StoreAuthorizedKey, RemoveKeys
  <1>8. CASE LoadUser \/ LoadKeys \/ ChangeUserName \/ ChangeUserPassword
             \/ ChangeAuthorizedKeyName \/ ChangeAuthorizedKeyData
             \/ StoreKeysModifiedStart \/ RemoveKeysStart \/ Applied \/ Return
             \/ Done \/ Rejected \/ CallFails \/ Aborted \/ Crash
    BY <1>8 DEF LoadUser, LoadKeys, ChangeUserName, ChangeUserPassword,
         ChangeAuthorizedKeyName, ChangeAuthorizedKeyData,
         StoreKeysModifiedStart, RemoveKeysStart, Applied, Return, Done,
         Rejected, CallFails, Aborted, Crash
  <1>9. ASSUME NEW c \in Edits, Edit(c) PROVE RootInv'
    BY <1>9 DEF Edit
  <1>10. QED
    BY <1>1, <1>2, <1>3, <1>4, <1>5, <1>6, <1>7, <1>8, <1>9
       DEF Next, Callback, Environment

\* Only the return of the callback and a restart empty the lists, and only a
\* loading or iterating step fills them.
LEMMA NextFreedInv == FreedInv /\ [Next]_vars => FreedInv'
  <1> SUFFICES ASSUME FreedInv, [Next]_vars PROVE FreedInv'
    OBVIOUS
  <1> USE DEF FreedInv, Failed
  <1>1. CASE UNCHANGED vars
    BY <1>1 DEF vars
  <1>2. ASSUME NEW u \in Users,
               \/ CreateHome(u) \/ CreateHomeFault(u) \/ DeleteUser(u)
               \/ StoreKeysCreated(u) \/ StoreKeysModified(u)
               \/ StoreKeysLost(u) \/ StoreKeysPartly(u) \/ RemoveKeys(u)
        PROVE  FreedInv'
    BY <1>2 DEF CreateHome, CreateHomeFault, DeleteUser, RmFails, StoreKeysCreated,
         StoreKeysModified, StoreKeysLost, StoreKeysPartly, StoreAuthorizedKey,
         RemoveKeys
  <1>3. CASE LoadUser \/ LoadKeys \/ ChangeUserName \/ ChangeUserPassword
             \/ ChangeAuthorizedKeyName \/ ChangeAuthorizedKeyData \/ StoreUser
             \/ ChangePasswords \/ StoreKeysModifiedStart \/ RemoveKeysStart
             \/ Applied \/ CallFails
    BY <1>3 DEF LoadUser, LoadKeys, ChangeUserName, ChangeUserPassword,
         ChangeAuthorizedKeyName, ChangeAuthorizedKeyData, StoreUser,
         ChangePasswords, StoreKeysModifiedStart, RemoveKeysStart, Applied,
         CallFails
  <1>4. CASE Return \/ Done \/ Rejected \/ Aborted \/ Crash
    BY <1>4 DEF Return, Done, Rejected, Aborted, Crash
  <1>5. ASSUME NEW e \in {"ENOENT", "other"}, StoreDb(e) PROVE FreedInv'
    BY <1>5 DEF StoreDb
  <1>6. ASSUME NEW c \in Edits, Edit(c) PROVE FreedInv'
    BY <1>6 DEF Edit
  <1>7. QED
    BY <1>1, <1>2, <1>3, <1>4, <1>5, <1>6 DEF Next, Callback, Environment

----------------------------------------------------------------------------
(* The theorems.                                                           *)

LEMMA InitIInv == Init => IInv
  <1> SUFFICES ASSUME Init PROVE IInv
    OBVIOUS
  <1>1. AccountInv /\ FreedInv /\ TodoListed
    BY DEF Init, AccountInv, LoadedInv, NamesInv, ListsInv, HomesInv, CopyInv,
           AppliedInv, FreedInv, TodoListed
  <1>2. RootInv
    BY DEF Init, RootInv
  <1>3. QED
    BY <1>1, <1>2, InitTypeOK DEF IInv

LEMMA Invariance == Spec => []IInv
  <1>1. IInv /\ [Next]_vars => IInv'
    BY NextTypeOK, NextTodoListed, NextAccountInv, NextRootInv, NextFreedInv
       DEF IInv
  <1>2. QED
    BY <1>1, InitIInv, PTL DEF Spec

\* The assertions at the start of the callback hold whatever happened before.
THEOREM ListsAlwaysFreed == Spec => []ListsFreed
  <1>1. IInv => ListsFreed
    BY DEF IInv, FreedInv, ListsFreed
  <1>2. QED
    BY <1>1, Invariance, PTL

\* root stays in the user database.
THEOREM RootAlwaysKept == Spec => []RootKept
  <1>1. IInv => RootKept
    BY DEF IInv, RootInv, RootKept
  <1>2. QED
    BY <1>1, Invariance, PTL

\* A success reported to sysrepo means that the accounts of the edit are in
\* the system.
THEOREM CommitsApplied == Spec => []CommittedAccountsApplied
  <1>1. IInv => CommittedAccountsApplied
    BY DEF IInv, AccountInv, AppliedInv, AccountApplied, NewPassword,
           CommittedAccountsApplied
  <1>2. QED
    BY <1>1, Invariance, PTL

\* Users that the edit does not mention keep password, group and home.
THEOREM UnmentionedKept == Spec => UnmentionedAccountsKept
  <1> DEFINE Kept(u) ==
        /\ db'[u] # db[u] => db[u] = Locked /\ db'[u] = Empty
        /\ u \in home' <=> u \in home
        /\ u \in group' <=> u \in group
  <1>1. ASSUME IInv, [Next]_vars, NEW u \in Users,
               pc # "idle", ~ AccountMentioned(u)
        PROVE  Kept(u)
    <2> USE <1>1 DEF IInv, AccountInv, Failed
    <2>1. CASE UNCHANGED <<db, home, group>>
      BY <2>1
    <2>2. CASE StoreUser
      BY <2>2, EditCases DEF StoreUser, ListsInv, TypeOK, In
    <2>3. ASSUME NEW v \in Users, CreateHome(v) \/ CreateHomeFault(v)
          PROVE  Kept(u)
      BY <2>3, EditCases DEF CreateHome, CreateHomeFault, HomesInv
    <2>4. ASSUME NEW v \in Users, DeleteUser(v) PROVE Kept(u)
      BY <2>4, EditCases DEF DeleteUser, RmFails, CopyInv, NamesInv
    <2>5. ASSUME NEW e \in {"ENOENT", "other"}, StoreDb(e) PROVE Kept(u)
      BY <2>5 DEF StoreDb, CopyInv
    <2>6. ASSUME NEW v \in Users,
                 StoreKeysCreated(v) \/ StoreKeysModified(v) \/ StoreKeysLost(v)
                    \/ StoreKeysPartly(v)
                    \/ RemoveKeys(v)
          PROVE  Kept(u)
      BY <2>1, <2>6 DEF StoreKeysCreated, StoreKeysModified, StoreKeysLost, StoreKeysPartly,
                        RemoveKeys
    <2>7. CASE LoadUser \/ LoadKeys \/ ChangeUserName \/ ChangeUserPassword
               \/ ChangeAuthorizedKeyName \/ ChangeAuthorizedKeyData
               \/ ChangePasswords \/ StoreKeysModifiedStart \/ RemoveKeysStart
               \/ Applied \/ Return \/ Done \/ Rejected \/ CallFails
               \/ Aborted \/ Crash
      BY <2>1, <2>7 DEF LoadUser, LoadKeys, ChangeUserName, ChangeUserPassword,
           ChangeAuthorizedKeyName, ChangeAuthorizedKeyData, ChangePasswords,
           StoreKeysModifiedStart, RemoveKeysStart, Applied, Return, Done,
           Rejected, CallFails, Aborted, Crash
    <2>8. ASSUME NEW c \in Edits, Edit(c) PROVE Kept(u)
      BY <2>8 DEF Edit
    <2>9. CASE UNCHANGED vars
      BY <2>1, <2>9 DEF vars
    <2>10. QED
      BY <2>2, <2>3, <2>4, <2>5, <2>6, <2>7, <2>8, <2>9
         DEF Next, Callback, Environment
  <1>2. IInv /\ [Next]_vars =>
          [\A u \in Users : pc # "idle" /\ ~ AccountMentioned(u) => Kept(u)]_vars
    BY <1>1
  <1>3. QED
    BY <1>2, Invariance, PTL DEF Spec, UnmentionedAccountsKept

----------------------------------------------------------------------------
(* The key files.                                                          *)

\* The edit leaves the key k of u alone.
KeyUnmentioned(u, k) == ~ UserDeleted(u) /\ OldKey(u, k) = NewKey(u, k)

\* What was loaded for a key the edit leaves alone is still in the directory
\* it was loaded from, until the keys of the user are written; the other two
\* lists hold keys the edit creates and deletes.
LoadedKey(u, k) ==
    \/ keysModified[u][k] = NONE
    \/ k \in PubKeys /\ keysModified[u][k] = TwoWords(KeyFile(LoadDir(u), k))

LoadedKeysInv ==
    pc \in {"user_name", "user_password", "key_name", "key_data", "store_user",
            "create_home", "delete_users", "keys_created", "keys_modified"} =>
        \A u \in Users, k \in Keys :
            /\ KeyUnmentioned(u, k)
            /\ keysModified[u] # NONE
            /\ pc = "keys_modified" => u \in todo
            => LoadedKey(u, k)

CreatedKeysInv ==
    pc \in {"key_data", "store_user", "create_home", "delete_users",
            "keys_created"} =>
        \A u \in Users, k \in Keys :
            keysCreated[u] # NONE /\ keysCreated[u][k] # NONE => KeyCreated(u, k)

DeletedKeysInv ==
    pc \in {"key_data", "store_user", "create_home", "delete_users",
            "keys_created", "keys_modified", "keys_deleted"} =>
        \A u \in Users, k \in Keys : <<u, k>> \in keysDeleted => KeyDeleted(u, k)

KeysInv == LoadedKeysInv /\ CreatedKeysInv /\ DeletedKeysInv

\* The edit does to the keys what it did as long as the contents are the same.
LEMMA SameKeyEdit ==
  ASSUME UNCHANGED <<running, cand>>, NEW u \in Users, NEW k \in Keys
  PROVE  /\ KeyUnmentioned(u, k)' <=> KeyUnmentioned(u, k)
         /\ KeyCreated(u, k)' <=> KeyCreated(u, k)
         /\ KeyDeleted(u, k)' <=> KeyDeleted(u, k)
  BY DEF KeyUnmentioned, KeyCreated, KeyDeleted, UserDeleted, OldKey, NewKey

\* A key that is left alone is not created, modified or deleted.
LEMMA KeyCases ==
  ASSUME NEW u \in Users, NEW k \in Keys, KeyUnmentioned(u, k)
  PROVE  ~ KeyCreated(u, k) /\ ~ KeyDeleted(u, k) /\ ~ KeyModified(u, k)
  BY DEF KeyUnmentioned, KeyCreated, KeyDeleted, KeyModified

\* Storing a list of keys writes the files of that list and of that user.
StoresList(u, list, lost) ==
    ssh' = [ssh EXCEPT ![u] = Written(ssh[u], list, lost)]

LEMMA StoreWrites ==
  ASSUME TypeOK, NEW u \in Users, NEW list \in KeyLists, NEW lost,
         StoresList(u, list, lost)
  PROVE  \A v \in Users, k \in Keys :
            /\ v # u \/ list[k] = NONE => KeyFile(ssh'[v], k) = KeyFile(ssh[v], k)
            /\ v = u /\ list[k] # NONE /\ k \notin lost => KeyFile(ssh'[v], k) = list[k]
            /\ v = u /\ list[k] # NONE /\ k \in lost => KeyFile(ssh'[v], k) = Torn
  <1>1. TAKE v \in Users, k \in Keys
  <1>2. CASE v # u
    BY <1>2 DEF TypeOK, StoresList
  <1>3. CASE v = u
    <2>1. ssh'[u] = Written(ssh[u], list, lost)
      BY DEF TypeOK, StoresList
    <2>2. ssh'[u] # NoDir
      BY <2>1, WrittenType, AccountsAssumption DEF TypeOK
    <2>3. KeyFile(ssh'[u], k) = Written(ssh[u], list, lost)[k]
      BY <2>1, <2>2 DEF KeyFile
    <2>4. QED
      BY <1>3, <2>3 DEF Written
  <1>4. QED
    BY <1>2, <1>3

\* Removing keys takes away files of deleted keys only.
LEMMA RemoveTakes ==
  ASSUME TypeOK, NEW u \in Users, RemoveKeys(u), NEW v \in Users, NEW k \in Keys,
         <<v, k>> \notin keysDeleted
  PROVE  KeyFile(ssh'[v], k) = KeyFile(ssh[v], k)
  <1>1. CASE ssh' = ssh
    BY <1>1
  <1>2. ASSUME ssh[u] \in KeyFiles, NEW ks \in SUBSET Keys,
               \A j \in ks : <<u, j>> \in keysDeleted,
               ssh' = [ssh EXCEPT ![u] =
                         [j \in Keys |-> IF j \in ks THEN NONE ELSE ssh[u][j]]]
        PROVE  KeyFile(ssh'[v], k) = KeyFile(ssh[v], k)
    <2>1. CASE v # u
      BY <1>2, <2>1 DEF TypeOK
    <2>2. CASE v = u
      <3>1. ssh'[u] = [j \in Keys |-> IF j \in ks THEN NONE ELSE ssh[u][j]]
        BY <1>2 DEF TypeOK
      <3>2. ssh'[u] \in KeyFiles
        BY <1>2, <3>1 DEF KeyFiles
      <3>3. ssh'[u][k] = ssh[u][k]
        BY <1>2, <2>2, <3>1
      <3>4. QED
        BY <1>2, <2>2, <3>2, <3>3, AccountsAssumption DEF KeyFile
    <2>3. QED
      BY <2>1, <2>2
  <1>3. QED
    BY <1>1, <1>2, RemoveKeysShape

\* What is loaded for a key comes from a directory that the edit leaves alone.
LEMMA SameLoadedKey ==
  ASSUME NEW u \in Users, NEW k \in Keys,
         UNCHANGED keysModified, ssh'[Root] = ssh[Root],
         KeyFile(ssh'[u], k) = KeyFile(ssh[u], k), LoadedKey(u, k)
  PROVE  LoadedKey(u, k)'
  <1>1. KeyFile(LoadDir(u)', k) = KeyFile(LoadDir(u), k)
    BY DEF LoadDir
  <1>2. TwoWords(KeyFile(LoadDir(u), k))' = TwoWords(KeyFile(LoadDir(u), k))
    BY <1>1 DEF TwoWords, KeyFile
  <1>3. QED
    BY <1>2 DEF LoadedKey

\* While the lists stay as they are, so does what is known about them.
LEMMA KeysFrame ==
  ASSUME KeysInv, UNCHANGED <<running, cand, keysCreated, keysModified, keysDeleted>>,
         ssh'[Root] = ssh[Root],
         \A u \in Users, k \in Keys :
            KeyUnmentioned(u, k) => KeyFile(ssh'[u], k) = KeyFile(ssh[u], k),
         pc' \in {"out"} \/ pc' = pc \/ <<pc, pc'>> \in
            {<<"user_name", "user_password">>, <<"user_password", "key_name">>,
             <<"store_user", "create_home">>, <<"create_home", "delete_users">>,
             <<"delete_users", "keys_created">>, <<"keys_created", "keys_modified">>,
             <<"keys_modified", "keys_deleted">>},
         pc = "keys_modified" => todo' \subseteq todo \/ pc' # pc
  PROVE  KeysInv'
  <1> USE DEF KeysInv
  <1>1. LoadedKeysInv'
    <2>1. SUFFICES ASSUME pc' # "out", LoadedKeysInv!1',
                          NEW u \in Users, NEW k \in Keys,
                          KeyUnmentioned(u, k)', keysModified'[u] # NONE,
                          pc' = "keys_modified" => u \in todo'
                   PROVE  LoadedKey(u, k)'
      BY DEF LoadedKeysInv
    <2>2. KeyUnmentioned(u, k)
      BY <2>1, SameKeyEdit
    <2>3. LoadedKey(u, k)
      BY <2>1, <2>2 DEF LoadedKeysInv
    <2>4. QED
      BY <2>2, <2>3, SameLoadedKey
  <1>2. CreatedKeysInv'
    BY SameKeyEdit DEF CreatedKeysInv
  <1>3. DeletedKeysInv'
    BY SameKeyEdit DEF DeletedKeysInv
  <1>4. QED
    BY <1>1, <1>2, <1>3

LEMMA NextKeysInv ==
  TypeOK /\ TodoListed /\ AccountInv /\ RootInv /\ KeysInv /\ [Next]_vars => KeysInv'
  <1> SUFFICES ASSUME TypeOK, TodoListed, AccountInv, RootInv, KeysInv, [Next]_vars
               PROVE  KeysInv'
    OBVIOUS
  <1> USE DEF Failed
  <1>1. ASSUME NEW c \in Edits, Edit(c) PROVE KeysInv'
    BY <1>1 DEF Edit, KeysInv, LoadedKeysInv, CreatedKeysInv, DeletedKeysInv
  <1>2. CASE LoadUser \/ Return \/ Done \/ Rejected \/ Aborted \/ Crash \/ CallFails \/ Applied
    BY <1>2 DEF LoadUser, Return, Done, Rejected, Aborted, Crash, CallFails, Applied,
                KeysInv, LoadedKeysInv, CreatedKeysInv, DeletedKeysInv
  <1>3. CASE LoadKeys
    <2>1. CASE pc' = "out"
      BY <2>1 DEF KeysInv, LoadedKeysInv, CreatedKeysInv, DeletedKeysInv
    <2>2. CASE pc' = "user_name"
      <3>1. keysModified' = [u \in Users |-> IF db[u] = NONE THEN NONE ELSE LoadedKeys(u)]
            /\ ssh' = ssh
        BY <1>3, <2>2 DEF LoadKeys
      <3>2. ASSUME NEW u \in Users, NEW k \in Keys, keysModified'[u] # NONE
            PROVE  LoadedKey(u, k)'
        <4>1. keysModified'[u] = LoadedKeys(u)
          BY <3>1, <3>2
        <4>2. LoadDir(u)' = LoadDir(u)
          BY <3>1 DEF LoadDir
        <4>3. TwoWords(KeyFile(LoadDir(u), k))' = TwoWords(KeyFile(LoadDir(u), k))
          BY <4>2 DEF TwoWords, KeyFile
        <4>4. QED
          BY <4>1, <4>3 DEF LoadedKeys, LoadedKey
      <3>3. QED
        BY <2>2, <3>2 DEF KeysInv, LoadedKeysInv, CreatedKeysInv, DeletedKeysInv
    <2>3. QED
      BY <1>3, <2>1, <2>2 DEF LoadKeys
  <1>4. CASE ChangeUserName \/ ChangeUserPassword
    BY <1>4, KeysFrame DEF ChangeUserName, ChangeUserPassword
  <1>5. CASE ChangeAuthorizedKeyName
    <2>1. /\ pc = "key_name" /\ pc' = "key_data"
          /\ UNCHANGED <<running, cand, ssh, keysModified>>
          /\ keysCreated' = [u \in Users |-> IF \E k \in Keys : KeyCreated(u, k)
                                             THEN NoKeys ELSE NONE]
          /\ keysDeleted' = {p \in Users \X Keys : KeyDeleted(p[1], p[2])}
      BY <1>5 DEF ChangeAuthorizedKeyName
    <2>2. LoadedKeysInv'
      BY <2>1, SameKeyEdit, SameLoadedKey DEF KeysInv, LoadedKeysInv
    <2>3. CreatedKeysInv'
      BY <2>1 DEF CreatedKeysInv, NoKeys
    <2>4. \A u \in Users, k \in Keys : <<u, k>> \in keysDeleted' => KeyDeleted(u, k)
      BY <2>1
    <2>5. DeletedKeysInv'
      BY <2>1, <2>4, SameKeyEdit DEF DeletedKeysInv
    <2>6. QED
      BY <2>2, <2>3, <2>5 DEF KeysInv
  <1>6. CASE ChangeAuthorizedKeyData
    <2>1. CASE pc' = "out"
      BY <2>1 DEF KeysInv, LoadedKeysInv, CreatedKeysInv, DeletedKeysInv
    <2>2. CASE pc' # "out"
      <3>1. /\ pc = "key_data" /\ pc' = "store_user"
            /\ UNCHANGED <<running, cand, ssh, keysDeleted>>
            /\ keysCreated' = [u \in Users |->
                  IF keysCreated[u] = NONE THEN NONE
                  ELSE [k \in Keys |-> IF KeyCreated(u, k)
                                       THEN NewKey(u, k) ELSE NONE]]
            /\ keysModified' = [u \in Users |->
                  IF keysModified[u] = NONE THEN NONE
                  ELSE [k \in Keys |-> IF KeyModified(u, k)
                                       THEN NewKey(u, k)
                                       ELSE keysModified[u][k]]]
        BY <1>6, <2>2 DEF ChangeAuthorizedKeyData
      <3>2. ASSUME NEW u \in Users, NEW k \in Keys,
                   KeyUnmentioned(u, k), keysModified'[u] # NONE
            PROVE  LoadedKey(u, k)'
        <4>1. keysModified[u] # NONE /\ keysModified'[u][k] = keysModified[u][k]
          BY <3>1, <3>2, KeyCases
        <4>2. LoadedKey(u, k)
          BY <3>1, <3>2, <4>1 DEF KeysInv, LoadedKeysInv
        <4>3. TwoWords(KeyFile(LoadDir(u), k))' = TwoWords(KeyFile(LoadDir(u), k))
          BY <3>1 DEF TwoWords, KeyFile, LoadDir
        <4>4. QED
          BY <4>1, <4>2, <4>3 DEF LoadedKey
      <3>3. LoadedKeysInv'
        BY <3>1, <3>2, SameKeyEdit DEF LoadedKeysInv
      <3>4. ASSUME NEW u \in Users, NEW k \in Keys,
                   keysCreated'[u] # NONE, keysCreated'[u][k] # NONE
            PROVE  KeyCreated(u, k)
        BY <3>1, <3>4
      <3>5. CreatedKeysInv'
        BY <3>1, <3>4, SameKeyEdit DEF CreatedKeysInv
      <3>6. DeletedKeysInv'
        BY <3>1, SameKeyEdit DEF KeysInv, DeletedKeysInv
      <3>7. QED
        BY <3>3, <3>5, <3>6 DEF KeysInv
    <2>3. QED
      BY <2>1, <2>2
  <1>7. CASE StoreUser \/ ChangePasswords
    BY <1>7, KeysFrame DEF StoreUser, ChangePasswords
  <1>8. ASSUME NEW u \in Users, CreateHome(u) \/ CreateHomeFault(u) PROVE KeysInv'
    BY <1>8, KeysFrame DEF CreateHome, CreateHomeFault
  <1>9. ASSUME NEW u \in Users, DeleteUser(u) PROVE KeysInv'
    <2>1. u \in todo /\ UserDeleted(u)
      BY <1>9 DEF DeleteUser, AccountInv, NamesInv, CopyInv
    <2>2. \A v \in Users, k \in Keys :
             KeyUnmentioned(v, k) => KeyFile(ssh'[v], k) = KeyFile(ssh[v], k)
      BY <1>9, <2>1 DEF DeleteUser, RmFails, KeyUnmentioned, TypeOK
    <2>3. ssh'[Root] = ssh[Root]
      BY <1>9, AccountsAssumption DEF DeleteUser, RmFails, RootInv, TypeOK
    <2>4. QED
      BY <1>9, <2>2, <2>3, KeysFrame DEF DeleteUser, RmFails
  <1>10. ASSUME NEW e \in {"ENOENT", "other"}, StoreDb(e) PROVE KeysInv'
    BY <1>10, KeysFrame DEF StoreDb
  <1>11. ASSUME NEW u \in Users, NEW list \in KeyLists, NEW lost, u \in todo,
                \/ pc = "keys_created" /\ \A k \in Keys : list[k] # NONE => KeyCreated(u, k)
                \/ pc = "keys_modified",
                StoreAuthorizedKey(u, list, lost), UNCHANGED <<store, keys>>
         PROVE  KeysInv'
    <2>1. CASE pc' = "out"
      BY <2>1 DEF KeysInv, LoadedKeysInv, CreatedKeysInv, DeletedKeysInv
    <2>2. CASE UNCHANGED <<ssh, pc>> /\ todo' = todo \ {u}
      BY <1>11, <2>2, KeysFrame
    <2>3. CASE /\ ssh' = [ssh EXCEPT ![u] = Written(ssh[u], list, lost)]
               /\ u # Root /\ pc' = pc /\ todo' = todo \ {u}
      <3>1. \A v \in Users, k \in Keys :
               v # u \/ list[k] = NONE => KeyFile(ssh'[v], k) = KeyFile(ssh[v], k)
        <4>1. StoresList(u, list, lost)
          BY <2>3 DEF StoresList
        <4>2. QED
          BY <4>1, StoreWrites
      <3>2. ssh'[Root] = ssh[Root]
        BY <2>3, AccountsAssumption DEF TypeOK
      <3>3. CASE pc = "keys_created"
        <4>1. \A v \in Users, k \in Keys :
                 KeyUnmentioned(v, k) => KeyFile(ssh'[v], k) = KeyFile(ssh[v], k)
          BY <1>11, <3>1, <3>3, KeyCases
        <4>2. QED
          BY <1>11, <2>3, <3>2, <3>3, <4>1, KeysFrame
      <3>4. CASE pc = "keys_modified"
        <4>1. ASSUME NEW v \in Users, NEW k \in Keys, KeyUnmentioned(v, k)',
                     keysModified'[v] # NONE, v \in todo'
              PROVE  LoadedKey(v, k)'
          <5>1. v # u /\ v \in todo
            BY <2>3, <4>1
          <5>2. LoadedKey(v, k)
            BY <1>11, <3>4, <4>1, <5>1, SameKeyEdit DEF KeysInv, LoadedKeysInv
          <5>3. QED
            BY <1>11, <3>1, <3>2, <5>1, <5>2, SameLoadedKey
        <4>2. LoadedKeysInv'
          BY <2>3, <3>4, <4>1 DEF LoadedKeysInv
        <4>3. CreatedKeysInv' /\ DeletedKeysInv'
          BY <1>11, <2>3, <3>4, SameKeyEdit DEF KeysInv, CreatedKeysInv, DeletedKeysInv
        <4>4. QED
          BY <4>2, <4>3 DEF KeysInv
      <3>5. QED
        BY <1>11, <3>3, <3>4
    <2>4. QED
      BY <1>11, <2>1, <2>2, <2>3 DEF StoreAuthorizedKey
  <1>12. ASSUME NEW u \in Users, NEW lost, u \in todo,
                pc \in {"keys_created", "keys_modified"},
                StoreAuthorizedKey(u, KeyList[u], lost), UNCHANGED <<store, keys>>
         PROVE  KeysInv'
    <2>1. KeyList[u] \in KeyLists
      BY <1>12 DEF KeyList, TypeOK, TodoListed, In
    <2>2. pc = "keys_created" => \A k \in Keys : KeyList[u][k] # NONE => KeyCreated(u, k)
      BY <1>12 DEF KeyList, KeysInv, CreatedKeysInv, TodoListed, In
    <2>3. QED
      BY <1>11, <1>12, <2>1, <2>2
  <1>13. ASSUME NEW u \in Users,
                StoreKeysCreated(u) \/ StoreKeysModified(u) \/ StoreKeysLost(u)
                   \/ StoreKeysPartly(u)
         PROVE  KeysInv'
    <2>1. CASE StoreKeysPartly(u)
      BY <2>1 DEF StoreKeysPartly, KeysInv, LoadedKeysInv, CreatedKeysInv, DeletedKeysInv
    <2>2. CASE StoreKeysCreated(u) \/ StoreKeysModified(u) \/ StoreKeysLost(u)
      BY <1>12, <2>2 DEF StoreKeysCreated, StoreKeysModified, StoreKeysLost, KeyList
    <2>3. QED
      BY <1>13, <2>1, <2>2
  <1>14. CASE StoreKeysModifiedStart \/ RemoveKeysStart
    BY <1>14, KeysFrame DEF StoreKeysModifiedStart, RemoveKeysStart
  <1>15. ASSUME NEW u \in Users, RemoveKeys(u) PROVE KeysInv'
    BY <1>15, SameKeyEdit DEF RemoveKeys, KeysInv, LoadedKeysInv, CreatedKeysInv, DeletedKeysInv
  <1>16. CASE UNCHANGED vars
    BY <1>16, KeysFrame DEF vars
  <1>17. QED
    BY <1>1, <1>2, <1>3, <1>4, <1>5, <1>6, <1>7, <1>8, <1>9, <1>10, <1>13, <1>14,
       <1>15, <1>16 DEF Next, Callback, Environment

\* KeysInv, with the invariant of the accounts, is kept by every step.
LEMMA KeysInvariance == Spec => [](IInv /\ KeysInv)
  <1>1. Init => KeysInv
    BY DEF Init, KeysInv, LoadedKeysInv, CreatedKeysInv, DeletedKeysInv
  <1>2. IInv /\ KeysInv /\ [Next]_vars => KeysInv'
    BY NextKeysInv DEF IInv
  <1>3. QED
    BY <1>1, <1>2, Invariance, PTL DEF Spec

\* The callback rewrites the key files of every user it loaded; the file of a
\* key that the edit leaves alone keeps its key, the first two words, or is
\* left as it is; the users whose names start with "root" get root's keys, and
\* root's own files never change.
THEOREM KeysAlwaysKept == Spec => UnmentionedKeysKept
  <1> DEFINE Kept(u, k) ==
        \/ KeyFile(ssh'[u], k) = KeyFile(ssh[u], k)
        \/ /\ u # Root /\ k \in PubKeys
           /\ KeyFile(ssh'[u], k) = TwoWords(KeyFile(LoadDir(u), k))
  <1>1. ASSUME IInv, KeysInv, [Next]_vars, faults' = faults,
               NEW u \in Users, NEW k \in Keys, KeyUnmentioned(u, k)
        PROVE  Kept(u, k)
    <2> USE <1>1 DEF Failed
    <2>1. TypeOK /\ TodoListed /\ AccountInv
      BY DEF IInv
    <2>2. CASE UNCHANGED ssh
      BY <2>2
    <2>3. ASSUME NEW v \in Users, DeleteUser(v) PROVE Kept(u, k)
      <3>1. UserDeleted(v)
        BY <2>1, <2>3 DEF DeleteUser, AccountInv, NamesInv, CopyInv
      <3>2. u # v
        BY <3>1 DEF KeyUnmentioned
      <3>3. QED
        BY <2>1, <2>3, <3>2 DEF DeleteUser, TypeOK
    <2>4. ASSUME NEW v \in Users, NEW list \in KeyLists,
                 v = u /\ list[k] # NONE =>
                    k \in PubKeys /\ list[k] = TwoWords(KeyFile(LoadDir(u), k)),
                 StoreAuthorizedKey(v, list, {})
          PROVE  Kept(u, k)
      <3>1. CASE ssh' = [ssh EXCEPT ![v] = Written(ssh[v], list, {})] /\ v # Root
        <4>1. StoresList(v, list, {})
          BY <3>1 DEF StoresList
        <4>2. /\ v # u \/ list[k] = NONE => KeyFile(ssh'[u], k) = KeyFile(ssh[u], k)
              /\ v = u /\ list[k] # NONE => KeyFile(ssh'[u], k) = list[k]
          BY <2>1, <4>1, StoreWrites
        <4>3. QED
          BY <2>4, <3>1, <4>2
      <3>2. QED
        BY <2>2, <2>4, <3>1 DEF StoreAuthorizedKey
    <2>5. ASSUME NEW v \in Users, StoreKeysCreated(v) PROVE Kept(u, k)
      <3>1. keysCreated[v] \in KeyLists /\ keysCreated[v] # NONE
        BY <2>1, <2>5 DEF StoreKeysCreated, TypeOK, TodoListed, In
      <3>2. v = u => keysCreated[v][k] = NONE
        BY <2>5, <3>1, KeyCases DEF StoreKeysCreated, KeysInv, CreatedKeysInv
      <3>3. QED
        BY <2>4, <2>5, <3>1, <3>2 DEF StoreKeysCreated
    <2>6. ASSUME NEW v \in Users, StoreKeysModified(v) PROVE Kept(u, k)
      <3>1. keysModified[v] \in KeyLists /\ keysModified[v] # NONE
        BY <2>1, <2>6 DEF StoreKeysModified, TypeOK, TodoListed, In
      <3>2. v = u => LoadedKey(u, k)
        BY <2>6, <3>1 DEF StoreKeysModified, KeysInv, LoadedKeysInv
      <3>3. QED
        BY <2>4, <2>6, <3>1, <3>2 DEF StoreKeysModified, LoadedKey
    <2>7. ASSUME NEW v \in Users, RemoveKeys(v) PROVE Kept(u, k)
      <3>1. <<u, k>> \notin keysDeleted
        BY <2>7, KeyCases DEF RemoveKeys, KeysInv, DeletedKeysInv
      <3>2. QED
        BY <2>1, <2>7, <3>1, RemoveTakes
    <2>8. \A v \in Users : ~ StoreKeysLost(v) /\ ~ StoreKeysPartly(v)
      BY <2>1 DEF StoreKeysLost, StoreKeysPartly, Fault, TypeOK
    <2>9. CASE LoadUser \/ LoadKeys \/ ChangeUserName \/ ChangeUserPassword
               \/ ChangeAuthorizedKeyName \/ ChangeAuthorizedKeyData \/ StoreUser
               \/ ChangePasswords \/ StoreKeysModifiedStart \/ RemoveKeysStart
               \/ Applied \/ Return \/ Done \/ Rejected \/ CallFails
               \/ Aborted \/ Crash
      BY <2>2, <2>9 DEF LoadUser, LoadKeys, ChangeUserName, ChangeUserPassword,
           ChangeAuthorizedKeyName, ChangeAuthorizedKeyData, StoreUser,
           ChangePasswords, StoreKeysModifiedStart, RemoveKeysStart, Applied,
           Return, Done, Rejected, CallFails, Aborted, Crash
    <2>10. ASSUME NEW v \in Users, CreateHome(v) \/ CreateHomeFault(v) PROVE Kept(u, k)
      BY <2>2, <2>10 DEF CreateHome, CreateHomeFault
    <2>11. ASSUME NEW e \in {"ENOENT", "other"}, StoreDb(e) PROVE Kept(u, k)
      BY <2>2, <2>11 DEF StoreDb
    <2>12. ASSUME NEW c \in Edits, Edit(c) PROVE Kept(u, k)
      BY <2>2, <2>12 DEF Edit
    <2>13. CASE UNCHANGED vars
      BY <2>2, <2>13 DEF vars
    <2> HIDE DEF Kept
    <2>14. QED
      BY <2>3, <2>5, <2>6, <2>7, <2>8, <2>9, <2>10, <2>11, <2>12, <2>13
         DEF Next, Callback, Environment
  <1>2. IInv /\ KeysInv /\ [Next]_vars =>
          [\A u \in Users, k \in Keys :
             /\ pc # "idle" /\ faults' = faults
             /\ ~ UserDeleted(u)
             /\ OldKey(u, k) = NewKey(u, k)
             => Kept(u, k)]_vars
    BY <1>1 DEF KeyUnmentioned
  <1>3. QED
    BY <1>2, KeysInvariance, PTL DEF Spec, UnmentionedKeysKept

----------------------------------------------------------------------------
(* Files that do not hold two words.                                       *)

\* An event that got past its load found no such file, and up to the writes
\* of the keys none appears.
TornInv ==
    pc \in {"user_name", "user_password", "key_name", "key_data", "store_user",
            "create_home", "delete_users"} => ~ TornFile

\* Without new files there is no new torn file.
LEMMA NoNewTornFile ==
  ASSUME UNCHANGED <<running, cand>>, ~ TornFile,
         \A u \in Users : LoadKeysFails(u)' => LoadKeysFails(u),
         \A u \in Users : db'[u] # NONE => db[u] # NONE \/ UserCreated(u)
  PROVE  ~ TornFile'
  BY SameEdit DEF TornFile, In

LEMMA SameFiles ==
  ASSUME UNCHANGED ssh, NEW u \in Users
  PROVE  LoadKeysFails(u)' <=> LoadKeysFails(u)
  BY DEF LoadKeysFails, LoadedKeys, LoadDir, KeyFile, TwoWords

LEMMA TornFrame ==
  ASSUME TornInv, UNCHANGED <<running, cand, ssh, db>>,
         pc' \notin {"user_name", "user_password", "key_name", "key_data",
                     "store_user", "create_home", "delete_users"}
         \/ pc \in {"user_name", "user_password", "key_name", "key_data",
                    "store_user", "create_home", "delete_users"}
  PROVE  TornInv'
  BY NoNewTornFile, SameFiles DEF TornInv

LEMMA NextTornInv == IInv /\ TornInv /\ [Next]_vars => TornInv'
  <1> SUFFICES ASSUME IInv, TornInv, [Next]_vars PROVE TornInv'
    OBVIOUS
  <1> USE DEF Failed
  <1>1. CASE LoadKeys
    <2>1. CASE pc' = "out"
      BY <2>1 DEF TornInv
    <2>2. CASE pc' # "out"
      <3>1. \A u \in In(db) : ~ LoadKeysFails(u)
        BY <1>1, <2>2 DEF LoadKeys
      <3>2. UNCHANGED <<running, cand, ssh, db>>
        BY <1>1 DEF LoadKeys
      <3>3. ~ TornFile
        BY <3>1 DEF TornFile
      <3>4. QED
        BY <3>2, <3>3, NoNewTornFile, SameFiles DEF TornInv
    <2>3. QED
      BY <2>1, <2>2
  <1>2. CASE StoreUser
    <2>1. CASE pc' = "out"
      BY <2>1 DEF TornInv
    <2>2. CASE pc' # "out"
      <3>1. /\ pc = "store_user"
            /\ UNCHANGED <<running, cand, ssh>>
            /\ db' = [u \in Users |-> IF created[u] = NONE THEN db[u]
                                      ELSE DiskHash(created[u])]
        BY <1>2, <2>2 DEF StoreUser
      <3>2. \A u \in Users : created[u] # NONE => UserCreated(u)
        BY <3>1 DEF IInv, AccountInv, ListsInv
      <3>3. \A u \in Users : db'[u] # NONE => db[u] # NONE \/ UserCreated(u)
        BY <3>1, <3>2
      <3>4. QED
        BY <3>1, <3>3, NoNewTornFile, SameFiles DEF TornInv
    <2>3. QED
      BY <2>1, <2>2
  <1>3. ASSUME NEW v \in Users, DeleteUser(v) PROVE TornInv'
    <2>1. CASE UNCHANGED ssh
      BY <1>3, <2>1, TornFrame DEF DeleteUser
    <2>2. CASE ssh' = [ssh EXCEPT ![v] = NoDir] /\ v # Root
      <3>1. ASSUME NEW u \in Users, LoadKeysFails(u)' PROVE LoadKeysFails(u)
        <4>1. LoadDir(u)' \in {LoadDir(u), NoDir}
          BY <2>2, AccountsAssumption DEF LoadDir, IInv, TypeOK
        <4>2. \A k \in Keys : KeyFile(LoadDir(u)', k) \in {KeyFile(LoadDir(u), k), NONE}
          BY <4>1 DEF KeyFile
        <4>3. PICK k \in Keys : LoadedKeys(u)'[k] = Torn
          BY <3>1 DEF LoadKeysFails
        <4>4. NONE # Torn /\ TwoWords(NONE) = NONE
          BY AccountsAssumption DEF TwoWords, Content
        <4>5. k \in PubKeys /\ TwoWords(KeyFile(LoadDir(u)', k)) = Torn
          BY <4>3, <4>4 DEF LoadedKeys, TwoWords, KeyFile
        <4>6. TwoWords(KeyFile(LoadDir(u), k)) = Torn
          BY <4>2, <4>4, <4>5
        <4>7. QED
          BY <4>5, <4>6 DEF LoadKeysFails, LoadedKeys
      <3>2. /\ UNCHANGED <<running, cand, db>>
            /\ pc = "delete_users"
        BY <1>3 DEF DeleteUser
      <3>3. QED
        BY <3>1, <3>2, NoNewTornFile DEF TornInv
    <2>3. QED
      BY <1>3, <2>1, <2>2 DEF DeleteUser, RmFails, IInv, RootInv
  <1>4. ASSUME NEW e \in {"ENOENT", "other"}, StoreDb(e) PROVE TornInv'
    BY <1>4 DEF StoreDb, TornInv
  <1>5. ASSUME NEW v \in Users,
               \/ StoreKeysCreated(v) \/ StoreKeysModified(v) \/ StoreKeysLost(v)
               \/ StoreKeysPartly(v) \/ RemoveKeys(v)
        PROVE  TornInv'
    BY <1>5 DEF StoreKeysCreated, StoreKeysModified, StoreKeysLost, StoreKeysPartly,
                StoreAuthorizedKey, RemoveKeys, TornInv
  <1>6. ASSUME NEW v \in Users, CreateHome(v) \/ CreateHomeFault(v) PROVE TornInv'
    BY <1>6, TornFrame DEF CreateHome, CreateHomeFault
  <1>7. CASE ChangeUserName \/ ChangeUserPassword \/ ChangeAuthorizedKeyName
             \/ ChangeAuthorizedKeyData \/ ChangePasswords
    BY <1>7, TornFrame DEF ChangeUserName, ChangeUserPassword,
         ChangeAuthorizedKeyName, ChangeAuthorizedKeyData, ChangePasswords
  <1>8. CASE LoadUser \/ StoreKeysModifiedStart \/ RemoveKeysStart \/ Applied
             \/ Return \/ Done \/ Rejected \/ CallFails \/ Aborted \/ Crash
    BY <1>8 DEF LoadUser, StoreKeysModifiedStart, RemoveKeysStart, Applied,
         Return, Done, Rejected, CallFails, Aborted, Crash, TornInv
  <1>9. ASSUME NEW c \in Edits, Edit(c) PROVE TornInv'
    BY <1>9 DEF Edit, TornInv
  <1>10. CASE UNCHANGED vars
    BY <1>10, TornFrame DEF vars
  <1>11. QED
    BY <1>1, <1>2, <1>3, <1>4, <1>5, <1>6, <1>7, <1>8, <1>9, <1>10
       DEF Next, Callback, Environment

\* A key file without its two words stops every later event before it changes
\* the accounts, the homes or the key files.
THEOREM TornFilesStopEvents == Spec => TornFileStopsEvent
  <1>1. Init => TornInv
    BY DEF Init, TornInv
  <1>2. ASSUME TornInv, [Next]_vars, TornFile,
               pc \notin {"keys_created", "keys_modified", "keys_deleted"}
        PROVE  UNCHANGED os
    <2> USE <1>2 DEF Failed, TornInv
    <2>1. ASSUME NEW v \in Users,
                 \/ CreateHome(v) \/ CreateHomeFault(v) \/ DeleteUser(v)
                 \/ StoreKeysCreated(v) \/ StoreKeysModified(v) \/ StoreKeysLost(v)
                 \/ StoreKeysPartly(v) \/ RemoveKeys(v)
          PROVE  UNCHANGED os
      BY <2>1 DEF CreateHome, CreateHomeFault, DeleteUser, StoreKeysCreated,
           StoreKeysModified, StoreKeysLost, StoreKeysPartly, RemoveKeys
    <2>2. CASE LoadUser \/ LoadKeys \/ ChangeUserName \/ ChangeUserPassword
               \/ ChangeAuthorizedKeyName \/ ChangeAuthorizedKeyData \/ StoreUser
               \/ ChangePasswords \/ StoreKeysModifiedStart \/ RemoveKeysStart
               \/ Applied \/ Return \/ Done \/ Rejected \/ CallFails
               \/ Aborted \/ Crash \/ UNCHANGED vars
      BY <2>2 DEF LoadUser, LoadKeys, ChangeUserName, ChangeUserPassword,
           ChangeAuthorizedKeyName, ChangeAuthorizedKeyData, StoreUser,
           ChangePasswords, StoreKeysModifiedStart, RemoveKeysStart, Applied,
           Return, Done, Rejected, CallFails, Aborted, Crash, vars
    <2>3. ASSUME NEW e \in {"ENOENT", "other"}, StoreDb(e) PROVE UNCHANGED os
      BY <2>3 DEF StoreDb
    <2>4. ASSUME NEW c \in Edits, Edit(c) PROVE UNCHANGED os
      BY <2>4 DEF Edit
    <2>5. QED
      BY <2>1, <2>2, <2>3, <2>4 DEF Next, Callback, Environment
  <1>3. TornInv /\ [Next]_vars =>
          [TornFile /\ pc \notin {"keys_created", "keys_modified", "keys_deleted"}
             => UNCHANGED os]_vars
    BY <1>2
  <1>4. QED
    BY <1>1, <1>3, NextTornInv, Invariance, PTL DEF Spec, TornFileStopsEvent

----------------------------------------------------------------------------
(* The keys of the edit.                                                   *)

\* The lists carry every change of a key.
CreatedListed ==
    \A u \in Users, k \in Keys : KeyCreated(u, k) =>
        /\ pc \in {"key_data", "store_user", "create_home", "delete_users",
                   "keys_created"} => keysCreated[u] # NONE
        /\ pc \in {"store_user", "create_home", "delete_users", "keys_created"} =>
              keysCreated[u][k] = NewKey(u, k)

ModifiedListed ==
    pc \in {"store_user", "create_home", "delete_users", "keys_created",
            "keys_modified"} =>
        \A u \in Users, k \in Keys :
            KeyModified(u, k) => /\ keysModified[u] # NONE
                                 /\ keysModified[u][k] = NewKey(u, k)

DeletedListed ==
    pc \in {"key_data", "store_user", "create_home", "delete_users",
            "keys_created", "keys_modified", "keys_deleted"} =>
        \A u \in Users, k \in Keys : KeyDeleted(u, k) => <<u, k>> \in keysDeleted

EditListed == CreatedListed /\ ModifiedListed /\ DeletedListed

\* The file of a key holds the data of the edit, as far as it got to the disk.
Delivered(u, k) == KeyFile(ssh[u], k) \in {NewKey(u, k), Torn}
WasLoaded(u, k) == keysModified[u] # NONE /\ keysModified[u][k] # NONE

Success == pc = "out" /\ result = "ok"

\* Each of the three loops has done its part for the users it is through with.
CreatedStored ==
    pc \in {"keys_created", "keys_modified", "keys_deleted"} \/ Success =>
        \A u \in Users \ {Root}, k \in Keys :
            KeyCreated(u, k) => \/ Delivered(u, k) \/ WasLoaded(u, k)
                                \/ pc = "keys_created" /\ u \in todo

ModifiedStored ==
    pc \in {"keys_modified", "keys_deleted"} \/ Success =>
        \A u \in Users \ {Root}, k \in Keys :
            KeyModified(u, k) => \/ Delivered(u, k)
                                 \/ pc = "keys_modified" /\ u \in todo

DeletedRemoved ==
    pc = "keys_deleted" \/ Success =>
        \A u \in Users \ {Root}, k \in Keys :
            KeyDeleted(u, k) => \/ KeyFile(ssh[u], k) = NONE
                                \/ pc = "keys_deleted" /\ u \in todo

EditStored == CreatedStored /\ ModifiedStored /\ DeletedRemoved

CommitInv == EditListed /\ EditStored

\* A change is one of three, the same as long as the contents are.
LEMMA SameKeyChange ==
  ASSUME UNCHANGED <<running, cand>>, NEW u \in Users, NEW k \in Keys
  PROVE  /\ KeyCreated(u, k)' <=> KeyCreated(u, k)
         /\ KeyModified(u, k)' <=> KeyModified(u, k)
         /\ KeyDeleted(u, k)' <=> KeyDeleted(u, k)
         /\ NewKey(u, k)' = NewKey(u, k)
  BY DEF KeyCreated, KeyModified, KeyDeleted, OldKey, NewKey

LEMMA NewKeyThere ==
  ASSUME NEW u \in Users, NEW k \in Keys
  PROVE  /\ KeyCreated(u, k) \/ KeyModified(u, k) => NewKey(u, k) # NONE
         /\ KeyDeleted(u, k) => NewKey(u, k) = NONE
         /\ KeyCreated(u, k) => ~ KeyModified(u, k)
  BY DEF KeyCreated, KeyModified, KeyDeleted

\* A failed or finished event owes nothing.
LEMMA CommitOver ==
  ASSUME \/ pc' = "out" /\ result' = "failed"
         \/ pc' \in {"idle", "load_user", "load_keys", "user_name", "user_password",
                     "key_name", "replied"}
  PROVE  CommitInv'
  BY DEF CommitInv, EditListed, CreatedListed, ModifiedListed, DeletedListed,
         EditStored, CreatedStored, ModifiedStored, DeletedRemoved, Success

\* The lists say the same as long as they are not touched.
LEMMA ListedFrame ==
  ASSUME EditListed, UNCHANGED <<running, cand, keysCreated, keysModified, keysDeleted>>,
         pc' \in {"out"} \/ pc' = pc \/ <<pc, pc'>> \in
            {<<"store_user", "create_home">>, <<"create_home", "delete_users">>,
             <<"delete_users", "keys_created">>, <<"keys_created", "keys_modified">>,
             <<"keys_modified", "keys_deleted">>}
  PROVE  EditListed'
  <1> USE DEF EditListed
  <1>1. CreatedListed'
    BY SameKeyChange DEF CreatedListed
  <1>2. ModifiedListed'
    BY SameKeyChange DEF ModifiedListed
  <1>3. DeletedListed'
    BY SameKeyChange DEF DeletedListed
  <1>4. QED
    BY <1>1, <1>2, <1>3

\* A step before the writes of the keys.
LEMMA EarlyStep ==
  ASSUME EditListed, UNCHANGED <<running, cand, keysCreated, keysModified, keysDeleted>>,
         pc \in {"store_user", "create_home", "delete_users"},
         \/ Failed
         \/ pc' \in {"create_home", "delete_users"}
              /\ (pc' = pc \/ <<pc, pc'>> \in {<<"store_user", "create_home">>,
                                               <<"create_home", "delete_users">>})
  PROVE  CommitInv'
  <1>1. CASE Failed
    BY <1>1, CommitOver DEF Failed
  <1>2. CASE pc' \in {"create_home", "delete_users"}
    <2>1. EditListed'
      BY <1>2, ListedFrame DEF Failed
    <2>2. EditStored'
      BY <1>2 DEF EditStored, CreatedStored, ModifiedStored, DeletedRemoved, Success
    <2>3. QED
      BY <2>1, <2>2 DEF CommitInv
  <1>3. QED
    BY <1>1, <1>2

\* The writes of one user.
LEMMA StoreStep ==
  ASSUME TypeOK, TodoListed, CommitInv, NEW u \in Users, u \in todo, NEW lost,
         pc \in {"keys_created", "keys_modified"},
         StoreAuthorizedKey(u, KeyList[u], lost), UNCHANGED <<store, keys>>
  PROVE  CommitInv'
  <1> DEFINE list == KeyList[u]
  <1>1. list \in KeyLists /\ list # NONE
    BY AccountsAssumption DEF KeyList, TypeOK, TodoListed, In
  <1>2. CASE Failed
    BY <1>2, CommitOver DEF Failed
  <1>3. ASSUME pc' = pc, todo' = todo \ {u},
               u = Root => ssh' = ssh,
               u # Root => StoresList(u, list, lost)
        PROVE  CommitInv'
    <2> USE <1>3
    <2>1. EditListed'
      BY ListedFrame DEF CommitInv
    <2>2. \A v \in Users \ {Root}, k \in Keys :
             /\ v # u \/ list[k] = NONE => KeyFile(ssh'[v], k) = KeyFile(ssh[v], k)
             /\ v = u /\ list[k] # NONE => KeyFile(ssh'[v], k) \in {list[k], Torn}
      BY <1>1, StoreWrites
    <2> HIDE DEF list
    <2>3. ASSUME NEW v \in Users \ {Root}, NEW k \in Keys, KeyCreated(v, k)
          PROVE  Delivered(v, k)' \/ WasLoaded(v, k)' \/ (pc' = "keys_created" /\ v \in todo')
      <3>1. Delivered(v, k) \/ WasLoaded(v, k) \/ (pc = "keys_created" /\ v \in todo)
        BY <2>3 DEF CommitInv, EditStored, CreatedStored
      <3>2. WasLoaded(v, k)' <=> WasLoaded(v, k)
        BY DEF WasLoaded
      <3>3. CASE pc = "keys_created" /\ v = u
        <4>1. list[k] = NewKey(v, k) /\ list[k] # NONE
          BY <2>3, <3>3, NewKeyThere DEF list, KeyList, CommitInv, EditListed, CreatedListed
        <4>2. QED
          BY <2>2, <3>3, <4>1, SameKeyChange DEF Delivered
      <3>4. CASE v = u /\ pc = "keys_modified" /\ ~ WasLoaded(v, k)
        <4>1. list[k] = NONE
          BY <1>1, <3>4 DEF list, KeyList, WasLoaded
        <4>2. QED
          BY <2>2, <3>1, <3>4, <4>1, SameKeyChange DEF Delivered
      <3>5. CASE v # u
        BY <2>2, <3>1, <3>2, <3>5, SameKeyChange DEF Delivered
      <3>6. QED
        BY <3>2, <3>3, <3>4, <3>5
    <2>4. ASSUME NEW v \in Users \ {Root}, NEW k \in Keys, KeyModified(v, k),
                 pc = "keys_modified"
          PROVE  Delivered(v, k)' \/ v \in todo'
      <3>1. Delivered(v, k) \/ v \in todo
        BY <2>4 DEF CommitInv, EditStored, ModifiedStored
      <3>2. CASE v = u
        <4>1. list[k] = NewKey(v, k) /\ list[k] # NONE
          BY <2>4, <3>2, NewKeyThere DEF list, KeyList, CommitInv, EditListed, ModifiedListed
        <4>2. QED
          BY <2>2, <3>2, <4>1, SameKeyChange DEF Delivered
      <3>3. CASE v # u
        BY <2>2, <3>1, <3>3, SameKeyChange DEF Delivered
      <3>4. QED
        BY <3>2, <3>3
    <2>5. CreatedStored'
      BY <2>3, SameKeyChange DEF CreatedStored
    <2>6. ModifiedStored' /\ DeletedRemoved'
      BY <2>4, SameKeyChange DEF ModifiedStored, DeletedRemoved, Success
    <2>7. QED
      BY <2>1, <2>5, <2>6 DEF CommitInv, EditStored
  <1>4. CASE u = Root
    <2>1. pc' = pc /\ todo' = todo \ {u} /\ ssh' = ssh
      BY <1>4 DEF StoreAuthorizedKey
    <2>2. QED
      BY <1>3, <1>4, <2>1
  <1>5. CASE u # Root
    <2>1. Failed \/ (todo' = todo \ {u} /\ pc' = pc
                      /\ ssh' = [ssh EXCEPT ![u] = Written(ssh[u], KeyList[u], lost)])
      BY <1>5 DEF StoreAuthorizedKey
    <2>2. QED
      BY <1>2, <1>3, <1>5, <2>1 DEF StoresList
  <1>6. QED
    BY <1>4, <1>5

\* The removals of one user.
LEMMA RemoveStep ==
  ASSUME TypeOK, KeysInv, CommitInv, NEW u \in Users, RemoveKeys(u)
  PROVE  CommitInv'
  <1>0. pc = "keys_deleted" /\ UNCHANGED <<running, cand, keysCreated, keysModified, keysDeleted>>
    BY DEF RemoveKeys
  <1>1. CASE Failed
    BY <1>1, CommitOver DEF Failed
  <1>2. CASE /\ RemovableKeys(u) = DeletedKeys(u)
             /\ ssh' = SshWithout(u, DeletedKeys(u))
             /\ todo' = todo \ {u} /\ UNCHANGED <<pc, result>>
    <2> USE <1>0, <1>2
    <2>1. EditListed'
      BY ListedFrame DEF CommitInv
    <2>2. \A v \in Users, k \in Keys :
             NewKey(v, k) # NONE => KeyFile(ssh'[v], k) = KeyFile(ssh[v], k)
      BY RemoveTakes, NewKeyThere DEF KeysInv, DeletedKeysInv
    <2>3. ASSUME NEW v \in Users \ {Root}, NEW k \in Keys, KeyDeleted(v, k), v = u
          PROVE  KeyFile(ssh'[v], k) = NONE
      <3>1. k \in DeletedKeys(u)
        BY <2>3 DEF DeletedKeys, CommitInv, EditListed, DeletedListed
      <3>2. ssh[u] # NoDir
        BY <3>1 DEF RemovableKeys, KeyFile
      <3>3. ssh'[u] = [j \in Keys |-> IF j \in DeletedKeys(u) THEN NONE ELSE ssh[u][j]]
        BY <3>1 DEF SshWithout, TypeOK
      <3>4. QED
        BY <2>3, <3>1, <3>3 DEF KeyFile
    <2>4. ASSUME NEW v \in Users \ {Root}, NEW k \in Keys, KeyDeleted(v, k), v # u
          PROVE  KeyFile(ssh'[v], k) = KeyFile(ssh[v], k)
      BY <2>4 DEF SshWithout, TypeOK
    <2>5. CreatedStored' /\ ModifiedStored'
      <3>1. ASSUME NEW v \in Users \ {Root}, NEW k \in Keys,
                   KeyCreated(v, k) \/ KeyModified(v, k)
            PROVE  Delivered(v, k)' <=> Delivered(v, k)
        BY <2>2, <3>1, NewKeyThere, SameKeyChange DEF Delivered
      <3>2. \A v \in Users, k \in Keys : WasLoaded(v, k)' <=> WasLoaded(v, k)
        BY DEF WasLoaded
      <3>3. QED
        BY <3>1, <3>2, SameKeyChange
           DEF CommitInv, EditStored, CreatedStored, ModifiedStored
    <2>6. DeletedRemoved'
      BY <2>3, <2>4, SameKeyChange DEF CommitInv, EditStored, DeletedRemoved
    <2>7. QED
      BY <2>1, <2>5, <2>6 DEF CommitInv, EditStored
  <1>3. QED
    BY <1>1, <1>2 DEF RemoveKeys

LEMMA NextCommitInv == IInv /\ KeysInv /\ CommitInv /\ [Next]_vars => CommitInv'
  <1> SUFFICES ASSUME IInv, KeysInv, CommitInv, [Next]_vars PROVE CommitInv'
    OBVIOUS
  <1>0. TypeOK /\ TodoListed
    BY DEF IInv
  <1> USE <1>0 DEF Failed
  <1>1. CASE LoadUser \/ LoadKeys \/ ChangeUserName \/ ChangeUserPassword \/ Return
             \/ Done \/ Rejected \/ Aborted \/ Crash \/ CallFails
    BY <1>1, CommitOver DEF LoadUser, LoadKeys, ChangeUserName, ChangeUserPassword,
         Return, Done, Rejected, Aborted, Crash, CallFails
  <1>2. ASSUME NEW c \in Edits, Edit(c) PROVE CommitInv'
    BY <1>2, CommitOver DEF Edit
  <1>3. CASE ChangeAuthorizedKeyName
    <2>1. /\ pc' = "key_data" /\ UNCHANGED <<running, cand>>
          /\ keysDeleted' = {p \in Users \X Keys : KeyDeleted(p[1], p[2])}
          /\ keysCreated' = [u \in Users |-> IF \E k \in Keys : KeyCreated(u, k)
                                             THEN NoKeys ELSE NONE]
      BY <1>3 DEF ChangeAuthorizedKeyName
    <2>2. DeletedListed'
      BY <2>1, SameKeyChange DEF DeletedListed
    <2>3. NoKeys # NONE
      BY AccountsAssumption DEF NoKeys, KeyFiles, Content
    <2>4. CreatedListed'
      BY <2>1, <2>3, SameKeyChange DEF CreatedListed
    <2>5. QED
      BY <2>1, <2>2, <2>4 DEF CommitInv, EditListed, ModifiedListed, EditStored,
                        CreatedStored, ModifiedStored, DeletedRemoved, Success
  <1>4. CASE ChangeAuthorizedKeyData
    <2>1. CASE pc' = "out"
      BY <1>4, <2>1, CommitOver DEF ChangeAuthorizedKeyData
    <2>2. CASE pc' # "out"
      <3>1. /\ pc = "key_data" /\ pc' = "store_user" /\ ~ ModifiedKeyMissing
            /\ UNCHANGED <<running, cand, keysDeleted>>
            /\ keysCreated' = [u \in Users |->
                  IF keysCreated[u] = NONE THEN NONE
                  ELSE [k \in Keys |-> IF KeyCreated(u, k)
                                       THEN NewKey(u, k) ELSE NONE]]
            /\ keysModified' = [u \in Users |->
                  IF keysModified[u] = NONE THEN NONE
                  ELSE [k \in Keys |-> IF KeyModified(u, k)
                                       THEN NewKey(u, k)
                                       ELSE keysModified[u][k]]]
        BY <1>4, <2>2 DEF ChangeAuthorizedKeyData
      <3>2. ASSUME NEW u \in Users, NEW k \in Keys, KeyModified(u, k)
            PROVE  keysModified'[u] # NONE /\ keysModified'[u][k] = NewKey(u, k)
        <4>1. keysModified[u] # NONE
          BY <3>1, <3>2 DEF ModifiedKeyMissing
        <4>2. keysModified'[u] =
                [j \in Keys |-> IF KeyModified(u, j) THEN NewKey(u, j)
                                ELSE keysModified[u][j]]
          BY <3>1, <4>1
        <4>3. keysModified[u] \in KeyLists
          BY <4>1 DEF TypeOK
        <4>4. keysModified'[u] \in KeyFiles
          BY <4>2, <4>3, KeyTypes DEF KeyLists, KeyFiles, Content
        <4>5. QED
          BY <3>2, <4>2, <4>4, AccountsAssumption
      <3>3. ASSUME NEW u \in Users, NEW k \in Keys, KeyCreated(u, k)
            PROVE  keysCreated'[u] # NONE /\ keysCreated'[u][k] = NewKey(u, k)
        <4>1. keysCreated[u] # NONE
          BY <3>1, <3>3 DEF CommitInv, EditListed, CreatedListed
        <4>2. keysCreated'[u] =
                [j \in Keys |-> IF KeyCreated(u, j) THEN NewKey(u, j) ELSE NONE]
          BY <3>1, <4>1
        <4>3. keysCreated'[u] \in KeyFiles
          BY <4>2, KeyTypes DEF KeyFiles, Content
        <4>4. QED
          BY <3>3, <4>2, <4>3, AccountsAssumption
      <3>4. CreatedListed' /\ ModifiedListed'
        BY <3>1, <3>2, <3>3, SameKeyChange DEF CreatedListed, ModifiedListed
      <3>5. DeletedListed'
        BY <3>1, SameKeyChange DEF CommitInv, EditListed, DeletedListed
      <3>6. QED
        BY <3>1, <3>4, <3>5 DEF CommitInv, EditListed, EditStored,
             CreatedStored, ModifiedStored, DeletedRemoved, Success
    <2>3. QED
      BY <2>1, <2>2
  <1>5. CASE StoreUser \/ ChangePasswords
    BY <1>5, EarlyStep DEF StoreUser, ChangePasswords, CommitInv
  <1>6. ASSUME NEW u \in Users, CreateHome(u) \/ CreateHomeFault(u) \/ DeleteUser(u)
        PROVE  CommitInv'
    BY <1>6, EarlyStep DEF CreateHome, CreateHomeFault, DeleteUser, CommitInv
  <1>7. ASSUME NEW e \in {"ENOENT", "other"}, StoreDb(e) PROVE CommitInv'
    <2>1. /\ pc = "delete_users" /\ pc' = "keys_created" /\ todo' = In(keysCreated)
          /\ UNCHANGED <<running, cand, keysCreated, keysModified, keysDeleted>>
      BY <1>7 DEF StoreDb
    <2>2. EditListed'
      BY <2>1, ListedFrame DEF CommitInv
    <2>3. CreatedStored'
      BY <2>1, SameKeyChange DEF CommitInv, EditListed, CreatedListed, CreatedStored, In
    <2>4. QED
      BY <2>1, <2>2, <2>3 DEF CommitInv, EditStored, ModifiedStored, DeletedRemoved, Success
  <1>8. ASSUME NEW u \in Users,
               StoreKeysCreated(u) \/ StoreKeysModified(u) \/ StoreKeysLost(u)
        PROVE  CommitInv'
    BY <1>8, StoreStep DEF StoreKeysCreated, StoreKeysModified, StoreKeysLost, KeyList
  <1>9. ASSUME NEW u \in Users, StoreKeysPartly(u) PROVE CommitInv'
    BY <1>9, CommitOver DEF StoreKeysPartly
  <1>10. CASE StoreKeysModifiedStart \/ RemoveKeysStart \/ Applied \/ UNCHANGED vars
    <2>1. /\ UNCHANGED <<running, cand, keysCreated, keysModified, keysDeleted, ssh, result>>
          /\ \/ /\ pc = "keys_created" /\ pc' = "keys_modified"
                /\ todo = {} /\ todo' = In(keysModified)
             \/ /\ pc = "keys_modified" /\ pc' = "keys_deleted"
                /\ todo = {} /\ todo' = {p[1] : p \in keysDeleted}
             \/ pc = "keys_deleted" /\ pc' = "out" /\ todo = {}
             \/ UNCHANGED <<pc, todo>>
      BY <1>10 DEF StoreKeysModifiedStart, RemoveKeysStart, Applied, vars
    <2>2. EditListed'
      BY <2>1, ListedFrame DEF CommitInv
    <2>3. \A u \in Users, k \in Keys :
             /\ Delivered(u, k)' <=> Delivered(u, k)
             /\ WasLoaded(u, k)' <=> WasLoaded(u, k)
             /\ KeyFile(ssh[u], k)' = KeyFile(ssh[u], k)
      BY <2>1, SameKeyChange DEF Delivered, WasLoaded, KeyFile
    <2>4. CreatedStored'
      BY <2>1, <2>3, SameKeyChange DEF CommitInv, EditStored, CreatedStored, Success
    <2>5. ModifiedStored'
      BY <2>1, <2>3, SameKeyChange
         DEF CommitInv, EditStored, ModifiedStored, EditListed, ModifiedListed, Success, In
    <2>6. DeletedRemoved'
      <3>1. \A u \in Users, k \in Keys : <<u, k>> \in keysDeleted =>
               u \in {p[1] : p \in keysDeleted}
        OBVIOUS
      <3>2. QED
        BY <2>1, <2>3, <3>1, SameKeyChange
           DEF CommitInv, EditStored, DeletedRemoved, EditListed, DeletedListed, Success
    <2>7. QED
      BY <2>2, <2>4, <2>5, <2>6 DEF CommitInv, EditStored
  <1>11. ASSUME NEW u \in Users, RemoveKeys(u) PROVE CommitInv'
    BY <1>11, RemoveStep
  <1>12. QED
    BY <1>1, <1>2, <1>3, <1>4, <1>5, <1>6, <1>7, <1>8, <1>9, <1>10, <1>11
       DEF Next, Callback, Environment

\* A success means that the keys of the edit are in their files, except those
\* that were overwritten by what was loaded or whose data was lost.
THEOREM KeysCommitted == Spec => []CommittedKeysApplied
  <1>1. Init => CommitInv
    BY DEF Init, CommitInv, EditListed, CreatedListed, ModifiedListed, DeletedListed,
           EditStored, CreatedStored, ModifiedStored, DeletedRemoved, Success
  <1>2. CommitInv => CommittedKeysApplied
    BY DEF CommitInv, EditStored, CreatedStored, ModifiedStored, DeletedRemoved,
           Success, Delivered, WasLoaded, CommittedKeysApplied
  <1>3. QED
    BY <1>1, <1>2, NextCommitInv, KeysInvariance, PTL DEF Spec
=============================================================================
