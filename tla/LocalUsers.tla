----------------------------- MODULE LocalUsers -----------------------------
(***************************************************************************)
(* The local-user part of the ietf-system plugin: the module-change        *)
(* callback system_subscription_change_authentication_user                 *)
(* (core/subscription/change.c) with the load, change and store functions  *)
(* it calls (core/api/system/authentication).  One transaction of the      *)
(* datastore is one CHANGE event: the callback loads the users of the      *)
(* system, turns the difference between the two datastore contents into    *)
(* six lists, and applies them to /etc/passwd, /etc/shadow, /home and      *)
(* /home/<user>/.ssh one call after the other.  Nothing is undone when a   *)
(* call fails, when another subscriber aborts the transaction, or when the *)
(* process dies.                                                           *)
(***************************************************************************)
EXTENDS Accounts

CONSTANTS Edits,        \* datastore contents a client may commit
          MaxTxns,      \* bound: transactions started
          MaxFaults     \* bound: failures of the environment

ASSUME ConstantsAssumption ==
    /\ Edits \subseteq Datastore
    /\ MaxTxns \in Nat
    /\ MaxFaults \in Nat

VARIABLES
    \* the datastore
    running,   \* running datastore: user -> configuration
    cand,      \* content that the pending transaction would commit
    \* ctx->temp_users
    created, modified, deleted, keysCreated, keysModified, keysDeleted,
    \* the callback
    pc, result, todo, memdb, memgroup,
    \* bounds
    txns, faults

store   == <<running, cand>>
users   == <<created, modified, deleted>>
keys    == <<keysCreated, keysModified, keysDeleted>>
mem     == <<memdb, memgroup>>
bounds  == <<txns, faults>>
vars    == <<store, os, users, keys, mem, pc, result, todo, errno, bounds>>

----------------------------------------------------------------------------
(* The difference between the two datastore contents, as the change        *)
(* iterator of sysrepo presents it.                                        *)

UserCreated(u) == running[u] = NONE /\ cand[u] # NONE
UserDeleted(u) == running[u] # NONE /\ cand[u] = NONE
UserKept(u)    == running[u] # NONE /\ cand[u] # NONE

PasswordCreated(u) ==
    /\ cand[u] # NONE /\ cand[u].pw # NULL
    /\ (running[u] = NONE \/ running[u].pw = NULL)
PasswordModified(u) ==
    /\ UserKept(u) /\ cand[u].pw # NULL /\ running[u].pw # NULL
    /\ cand[u].pw # running[u].pw
PasswordDeleted(u) ==
    /\ running[u] # NONE /\ running[u].pw # NULL
    /\ (cand[u] = NONE \/ cand[u].pw = NULL)
PasswordChanged(u) ==
    PasswordCreated(u) \/ PasswordModified(u) \/ PasswordDeleted(u)

OldKey(u, k) == IF running[u] = NONE THEN NONE ELSE running[u].keys[k]
NewKey(u, k) == IF cand[u] = NONE THEN NONE ELSE cand[u].keys[k]
KeyCreated(u, k)  == OldKey(u, k) = NONE /\ NewKey(u, k) # NONE
KeyDeleted(u, k)  == OldKey(u, k) # NONE /\ NewKey(u, k) = NONE
KeyModified(u, k) ==
    /\ OldKey(u, k) # NONE /\ NewKey(u, k) # NONE
    /\ OldKey(u, k) # NewKey(u, k)

\* A transaction that mentions the account of u.
AccountMentioned(u) == UserCreated(u) \/ UserDeleted(u) \/ PasswordChanged(u)

----------------------------------------------------------------------------
(* Initial states: the plugin has been started and its subscriptions are   *)
(* in place.  The running datastore holds what the system holds            *)
(* (system_running_ds_load).  Accounts have a home and usually a group of  *)
(* their own; a directory may be left over under /home.                    *)

Init ==
    /\ db \in [Users -> Hashes \cup {Locked, NONE}]
    /\ db[Root] # NONE
    /\ home \in SUBSET (Users \ {Root})
    /\ In(db) \ {Root} \subseteq home
    /\ group \in SUBSET In(db)
    /\ ssh \in [Users -> [Keys -> Blobs \cup LongFiles \cup {NONE}] \cup {NoDir}]
    /\ \A u \in Users \ {Root} : u \notin home => ssh[u] = NoDir
    /\ running = [u \in Users |->
                    IF db[u] = NONE THEN NONE
                    ELSE [pw |-> LoadedPassword(db[u]), keys |-> LoadedKeys(u)]]
    /\ cand = running
    /\ created = NoList /\ modified = NoList /\ deleted = {}
    /\ keysCreated = NoList /\ keysModified = NoList /\ keysDeleted = {}
    /\ pc = "idle" /\ result = "ok" /\ todo = {}
    /\ memdb = NoList /\ memgroup = {} /\ errno = "other"
    /\ txns = 0 /\ faults = 0

----------------------------------------------------------------------------
(* A client commits an edit; sysrepo delivers the CHANGE event.  The       *)
(* callback first asserts that the lists of the last event are gone.       *)

Edit(c) ==
    /\ pc = "idle"
    /\ txns < MaxTxns
    /\ c # running
    /\ cand' = c
    /\ txns' = txns + 1
    /\ pc' = "load_user"
    /\ result' = "ok"
    /\ UNCHANGED <<running, os, users, keys, mem, todo, errno, faults>>

\* goto error_out: the callback frees its lists and returns an error.
Failed == pc' = "out" /\ result' = "failed"

\* A call of the C library, libumgmt or the kernel fails.
Fault == faults < MaxFaults /\ faults' = faults + 1

\* The current users go to the list of modified users.
LoadUser ==
    /\ pc = "load_user"
    /\ modified' = [u \in Users |-> IF db[u] = NONE THEN NONE
                                    ELSE LoadedPassword(db[u])]
    /\ pc' = "load_keys"
    /\ UNCHANGED <<store, os, created, deleted, keys, mem, result, todo,
                   errno, bounds>>

\* Mutant: a file that does not hold two words is passed over.
LoadKeysTolerant ==
    /\ pc = "load_keys"
    /\ keysModified' = [u \in Users |-> IF db[u] = NONE THEN NONE
          ELSE [k \in Keys |-> IF LoadedKeys(u)[k] = Torn THEN NONE
                               ELSE LoadedKeys(u)[k]]]
    /\ pc' = "user_name"
    /\ UNCHANGED <<store, os, users, keysCreated, keysDeleted, mem, result,
                   todo, errno, bounds>>

\* The current users go once more to the list of users with modified keys,
\* each with the keys of its directory; a file that does not hold two words
\* stops the load.
LoadKeys ==
    /\ pc = "load_keys"
    /\ IF \E u \in In(db) : LoadKeysFails(u)
       THEN Failed /\ UNCHANGED keysModified
       ELSE /\ keysModified' = [u \in Users |-> IF db[u] = NONE THEN NONE
                                                ELSE LoadedKeys(u)]
            /\ pc' = "user_name"
            /\ UNCHANGED result
    /\ UNCHANGED <<store, os, users, keysCreated, keysDeleted, mem, todo,
                   errno, bounds>>

----------------------------------------------------------------------------
(* The iterations over the changes, one per leaf.                          *)

ChangeUserName ==
    /\ pc = "user_name"
    /\ created' = [u \in Users |-> IF UserCreated(u) THEN NULL ELSE NONE]
    /\ deleted' = {u \in Users : UserDeleted(u)}
    /\ pc' = "user_password"
    /\ UNCHANGED <<store, os, modified, keys, mem, result, todo, errno, bounds>>

\* A password is set in the list of created users, else in the list of
\* loaded users; a user found in neither stops the iteration.
PasswordTargetMissing ==
    \E u \in Users :
        \/ PasswordCreated(u) /\ created[u] = NONE /\ modified[u] = NONE
        \/ PasswordModified(u) /\ modified[u] = NONE
        \/ PasswordDeleted(u) /\ u \notin deleted /\ modified[u] = NONE

ChangeUserPassword ==
    /\ pc = "user_password"
    /\ IF PasswordTargetMissing
       THEN Failed /\ UNCHANGED <<created, modified>>
       ELSE /\ created' = [u \in Users |->
                  IF PasswordCreated(u) /\ created[u] # NONE
                  THEN cand[u].pw ELSE created[u]]
            /\ modified' = [u \in Users |->
                  IF PasswordModified(u) \/ (PasswordCreated(u) /\ created[u] = NONE)
                  THEN cand[u].pw
                  ELSE IF PasswordDeleted(u) /\ u \notin deleted
                  THEN NULL ELSE modified[u]]
            /\ pc' = "key_name"
            /\ UNCHANGED result
    /\ UNCHANGED <<store, os, deleted, keys, mem, todo, errno, bounds>>

ChangeAuthorizedKeyName ==
    /\ pc = "key_name"
    /\ keysCreated' = [u \in Users |->
                         IF \E k \in Keys : KeyCreated(u, k)
                         THEN NoKeys ELSE NONE]
    /\ keysDeleted' = {p \in Users \X Keys : KeyDeleted(p[1], p[2])}
    /\ pc' = "key_data"
    /\ UNCHANGED <<store, os, users, keysModified, mem, result, todo, errno,
                   bounds>>

\* Algorithm and key data of a created key go to its element; those of a
\* modified key to the loaded key of that name, which may be missing.
ModifiedKeyMissing ==
    \E u \in Users, k \in Keys :
        /\ KeyModified(u, k)
        /\ (keysModified[u] = NONE \/ keysModified[u][k] = NONE)

\* Mutant: the data of a modified key is dropped.
ChangeAuthorizedKeyDataDropped ==
    /\ pc = "key_data"
    /\ keysCreated' = [u \in Users |->
          IF keysCreated[u] = NONE THEN NONE
          ELSE [k \in Keys |-> IF KeyCreated(u, k) THEN NewKey(u, k) ELSE NONE]]
    /\ pc' = "store_user"
    /\ UNCHANGED <<store, os, users, keysModified, keysDeleted, mem, result,
                   todo, errno, bounds>>

ChangeAuthorizedKeyData ==
    /\ pc = "key_data"
    /\ IF ModifiedKeyMissing
       THEN Failed /\ UNCHANGED <<keysCreated, keysModified>>
       ELSE /\ keysCreated' = [u \in Users |->
                  IF keysCreated[u] = NONE THEN NONE
                  ELSE [k \in Keys |-> IF KeyCreated(u, k)
                                       THEN NewKey(u, k) ELSE NONE]]
            /\ keysModified' = [u \in Users |->
                  IF keysModified[u] = NONE THEN NONE
                  ELSE [k \in Keys |-> IF KeyModified(u, k)
                                       THEN NewKey(u, k)
                                       ELSE keysModified[u][k]]]
            /\ pc' = "store_user"
            /\ UNCHANGED result
    /\ UNCHANGED <<store, os, users, keysDeleted, mem, todo, errno, bounds>>

----------------------------------------------------------------------------
(* system_authentication_user_apply_changes: created users first, through  *)
(* system_authentication_store_user.                                       *)

\* Mutant: the database is not loaded before the users are added.
StoreUserNoLoad ==
    /\ pc = "store_user"
    /\ db' = [u \in Users |-> IF created[u] = NONE THEN NONE
                              ELSE DiskHash(created[u])]
    /\ group' = In(created)
    /\ todo' = In(created)
    /\ pc' = "create_home"
    /\ UNCHANGED <<store, home, ssh, users, keys, mem, result, errno, bounds>>

\* All created users are added to the database, which is written once.
StoreUser ==
    /\ pc = "store_user"
    /\ IF \E u \in In(created) : db[u] # NONE
       THEN Failed /\ UNCHANGED <<db, group, todo>>
       ELSE /\ db' = [u \in Users |-> IF created[u] = NONE THEN db[u]
                                      ELSE DiskHash(created[u])]
            /\ group' = group \cup In(created)
            /\ todo' = In(created)
            /\ pc' = "create_home"
            /\ UNCHANGED result
    /\ UNCHANGED <<store, home, ssh, users, keys, mem, errno, bounds>>

\* Only then the home directories are made and filled from /etc/skel.
CreateHome(u) ==
    /\ pc = "create_home"
    /\ u \in todo
    /\ IF u \in home
       THEN Failed /\ UNCHANGED <<home, todo>>
       ELSE /\ home' = home \cup {u}
            /\ todo' = todo \ {u}
            /\ UNCHANGED <<pc, result>>
    /\ UNCHANGED <<store, db, group, ssh, users, keys, mem, errno, bounds>>

\* chown() or the copy of /etc/skel fails after mkdir().
CreateHomeFault(u) ==
    /\ pc = "create_home"
    /\ u \in todo \ home
    /\ Fault
    /\ home' = home \cup {u}
    /\ Failed
    /\ UNCHANGED <<store, db, group, ssh, users, keys, mem, todo, errno, txns>>

\* Mutant: the database loaded before the created users were stored is used.
ChangePasswordsStaleDb ==
    /\ pc = "create_home"
    /\ todo = {}
    /\ memdb' = [u \in Users |->
          IF modified[u] = NONE THEN NONE ELSE DiskHash(modified[u])]
    /\ memgroup' = group \ In(created)
    /\ todo' = deleted
    /\ pc' = "delete_users"
    /\ UNCHANGED <<store, os, users, keys, errno, result, bounds>>

\* The database is loaded again and the passwords of the modified users are
\* compared with it and set, in memory.
ChangePasswords ==
    /\ pc = "create_home"
    /\ todo = {}
    /\ IF \E u \in In(modified) : db[u] = NONE
       THEN Failed /\ UNCHANGED <<memdb, memgroup, todo>>
       ELSE /\ memdb' = [u \in Users |->
                  IF modified[u] = NONE THEN db[u] ELSE DiskHash(modified[u])]
            /\ memgroup' = group
            /\ todo' = deleted
            /\ pc' = "delete_users"
            /\ UNCHANGED result
    /\ UNCHANGED <<store, os, users, keys, errno, bounds>>

\* delete_home_directory: rm -r fails when there is no /home/<u>.
RmFails(u) == u \notin home

\* Mutant: rm -rf, which does not fail when there is no /home/<u>.
DeleteUserForced(u) ==
    /\ pc = "delete_users"
    /\ u \in todo
    /\ home' = home \ {u}
    /\ ssh' = [ssh EXCEPT ![u] = NoDir]
    /\ memdb' = [memdb EXCEPT ![u] = NONE]
    /\ IF memdb[u] = NONE \/ u \notin memgroup
       THEN Failed /\ UNCHANGED <<memgroup, todo>>
       ELSE /\ memgroup' = memgroup \ {u}
            /\ todo' = todo \ {u}
            /\ UNCHANGED <<pc, result>>
    /\ UNCHANGED <<store, db, group, users, keys, errno, bounds>>

\* User and group are removed from the database in memory after the home
\* directory; each of them must be there.
DeleteUser(u) ==
    /\ pc = "delete_users"
    /\ u \in todo
    /\ IF RmFails(u)
       THEN Failed /\ UNCHANGED <<home, ssh, memdb, memgroup, todo>>
       ELSE /\ home' = home \ {u}
            /\ ssh' = [ssh EXCEPT ![u] = NoDir]
            /\ memdb' = [memdb EXCEPT ![u] = NONE]
            /\ IF memdb[u] = NONE \/ u \notin memgroup
               THEN Failed /\ UNCHANGED <<memgroup, todo>>
               ELSE /\ memgroup' = memgroup \ {u}
                    /\ todo' = todo \ {u}
                    /\ UNCHANGED <<pc, result>>
    /\ UNCHANGED <<store, db, group, users, keys, errno, bounds>>

\* The database is written; errno is now whatever the calls before it left.
StoreDb(e) ==
    /\ pc = "delete_users"
    /\ todo = {}
    /\ IF In(modified) # {} \/ deleted # {}
       THEN db' = memdb /\ group' = memgroup
       ELSE UNCHANGED <<db, group>>
    /\ errno' = e
    /\ todo' = In(keysCreated)
    /\ pc' = "keys_created"
    /\ UNCHANGED <<store, home, ssh, users, keys, mem, result, bounds>>

----------------------------------------------------------------------------
(* system_authentication_store_user_authorized_key                         *)

\* Mutant: skipping root does not advance the loop.
StoreAuthorizedKeyStuck(u, list, lost) ==
    IF u = Root
    THEN UNCHANGED <<ssh, errno, pc, result, todo>>
    ELSE /\ errno' = IF ssh[u] = NoDir THEN "ENOENT" ELSE errno
         /\ IF MkdirFails(u, errno)
            THEN Failed /\ UNCHANGED <<ssh, todo>>
            ELSE /\ ssh' = [ssh EXCEPT ![u] = Written(ssh[u], list, lost)]
                 /\ todo' = todo \ {u}
                 /\ UNCHANGED <<pc, result>>

StoreAuthorizedKey(u, list, lost) ==
    IF u = Root
    THEN /\ todo' = todo \ {u}
         /\ UNCHANGED <<ssh, errno, pc, result>>
    ELSE /\ errno' = IF ssh[u] = NoDir THEN "ENOENT"
                     ELSE IF MkdirFails(u, errno) THEN "other" ELSE errno
         /\ IF MkdirFails(u, errno)
            THEN Failed /\ UNCHANGED <<ssh, todo>>
            ELSE /\ ssh' = [ssh EXCEPT ![u] = Written(ssh[u], list, lost)]
                 /\ todo' = todo \ {u}
                 /\ UNCHANGED <<pc, result>>

StoreKeysCreated(u) ==
    /\ pc = "keys_created"
    /\ u \in todo
    /\ StoreAuthorizedKey(u, keysCreated[u], {})
    /\ UNCHANGED <<store, db, group, home, users, keys, mem, bounds>>

\* Every user that was loaded is in this list, the deleted ones too.
StoreKeysModifiedStart ==
    /\ pc = "keys_created"
    /\ todo = {}
    /\ todo' = In(keysModified)
    /\ pc' = "keys_modified"
    /\ UNCHANGED <<store, os, users, keys, mem, result, errno, bounds>>

StoreKeysModified(u) ==
    /\ pc = "keys_modified"
    /\ u \in todo
    /\ StoreAuthorizedKey(u, keysModified[u], {})
    /\ UNCHANGED <<store, db, group, home, users, keys, mem, bounds>>

\* The list the current loop writes.
KeyList == IF pc = "keys_created" THEN keysCreated ELSE keysModified

\* The data of some files does not reach the disk, which fclose() reports and
\* the code does not look at.
StoreKeysLost(u) ==
    /\ pc \in {"keys_created", "keys_modified"}
    /\ u \in todo \ {Root}
    /\ ~ MkdirFails(u, errno)
    /\ Fault
    /\ \E lost \in SUBSET {k \in Keys : KeyList[u][k] # NONE} :
           lost # {} /\ StoreAuthorizedKey(u, KeyList[u], lost)
    /\ UNCHANGED <<store, db, group, home, users, keys, mem, txns>>

\* fopen() or fprintf() fails, or the process dies, after the directory was
\* made and some of the files were written; a file may be open and empty.
StoreKeysPartly(u) ==
    /\ pc \in {"keys_created", "keys_modified"}
    /\ u \in todo \ {Root}
    /\ ~ MkdirFails(u, errno)
    /\ Fault
    /\ \E ks \in SUBSET {k \in Keys : KeyList[u][k] # NONE} :
       \E lost \in SUBSET ks :
           ssh' = [ssh EXCEPT ![u] = Written(ssh[u], Part(KeyList[u], ks), lost)]
    /\ Failed
    /\ UNCHANGED <<store, db, group, home, users, keys, mem, todo, errno, txns>>

\* Mutant: no file is removed.
RemoveKeysStartNone ==
    /\ pc = "keys_modified"
    /\ todo = {}
    /\ pc' = "keys_deleted"
    /\ UNCHANGED <<store, os, users, keys, mem, result, todo, errno, bounds>>

RemoveKeysStart ==
    /\ pc = "keys_modified"
    /\ todo = {}
    /\ todo' = {p[1] : p \in keysDeleted}
    /\ pc' = "keys_deleted"
    /\ UNCHANGED <<store, os, users, keys, mem, result, errno, bounds>>

\* The keys of u to delete, those whose file is there (for root the code
\* looks below /home), and the key files after some are removed.
DeletedKeys(u) == {k \in Keys : <<u, k>> \in keysDeleted}
RemovableKeys(u) ==
    {k \in DeletedKeys(u) : u # Root /\ KeyFile(ssh[u], k) # NONE}
SshWithout(u, ks) ==
    IF ks = {} THEN ssh
    ELSE [ssh EXCEPT ![u] =
             [k \in Keys |-> IF k \in ks THEN NONE ELSE ssh[u][k]]]

\* remove() of the deleted keys of u, up to the first file that is not there.
RemoveKeys(u) ==
    /\ pc = "keys_deleted"
    /\ u \in todo
    /\ IF RemovableKeys(u) = DeletedKeys(u)
       THEN /\ ssh' = SshWithout(u, DeletedKeys(u))
            /\ todo' = todo \ {u}
            /\ UNCHANGED <<pc, result>>
       ELSE /\ \E ks \in SUBSET RemovableKeys(u) : ssh' = SshWithout(u, ks)
            /\ Failed
            /\ UNCHANGED todo
    /\ UNCHANGED <<store, db, group, home, users, keys, mem, errno, bounds>>

Applied ==
    /\ pc = "keys_deleted"
    /\ todo = {}
    /\ pc' = "out"
    /\ UNCHANGED <<store, os, users, keys, mem, result, todo, errno, bounds>>

----------------------------------------------------------------------------
(* A failing call leaves nothing but the steps before it: um_db_load,      *)
(* um_db_store, mkdir, rm, fopen, remove, the feature reload.              *)

CallFails ==
    /\ pc \notin {"idle", "out", "replied"}
    /\ Fault
    /\ Failed
    /\ UNCHANGED <<store, os, users, keys, mem, todo, errno, txns>>

\* Mutant: the list of loaded keys is not reset.
ReturnKeepsKeys ==
    /\ pc = "out"
    /\ created' = NoList /\ modified' = NoList /\ deleted' = {}
    /\ keysCreated' = NoList /\ keysDeleted' = {}
    /\ memdb' = NoList /\ memgroup' = {}
    /\ todo' = {}
    /\ pc' = "replied"
    /\ UNCHANGED <<store, os, keysModified, result, errno, bounds>>

\* out: the lists are freed and reset, the database copy is freed.
Return ==
    /\ pc = "out"
    /\ created' = NoList /\ modified' = NoList /\ deleted' = {}
    /\ keysCreated' = NoList /\ keysModified' = NoList /\ keysDeleted' = {}
    /\ memdb' = NoList /\ memgroup' = {}
    /\ todo' = {}
    /\ pc' = "replied"
    /\ UNCHANGED <<store, os, result, errno, bounds>>

\* sysrepo commits the transaction; the DONE event is a no-op.
Done ==
    /\ pc = "replied" /\ result = "ok"
    /\ running' = cand
    /\ pc' = "idle"
    /\ UNCHANGED <<cand, os, users, keys, mem, result, todo, errno, bounds>>

\* sysrepo drops the transaction after the callback failed.
Rejected ==
    /\ pc = "replied" /\ result = "failed"
    /\ cand' = running
    /\ pc' = "idle"
    /\ UNCHANGED <<running, os, users, keys, mem, result, todo, errno, bounds>>

\* Another subscriber failed: the ABORT event is answered with an error and
\* what was applied stays applied.
Aborted ==
    /\ pc = "replied" /\ result = "ok"
    /\ Fault
    /\ result' = "failed"
    /\ cand' = running
    /\ pc' = "idle"
    /\ UNCHANGED <<running, os, users, keys, mem, todo, errno, txns>>

\* The process dies inside the callback and is started again.
Crash ==
    /\ pc \notin {"idle", "replied"}
    /\ Fault
    /\ created' = NoList /\ modified' = NoList /\ deleted' = {}
    /\ keysCreated' = NoList /\ keysModified' = NoList /\ keysDeleted' = {}
    /\ memdb' = NoList /\ memgroup' = {}
    /\ todo' = {}
    /\ result' = "failed"
    /\ cand' = running
    /\ pc' = "idle"
    /\ errno' = "other"
    /\ UNCHANGED <<running, os, txns>>

----------------------------------------------------------------------------
Callback ==
    \/ LoadUser \/ LoadKeys
    \/ ChangeUserName \/ ChangeUserPassword
    \/ ChangeAuthorizedKeyName \/ ChangeAuthorizedKeyData
    \/ StoreUser
    \/ \E u \in Users : CreateHome(u)
    \/ ChangePasswords
    \/ \E u \in Users : DeleteUser(u)
    \/ \E e \in {"ENOENT", "other"} : StoreDb(e)
    \/ \E u \in Users : StoreKeysCreated(u)
    \/ StoreKeysModifiedStart
    \/ \E u \in Users : StoreKeysModified(u)
    \/ RemoveKeysStart
    \/ \E u \in Users : RemoveKeys(u)
    \/ Applied \/ Return \/ Done \/ Rejected

Environment ==
    \/ \E c \in Edits : Edit(c)
    \/ \E u \in Users : CreateHomeFault(u)
    \/ \E u \in Users : StoreKeysLost(u) \/ StoreKeysPartly(u)
    \/ CallFails \/ Aborted \/ Crash

Next == Callback \/ Environment

Spec == Init /\ [][Next]_vars

\* The thread that runs the callback keeps running.
FairSpec == Spec /\ WF_vars(Callback)
----------------------------------------------------------------------------
(* Properties.                                                             *)

Stages == {"idle", "load_user", "load_keys", "user_name", "user_password",
           "key_name", "key_data", "store_user", "create_home",
           "delete_users", "keys_created", "keys_modified", "keys_deleted",
           "out", "replied"}

\* Every variable of the callback and of the system has its type.
TypeOK ==
    /\ running \in Datastore /\ cand \in Datastore
    /\ db \in [Users -> DiskHashes \cup {NONE}]
    /\ group \in SUBSET Users
    /\ home \in SUBSET Users
    /\ ssh \in [Users -> KeyFiles \cup {NoDir}]
    /\ created \in [Users -> Passwords \cup {NONE}]
    /\ modified \in [Users -> Passwords \cup {Empty, NONE}]
    /\ deleted \in SUBSET Users
    /\ keysCreated \in [Users -> KeyLists \cup {NONE}]
    /\ keysModified \in [Users -> KeyLists \cup {NONE}]
    /\ keysDeleted \in SUBSET (Users \X Keys)
    /\ pc \in Stages
    /\ result \in {"ok", "failed"}
    /\ todo \in SUBSET Users
    /\ memdb \in [Users -> DiskHashes \cup {NONE}]
    /\ memgroup \in SUBSET Users
    /\ errno \in {"ENOENT", "other"}
    /\ txns \in 0..MaxTxns
    /\ faults \in 0..MaxFaults

\* Whatever way the last event ended, the six lists of ctx->temp_users are
\* NULL when the next CHANGE event arrives: the assertions at the start of
\* system_subscription_change_authentication_user hold, and no element of an
\* earlier transaction is applied by a later one.
ListsFreed ==
    pc \in {"idle", "load_user"} =>
        /\ created = NoList /\ modified = NoList /\ deleted = {}
        /\ keysCreated = NoList /\ keysModified = NoList /\ keysDeleted = {}

\* No sequence of transactions, failures and restarts removes root from the
\* user database: there is no /home/root, so rm -r stops the deletion before
\* the database in memory loses the entry, and nothing ever makes /home/root.
RootKept == db[Root] # NONE

\* When the callback answers a CHANGE event with success, the accounts are
\* what the new datastore content says: created users are in the database
\* with the configured password and have a home, changed passwords are in the
\* database, deleted users are gone with their home.  Created users are
\* written by system_authentication_store_user and the database is loaded
\* and written a second time for the others, so neither write may undo what
\* the other did.
CommittedAccountsApplied ==
    pc = "replied" /\ result = "ok" =>
        \A u \in Users :
            /\ UserCreated(u) => db[u] = DiskHash(cand[u].pw) /\ u \in home
            /\ PasswordChanged(u) /\ UserKept(u) => db[u] = DiskHash(cand[u].pw)
            /\ UserDeleted(u) => db[u] = NONE /\ u \notin home

\* The callback loads every user into the list of modified users and writes
\* the whole database back.  Still no step changes or removes the password,
\* the group or the home of a user whose account the transaction does not
\* mention, except that a locked account loses its "*" or "!".
UnmentionedAccountsKept ==
    [][\A u \in Users :
          pc # "idle" /\ ~ AccountMentioned(u) =>
             /\ db'[u] # db[u] => db[u] = Locked /\ db'[u] = Empty
             /\ u \in home' <=> u \in home
             /\ u \in group' <=> u \in group]_vars

\* The callback rewrites the key files of every user from what it loaded.  A
\* step that meets no failure leaves the file of a key the transaction does
\* not mention as it is, or cuts it to its first two words, so that the key
\* in it stays (and its comment, its options and its further lines do not).
\* A user other than root whose name starts with "root" gets the file of
\* /root/.ssh instead.  Files that are not loaded are left alone, and all of
\* root's own.
UnmentionedKeysKept ==
    [][\A u \in Users, k \in Keys :
          /\ pc # "idle" /\ faults' = faults
          /\ ~ UserDeleted(u)
          /\ OldKey(u, k) = NewKey(u, k)
          => \/ KeyFile(ssh'[u], k) = KeyFile(ssh[u], k)
             \/ /\ u # Root /\ k \in PubKeys
                /\ KeyFile(ssh'[u], k) = TwoWords(KeyFile(LoadDir(u), k))]_vars

\* When an event is about to be answered with success, the keys of the edit
\* are in their files: a modified key holds the new data, a created one too
\* unless a file of its name was loaded, whose old words are then written
\* over it, and a deleted key is gone.  A file whose data did not reach the
\* disk is the only other outcome.
CommittedKeysApplied ==
    pc = "out" /\ result = "ok" =>
        \A u \in Users \ {Root}, k \in Keys :
            /\ KeyModified(u, k) => KeyFile(ssh[u], k) \in {NewKey(u, k), Torn}
            /\ KeyCreated(u, k) =>
                  \/ KeyFile(ssh[u], k) \in {NewKey(u, k), Torn}
                  \/ keysModified[u] # NONE /\ keysModified[u][k] # NONE
            /\ KeyDeleted(u, k) => KeyFile(ssh[u], k) = NONE

\* A user of the database has a key file that does not hold two words.
TornFile == \E u \in In(db) : ~ UserCreated(u) /\ LoadKeysFails(u)

\* A key file that one event left without its data stops every later event
\* before it changes anything: half a key is never loaded, and the error of
\* the load leaves the system as it is.  Only the event that left the file
\* so, which is past its load, goes on.
TornFileStopsEvent ==
    [][TornFile /\ pc \notin {"keys_created", "keys_modified", "keys_deleted"}
          => UNCHANGED os]_vars

\* A CHANGE event is always answered: the loops over the lists end.
EventAnswered == pc = "load_user" ~> pc = "idle"

----------------------------------------------------------------------------
(* The accounts as items of a transaction.                                 *)

\* The password of an account, as the datastore shows it; NONE without one.
Account(c) == IF c = NONE THEN NONE ELSE c.pw
DiskAccount(h) == IF h \in {Locked, Empty} THEN NULL ELSE h

Accounting == INSTANCE Transaction WITH
    Items   <- Users,
    Values  <- Passwords \cup {NONE},
    running <- [u \in Users |-> Account(running[u])],
    cand    <- [u \in Users |-> Account(cand[u])],
    system  <- [u \in Users |-> DiskAccount(db[u])],
    pending <- pc # "idle"

\* The callback implements Transaction on the accounts: two writes of the
\* whole database, with the loops over homes and deleted users between them,
\* move only accounts that the edit changes, each straight to its new state,
\* and sysrepo commits only when all of them are there, whatever failed or
\* died before.  An account without password is one state, locked or not.
AccountTransactions == Accounting!Spec

----------------------------------------------------------------------------
(* What the documentation, the tests and the comments say.                 *)

\* "Deletion of any node is also supported." (tests/manual_tests.md): a
\* transaction that took a deleted user's account away without any call
\* failing is reported as a success, so that the datastore forgets the user.
DeletionReported ==
    pc = "replied" /\ faults = 0 =>
        \A u \in Users : UserDeleted(u) /\ db[u] = NONE => result = "ok"

\* "if the password has changed - store new value"
\* (core/api/system/authentication/change.c): the entry of a user whose
\* account the transaction does not mention is left as it is.
PasswordStoredOnlyIfChanged ==
    [][\A u \in Users :
          pc # "idle" /\ ~ AccountMentioned(u) => db'[u] = db[u]]_vars
=============================================================================
