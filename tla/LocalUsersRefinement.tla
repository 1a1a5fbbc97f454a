------------------------ MODULE LocalUsersRefinement ------------------------
(***************************************************************************)
(* The callback for local users implements Transaction on the accounts,    *)
(* for every set of users, keys, hashes and edits and every number of      *)
(* transactions and failures.                                              *)
(***************************************************************************)
EXTENDS LocalUsersProofs

USE DEF store, os, users, keys, mem, bounds, Accounting!vars

\* A step that leaves the datastore and the stage alone, and changes the
\* database only where the account stays the same, is a stuttering step.
LEMMA Stutter ==
  ASSUME UNCHANGED <<running, cand>>, pc' = "idle" <=> pc = "idle",
         \A u \in Users : DiskAccount(db'[u]) = DiskAccount(db[u])
  PROVE  UNCHANGED Accounting!vars
  BY DEF DiskAccount, Account

\* A password, and what is written to the shadow file for it, are the same
\* account; so are a loaded hash and the one on disk.
LEMMA SameAccount ==
  /\ \A p \in Passwords : DiskAccount(DiskHash(p)) = p
  /\ \A h \in Hashes \cup {Locked} : DiskAccount(h) = LoadedPassword(h)
  /\ DiskAccount(NONE) = NONE
  /\ DiskAccount(Locked) = DiskAccount(Empty)
  BY AccountsAssumption
     DEF DiskAccount, DiskHash, LoadedPassword, Passwords, DiskHashes

\* The accounts that differ between the two contents are those the callback
\* creates, deletes or gives a new password.
LEMMA ChangedAccounts ==
  ASSUME TypeOK, NEW u \in Users
  PROVE  Account(running[u]) # Account(cand[u])
           <=> UserCreated(u) \/ UserDeleted(u) \/ NewPassword(u)
  <1>1. /\ running[u] # NONE => running[u].pw \in Passwords
        /\ cand[u] # NONE => cand[u].pw \in Passwords
    BY DEF TypeOK, Datastore, Conf
  <1>2. QED
    BY <1>1, HashFacts
       DEF Account, UserCreated, UserDeleted, UserKept, NewPassword,
           PasswordChanged, PasswordCreated, PasswordModified, PasswordDeleted

\* An account that was applied is what the new content says.
LEMMA AppliedAccount ==
  ASSUME TypeOK, NEW u \in Users, AccountApplied(u),
         UserCreated(u) \/ UserDeleted(u) \/ NewPassword(u)
  PROVE  DiskAccount(db[u]) = Account(cand[u])
  BY SameAccount, CandPassword, EditCases DEF AccountApplied, Account, UserDeleted

\* The datastore contents are well typed as contents of the transaction.
LEMMA AccountType ==
  ASSUME NEW c \in Datastore
  PROVE  [u \in Users |-> Account(c[u])] \in [Users -> Passwords \cup {NONE}]
  BY DEF Account, Datastore, Conf

\* The plugin starts from what it loaded: system and datastore agree.
LEMMA InitRefines == Init => Accounting!Init
  <1> SUFFICES ASSUME Init PROVE Accounting!Init
    OBVIOUS
  <1>1. running \in Datastore
    BY InitTypeOK DEF TypeOK
  <1>2. ASSUME NEW u \in Users PROVE DiskAccount(db[u]) = Account(running[u])
    <2>1. CASE db[u] = NONE
      BY <2>1, SameAccount DEF Init, Account
    <2>2. CASE db[u] # NONE
      <3>1. db[u] \in Hashes \cup {Locked}
        BY <2>2 DEF Init
      <3>2. running[u] \in Conf /\ running[u].pw = LoadedPassword(db[u])
        <4>1. running[u] = [pw |-> LoadedPassword(db[u]), keys |-> LoadedKeys(u)]
          BY <2>2 DEF Init
        <4>2. LoadedKeys(u) \in KeyLists
          <5>1. ASSUME NEW k \in Keys
                PROVE  KeyFile(LoadDir(u), k) \in Blobs \cup LongFiles \cup {NONE}
            BY AccountsAssumption DEF Init, LoadDir, KeyFile
          <5>2. ASSUME NEW k \in Keys
                PROVE  TwoWords(KeyFile(LoadDir(u), k)) \in Blobs \cup {NONE}
            BY <5>1, AccountsAssumption DEF TwoWords
          <5>3. QED
            BY <5>2 DEF LoadedKeys, KeyLists
        <4>3. LoadedPassword(db[u]) \in Passwords
          BY <3>1 DEF LoadedPassword, Passwords
        <4>4. QED
          BY <4>1, <4>2, <4>3 DEF Conf
      <3>3. QED
        BY <3>1, <3>2, SameAccount, AccountsAssumption DEF Account
    <2>3. QED
      BY <2>1, <2>2
  <1>3. QED
    BY <1>1, <1>2, AccountType DEF Init, Accounting!Init

\* A write of the database: the accounts in S get their new state, the others
\* keep theirs.
LEMMA WriteRefines ==
  ASSUME TypeOK, UNCHANGED <<running, cand>>, pc # "idle", pc' # "idle",
         NEW S \in SUBSET Users,
         \A u \in S : UserCreated(u) \/ UserDeleted(u) \/ NewPassword(u),
         \A u \in S : DiskAccount(db'[u]) = Account(cand[u]),
         \A u \in Users \ S : DiskAccount(db'[u]) = DiskAccount(db[u])
  PROVE  Accounting!Next
  <1>1. S \in SUBSET Accounting!Changed
    BY ChangedAccounts DEF Accounting!Changed
  <1>2. Accounting!Apply(S)
    BY DEF Accounting!Apply, Account, DiskAccount
  <1>3. QED
    BY <1>1, <1>2 DEF Accounting!Next

\* Every step of the callback, of a client and of a failure is a step of the
\* transaction on the accounts, or none.
LEMMA NextRefines ==
  IInv /\ IInv' /\ [Next]_vars => [Accounting!Next]_(Accounting!vars)
  <1> SUFFICES ASSUME IInv, IInv', [Next]_vars
               PROVE  Accounting!Next \/ UNCHANGED Accounting!vars
    OBVIOUS
  <1> USE DEF Failed
  <1>t. TypeOK /\ TypeOK'
    BY DEF IInv
  <1>1. ASSUME NEW c \in Edits, Edit(c) PROVE Accounting!Next
    <2>1. cand' \in Datastore
      BY <1>t DEF TypeOK
    <2>2. [u \in Users |-> Account(cand'[u])] \in [Users -> Passwords \cup {NONE}]
      BY <2>1, AccountType
    <2>3. Accounting!Begin
      BY <1>1, <2>2 DEF Edit, Accounting!Begin, Account, DiskAccount
    <2>4. QED
      BY <2>3 DEF Accounting!Next
  <1>2. CASE StoreUser
    <2>1. CASE \E u \in In(created) : db[u] # NONE
      BY <1>2, <2>1, Stutter DEF StoreUser
    <2>2. CASE ~ \E u \in In(created) : db[u] # NONE
      <3>1. /\ pc = "store_user" /\ pc' = "create_home"
            /\ UNCHANGED <<running, cand>>
            /\ db' = [u \in Users |-> IF created[u] = NONE THEN db[u]
                                      ELSE DiskHash(created[u])]
        BY <1>2, <2>2 DEF StoreUser
      <3>2. ASSUME NEW u \in Users
            PROVE  created[u] = IF UserCreated(u) THEN cand[u].pw ELSE NONE
        BY <3>1 DEF IInv, AccountInv, ListsInv
      <3>3. ASSUME NEW u \in In(created)
            PROVE  UserCreated(u) /\ DiskAccount(db'[u]) = Account(cand[u])
        <4>1. u \in Users /\ created[u] # NONE
          BY DEF In
        <4>2. UserCreated(u) /\ created[u] = cand[u].pw /\ cand[u] # NONE
          BY <3>2, <4>1, EditCases
        <4>3. QED
          BY <1>t, <3>1, <4>1, <4>2, SameAccount, CandPassword DEF Account
      <3>4. ASSUME NEW u \in Users \ In(created)
            PROVE  DiskAccount(db'[u]) = DiskAccount(db[u])
        BY <3>1 DEF In
      <3>5. In(created) \in SUBSET Users
        BY DEF In
      <3>6. QED
        BY <1>t, <3>1, <3>3, <3>4, <3>5, WriteRefines
    <2>3. QED
      BY <2>1, <2>2
  <1>3. ASSUME NEW e \in {"ENOENT", "other"}, StoreDb(e) PROVE Accounting!Next
    <2>1. /\ pc = "delete_users" /\ pc' = "keys_created"
          /\ UNCHANGED <<running, cand>>
      BY <1>3 DEF StoreDb
    <2> DEFINE S == {u \in Users : UserCreated(u) \/ UserDeleted(u) \/ NewPassword(u)}
    <2>2. ASSUME NEW u \in S PROVE DiskAccount(db'[u]) = Account(cand[u])
      <3>1. AccountApplied(u)'
        BY <2>1 DEF IInv, AccountInv, AppliedInv
      <3>2. (UserCreated(u) \/ UserDeleted(u) \/ NewPassword(u))'
        BY <2>1, SameEdit
      <3>3. (DiskAccount(db[u]) = Account(cand[u]))'
        BY <1>t, <2>1, <3>1, <3>2, SameAccount, CandPassword, EditCases, SameEdit
           DEF AccountApplied, Account, UserDeleted, DiskAccount, DiskHash
      <3>4. QED
        BY <2>1, <3>3 DEF Account, DiskAccount
    <2>3. ASSUME NEW u \in Users \ S
          PROVE  DiskAccount(db'[u]) = DiskAccount(db[u])
      <3>1. ~ AccountMentioned(u)
        BY DEF AccountMentioned, NewPassword, UserCreated, UserDeleted, UserKept,
               PasswordChanged, PasswordCreated, PasswordModified, PasswordDeleted
      <3>2. memdb[u] = db[u] \/ (db[u] = Locked /\ memdb[u] = Empty)
        BY <2>1, <3>1 DEF IInv, AccountInv, CopyInv
      <3>3. db' = memdb \/ db' = db
        BY <1>3 DEF StoreDb
      <3>4. QED
        BY <3>2, <3>3, SameAccount
    <2>4. QED
      BY <1>t, <2>1, <2>2, <2>3, WriteRefines
  <1>4. CASE Done
    <2>1. \A u \in Users : AccountApplied(u)
      BY <1>4 DEF Done, IInv, AccountInv, AppliedInv
    <2>2. \A u \in Accounting!Changed : DiskAccount(db[u]) = Account(cand[u])
      BY <1>t, <2>1, ChangedAccounts, AppliedAccount DEF Accounting!Changed
    <2>3. Accounting!Changed \subseteq Users
      BY DEF Accounting!Changed
    <2>4. Accounting!Commit
      BY <1>4, <2>2, <2>3 DEF Done, Accounting!Commit, Account, DiskAccount
    <2>5. QED
      BY <2>4 DEF Accounting!Next
  <1>5. CASE Rejected \/ Aborted \/ Crash
    <2>1. pc # "idle" /\ pc' = "idle" /\ cand' = running /\ UNCHANGED <<running, db>>
      BY <1>5 DEF Rejected, Aborted, Crash
    <2>2. Accounting!Drop
      BY <2>1 DEF Accounting!Drop, Account, DiskAccount
    <2>3. QED
      BY <2>2 DEF Accounting!Next
  <1>6. CASE LoadUser \/ LoadKeys \/ ChangeUserName \/ ChangeUserPassword
             \/ ChangeAuthorizedKeyName \/ ChangeAuthorizedKeyData
             \/ ChangePasswords \/ StoreKeysModifiedStart \/ RemoveKeysStart
             \/ Applied \/ Return \/ CallFails
    BY <1>6, Stutter
       DEF LoadUser, LoadKeys, ChangeUserName, ChangeUserPassword,
           ChangeAuthorizedKeyName, ChangeAuthorizedKeyData, ChangePasswords,
           StoreKeysModifiedStart, RemoveKeysStart, Applied, Return, CallFails
  <1>7. ASSUME NEW u \in Users,
               \/ CreateHome(u) \/ CreateHomeFault(u) \/ DeleteUser(u)
               \/ StoreKeysCreated(u) \/ StoreKeysModified(u)
               \/ StoreKeysLost(u) \/ StoreKeysPartly(u) \/ RemoveKeys(u)
        PROVE  UNCHANGED Accounting!vars
    <2>1. /\ UNCHANGED <<running, cand, db>>
          /\ pc # "idle" /\ pc' # "idle"
      BY <1>7 DEF CreateHome, CreateHomeFault, DeleteUser, StoreKeysCreated,
           StoreKeysModified, StoreKeysLost, StoreKeysPartly, StoreAuthorizedKey,
           RemoveKeys
    <2>2. QED
      BY <2>1, Stutter
  <1>8. CASE UNCHANGED vars
    BY <1>8, Stutter DEF vars
  <1>9. QED
    BY <1>1, <1>2, <1>3, <1>4, <1>5, <1>6, <1>7, <1>8
       DEF Next, Callback, Environment

\* Spec implements the abstract transaction.
THEOREM AccountsRefineTransaction == Spec => AccountTransactions
  BY InitRefines, NextRefines, Invariance, PTL
     DEF Spec, AccountTransactions, Accounting!Spec
=============================================================================
