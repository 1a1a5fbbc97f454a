---------------------------- MODULE MCLocalUsers ----------------------------
(***************************************************************************)
(* Instances of LocalUsers for TLC.                                        *)
(***************************************************************************)
EXTENDS LocalUsers, TLC

\* Edits give root a password or remove it from the datastore, and give the
\* other users any configuration.  The keys of root are never edited here.
RootEdits == {c \in [Users -> Conf \cup {NONE}] :
                 c[Root] = NONE \/ (c[Root].keys = NoKeys /\ c[Root].pw # NULL)}

\* Edits of the other users and of the loaded keys of root.  The names that
\* start with "root" all read the keys of root, and keep or lose them together.
UserEdits == {c \in [Users -> Conf \cup {NONE}] :
                 /\ c[Root] # NONE /\ c[Root].pw # NULL
                 /\ \A k \in Keys \ PubKeys : c[Root].keys[k] = NONE
                 /\ \A u \in RootPrefixed, k \in PubKeys :
                       c[u] # NONE => c[u].keys[k] = c[Root].keys[k]}

\* Initial systems in which root has a password, its own group and no keys.
RootInit ==
    /\ Init
    /\ db[Root] \in Hashes
    /\ Root \in group
    /\ ssh[Root] \in {NoDir, NoKeys}

\* Every account has its own group; the users whose names do not start with
\* "root" have any files, root long ones, and only .pub files are long.
PlainInit ==
    /\ Init
    /\ db[Root] \in Hashes
    /\ group = In(db)
    /\ ssh[Root] # NoDir
    /\ \A k \in Keys \ PubKeys : ssh[Root][k] = NONE
    /\ \A k \in PubKeys : ssh[Root][k] \in LongFiles \cup {NONE}
    /\ \A u \in Users, k \in Keys \ PubKeys : KeyFile(ssh[u], k) \notin LongFiles
    /\ \A u \in RootPrefixed \ {Root} : ssh[u] \in {NoDir, NoKeys}

TransactionsSpec == RootInit /\ [][Next]_vars
PlainSpec == PlainInit /\ [][Next]_vars /\ WF_vars(Callback)
LiveSpec == RootInit /\ [][Next]_vars /\ WF_vars(Callback)

\* All long files hold the same key.
MCFirstWords == [c \in LongFiles |-> CHOOSE b \in Blobs : TRUE]

HashesAndBlobs == Permutations(Hashes) \cup Permutations(Blobs)
=============================================================================
