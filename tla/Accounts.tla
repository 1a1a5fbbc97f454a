------------------------------ MODULE Accounts ------------------------------
(***************************************************************************)
(* The accounts of the operating system as the plugin sees them: passwd,   *)
(* shadow and group, /home and the .ssh directories, with what loading and *)
(* storing do to a value (core/api/system/authentication/{load,store}.c).  *)
(* LocalUsers and Startup run different code on this state.                *)
(*                                                                         *)
(* A list of the code is the set of its elements: the lists are iterated   *)
(* in the order of the passwd file or of the edit, which is any order.     *)
(* The algorithm and the data of an authorized key, the first two words of *)
(* its file, are one value (Blobs).                                        *)
(***************************************************************************)
EXTENDS Naturals

CONSTANTS Users,        \* user names
          Root,         \* the user "root": uid 0, home /root, never under /home
          RootPrefixed, \* the names that start with "root"
          Keys,         \* authorized-key names, which are file names
          PubKeys,      \* the key names that end in ".pub"
          Hashes,       \* crypt hashes a client can configure
          Blobs,        \* algorithm and key data of a key
          LongFiles,    \* key files with more than that: a comment, options,
                        \* further lines
          FirstWords,   \* the first two words of such a file
          NONE,         \* no entry: not in the list, no such user, no such file
          NULL,         \* an entry whose password pointer is NULL
          Locked,       \* the hash "*" or "!" of an account without password
          Empty,        \* the empty hash, what writing a NULL hash leaves
          Torn,         \* a key file that does not hold two words: it was
                        \* opened for writing and its data never arrived
          NoDir         \* the directory .ssh does not exist

Passwords == Hashes \cup {NULL}
KeyLists == [Keys -> Blobs \cup {NONE}]
Conf == [pw : Passwords, keys : KeyLists]
Datastore == [Users -> Conf \cup {NONE}]
DiskHashes == Hashes \cup {Locked, Empty}
Content == Blobs \cup LongFiles \cup {Torn}
KeyFiles == [Keys -> Content \cup {NONE}]

ASSUME AccountsAssumption ==
    /\ Root \in RootPrefixed
    /\ RootPrefixed \subseteq Users
    /\ PubKeys \subseteq Keys
    /\ NONE \notin Conf \cup Hashes \cup Content \cup {NULL, Locked, Empty, NoDir}
    /\ NONE \notin KeyFiles
    /\ NoDir \notin KeyFiles
    /\ NULL \notin DiskHashes
    /\ Locked \notin Hashes \cup {Empty}
    /\ Empty \notin Hashes
    /\ Torn \notin Blobs \cup LongFiles
    /\ FirstWords \in [LongFiles -> Blobs]
    /\ LongFiles \cap Blobs = {}

VARIABLES
    db,        \* passwd and shadow: user -> hash
    group,     \* users that have a group of their own name
    home,      \* users u whose directory /home/<u> exists
    ssh,       \* user -> files of the .ssh directory, or NoDir
    errno      \* of the thread that runs the plugin's code

os == <<db, group, home, ssh>>

----------------------------------------------------------------------------
(* What loading and storing do to a value.                                 *)

\* Mutant: locked hashes are loaded like any other.
LoadedPasswordUnfiltered(h) == h

\* The password of a loaded user: "*" and "!" are left NULL.
LoadedPassword(h) == IF h = Locked THEN NULL ELSE h

\* Mutant: a password that is not set is written as it is.
DiskHashUnchecked(p) == p

\* The shadow entry written for a password.
DiskHash(p) == IF p = NULL THEN Empty ELSE p

\* The directory read for the keys of u: every name that starts with "root"
\* reads /root/.ssh.
LoadDir(u) == IF u \in RootPrefixed THEN ssh[Root] ELSE ssh[u]

\* The file k of a .ssh directory.
KeyFile(dir, k) == IF dir = NoDir THEN NONE ELSE dir[k]

\* fscanf("%s %s"): what follows the second word is not read.
TwoWords(c) == IF c \in LongFiles THEN FirstWords[c] ELSE c

\* The keys found there: files that end in ".pub".
LoadedKeys(u) ==
    [k \in Keys |-> IF k \in PubKeys THEN TwoWords(KeyFile(LoadDir(u), k))
                    ELSE NONE]

\* fscanf() does not find two words in one of them.
LoadKeysFails(u) == \E k \in Keys : LoadedKeys(u)[k] = Torn

NoKeys == [k \in Keys |-> NONE]
NoList == [u \in Users |-> NONE]

\* Members of a list that maps user names to elements.
In(list) == {u \in Users : list[u] # NONE}

\* Mutant: the directory is emptied before its files are written.
WrittenAfresh(dir, list, lost) ==
    [k \in Keys |-> IF k \in lost THEN Torn ELSE list[k]]

\* The directory after the files of the list are written, with two words
\* each: the rest of a file that was loaded is gone.  The files in `lost'
\* were opened for writing, which empties them, and no more.
Written(dir, list, lost) ==
    [k \in Keys |-> IF list[k] = NONE THEN KeyFile(dir, k)
                    ELSE IF k \in lost THEN Torn ELSE list[k]]

\* The first files of a list.
Part(list, ks) == [k \in Keys |-> IF k \in ks THEN list[k] ELSE NONE]

\* mkdir() is called whenever errno, e, is ENOENT, also if opendir() succeeded
\* and left an old errno; it fails on an existing directory and below a home
\* that does not exist.
MkdirFails(u, e) ==
    IF ssh[u] = NoDir THEN u \notin home ELSE e = "ENOENT"

=============================================================================
