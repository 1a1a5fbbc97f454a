# Verification of the ietf-system plugin

TLA+ models of `sysrepo-plugin-system`, the sysrepo plugin that implements the
YANG module `ietf-system`, with TLC runs on small instances and TLAPS proofs for
all instances.  Paths are relative to the repository; `core` is `src/core`.

## 1. The system

A plugin process connects to sysrepo, synchronises the datastore and the system
once, and then reacts to events.  A client commits an edit of the running
datastore; sysrepo delivers a CHANGE event to every subscriber of a changed
subtree, in the order of the subscriptions of each process.  When all callbacks
succeed, the edit is committed (DONE).  When one fails, the edit is dropped and
the subscribers that had succeeded get an ABORT event.  No callback of this plugin
undoes anything on ABORT.

| component | state | operations | modelled in |
|---|---|---|---|
| local users: `core/api/system/authentication`, `core/data/system/authentication` | six lists in `ctx->temp_users`; passwd, shadow, group; `/home`; `.ssh` | load users and keys, iterate five leaves, apply | `Accounts`, `LocalUsers`; promise: `Transaction` |
| dns-resolver: `core/api/system/dns_resolver`, `core/data/system/dns_resolver`, `ip_address.c` | `temp_dns_search`, `temp_dns_servers`; domains and servers of each link in systemd-resolved | load all links, iterate, write one link | `Resolver`, `DnsResolver` |
| ntp: `core/api/system/ntp`, `core/data/system/ntp` | `temp_ntp_servers`; `/etc/ntp.conf`; the service | load file, iterate, delete all entries, merge list; systemctl | `Ntp` |
| hostname, timezone-name: `core/api/system/{change,store,load,check}.c` | host name, `/etc/localtime` | set name; unlink and symlink | `Timezone`, `Plugins`, `Startup` |
| startup synchronisation, main plugin: `plugins/ietf-system/datastore/running`, `check.c` of users and resolver | compares startup data with the system | load into running, or check and store | `Startup` |
| startup synchronisation, augeas plugin: `plugins/ietf-system-augeas/datastore/running`, `ntp/check.c` | the same for hostname and ntp | the same | `Plugins` |
| lifecycle: `main.c`, `plugins/*/plugin.c` | context, sessions, subscriptions of two processes | init, subscribe, cleanup, disconnect | `Plugins` |
| contact, location, utc-offset, timeout, attempts, authentication order | none | callbacks without effect | not modelled |
| rpc, operational data, `ly_tree.c` | none | one system call; formatting; node creation | not modelled |
| `core/startup` | none | older copy of the startup code, called by no plugin | not modelled |

What is hard here:

* *Partial failure.*  One event is a chain of ten to twenty calls that change
  files, D-Bus services and databases.  Any of them may fail, the process may
  die between two of them, another subscriber may fail afterwards.  Nothing is
  rolled back, and the next event starts from what is there.
* *Load, edit, write everything back.*  Each callback loads all of its subsystem,
  edits the list, and writes all of it.  What the edit does not mention must
  survive that, and what was loaded early may be stale when it is written.
* *Two processes.*  The main plugin and the augeas plugin subscribe to the same
  hostname and ntp nodes and run the same callbacks on the same files; the load
  of one at its start is a transaction the other is asked about.
* *Interrupted starts.*  A start stores the startup datastore by many calls and
  undoes none.  The next start decides by counting which values are there.
* *Lists that outlive the event.*  The lists are fields of the context; an
  assertion at the start of each callback says that the last event freed them.

Two preprocessor symbols matter, and no build file of the repository defines either.

* `SYSTEMD` (not `SYSTEMD_IFINDEX`, which the main plugin's CMakeLists does define):
  the loads and stores of the resolver and the conversions of addresses are the code
  under `#ifdef SYSTEMD`.  That code is what `Resolver`, `DnsResolver` and the
  resolver part of `Startup` model, since it is all the resolver code there is.  A
  build without the symbol loads and stores nothing there, and its parser of
  addresses leaves the address unset.
* `AUGYANG`: the write of `/etc/hostname` in `system_store_hostname` is under it.  It
  is not modelled; the test `tests/manual_tests.md` 83-110 shows the static hostname
  unchanged.  A build with it would not compile: `core/startup/load.c` then names
  `system_startup_load_ntp`, which is declared nowhere.

`PROJECT.json` lists each hazard with its line and the properties about it.

## 2. Modules

Each module describes one family of callbacks: datastore, the part of the
operating system it changes, the lists of the context and a program counter.
One action is one call, or one iteration of a loop, after which a failure or a
crash is observable.  `Fault` counts the failures of the environment (bound
`MaxFaults`), `MaxTxns` bounds the transactions.  Actions a fault triggers are
never fair.

```
Accounts ---+--> LocalUsers --> LocalUsersProofs --> LocalUsersRefinement
            |        |                                    |
            |        +---- INSTANCE Transaction <---------+
            +--> Startup <--+-- Timezone --> Plugins --> PluginsProofs
Resolver ---+       |
            |       +--> StartupProofs --> StartupRestart
            +--> DnsResolver --> DnsResolverProofs
                                          Ntp --> NtpProofs
```

`Accounts`, `Resolver` and `Timezone` are the parts of the operating system that
more than one component works on, with what loading and storing do to a value;
the arrows are EXTENDS.

### Accounts and LocalUsers

`system_subscription_change_authentication_user` from the assertion to the
answer.  `running` and `cand` are the datastore and what the pending edit would
make of it; the change iterator is the difference of the two (`UserCreated`,
`PasswordModified`, `KeyDeleted`, ...).  `db`, `group`, `home` and `ssh` are the
system; `memdb` and `memgroup` the database in memory between `um_db_load` and
`um_db_store`.

| action | code |
|---|---|
| `Edit` | CHANGE event, `change.c` 580-599 |
| `LoadUser`, `LoadKeys` | `load.c`: users to `temp_users.modified` and once more, with keys, to `temp_users.keys.modified` |
| `ChangeUserName` ... `ChangeAuthorizedKeyData` | the iterations, one per leaf (algorithm and key data are one value) |
| `StoreUser`, `CreateHome`, `CreateHomeFault` | `system_authentication_store_user` |
| `ChangePasswords`, `DeleteUser`, `StoreDb` | the second load, the loops over modified and deleted users, the second store |
| `StoreKeysCreated`, `StoreKeysModified`, `RemoveKeys` | key files |
| `StoreKeysLost`, `StoreKeysPartly` | data that does not reach the disk; a failing call or a death between two key files |
| `Return`, `Done`, `Rejected`, `Aborted`, `Crash`, `CallFails` | the ends of an event |

Modelled as the code has it: `errno` is looked at although `opendir` may have
succeeded, so its old value decides whether `mkdir` is called (`StoreDb` leaves
any value); a name that starts with "root" loads `/root/.ssh`; a locked hash is
loaded as NULL and a NULL hash is written as the empty one; the result of
`fclose` is ignored, and a torn key file makes the next load fail.  A key file is
read with `fscanf("%s %s")` and written back with two words, so it is not loaded as
it is: `LongFiles` are files with a comment, options or further lines, `TwoWords` is
what the load sees of them, and every transaction cuts the `.pub` files of all loaded
users but root to that.  `Torn` is a file without two words; a key cut short that still has
two is not represented, since the code cannot tell it from another key.  Users are
those with uid 0 or 1000 to 65533, the only ones the code loads.

A deletion that reaches the system never returns success (section 6), so the
conjunct about deleted users in `CommittedAccountsApplied` holds because such a
success does not occur; the other two conjuncts do the work.

### Resolver and DnsResolver

The callbacks for `search` and `server`, in the order of their subscriptions.
List elements are pairs of origin and value, because the same value may come
from two links.  `FromStr` and `ToStrFails` are the two address conversions:
every parsed address is sent as IPv4, and no IPv6 address can be printed.
`LinkChanged` is any other client of resolved.

### Ntp

The callbacks for `enabled` and `server`, in each process of `Procs`.  The file
is the sequence of its server, pool and peer entries.  The name of a loaded
element is address and port, and elements are found by address (`Find`).  Only the
options that changed are set (`WithOptions`), in one step for each server where the
code has one loop for each option.  The
callback for `enabled` always fails, so one transaction never reaches both
callbacks of a process.  A process that compares an unset association type is
`dead`; one that is not installed or not started is `down`.  The features `ntp`
and `ntp-udp-port` are on.

### Transaction

What a plugin owes to a transaction when it never undoes anything: while one is
pending the items it changes move, in any order and number, straight to their
new value and nothing else moves; it is committed only when all have arrived and
may be dropped at any time, leaving those that have.  `LocalUsers` implements it
(`AccountTransactions`) with the accounts as items.  The mapping takes the
password of an account as its value, so that the locked, the empty and the
missing hash are one (the loss of a lock is a finding of its own, section 6).

### Timezone and Startup

`Startup` is `sr_plugin_init_cb` of the main plugin, again and again on the same
machine.  `startup` and `running` are the datastores, `hostname` says whether the
former has a hostname, which is all the emptiness check asks; `want` is the
subtree that was read.

| action | code |
|---|---|
| `Start`, `CheckEmpty`, `Subscribe`, `Stop` | `plugin.c` 41-272, `main.c` |
| `Load` | `running/load.c`: everything is loaded, then merged in one transaction |
| `Read`, `StoreTimezone`, `LinkTimezone` | `running/store.c` 68-230, `store.c` 74-113 |
| `StoreSearch`, `StoreServer` | `running/store.c` 232-456 and the checks, which count (`Status`) |
| `StoreUser`, `CreateHome`, `HomesDone`, `StoreKeys`, `KeysDone` | `running/store.c` 458-692 |
| `Dies`, `DiesInHome`, `DiesInKeys`, `KeysLost` | a call that fails, the death of the process, a lost write |
| `Save` | a client saves the running datastore as the startup one |

As the code has it: a list found in part is left as it is, except that missing
users are added; servers are found by their name, and the name of a loaded one is
its address; the keys of a user are looked for where `LoadDir` says and written to
the user's own directory; root's keys are never written; an account whose uid the
load leaves out is not listed and makes the store fail; the errno the store of the
keys looks at is the one the check left; an error of the check of the timezone is
swallowed while an error of its store is not.

### Plugins

Both processes, from `main()` to `sr_disconnect()`, on the leaves that they share
or handle in one piece: hostname, timezone-name, ntp servers.  `Begin` is the
delivery of an event: every subscriber of a changed leaf gets a call, and a
process runs its calls one after the other, in the order of its subscriptions
(`calls`: those still to run; `step`: how far the first of them is).  The load of a start
is a transaction too (`Merge`), with the process as its `owner`.  Clients commit
edits at any time, also between two subscriptions.  `missed` and `heard` are
history: leaves for which the system need not be what the datastore says, because
nobody was told of the edit, because the edit was refused halfway, or because a
start stored the startup datastore meanwhile.  A callback that runs while the
context is freed may go on or die (`UseAfterFree`).  The ntp callbacks always end
in an error (`ChangeNtp`, from `Ntp`).  The augeas plugin loads a container `ntp`
also when the file has no servers, and that alone makes the main plugin's callback
refuse the load.  Its check of the hostname may fail, which `return 0` hides
(`CheckHostnameFails`).

The `MC` modules hold the instances: sets of edits, restrictions of the initial
states, symmetries, the specifications of the runs.

## 3. Properties and runs

| run | instance | checks |
|---|---|---|
| `LocalUsers` | root and one user, one key, two hashes, key files with either of two contents, torn or missing, two transactions, one fault | `TypeOK`, `ListsFreed`, `RootKept`, `CommittedAccountsApplied`, `CommittedKeysApplied`, `UnmentionedAccountsKept`, `TornFileStopsEvent`, `AccountTransactions` |
| `LocalUsersTwo` | root, one user, one user named root..., a `.pub` key and another, a long key file, one transaction, one fault | `CommittedAccountsApplied`, `CommittedKeysApplied`, `UnmentionedKeysKept`, `EventAnswered` |
| `DnsResolver` | two links, two domains, two IPv4 and one IPv6 address, two names, two transactions, each on domains or servers, one fault | `TypeOK`, `ListsFreed`, `AcceptedApplied`, `UnmentionedKept`, `StoredServersLoadable`, `EventAnswered` |
| `Ntp` | two processes or one of them, two names, two addresses, a port, all options, two transactions, one fault | `TypeOK`, `ListFreed`, `ServersKept`, `ServiceConsistent`, `EventAnswered` |
| `Startup` | root, one user, one named root..., two keys, two links, three zones, three starts, one fault | `TypeOK`, `AccountsStored`, `ResolverStored`, `TimezoneStored`, `OnlyAdds`, `RestartKeepsSystem`, `StartEnds` |
| `Plugins` | both processes, a host name and "none", four zones (one not installed, one the empty name), `/etc/localtime` a link or a file, one ntp server, two edits, one fault | `TypeOK`, `HostnameFollows`, `TimezoneFollows`, `MainNeverRefused`, `Progress` |
| `LocalUsersDelete`, `LocalUsersLocked`, `NtpAccepted`, `NtpAssociation`, `NtpPairLost`, `StartupTimezone` | smaller bounds | one statement of the documentation, tests, comments or assertions each; violated (section 6) |

The safety properties in words: the lists are gone when the next event comes,
however the last one ended; root stays; a
success means that the accounts, keys, domains and servers of the edit are on the
system; what the edit does not mention is as it was, although everything is
rewritten (ntp entries: when one plugin is started, section 6 has the other case;
key files: but for what follows their second word); a torn key file stops the next
event before it changes anything; what the plugin writes it can load; a plugin that is up has brought
the startup data to the system as far as its checks go, whatever earlier starts
left; a start adds and never takes away, and one after a complete start changes
nothing; a committed hostname or zone is the kernel's name or the link, unless nobody
heard of the edit, it was refused or a start stored another value (`missed`).  Each property has a mutant in
`PROJECT.json`: a plausible mistake in one definition that violates it.

*Bounds.*  Two transactions and one fault are the smallest bounds at which a
transaction starts from the remains of a failed one, which is where all the
known defects show.  Two users beside root let two elements be in one loop in
either order; in that run every account has its own group, root's account stays and its loaded
keys are kept or deleted, and the ordinary user has any key files and gets any
edit.  Two links and two names let an element be found that belongs to
another link or entry; two processes are the two plugins.
Three starts are one that dies, one that completes what it left and one that must
find nothing to do; accounts, resolver and timezone are varied one at a time there,
because a start treats them one after the other.  Hashes, key contents,
names and domains are interchangeable where symmetry is declared, and no
liveness property is checked under symmetry.  `CHECK_DEADLOCK FALSE` is set
because the bounded system stops after its last transaction.

*Fairness.*  `WF_vars(Callback)`, `WF_vars(Step)`, and per process
`WF_vars(Step(p))`: the thread that runs the start or a callback keeps running it;
the only wait is for the answer to the process's own transaction, which sysrepo
gives once all callbacks have answered or died (`WF_vars(Commit \/ Reject)`: it
waits with a timeout and looks after dead processes).  Nothing is assumed of clients, failures or restarts.

## 4. Proofs

`LocalUsersProofs` proves the invariants of the runs on local users and their action
properties for every set of users, keys, hashes and edits and every bound, from
`AccountsAssumption` and the assumption on edits and bounds (the special values differ from ordinary ones, root is a
user) alone.

| theorem | property |
|---|---|
| `TypeCorrect` | `TypeOK` |
| `ListsAlwaysFreed` | `ListsFreed` |
| `RootAlwaysKept` | `RootKept` |
| `CommitsApplied` | `CommittedAccountsApplied` |
| `UnmentionedKept` | `UnmentionedAccountsKept` |
| `KeysAlwaysKept` | `UnmentionedKeysKept` |
| `KeysCommitted` | `CommittedKeysApplied` |
| `TornFilesStopEvents` | `TornFileStopsEvent` |
| `AccountsRefineTransaction` (`LocalUsersRefinement`) | `AccountTransactions` |

None of these is inductive.  The inductive invariant `IInv`
adds what the callback knows at each stage: the loop variable holds only
elements of its list (`TodoListed`); until the first write the list of modified
users is the database as loaded, with the passwords of the edit put in
(`LoadedInv`, `NamesInv`, `ListsInv`); created users get a home before the second
load (`HomesInv`); the copy in memory is the database on disk but for changed
passwords and deleted users (`CopyInv`); after the second store the accounts are
those of the edit (`AppliedInv`); root is in the copy and never has a home under
`/home` (`RootInv`).  `CopyInv` is the heart: with it neither of the two writes
of the database can undo the other.  Each part has one step per action.

The refinement follows from `IInv`: `StoreUser` and `StoreDb` are the steps that
write the database, and `ListsInv` and `CopyInv` say that they move exactly the
accounts that differ between `running` and `cand`, to their new value (`Apply`);
`AppliedInv` gives the guard of `Commit`; a refusal, an abort and a crash are
`Drop`; every other step stutters.

`StartupProofs` proves the invariants of the run `Startup` and `OnlyAdds` for
every system, every startup datastore and every number of starts, deaths and
lost writes, from the assumptions of `Accounts`, `Resolver`, `Timezone` and
`StartupAssumption` (an address has a name of its own, NONE is no value).

| theorem | property |
|---|---|
| `TypeCorrect` | `TypeOK` |
| `AccountsAlwaysStored` | `AccountsStored` |
| `ResolverAlwaysStored` | `ResolverStored` |
| `TimezoneAlwaysStored` | `TimezoneStored` |
| `StartsOnlyAdd` | `OnlyAdds` |

The properties speak of a plugin that is up, so none is inductive.  `IInv` adds
what a start knows at each stage: a subtree is there while it is stored, a zone
about to be linked is installed, and the loop over the keys runs over users of
the subtree (`WantInv`, which the types need too); the result of a stage holds
from its end on and no later stage disturbs it (`ZoneInv`, `SearchInv`,
`ServerInv`, `UsersInv`); the users the loop over the keys has passed have one of
their keys (`KeysInv`).  A new start forgets all of it and begins with what is on
the system, which is why nothing is assumed about how the last one ended.
`StartsOnlyAdd` rests on one fact beyond the types: keys are written only when
none of them was found, so no file that can be loaded is overwritten.

`StartupRestart` adds `RestartAlwaysKeepsSystem` (`RestartKeepsSystem`) on top of
it.  `ZoneInv` to `KeysInv` say that something of the wanted data is there; that a
second start does nothing needs more, because a check that finds nothing stores
everything.  `ServersExact`, `UsersExact` and `KeysExact` say, from the end of each
stage on, that the check would find something, or that what it would store is
exactly what is there (servers not found by their name, keys looked for in root's
directory and written to the user's own).  `Quiet(d)` is that statement for all
stages at once.  `SyncedInv`: while `synced` holds, `Quiet(startup)` does, the start
has read that very content, and it never gets to the stages that create or link
anything.  `Subscribe` makes `SyncedInv` true from the stage results, `Save` because
what was loaded is found again, and `Idle` says that no step without a failure
changes a quiet system.

The key files have sections of their own in `LocalUsersProofs`.  For
`KeysAlwaysKept` the point is `LoadedKeysInv`: from the load until the loop over the
modified keys comes to a user, each loaded key that the edit leaves alone is the
first two words of the file that was read for it.  That needs that the lists of
created and deleted keys hold only keys the edit creates and deletes
(`CreatedKeysInv`, `DeletedKeysInv`), and that only deleted users lose their
directory (`NamesInv`, `CopyInv`).  For `KeysCommitted`, `CommitInv` follows a key of
the edit from the list it was put in (`EditListed`) to its file (`EditStored`); the
three loops run one after the other, and what a later one may do to the file of an
earlier one is the exception the property names.  For `TornFilesStopEvents`,
`TornInv` says that an event past its load found no torn file when it was there, and
that none appears until it writes keys itself.

`DnsResolverProofs`, for any links, domains, addresses, names and edits, from
`ResolverAssumption` and `ConstantsAssumption` (links and names differ, NONE is no
value):

| theorem | property |
|---|---|
| `TypeCorrect` | `TypeOK` |
| `ListsAlwaysFreed` | `ListsFreed` |
| `AcceptedAlwaysApplied` | `AcceptedApplied` |
| `UnmentionedAlwaysKept` | `UnmentionedKept` |
| `StoredAlwaysLoadable` | `StoredServersLoadable` |

`IInv` has the lists at each stage (`StageInv`), the loaded and the edited list of
domains (`SearchLoaded`, `SearchEdited`), and for the servers where an element of the
list may come from (`ListOrigin`) and what the changes visited so far, in any order,
have done to it (`ListEdited`): the lookup by address may take the element of another
link or entry, and `ListEdited` says exactly which losses that allows.  While another
client has changed a link since the load (`stale`) only the origin of the elements is
known.  `SearchStored` and `ServerStored` carry the result to the answer.

`NtpProofs`, for any number of processes and files of any length, from
`ConstantsAssumption`:

| theorem | property |
|---|---|
| `TypeCorrect` | `TypeOK` |
| `ListAlwaysFreed` | `ListFreed` |
| `ServiceAlwaysConsistent` | `ServiceConsistent` |
| `ServersAlwaysKept` | `ServersKept` |

`StageInv` says that an event is for one callback and that the lists are empty
outside it.  `ServiceInv` follows the two calls of systemctl over all processes: as
soon as one process is past the first call the service has the new state, as soon as
one is past the second the boot setting has, and a later process repeats the same
value.  `FileInv`, for a process that is alone: the file is as it was at the event
until it is emptied, by then the list has what must be kept, and afterwards the file
has it.  The proof of the latter goes through what `Find`, the removal of an element
and the merge into the file do to a sequence, stated as lemmas on positions.

`PluginsProofs`, for any names, zones, files, edits, startup datastores and bounds,
from `TimezoneAssumption` and `PluginsAssumption`:

| theorem | property |
|---|---|
| `TypeCorrect` | `TypeOK` |
| `HostnameAlwaysFollows` | `HostnameFollows` |
| `TimezoneAlwaysFollows` | `TimezoneFollows` |
| `MainIsNeverRefused` | `MainNeverRefused` |

The properties speak of moments without a transaction.  `HostInv` and `TzInv` say
what holds during one: a leaf that nobody is changing is on the system, and a change
that was heard of and may yet be committed has arrived or some callback has still to
run for it, at a step before the write in question.  Since both processes write the
same value, the order of their callbacks does not matter; that is why `HostInv` can
be stated without it.  `StageInv` and `TxnInv` tie the transaction to its owner and the
pending callbacks to the subscriptions; `MainInv` says that what the main plugin
merges has no subscriber.

*Only model-checked:* the liveness properties `EventAnswered` (three modules),
`StartEnds` and `Progress`, since the prover has no rule for fairness here.  Every
other property of a passing run is a theorem.

## 5. Not modelled

Formatting, logging, memory management but for the lists, uids and gids, the
copy of `/etc/skel` beyond its failure, the feature switches (assumed on), the
interleaving of `um_db_load` and `um_db_store` with tools an administrator runs.
`sysrepo`, `libumgmt`, `systemd-resolved` and the augeas datastore appear only by
what the code uses of them; their parts are marked external in the map.

The callbacks for contact, location, utc-offset, timeout, attempts and the
authentication order have no effect.  The RPCs are one system call each, the
operational getters format what `uname`, `sysinfo` and the clock return, and
`ly_tree.c` creates nodes: no state and nothing to interleave.  `core/startup` is
compiled and called by nobody.  `main()` passes a NULL context to the cleanup when
it cannot connect; that is one step before there is any state.

## 6. Disagreements met

Each has a run whose counterexample shows it.

* Deleting a user removes account and home, and then fails: all loaded users,
  deleted ones too, are in the list of users with modified keys, and `.ssh` cannot
  be made below the home just removed (`LocalUsersDelete`).
* Any local-user transaction replaces the "*" or "!" of every locked account by an
  empty hash (`LocalUsersLocked`).
* Both ntp callbacks always answer with an error (`NtpAccepted`).
* A created ntp server whose address is in the file keeps a NULL association type
  and trips the assertion of the store; since every edit is dropped, a retry is
  enough (`NtpAssociation`).
* With both plugins running, servers that nobody mentioned get lost
  (`NtpPairLost`).
* A start that dies between unlink and symlink of `/etc/localtime` leaves no file;
  the next start cannot read the zone, ignores that and never sets it
  (`StartupTimezone`).

Read in the source while modelling, without a run of their own:

* an IPv6 server is accepted and sent to resolved as an IPv4 server made of its
  first four bytes (`FromStr`);
* every local-user transaction cuts the `.pub` files of all users but root to their first two
  words: comments, options and further lines are gone (`UnmentionedKeysKept` says
  that nothing else is);
* every change of an ntp server deletes all other entries of `/etc/ntp.conf`;
* a key file left by a rejected edit overwrites the data of the same key created
  by the next one;
* an account that a start or an edit stored before it died has no home; its keys
  cannot be stored and every later start fails (`StoreKeys`);
* a startup datastore without hostname is never stored, whatever else it holds,
  and the main plugin never writes a hostname there (`CheckEmpty`);
* a restart stores the startup datastore over what later transactions set
  (`missed` in `Plugins`);
* started beside the main plugin on an empty datastore, the augeas plugin loads an ntp
  container, also an empty one, that the main plugin's callback refuses, and exits
  (`Reject`);
* the augeas load fails when the feature `ntp` is off: the branch runs into
  `error_out`.

## 7. Plan

1. The resolver's callbacks as another implementation of `Transaction`, with the
   domains of the link as items, under the assumption that no other client changes
   the link.
2. An administrator's concurrent change of the user database in `LocalUsers`, and
   what remains of `CopyInv` then.
