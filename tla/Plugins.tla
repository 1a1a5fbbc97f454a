------------------------------ MODULE Plugins ------------------------------
(***************************************************************************)
(* The two plugin processes beside each other: `main' (plugins/ietf-system)*)
(* and `augeas' (plugins/ietf-system-augeas).  Each is started, looks      *)
(* whether a datastore is empty, loads the system into the running         *)
(* datastore or stores the startup datastore on the system, subscribes to  *)
(* one leaf after the other, handles events and is stopped or dies.        *)
(* Clients commit edits at any time: to a leaf that nobody is subscribed   *)
(* to yet, to one that either process or both are subscribed to, and while *)
(* the other process is starting.                                          *)
(*                                                                         *)
(* The leaves are those the processes share or handle in one piece: the    *)
(* hostname, the timezone-name and the ntp servers.  Startup, LocalUsers   *)
(* and DnsResolver have the main plugin's other parts, Ntp the inside of   *)
(* the ntp callbacks.                                                      *)
(***************************************************************************)
EXTENDS Naturals, Sequences, Timezone

CONSTANTS Hosts,      \* host names
          NoHost,     \* the host name "none"
          Addrs,      \* addresses of ntp servers, which are also their names
          Confs,      \* contents /etc/ntp.conf may have: sequences of servers
          Edits,      \* datastore contents a client may commit
          Startups,   \* contents of the startup datastore
          NONE,       \* no such leaf or container, no transaction
          MaxTxns,    \* bound: edits
          MaxStarts,  \* bound: starts of each process
          MaxFaults   \* bound: calls that fail and deaths

Procs == {"main", "augeas"}
Leaves == {"hostname", "tz", "ntp"}
Data == [hostname : Hosts \cup {NONE}, tz : Zones \cup {NONE},
         ntp : (SUBSET Addrs) \cup {NONE}]

ASSUME PluginsAssumption ==
    /\ NoHost \in Hosts
    /\ NONE \notin Hosts \cup Zones \cup Data
    /\ Confs \subseteq Seq(Addrs)
    /\ Edits \subseteq Data /\ Startups \subseteq Data
    /\ MaxTxns \in Nat /\ MaxStarts \in Nat /\ MaxFaults \in Nat

VARIABLES
    startup, running, cand,   \* datastores; what a transaction would commit
    name,                     \* the kernel's host name
    conf,                     \* servers of /etc/ntp.conf
    pc,                       \* process -> stage
    subs,                     \* process -> number of subscriptions made
    loaded,                   \* process -> what it read and will merge
    calls, step,              \* process -> leaves whose callbacks are to run,
                              \* stage of the callback that is running
    owner,                    \* who waits for the transaction
    failed,                   \* a callback of the transaction failed
    heard,                    \* leaves some callback brought to the system
    missed,                   \* leaves the system may have another value of
    txns, starts, faults

system == <<name, conf, localtime>>
txn    == <<cand, owner, calls, step, failed, heard>>
bounds == <<txns, starts, faults>>
vars   == <<startup, running, system, pc, subs, loaded, txn, missed, bounds>>

\* The subscriptions in the order they are made.
Order(p) == IF p = "main" THEN <<"hostname", "tz", "ntp">>
            ELSE <<"hostname", "ntp">>
Subscribed(p) == {Order(p)[i] : i \in 1..subs[p]}

\* Mutant: the previous value is passed on.
HostnameValuePrevious(d) ==
    IF running.hostname = NONE THEN NoHost ELSE running.hostname

\* Mutant: a deleted hostname is passed on as it is.
HostnameValueUnset(d) == d.hostname

\* A deleted hostname is stored as "none".
HostnameValue(d) == IF d.hostname = NONE THEN NoHost ELSE d.hostname
LinkValue(d) == IF d.tz = NONE THEN NoFile ELSE d.tz

\* The system is as the datastore content d says.
Agrees(d, l) ==
    \/ l = "hostname" /\ name = (IF d.hostname = NONE THEN NoHost ELSE d.hostname)
    \/ l = "tz" /\ localtime = LinkValue(d)

----------------------------------------------------------------------------
(* No process is started, and the running datastore is a copy of the       *)
(* startup datastore.                                                      *)

Init ==
    /\ startup \in Startups /\ running = startup /\ cand = NONE
    /\ name \in Hosts
    /\ conf \in Confs
    /\ localtime \in Zones \cup {NoFile, Foreign}
    /\ pc = [p \in Procs |-> "down"]
    /\ subs = [p \in Procs |-> 0]
    /\ loaded = [p \in Procs |-> NONE]
    /\ calls = [p \in Procs |-> {}] /\ step = [p \in Procs |-> "start"]
    /\ owner = "client" /\ failed = FALSE /\ heard = {}
    /\ missed = {"hostname", "tz"}
    /\ txns = 0 /\ starts = [p \in Procs |-> 0] /\ faults = 0

Goto(p, stage) == pc' = [pc EXCEPT ![p] = stage]

Changed(c) == {l \in Leaves : running[l] # c[l]}

\* sysrepo tells every subscriber of a changed leaf; a process runs its
\* callbacks one after the other.
Begin(c, who) ==
    /\ cand' = c
    /\ owner' = who
    /\ calls' = [p \in Procs |-> Changed(c) \cap Subscribed(p)]
    /\ failed' = FALSE
    /\ heard' = Changed(c) \cap UNION {Subscribed(p) : p \in Procs}
    /\ UNCHANGED step

\* A client commits an edit; only one transaction holds the datastore.
Edit(c) ==
    /\ cand = NONE
    /\ txns < MaxTxns
    /\ c # running
    /\ txns' = txns + 1
    /\ Begin(c, "client")
    /\ UNCHANGED <<startup, running, system, pc, subs, loaded, missed, starts, faults>>

----------------------------------------------------------------------------
(* Start of a process: sr_plugin_init_cb.                                  *)

Start(p) ==
    /\ pc[p] = "down"
    /\ starts[p] < MaxStarts
    /\ starts' = [starts EXCEPT ![p] = @ + 1]
    /\ Goto(p, "empty")
    /\ UNCHANGED <<startup, running, system, subs, loaded, txn, missed, txns, faults>>

\* Both look for the hostname: main in the startup datastore, augeas in the
\* running one.
CheckEmpty(p) ==
    /\ pc[p] = "empty"
    /\ LET d == IF p = "main" THEN startup ELSE running
       IN  Goto(p, IF d.hostname = NONE THEN "load"
                   ELSE IF p = "main" THEN "tz" ELSE "hostname")
    /\ UNCHANGED <<startup, running, system, subs, loaded, txn, missed, bounds>>

\* Mutant: the main plugin loads the ntp servers too.
LoadedByBoth(p) ==
    [hostname |-> IF p = "main" THEN NONE ELSE name,
     tz |-> IF p # "main" THEN NONE ELSE IF Unreadable THEN NoName ELSE localtime,
     ntp |-> {conf[i] : i \in 1..Len(conf)}]

\* main loads the timezone, which is empty when it cannot be read; augeas
\* loads the hostname and the servers, in a container that it creates also
\* when there are none.
LoadedBy(p) ==
    [hostname |-> IF p = "main" THEN NONE ELSE name,
     tz |-> IF p # "main" THEN NONE ELSE IF Unreadable THEN NoName ELSE localtime,
     ntp |-> IF p = "main" THEN NONE ELSE {conf[i] : i \in 1..Len(conf)}]

Load(p) ==
    /\ pc[p] = "load"
    /\ loaded' = [loaded EXCEPT ![p] = LoadedBy(p)]
    /\ Goto(p, "merge")
    /\ UNCHANGED <<startup, running, system, subs, txn, missed, bounds>>

Servers(d) == IF d.ntp = NONE THEN {} ELSE d.ntp

Merged(d, l) ==
    [hostname |-> IF l.hostname = NONE THEN d.hostname ELSE l.hostname,
     tz |-> IF l.tz = NONE THEN d.tz ELSE l.tz,
     ntp |-> IF l.ntp = NONE THEN d.ntp ELSE Servers(d) \cup l.ntp]

\* sr_apply_changes: a transaction like any other, which the subscribers may
\* refuse.
Merge(p) ==
    /\ pc[p] = "merge"
    /\ cand = NONE
    /\ Begin(Merged(running, loaded[p]), p)
    /\ loaded' = [loaded EXCEPT ![p] = NONE]
    /\ Goto(p, "loading")
    /\ UNCHANGED <<startup, running, system, subs, missed, bounds>>

\* The system has the value of the startup datastore, which may be another
\* one than that of the running datastore.
AsStartup(l) ==
    missed' = IF startup[l] = running[l] THEN missed \ {l} ELSE missed \cup {l}

\* A start changes the system: what the callbacks of a transaction that is
\* going on have set no longer counts.
Overtakes(l) ==
    /\ heard' = heard \ {l}
    /\ UNCHANGED <<cand, owner, calls, step, failed>>

\* main: system_running_store_timezone_name.
StoreTimezone(p) ==
    /\ pc[p] = "tz"
    /\ \/ /\ Unreadable \/ startup.tz = NONE
          /\ Goto(p, "subscribe")
          /\ UNCHANGED <<localtime, txn, missed>>
       \/ /\ ~ Unreadable /\ startup.tz = localtime
          /\ Goto(p, "subscribe")
          /\ AsStartup("tz")
          /\ UNCHANGED <<localtime, txn>>
       \/ /\ ~ Unreadable /\ startup.tz \notin {NONE, localtime}
          /\ UnlinkLocaltime(startup.tz)
          /\ Goto(p, "symlink")
          /\ missed' = missed \cup {"tz"}
          /\ Overtakes("tz")
       \/ /\ ~ Unreadable /\ startup.tz \notin Installed \cup {NONE, localtime}
          /\ Goto(p, "down")
          /\ UNCHANGED <<localtime, txn, missed>>
    /\ UNCHANGED <<startup, running, name, conf, subs, loaded, bounds>>

LinkTimezone(p) ==
    /\ pc[p] = "symlink"
    /\ \/ Symlink(startup.tz) /\ Goto(p, "subscribe") /\ AsStartup("tz") /\ Overtakes("tz")
       \/ localtime # NoFile /\ Goto(p, "down") /\ UNCHANGED <<localtime, txn, missed>>
    /\ UNCHANGED <<startup, running, name, conf, subs, loaded, bounds>>

\* augeas: system_aug_running_store_hostname.  /etc/hostname is written under
\* #ifdef AUGYANG, which no build file defines.
StoreHostname(p) ==
    /\ pc[p] = "hostname"
    /\ \/ /\ startup.hostname = NONE
          /\ UNCHANGED <<name, txn, missed>>
       \/ /\ startup.hostname = name
          /\ AsStartup("hostname")
          /\ UNCHANGED <<name, txn>>
       \/ /\ startup.hostname \notin {NONE, name}
          /\ name' = startup.hostname
          /\ AsStartup("hostname")
          /\ Overtakes("hostname")
    /\ Goto(p, "ntp")
    /\ UNCHANGED <<startup, running, conf, localtime, subs, loaded, bounds>>

\* system_aug_running_store_ntp: when the file has none of the servers they
\* are merged into it by their position, in any order of the list.
StoreNtp(p) ==
    /\ pc[p] = "ntp"
    /\ IF \E i \in 1..Len(conf) : conf[i] \in Servers(startup)
       THEN UNCHANGED conf
       ELSE \E new \in Confs :
               /\ {new[i] : i \in 1..Len(new)} = Servers(startup)
               /\ conf' = new \o SubSeq(conf, Len(new) + 1, Len(conf))
    /\ Goto(p, "subscribe")
    /\ UNCHANGED <<startup, running, name, localtime, subs, loaded, txn,
                   missed, bounds>>

\* One subscription after the other: an edit may come in between.
Subscribe(p) ==
    /\ pc[p] = "subscribe"
    /\ subs' = [subs EXCEPT ![p] = @ + 1]
    /\ Goto(p, IF subs[p] + 1 = Len(Order(p)) THEN "up" ELSE "subscribe")
    /\ UNCHANGED <<startup, running, system, loaded, txn, missed, bounds>>

----------------------------------------------------------------------------
(* The callbacks.                                                          *)

\* The callbacks run in the order of their subscriptions.
Calls(p, l) ==
    \E i \in 1..Len(Order(p)) :
        /\ Order(p)[i] = l /\ l \in calls[p]
        /\ \A j \in 1..(i - 1) : Order(p)[j] \notin calls[p]

CallDone(p, l) ==
    /\ calls' = [calls EXCEPT ![p] = @ \ {l}]
    /\ step' = [step EXCEPT ![p] = "start"]
    /\ UNCHANGED <<cand, owner, failed, heard>>

CallNext(p, stage) ==
    /\ step' = [step EXCEPT ![p] = stage]
    /\ UNCHANGED <<cand, owner, calls, failed, heard>>

\* SR_ERR_CALLBACK_FAILED: the process runs no other callback of the event.
CallFailed(p) ==
    /\ calls' = [calls EXCEPT ![p] = {}]
    /\ step' = [step EXCEPT ![p] = "start"]
    /\ failed' = TRUE
    /\ UNCHANGED <<cand, owner, heard>>

OutsideCalls == <<startup, running, pc, subs, loaded, missed, bounds>>

\* system_change_hostname.
SetHostname(p) ==
    /\ Calls(p, "hostname")
    /\ name' = HostnameValue(cand)
    /\ CallDone(p, "hostname")
    /\ UNCHANGED <<OutsideCalls, conf, localtime>>

\* Mutant: deleting the leaf leaves the link.
DeleteTimezoneIgnored(p) ==
    /\ Calls(p, "tz") /\ cand.tz = NONE
    /\ CallDone(p, "tz")
    /\ UNCHANGED <<OutsideCalls, system>>

\* system_change_timezone_name_delete fails when there is no file.
DeleteTimezone(p) ==
    /\ Calls(p, "tz") /\ cand.tz = NONE
    /\ IF LocaltimeSeen
       THEN localtime' = NoFile /\ CallDone(p, "tz")
       ELSE UNCHANGED localtime /\ CallFailed(p)
    /\ UNCHANGED <<OutsideCalls, name, conf>>

\* system_store_timezone_name, for a created and for a changed leaf.
UnlinkTimezone(p) ==
    /\ Calls(p, "tz") /\ cand.tz # NONE /\ step[p] = "start"
    /\ \/ UnlinkLocaltime(cand.tz) /\ CallNext(p, "symlink")
       \/ cand.tz \notin Installed /\ UNCHANGED localtime /\ CallFailed(p)
    /\ UNCHANGED <<OutsideCalls, name, conf>>

SymlinkTimezone(p) ==
    /\ Calls(p, "tz") /\ cand.tz # NONE /\ step[p] = "symlink"
    /\ \/ Symlink(cand.tz) /\ CallDone(p, "tz")
       \/ localtime # NoFile /\ UNCHANGED localtime /\ CallFailed(p)
    /\ UNCHANGED <<OutsideCalls, name, conf>>

\* Mutant: a refused change is tried again.
ChangeNtpAgain(p) ==
    /\ Calls(p, "ntp")
    /\ conf' \in Confs
    /\ failed' = TRUE
    /\ UNCHANGED <<OutsideCalls, name, localtime, cand, owner, calls, step, heard>>

\* The ntp callbacks (module Ntp): whatever becomes of the file, the answer
\* is an error.
ChangeNtp(p) ==
    /\ Calls(p, "ntp")
    /\ conf' \in Confs
    /\ CallFailed(p)
    /\ UNCHANGED <<OutsideCalls, name, localtime>>

----------------------------------------------------------------------------
(* The end of a transaction.                                               *)

Answered == cand # NONE /\ \A p \in Procs : calls[p] = {}

\* The process that waited for its load.
OwnerGoto(stage) ==
    pc' = [p \in Procs |-> IF p = owner THEN stage ELSE pc[p]]

\* DONE is not acted on.  A leaf that nobody heard of may now differ from
\* the system.
Commit ==
    /\ Answered /\ ~ failed
    /\ running' = cand
    /\ missed' = {l \in (missed \cup Changed(cand)) \ heard : ~ Agrees(cand, l)}
    /\ OwnerGoto("subscribe")
    /\ cand' = NONE /\ owner' = "client" /\ heard' = {}
    /\ UNCHANGED <<startup, system, subs, loaded, calls, step, failed, bounds>>

\* The other callbacks get ABORT, answer it with an error and undo nothing.
\* A load that is refused ends the start.
Reject ==
    /\ Answered /\ failed
    /\ missed' = missed \cup Changed(cand)
    /\ OwnerGoto("down")
    /\ cand' = NONE /\ owner' = "client" /\ heard' = {} /\ failed' = FALSE
    /\ UNCHANGED <<startup, running, system, subs, loaded, calls, step, bounds>>

----------------------------------------------------------------------------
(* The end of a process.                                                   *)

\* SIGINT: sr_plugin_cleanup_cb frees the context first.
Stop(p) ==
    /\ pc[p] = "up"
    /\ Goto(p, "freed")
    /\ UNCHANGED <<startup, running, system, subs, loaded, txn, missed, bounds>>

Gone(p) ==
    /\ Goto(p, "down")
    /\ subs' = [subs EXCEPT ![p] = 0]
    /\ loaded' = [loaded EXCEPT ![p] = NONE]
    /\ calls' = [calls EXCEPT ![p] = {}]
    /\ step' = [step EXCEPT ![p] = "start"]

\* sr_disconnect waits for the callback that is running.
Disconnect(p) ==
    /\ pc[p] = "freed" /\ calls[p] = {}
    /\ Gone(p)
    /\ UNCHANGED <<startup, running, system, cand, owner, failed, heard, missed, bounds>>

\* The death of a process: sysrepo waits in vain for its answer, and nobody
\* commits its own transaction.
Lost(p) ==
    /\ Gone(p)
    /\ failed' = (failed \/ calls[p] # {} \/ owner = p)
    /\ owner' = IF owner = p THEN "client" ELSE owner
    /\ UNCHANGED <<startup, running, system, cand, heard, missed>>

\* A callback uses the context that was freed: it may go on or die.
UseAfterFree(p) ==
    /\ pc[p] = "freed" /\ calls[p] # {}
    /\ Lost(p)
    /\ UNCHANGED bounds

Fault == faults < MaxFaults /\ faults' = faults + 1

\* A process is killed, or a call of its start fails.
Dies(p) ==
    /\ pc[p] # "down"
    /\ Fault
    /\ Lost(p)
    /\ UNCHANGED <<txns, starts>>

\* A call of a callback fails.
CallFails(p) ==
    /\ calls[p] # {}
    /\ Fault
    /\ CallFailed(p)
    /\ UNCHANGED <<startup, running, system, pc, subs, loaded, missed, txns, starts>>

\* The host name cannot be read at the start: the error is logged, `return 0'
\* drops it, and the start goes on without storing.
CheckHostnameFails(p) ==
    /\ pc[p] = "hostname" /\ startup.hostname # NONE
    /\ Fault
    /\ Goto(p, "ntp")
    /\ UNCHANGED <<startup, running, system, subs, loaded, txn, missed, txns, starts>>

Step(p) ==
    \/ CheckEmpty(p) \/ Load(p) \/ Merge(p)
    \/ StoreTimezone(p) \/ LinkTimezone(p)
    \/ StoreHostname(p) \/ StoreNtp(p)
    \/ Subscribe(p) \/ Disconnect(p)
    \/ SetHostname(p)
    \/ DeleteTimezone(p) \/ UnlinkTimezone(p) \/ SymlinkTimezone(p)
    \/ ChangeNtp(p)

Environment(p) ==
    \/ Start(p) \/ Stop(p) \/ UseAfterFree(p)
    \/ Dies(p) \/ CallFails(p) \/ CheckHostnameFails(p)

Next ==
    \/ \E p \in Procs : Step(p) \/ Environment(p)
    \/ \E c \in Edits : Edit(c)
    \/ Commit \/ Reject

Spec == Init /\ [][Next]_vars

\* Each process goes on with its start and its callbacks, and sysrepo ends a
\* transaction that has all its answers.
FairSpec ==
    /\ Spec
    /\ \A p \in Procs : WF_vars(Step(p))
    /\ WF_vars(Commit \/ Reject)

----------------------------------------------------------------------------
(* Properties.                                                             *)

Stages == {"down", "empty", "load", "merge", "loading", "tz", "symlink",
           "hostname", "ntp", "subscribe", "up", "freed"}

\* Every variable of the processes, the datastores and the system has its
\* type; a hostname that is deleted never reaches the system as such.
TypeOK ==
    /\ startup \in Data /\ running \in Data /\ cand \in Data \cup {NONE}
    /\ name \in Hosts /\ conf \in Seq(Addrs)
    /\ localtime \in Zones \cup {NoFile, Foreign}
    /\ pc \in [Procs -> Stages]
    /\ subs \in [Procs -> 0..3]
    /\ loaded \in [Procs -> Data \cup {NONE}]
    /\ calls \in [Procs -> SUBSET Leaves]
    /\ step \in [Procs -> {"start", "symlink"}]
    /\ owner \in Procs \cup {"client"} /\ failed \in BOOLEAN
    /\ heard \in SUBSET Leaves /\ missed \in SUBSET Leaves
    /\ txns \in 0..MaxTxns /\ starts \in [Procs -> 0..MaxStarts]
    /\ faults \in 0..MaxFaults

\* tests/manual_tests.md: "We can verify that the hostname matches the system
\* hostname."  Between transactions the kernel's host name is that of the
\* running datastore, once it was committed while a plugin was subscribed
\* (also when both plugins set it, or a load writes it back) or stored by a
\* start.  What `missed' excludes, because the code does not repair it: after a
\* refused or aborted change of the hostname, after an edit that no plugin was
\* subscribed to, and after a start that stores a startup hostname other than
\* the running one, nothing is said until the next such commit or start.
HostnameFollows ==
    cand = NONE /\ "hostname" \notin missed => Agrees(running, "hostname")

\* The same for the timezone and /etc/localtime, with the same exclusions; it
\* goes through a state without file: once a transaction is committed it never
\* stays there.
TimezoneFollows == cand = NONE /\ "tz" \notin missed => Agrees(running, "tz")

\* The main plugin can be started beside a running augeas plugin: nothing it
\* loads is a leaf whose callback there refuses the transaction.
MainNeverRefused ==
    [][pc["main"] = "loading" /\ pc'["main"] = "down" => faults' # faults]_vars

\* Some process starts or stops, or a transaction is going on.
Busy == cand # NONE \/ \E p \in Procs : pc[p] \notin {"up", "down"}

\* Every start, stop and transaction ends: a process that waits for the
\* datastore, the other one that holds it in a callback, and a client never
\* wait for each other, and everything comes to rest once no more edits come.
Progress == Busy ~> ~ Busy
=============================================================================
