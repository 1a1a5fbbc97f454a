-------------------------------- MODULE Ntp --------------------------------
(***************************************************************************)
(* The ntp part: the module-change callbacks for ntp/enabled and           *)
(* ntp/server (core/subscription/change.c) with the load, change and store *)
(* functions they call (core/api/system/ntp).  /etc/ntp.conf is reached    *)
(* through the startup datastore of the augeas module `ntp': the callback  *)
(* loads its server, pool and peer entries, edits the list, deletes every  *)
(* entry of the file in one transaction and merges its list in a second.   *)
(*                                                                         *)
(* Procs are the plugin processes that subscribe to ntp: the main plugin   *)
(* and the augeas plugin (plugins/ietf-system, plugins/ietf-system-augeas) *)
(* run the same callbacks on the same event, each in its own process; one  *)
(* of them may not be installed.                                           *)
(* The YANG features ntp and ntp-udp-port are enabled.  iburst is treated  *)
(* as prefer is and is left out.                                           *)
(***************************************************************************)
EXTENDS Naturals, Sequences, SequencesExt

CONSTANTS Procs,      \* processes that run the callbacks
          Names,      \* names of servers in the datastore
          Addrs,      \* addresses
          Ports,      \* ports
          Edits,      \* datastore contents a client may commit
          InitConfs,  \* server entries the file may have at the start
          NONE,       \* no such server, no port
          NULL,       \* association_type pointer that was never set
          MaxTxns,    \* bound: transactions started
          MaxFaults   \* bound: failures of the environment

Types == {"server", "pool", "peer"}
Server == [addr : Addrs, port : Ports \cup {NONE}, type : Types, prefer : BOOLEAN]
Element == [addr : Addrs, port : Ports \cup {NONE}, type : Types \cup {NULL},
            prefer : BOOLEAN]
Config == [enabled : BOOLEAN, servers : [Names -> Server \cup {NONE}]]

ASSUME ConstantsAssumption ==
    /\ Edits \subseteq Config
    /\ InitConfs \subseteq Seq(Server)
    /\ NONE \notin Ports \cup Server /\ NULL \notin Types
    /\ MaxTxns \in Nat /\ MaxFaults \in Nat

VARIABLES
    running, cand,   \* datastore, and what the transaction would commit
    conf,            \* server, pool and peer entries of /etc/ntp.conf
    active, boot,    \* the ntp service is running, is started at boot
    temp,            \* ctx->temp_ntp_servers of each process
    todo,            \* servers whose changes are still to be visited
    pc, error, result,
    atEvent,         \* conf when the event was delivered
    txns, faults

vars == <<running, cand, conf, active, boot, temp, todo, pc, error,
          result, atEvent, txns, faults>>

Old(n) == running.servers[n]
New(n) == cand.servers[n]
Changed == {n \in Names : Old(n) # New(n)}

\* system_ntp_server_list_find: the first element whose name is the address;
\* the name of a loaded element is its address with its port.
Find(list, a) == SelectInSeq(list, LAMBDA e : e.addr = a /\ e.port = NONE)

----------------------------------------------------------------------------
(* One plugin or both are started, and the datastore holds the servers.    *)

Init ==
    /\ conf \in InitConfs
    /\ running \in Edits
    /\ {running.servers[n] : n \in Names} \ {NONE} = ToSet(conf)
    /\ \A m, n \in Names : Old(m) = Old(n) => m = n \/ Old(m) = NONE
    /\ cand = running
    /\ active = running.enabled /\ boot = running.enabled
    /\ temp = [p \in Procs |-> <<>>]
    /\ todo = [p \in Procs |-> {}]
    /\ pc \in [Procs -> {"idle", "down"}]
    /\ \E p \in Procs : pc[p] = "idle"
    /\ error = [p \in Procs |-> "ok"]
    /\ result = [p \in Procs |-> "ok"]
    /\ atEvent = conf
    /\ txns = 0 /\ faults = 0

Alive == {p \in Procs : pc[p] \notin {"dead", "down"}}

\* A client commits a change and every process gets the event.  In a process
\* the callback for ntp/enabled is called first; it fails, so the one for
\* ntp/server is not called in the same transaction.
Edit(c) ==
    /\ \A p \in Alive : pc[p] = "idle"
    /\ Alive # {}
    /\ txns < MaxTxns
    /\ c # running
    /\ cand' = c
    /\ txns' = txns + 1
    /\ atEvent' = conf
    /\ pc' = [p \in Procs |->
                IF p \notin Alive THEN pc[p]
                ELSE IF c.enabled # running.enabled THEN "start" ELSE "load"]
    /\ error' = [p \in Procs |-> "ok"]
    /\ UNCHANGED <<running, conf, active, boot, temp, todo, result, faults>>

Goto(p, stage) == pc' = [pc EXCEPT ![p] = stage]

\* goto error_out.
Failed(p) == Goto(p, "out") /\ error' = [error EXCEPT ![p] = "failed"]

Fault == faults < MaxFaults /\ faults' = faults + 1

----------------------------------------------------------------------------
(* system_ntp_change_enabled: systemctl start and enable, or stop and      *)
(* disable.                                                                *)

StartService(p) ==
    /\ pc[p] = "start"
    /\ active' = cand.enabled
    /\ Goto(p, "enable")
    /\ UNCHANGED <<running, cand, conf, boot, temp, todo, error, result,
                   atEvent, txns, faults>>

\* Mutant: a stopped service stays enabled.
EnableServiceOnly(p) ==
    /\ pc[p] = "enable"
    /\ boot' = (boot \/ cand.enabled)
    /\ Goto(p, "out")
    /\ UNCHANGED <<running, cand, conf, active, temp, todo, error, result,
                   atEvent, txns, faults>>

EnableService(p) ==
    /\ pc[p] = "enable"
    /\ boot' = cand.enabled
    /\ Goto(p, "out")
    /\ UNCHANGED <<running, cand, conf, active, temp, todo, error, result,
                   atEvent, txns, faults>>

----------------------------------------------------------------------------
(* system_subscription_change_ntp_server                                   *)

\* Mutant: pools are not recognised.
LoadServerNoPools(p) ==
    /\ pc[p] = "load"
    /\ temp' = [temp EXCEPT ![p] = SelectSeq(conf, LAMBDA e : e.type # "pool")]
    /\ todo' = [todo EXCEPT ![p] = Changed]
    /\ Goto(p, "address")
    /\ UNCHANGED <<running, cand, conf, active, boot, error, result,
                   atEvent, txns, faults>>

\* Every server, pool and peer entry of the file; other entries are skipped.
LoadServer(p) ==
    /\ pc[p] = "load"
    /\ temp' = [temp EXCEPT ![p] = conf]
    /\ todo' = [todo EXCEPT ![p] = Changed]
    /\ Goto(p, "address")
    /\ UNCHANGED <<running, cand, conf, active, boot, error, result,
                   atEvent, txns, faults>>

\* The element of a created server: only name and address are set.
NewElement(a) == [addr |-> a, port |-> NONE, type |-> NULL, prefer |-> FALSE]

\* Mutant: a server whose address did not change is visited again and again.
ChangeServerAddressStuck(p, n) ==
    /\ pc[p] = "address"
    /\ n \in todo[p]
    /\ New(n) # NONE
    /\ temp' = IF Old(n) = NONE
               THEN [temp EXCEPT ![p] = Append(@, NewElement(New(n).addr))]
               ELSE temp
    /\ todo' = IF Old(n) = NONE THEN [todo EXCEPT ![p] = @ \ {n}] ELSE todo
    /\ UNCHANGED <<running, cand, conf, active, boot, pc, error, result,
                   atEvent, txns, faults>>

\* One change of an address: a created server is appended, a deleted one is
\* removed, a changed one is looked up by its new address and left as it is.
ChangeServerAddress(p, n) ==
    /\ pc[p] = "address"
    /\ n \in todo[p]
    /\ LET a == IF New(n) = NONE THEN Old(n).addr ELSE New(n).addr
           i == Find(temp[p], a)
           changed == Old(n) = NONE \/ New(n) = NONE \/ Old(n).addr # New(n).addr
       IN  IF changed /\ Old(n) # NONE /\ i = 0
           THEN Failed(p) /\ UNCHANGED <<temp, todo>>
           ELSE /\ temp' = [temp EXCEPT ![p] =
                      IF Old(n) = NONE THEN Append(@, NewElement(a))
                      ELSE IF New(n) = NONE THEN RemoveAt(@, i)
                      ELSE @]
                /\ todo' = [todo EXCEPT ![p] = @ \ {n}]
                /\ UNCHANGED <<pc, error>>
    /\ UNCHANGED <<running, cand, conf, active, boot, result, atEvent,
                   txns, faults>>

ServerAddressesDone(p) ==
    /\ pc[p] = "address"
    /\ todo[p] = {}
    /\ todo' = [todo EXCEPT ![p] = Changed]
    /\ Goto(p, "options")
    /\ UNCHANGED <<running, cand, conf, active, boot, temp, error, result,
                   atEvent, txns, faults>>

\* Each option's change first reads the address of its server from the new
\* datastore content, where a deleted server has none.
AddressMissing(n) == New(n) = NONE

\* Some option that is stored has changed; the port is not stored.
OptionsChanged(n) ==
    \/ Old(n) = NONE
    \/ Old(n).type # New(n).type \/ Old(n).prefer # New(n).prefer

\* Only the options that changed are set: a created server has all of them.
WithOptions(e, n) ==
    [e EXCEPT
        !.type   = IF Old(n) = NONE \/ Old(n).type # New(n).type
                   THEN New(n).type ELSE @,
        !.prefer = IF Old(n) = NONE \/ Old(n).prefer # New(n).prefer
                   THEN New(n).prefer ELSE @]

\* The changes of port, association-type and prefer of one server are made to
\* the first element of its address.  The code has one loop over the servers
\* for each option; the options of one server are one step here, since the
\* loops touch nothing but the list of their own process.
ChangeServerOptions(p, n) ==
    /\ pc[p] = "options"
    /\ n \in todo[p]
    /\ LET i == Find(temp[p], New(n).addr)
       IN  IF AddressMissing(n) \/ (OptionsChanged(n) /\ i = 0)
           THEN Failed(p) /\ UNCHANGED <<temp, todo>>
           ELSE /\ temp' = IF ~ OptionsChanged(n) THEN temp
                           ELSE [temp EXCEPT ![p][i] = WithOptions(@, n)]
                /\ todo' = [todo EXCEPT ![p] = @ \ {n}]
                /\ UNCHANGED <<pc, error>>
    /\ UNCHANGED <<running, cand, conf, active, boot, result, atEvent,
                   txns, faults>>

\* All entries of the file are deleted, also those the model leaves out
\* (driftfile, restrict...), in a transaction of its own.
DeleteEntries(p) ==
    /\ pc[p] = "options"
    /\ todo[p] = {}
    /\ conf' = <<>>
    /\ Goto(p, "store")
    /\ UNCHANGED <<running, cand, active, boot, temp, todo, error, result,
                   atEvent, txns, faults>>

\* Merging a list by its index: an entry keeps an option it already had
\* unless its kind changes.
Merged(old, new) ==
    [i \in 1..(IF Len(new) > Len(old) THEN Len(new) ELSE Len(old)) |->
        IF i > Len(new) THEN old[i]
        ELSE IF i > Len(old) \/ old[i].type # new[i].type THEN new[i]
        ELSE [new[i] EXCEPT !.prefer = @ \/ old[i].prefer]]

\* Mutant: an association type that was never set is not noticed.
UnsetNever(list) == FALSE

\* system_ntp_store_server compares every association type with strcmp().
Unset(list) == \E i \in 1..Len(list) : list[i].type = NULL

StoreServer(p) ==
    /\ pc[p] = "store"
    /\ ~ Unset(temp[p])
    /\ conf' = Merged(conf, temp[p])
    /\ Goto(p, "out")
    /\ UNCHANGED <<running, cand, active, boot, temp, todo, error, result,
                   atEvent, txns, faults>>

\* strcmp() of a NULL pointer: the process dies, after the file was emptied.
StoreDies(p) ==
    /\ pc[p] = "store"
    /\ Unset(temp[p])
    /\ Goto(p, "dead")
    /\ UNCHANGED <<running, cand, conf, active, boot, temp, todo, error,
                   result, atEvent, txns, faults>>

----------------------------------------------------------------------------
\* A call of systemctl, sysrepo or malloc fails.
CallFails(p) ==
    /\ pc[p] \notin {"idle", "out", "replied", "dead", "down"}
    /\ Fault
    /\ Failed(p)
    /\ UNCHANGED <<running, cand, conf, active, boot, temp, todo, result,
                   atEvent, txns>>

\* Both callbacks return SR_ERR_CALLBACK_FAILED, whatever `error' is.
CallbackResult(err) == "failed"

\* Mutant: the list is not freed.
ReturnKeepsList(p) ==
    /\ pc[p] = "out"
    /\ todo' = [todo EXCEPT ![p] = {}]
    /\ result' = [result EXCEPT ![p] = CallbackResult(error[p])]
    /\ Goto(p, "replied")
    /\ UNCHANGED <<running, cand, conf, active, boot, temp, error,
                   atEvent, txns, faults>>

Return(p) ==
    /\ pc[p] = "out"
    /\ temp' = [temp EXCEPT ![p] = <<>>]
    /\ todo' = [todo EXCEPT ![p] = {}]
    /\ result' = [result EXCEPT ![p] = CallbackResult(error[p])]
    /\ Goto(p, "replied")
    /\ UNCHANGED <<running, cand, conf, active, boot, error,
                   atEvent, txns, faults>>

\* sysrepo has all answers, or none from a process that died: no answer is
\* ever a success, so every transaction is dropped.
Rejected ==
    /\ \A p \in Alive : pc[p] = "replied"
    /\ Alive # {}
    /\ cand' = running
    /\ pc' = [p \in Procs |-> IF p \in Alive THEN "idle" ELSE pc[p]]
    /\ UNCHANGED <<running, conf, active, boot, temp, todo, error, result,
                   atEvent, txns, faults>>

Step(p) ==
    \/ StartService(p) \/ EnableService(p)
    \/ LoadServer(p)
    \/ \E n \in Names : ChangeServerAddress(p, n)
    \/ ServerAddressesDone(p)
    \/ \E n \in Names : ChangeServerOptions(p, n)
    \/ DeleteEntries(p) \/ StoreServer(p) \/ StoreDies(p)
    \/ Return(p)

Next ==
    \/ \E p \in Procs : Step(p) \/ CallFails(p)
    \/ \E c \in Edits : Edit(c)
    \/ Rejected

Spec == Init /\ [][Next]_vars

\* The event thread of each process keeps running its callback, and sysrepo
\* answers the client once it has every reply.
FairSpec == Spec /\ (\A p \in Procs : WF_vars(Step(p))) /\ WF_vars(Rejected)

----------------------------------------------------------------------------
(* Properties.                                                             *)

\* Every variable of the callbacks, the file and the service has its type.
TypeOK ==
    /\ running \in Config /\ cand \in Config
    /\ conf \in Seq(Server)
    /\ active \in BOOLEAN /\ boot \in BOOLEAN
    /\ temp \in [Procs -> Seq(Element)]
    /\ todo \in [Procs -> SUBSET Names]
    /\ pc \in [Procs -> {"idle", "start", "enable", "load", "address", "options",
                         "store", "out", "replied", "dead", "down"}]
    /\ error \in [Procs -> {"ok", "failed"}]
    /\ result \in [Procs -> {"ok", "failed"}]
    /\ txns \in 0..MaxTxns /\ faults \in 0..MaxFaults

\* assert(ctx->temp_ntp_servers == NULL): the list of the last event was
\* freed, whatever way that event ended.
ListFreed == \A p \in Procs : pc[p] \in {"idle", "load"} => temp[p] = <<>>

\* The service is running exactly if it is started at boot, once no callback
\* is under way and no call failed: also when two processes change it.
ServiceConsistent ==
    faults = 0 /\ (\A p \in Alive : pc[p] \in {"idle", "replied"})
        => active = boot

\* An entry that the transaction has nothing to do with.
Unmentioned(e) ==
    \A n \in Changed : /\ Old(n) # NONE => Old(n).addr # e.addr
                       /\ New(n) # NONE => New(n).addr # e.addr

\* Every process that got the event has answered it, and no call failed.
Answered == faults = 0 /\ \A p \in Procs : pc[p] \in {"replied", "down"}

\* p is the only process that was started.
Alone(p) == \A q \in Procs \ {p} : pc[q] = "down"

Kept == \A e \in ToSet(atEvent) : Unmentioned(e) => e \in ToSet(conf)

\* The callback empties the file and writes it from its list: when the only
\* plugin that is started has answered and no call failed, the server, pool
\* and peer entries that the transaction does not mention are in the file as
\* they were, whatever earlier transactions left there.
ServersKept ==
    Answered /\ (\E p \in Procs : pc[p] = "replied" /\ Alone(p)) => Kept

\* An event is answered, or the process died on it.
EventAnswered ==
    \A p \in Procs : pc[p] \in {"start", "load"} ~> pc[p] \in {"idle", "dead"}

----------------------------------------------------------------------------
(* What the tests, the documentation and the assertions say.               *)

\* tests/integration/ietf-system.py asserts that /etc/ntp.conf has both
\* servers, the earlier one too, after a second one was added ("unexpected
\* number of servers in /etc/ntp.conf"): so it is when both plugins are
\* started too.
ServersKeptByAll == Answered => Kept

\* test_ntp_enabled and test_ntp_server read the datastore after an edit and
\* expect the new content: a callback whose every call succeeded answers with
\* a success.
ChangeAccepted ==
    \A p \in Procs : pc[p] = "replied" /\ error[p] = "ok" => result[p] = "ok"

\* The assertion in system_ntp_store_server: every association type is
\* "server", "pool" or "peer".
AssociationTypeSet == \A p \in Procs : pc[p] = "store" => ~ Unset(temp[p])
=============================================================================
