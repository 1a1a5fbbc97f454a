--------------------------- MODULE PluginsProofs ---------------------------
(***************************************************************************)
(* Proofs about Plugins, for any names, zones, servers, files, edits and   *)
(* startup datastores and any number of edits, starts and failures.        *)
(***************************************************************************)
EXTENDS Plugins, SequenceTheorems, TLAPS

----------------------------------------------------------------------------
(* The inductive invariant.                                                *)

\* A process has subscriptions only once it is past its load or its store; it
\* waits for its own transaction exactly while it is loading; what it is about
\* to merge or to write it has read.
StageOf(p) ==
    /\ pc[p] \notin {"subscribe", "up", "freed"} => subs[p] = 0
    /\ subs[p] <= Len(Order(p))
    /\ pc[p] = "subscribe" => subs[p] < Len(Order(p))
    /\ pc[p] = "loading" <=> owner = p
    /\ pc[p] = "merge" => loaded[p] # NONE
    /\ pc[p] = "symlink" => startup.tz \in Zones

StageInv == \A p \in Procs : StageOf(p)

\* Callbacks run during a transaction only, for leaves that it changes and that
\* their process is subscribed to.
TxnInv ==
    /\ cand = NONE => owner = "client" /\ ~ failed
    /\ \A p \in Procs :
          /\ calls[p] \subseteq Subscribed(p)
          /\ cand = NONE => calls[p] = {}
          /\ cand # NONE => calls[p] \subseteq Changed(cand)
          /\ calls[p] = {} => step[p] = "start"

\* No change of the leaf is under way.
Settled(l) == l \notin missed /\ (cand = NONE \/ l \notin Changed(cand))

\* A change of the leaf that its subscribers were told of may yet be committed.
Pending(l) == cand # NONE /\ ~ failed /\ l \in heard

\* The hostname is that of the datastore; during a transaction that changes it
\* it is the new one or some callback has yet to set it.
HostInv ==
    /\ Settled("hostname") => Agrees(running, "hostname")
    /\ Pending("hostname") =>
          \/ name = HostnameValue(cand)
          \/ \E p \in Procs : "hostname" \in calls[p]

\* The same for the link: only the main plugin has a callback for it.
TzInv ==
    /\ Settled("tz") => Agrees(running, "tz")
    /\ Pending("tz") => localtime = LinkValue(cand) \/ "tz" \in calls["main"]

\* What the main plugin merges is a zone, which has no other subscriber: no
\* callback runs in its transaction.
MainInv ==
    /\ pc["main"] = "merge" => loaded["main"].hostname = NONE /\ loaded["main"].ntp = NONE
    /\ owner = "main" => ~ failed /\ \A p \in Procs : calls[p] = {}

IInv == TypeOK /\ StageInv /\ TxnInv /\ HostInv /\ TzInv /\ MainInv

----------------------------------------------------------------------------
(* Facts about the operators.                                              *)

LEMMA OrderLength ==
  Len(Order("main")) = 3 /\ Len(Order("augeas")) = 2
  BY DEF Order

LEMMA OrderFacts ==
  /\ \A i \in 1..3 : Order("main")[i] \in Leaves
  /\ \A i \in 1..2 : Order("augeas")[i] \in Leaves \ {"tz"}
  BY DEF Order, Leaves

\* The augeas plugin has no callback for the timezone.
LEMMA SubscribedFacts ==
  ASSUME TypeOK, StageInv, NEW p \in Procs
  PROVE  /\ Subscribed(p) \subseteq Leaves
         /\ p = "augeas" => "tz" \notin Subscribed(p)
         /\ subs[p] = 0 => Subscribed(p) = {}
  <1>1. subs[p] \in 0..3 /\ subs[p] <= Len(Order(p))
    BY DEF TypeOK, StageInv, StageOf
  <1>2. CASE p = "main"
    BY <1>1, <1>2, OrderLength, OrderFacts DEF Subscribed
  <1>3. CASE p = "augeas"
    BY <1>1, <1>3, OrderLength, OrderFacts DEF Subscribed
  <1>4. QED
    BY <1>2, <1>3 DEF Procs

\* A callback that runs is one of those to run, hence in a transaction.
LEMMA CallsFacts ==
  ASSUME TypeOK, TxnInv, NEW p \in Procs, NEW l, Calls(p, l)
  PROVE  l \in calls[p] /\ cand # NONE /\ cand \in Data /\ l \in Changed(cand)
  <1>1. l \in calls[p]
    BY DEF Calls
  <1>2. QED
    BY <1>1 DEF TxnInv, TypeOK

LEMMA ValueTypes ==
  ASSUME NEW d \in Data
  PROVE  HostnameValue(d) \in Hosts /\ LinkValue(d) \in Zones \cup {NoFile}
  BY PluginsAssumption DEF HostnameValue, LinkValue, Data

LEMMA LoadedType ==
  ASSUME TypeOK, NEW p \in Procs
  PROVE  LoadedBy(p) \in Data /\ LoadedBy(p) # NONE
  <1>1. (IF p # "main" THEN NONE ELSE IF Unreadable THEN NoName ELSE localtime)
           \in Zones \cup {NONE}
    BY TimezoneAssumption DEF TypeOK, Unreadable
  <1>2. (IF p = "main" THEN NONE ELSE {conf[i] : i \in 1..Len(conf)})
           \in (SUBSET Addrs) \cup {NONE}
    BY DEF TypeOK
  <1>3. (IF p = "main" THEN NONE ELSE name) \in Hosts \cup {NONE}
    BY DEF TypeOK
  <1>4. LoadedBy(p) \in Data
    BY <1>1, <1>2, <1>3 DEF LoadedBy, Data
  <1>5. QED
    BY <1>4, PluginsAssumption

LEMMA MergedType ==
  ASSUME NEW d \in Data, NEW l \in Data PROVE Merged(d, l) \in Data
  BY DEF Merged, Servers, Data

\* Entries that are merged into /etc/ntp.conf by their position.
LEMMA ConcatType ==
  ASSUME NEW new \in Seq(Addrs), NEW old \in Seq(Addrs)
  PROVE  new \o SubSeq(old, Len(new) + 1, Len(old)) \in Seq(Addrs)
  <1>1. Len(new) \in Nat /\ Len(old) \in Nat
    BY LenProperties
  <1>2. \A j \in 1..Len(old) : old[j] \in Addrs
    BY ElementOfSeq
  <1>3. SubSeq(old, Len(new) + 1, Len(old)) \in Seq(Addrs)
    BY <1>1, <1>2, SubSeqProperties
  <1>4. QED
    BY <1>3, ConcatProperties

\* A transaction begins.
LEMMA BeginType ==
  ASSUME TypeOK, StageInv, NEW c \in Data, NEW who \in Procs \cup {"client"}, Begin(c, who)
  PROVE  /\ cand' \in Data \cup {NONE} /\ cand' # NONE
         /\ calls' \in [Procs -> SUBSET Leaves] /\ step' = step
         /\ owner' \in Procs \cup {"client"} /\ failed' \in BOOLEAN
         /\ heard' \in SUBSET Leaves
  <1>1. Changed(c) \subseteq Leaves
    BY DEF Changed
  <1>2. QED
    BY <1>1, PluginsAssumption DEF Begin

----------------------------------------------------------------------------
(* The first state.                                                        *)

LEMMA InitIInv == Init => IInv
  <1> SUFFICES ASSUME Init PROVE IInv
    OBVIOUS
  <1>1. TypeOK
    <2>1. startup \in Data /\ running \in Data /\ conf \in Seq(Addrs)
      BY PluginsAssumption DEF Init
    <2>2. txns \in 0..MaxTxns /\ faults \in 0..MaxFaults
      BY PluginsAssumption DEF Init
    <2>3. starts \in [Procs -> 0..MaxStarts] /\ subs \in [Procs -> 0..3]
      BY PluginsAssumption DEF Init
    <2>4. QED
      BY <2>1, <2>2, <2>3 DEF Init, TypeOK, Stages, Leaves
  <1>2. StageInv
    <2>1. \A p \in Procs : pc[p] = "down" /\ subs[p] = 0 /\ owner # p
      BY DEF Init, Procs
    <2>2. QED
      BY <2>1, OrderLength DEF StageInv, StageOf, Procs
  <1>3. TxnInv
    BY DEF Init, TxnInv
  <1>4. HostInv /\ TzInv
    BY DEF Init, HostInv, TzInv, Settled, Pending
  <1>5. MainInv
    BY DEF Init, MainInv, Procs
  <1>6. QED
    BY <1>1, <1>2, <1>3, <1>4, <1>5 DEF IInv

----------------------------------------------------------------------------
(* Types.                                                                  *)

\* The part of the state that belongs to one transaction.
TxnType ==
    /\ cand \in Data \cup {NONE} /\ calls \in [Procs -> SUBSET Leaves]
    /\ step \in [Procs -> {"start", "symlink"}]
    /\ owner \in Procs \cup {"client"} /\ failed \in BOOLEAN
    /\ heard \in SUBSET Leaves

SystemType ==
    /\ name \in Hosts /\ conf \in Seq(Addrs)
    /\ localtime \in Zones \cup {NoFile, Foreign}

\* What the actions do to the transaction keeps its type.
LEMMA TxnSteps ==
  ASSUME TypeOK, NEW p \in Procs
  PROVE  /\ UNCHANGED txn => TxnType'
         /\ \A l : Overtakes(l) => TxnType'
         /\ \A l : CallDone(p, l) => TxnType'
         /\ CallNext(p, "symlink") => TxnType'
         /\ CallFailed(p) => TxnType'
  <1> USE DEF TypeOK, TxnType
  <1>1. UNCHANGED txn => TxnType'
    BY DEF txn
  <1>2. ASSUME NEW l, Overtakes(l) PROVE TxnType'
    BY <1>2 DEF Overtakes
  <1>3. ASSUME NEW l, CallDone(p, l) PROVE TxnType'
    BY <1>3 DEF CallDone
  <1>4. CallNext(p, "symlink") => TxnType'
    BY DEF CallNext
  <1>5. CallFailed(p) => TxnType'
    BY DEF CallFailed
  <1>6. QED
    BY <1>1, <1>2, <1>3, <1>4, <1>5

LEMMA NextTypeOK == TypeOK /\ StageInv /\ TxnInv /\ [Next]_vars => TypeOK'
  <1> SUFFICES ASSUME TypeOK, StageInv, TxnInv, [Next]_vars PROVE TypeOK'
    OBVIOUS
  <1> USE DEF Goto
  <1>1. TxnType /\ SystemType
    BY DEF TypeOK, TxnType, SystemType
  <1>2. ASSUME NEW p \in Procs, CheckEmpty(p) \/ Stop(p) PROVE TypeOK'
    <2>1. TxnType' /\ SystemType'
      BY <1>1, <1>2, TxnSteps DEF CheckEmpty, Stop, system, SystemType
    <2>2. pc' \in [Procs -> Stages]
      BY <1>2 DEF CheckEmpty, Stop, TypeOK, Stages
    <2>3. QED
      BY <1>2, <2>1, <2>2 DEF CheckEmpty, Stop, TypeOK, TxnType, SystemType, bounds
  <1>3. ASSUME NEW p \in Procs, Load(p) PROVE TypeOK'
    <2>1. TxnType' /\ SystemType'
      BY <1>1, <1>3, TxnSteps DEF Load, system, SystemType
    <2>2. loaded' \in [Procs -> Data \cup {NONE}]
      BY <1>3, LoadedType DEF Load, TypeOK
    <2>3. pc' \in [Procs -> Stages]
      BY <1>3 DEF Load, TypeOK, Stages
    <2>4. QED
      BY <1>3, <2>1, <2>2, <2>3 DEF Load, TypeOK, TxnType, SystemType, bounds
  <1>4. ASSUME NEW p \in Procs, Merge(p) PROVE TypeOK'
    <2>1. Merged(running, loaded[p]) \in Data
      BY <1>4, MergedType DEF Merge, StageInv, StageOf, TypeOK
    <2>2. TxnType'
      BY <1>4, <2>1, BeginType DEF Merge, TxnType, TypeOK
    <2>3. SystemType'
      BY <1>1, <1>4 DEF Merge, system, SystemType
    <2>4. pc' \in [Procs -> Stages] /\ loaded' \in [Procs -> Data \cup {NONE}]
      BY <1>4 DEF Merge, TypeOK, Stages
    <2>5. QED
      BY <1>4, <2>2, <2>3, <2>4 DEF Merge, TypeOK, TxnType, SystemType, bounds
  <1>5. ASSUME NEW p \in Procs, StoreTimezone(p) PROVE TypeOK'
    <2>1. TxnType'
      BY <1>5, TxnSteps DEF StoreTimezone, txn
    <2>2. SystemType'
      BY <1>1, <1>5 DEF StoreTimezone, SystemType, UnlinkLocaltime
    <2>3. pc' \in [Procs -> Stages]
      BY <1>5 DEF StoreTimezone, TypeOK, Stages
    <2>4. missed' \in SUBSET Leaves
      BY <1>5 DEF StoreTimezone, AsStartup, TypeOK, Leaves
    <2>5. QED
      BY <1>5, <2>1, <2>2, <2>3, <2>4
      DEF StoreTimezone, TypeOK, TxnType, SystemType, bounds
  <1>6. ASSUME NEW p \in Procs, LinkTimezone(p) PROVE TypeOK'
    <2>1. TxnType'
      BY <1>6, TxnSteps DEF LinkTimezone, txn
    <2>2. SystemType'
      BY <1>1, <1>6 DEF LinkTimezone, SystemType, Symlink, StageInv, StageOf
    <2>3. pc' \in [Procs -> Stages]
      BY <1>6 DEF LinkTimezone, TypeOK, Stages
    <2>4. missed' \in SUBSET Leaves
      BY <1>6 DEF LinkTimezone, AsStartup, TypeOK, Leaves
    <2>5. QED
      BY <1>6, <2>1, <2>2, <2>3, <2>4
      DEF LinkTimezone, TypeOK, TxnType, SystemType, bounds
  <1>7. ASSUME NEW p \in Procs, StoreHostname(p) PROVE TypeOK'
    <2>1. TxnType'
      BY <1>7, TxnSteps DEF StoreHostname, txn
    <2>2. startup.hostname \in Hosts \cup {NONE}
      BY DEF TypeOK, Data
    <2>3. SystemType'
      BY <1>1, <1>7, <2>2 DEF StoreHostname, SystemType
    <2>4. pc' \in [Procs -> Stages]
      BY <1>7 DEF StoreHostname, TypeOK, Stages
    <2>5. missed' \in SUBSET Leaves
      BY <1>7 DEF StoreHostname, AsStartup, TypeOK, Leaves
    <2>6. QED
      BY <1>7, <2>1, <2>3, <2>4, <2>5
      DEF StoreHostname, TypeOK, TxnType, SystemType, bounds
  <1>9. ASSUME NEW p \in Procs, StoreNtp(p) PROVE TypeOK'
    <2>1. TxnType'
      BY <1>9, TxnSteps DEF StoreNtp
    <2>2. conf' \in Seq(Addrs)
      <3>1. conf \in Seq(Addrs)
        BY DEF TypeOK
      <3>2. ASSUME NEW new \in Confs
            PROVE  new \o SubSeq(conf, Len(new) + 1, Len(conf)) \in Seq(Addrs)
        BY <3>1, ConcatType, PluginsAssumption
      <3>3. QED
        BY <1>9, <3>1, <3>2 DEF StoreNtp
    <2>3. SystemType'
      BY <1>1, <1>9, <2>2 DEF StoreNtp, SystemType
    <2>4. pc' \in [Procs -> Stages]
      BY <1>9 DEF StoreNtp, TypeOK, Stages
    <2>5. QED
      BY <1>9, <2>1, <2>3, <2>4 DEF StoreNtp, TypeOK, TxnType, SystemType, bounds
  <1>10. ASSUME NEW p \in Procs, Subscribe(p) PROVE TypeOK'
    <2>1. TxnType' /\ SystemType'
      BY <1>1, <1>10, TxnSteps DEF Subscribe, system, SystemType
    <2>2. subs[p] + 1 \in 0..3
      <3>1. ASSUME NEW k \in 0..3, k < Len(Order(p)) PROVE k + 1 \in 0..3
        <4>1. CASE p = "main"
          BY <3>1, <4>1, OrderLength
        <4>2. CASE p = "augeas"
          BY <3>1, <4>2, OrderLength
        <4>3. QED
          BY <4>1, <4>2 DEF Procs
      <3>2. subs[p] \in 0..3 /\ subs[p] < Len(Order(p))
        BY <1>10 DEF Subscribe, StageInv, StageOf, TypeOK
      <3>3. QED
        BY <3>1, <3>2
    <2>3. pc' \in [Procs -> Stages] /\ subs' \in [Procs -> 0..3]
      BY <1>10, <2>2 DEF Subscribe, TypeOK, Stages
    <2>4. QED
      BY <1>10, <2>1, <2>3 DEF Subscribe, TypeOK, TxnType, SystemType, bounds
  <1>11. ASSUME NEW p \in Procs, SetHostname(p) PROVE TypeOK'
    <2>1. cand \in Data
      BY <1>11, CallsFacts DEF SetHostname
    <2>2. TxnType'
      BY <1>11, TxnSteps DEF SetHostname
    <2>3. SystemType'
      BY <1>1, <1>11, <2>1, ValueTypes DEF SetHostname, SystemType
    <2>4. QED
      BY <1>11, <2>2, <2>3 DEF SetHostname, OutsideCalls, bounds, TypeOK, TxnType,
                               SystemType
  <1>12. ASSUME NEW p \in Procs,
                DeleteTimezone(p) \/ UnlinkTimezone(p) \/ SymlinkTimezone(p)
         PROVE  TypeOK'
    <2>1. cand \in Data
      BY <1>12, CallsFacts DEF DeleteTimezone, UnlinkTimezone, SymlinkTimezone
    <2>2. TxnType'
      BY <1>12, TxnSteps DEF DeleteTimezone, UnlinkTimezone, SymlinkTimezone
    <2>3. SystemType'
      BY <1>1, <1>12, <2>1 DEF DeleteTimezone, UnlinkTimezone, SymlinkTimezone,
                               SystemType, UnlinkLocaltime, Symlink, Data
    <2>4. QED
      BY <1>12, <2>2, <2>3 DEF DeleteTimezone, UnlinkTimezone, SymlinkTimezone,
                               OutsideCalls, bounds, TypeOK, TxnType, SystemType
  <1>13. ASSUME NEW p \in Procs, ChangeNtp(p) PROVE TypeOK'
    <2>1. TxnType'
      BY <1>13, TxnSteps DEF ChangeNtp
    <2>2. SystemType'
      BY <1>1, <1>13, PluginsAssumption DEF ChangeNtp, SystemType
    <2>3. QED
      BY <1>13, <2>1, <2>2 DEF ChangeNtp, OutsideCalls, bounds, TypeOK, TxnType, SystemType
  <1>14. ASSUME NEW p \in Procs, Start(p) PROVE TypeOK'
    <2>1. TxnType' /\ SystemType'
      BY <1>1, <1>14, TxnSteps DEF Start, system, SystemType
    <2>2. starts[p] + 1 \in 0..MaxStarts
      BY <1>14, PluginsAssumption DEF Start, TypeOK
    <2>3. pc' \in [Procs -> Stages] /\ starts' \in [Procs -> 0..MaxStarts]
      BY <1>14, <2>2 DEF Start, TypeOK, Stages
    <2>4. QED
      BY <1>14, <2>1, <2>3 DEF Start, TypeOK, TxnType, SystemType
  <1>15. ASSUME NEW p \in Procs, Gone(p), UNCHANGED <<startup, running, system, missed>>,
                cand' = cand, heard' = heard, owner' \in {owner, "client"},
                failed' \in BOOLEAN, UNCHANGED <<txns, starts>>, faults' \in 0..MaxFaults
         PROVE  TypeOK'
    <2>1. TxnType'
      BY <1>1, <1>15 DEF Gone, TxnType
    <2>2. SystemType'
      BY <1>1, <1>15 DEF system, SystemType
    <2>3. /\ pc' \in [Procs -> Stages] /\ subs' \in [Procs -> 0..3]
          /\ loaded' \in [Procs -> Data \cup {NONE}]
      BY <1>15 DEF Gone, TypeOK, Stages
    <2>4. QED
      BY <1>15, <2>1, <2>2, <2>3 DEF TypeOK, TxnType, SystemType
  <1>16. ASSUME NEW p \in Procs, Disconnect(p) \/ UseAfterFree(p) PROVE TypeOK'
    BY <1>15, <1>16 DEF Disconnect, UseAfterFree, Lost, bounds, TypeOK
  <1>17. ASSUME NEW p \in Procs, Dies(p) PROVE TypeOK'
    <2>1. faults' \in 0..MaxFaults
      BY <1>17, PluginsAssumption DEF Dies, Fault, TypeOK
    <2>2. QED
      BY <1>15, <1>17, <2>1 DEF Dies, Lost, TypeOK
  <1>18. ASSUME NEW p \in Procs, CallFails(p) \/ CheckHostnameFails(p) PROVE TypeOK'
    <2>1. faults' \in 0..MaxFaults
      BY <1>18, PluginsAssumption DEF CallFails, CheckHostnameFails, Fault, TypeOK
    <2>2. TxnType'
      BY <1>18, TxnSteps DEF CallFails, CheckHostnameFails
    <2>3. SystemType'
      BY <1>1, <1>18 DEF CallFails, CheckHostnameFails, system, SystemType
    <2>4. pc' \in [Procs -> Stages]
      BY <1>18 DEF CallFails, CheckHostnameFails, TypeOK, Stages
    <2>5. QED
      BY <1>18, <2>1, <2>2, <2>3, <2>4
      DEF CallFails, CheckHostnameFails, TypeOK, TxnType, SystemType
  <1>19. ASSUME NEW c \in Edits, Edit(c) PROVE TypeOK'
    <2>1. c \in Data
      BY PluginsAssumption
    <2>2. TxnType'
      BY <1>19, <2>1, BeginType DEF Edit, TxnType, TypeOK
    <2>3. SystemType'
      BY <1>1, <1>19 DEF Edit, system, SystemType
    <2>4. txns' \in 0..MaxTxns
      BY <1>19, PluginsAssumption DEF Edit, TypeOK
    <2>5. QED
      BY <1>19, <2>2, <2>3, <2>4 DEF Edit, TypeOK, TxnType, SystemType
  <1>20. CASE Commit \/ Reject
    <2>1. TxnType'
      BY <1>1, <1>20 DEF Commit, Reject, TxnType
    <2>2. SystemType'
      BY <1>1, <1>20 DEF Commit, Reject, system, SystemType
    <2>3. running' \in Data
      BY <1>20 DEF Commit, Reject, Answered, TypeOK
    <2>4. missed' \in SUBSET Leaves
      BY <1>20 DEF Commit, Reject, Changed, TypeOK
    <2>5. pc' \in [Procs -> Stages]
      BY <1>20 DEF Commit, Reject, OwnerGoto, TypeOK, Stages
    <2>6. QED
      BY <1>20, <2>1, <2>2, <2>3, <2>4, <2>5
      DEF Commit, Reject, TypeOK, TxnType, SystemType, bounds
  <1>21. CASE UNCHANGED vars
    BY <1>21 DEF vars, system, txn, bounds, TypeOK
  <1>22. QED
    BY <1>2, <1>3, <1>4, <1>5, <1>6, <1>7, <1>9, <1>10, <1>11, <1>12, <1>13,
       <1>14, <1>16, <1>17, <1>18, <1>19, <1>20, <1>21
    DEF Next, Step, Environment

----------------------------------------------------------------------------
(* Stages of the processes.                                                *)

LEMMA OrderPositive == \A p \in Procs : Len(Order(p)) \in Nat /\ 0 < Len(Order(p))
  BY OrderLength DEF Procs

\* A step of one process leaves the other where it is.
LEMMA StageStep ==
  ASSUME StageInv, NEW p \in Procs, StageOf(p)', startup' = startup,
         \A q \in Procs \ {p} : /\ pc'[q] = pc[q] /\ subs'[q] = subs[q]
                                /\ loaded'[q] = loaded[q]
                                /\ owner' = q <=> owner = q
  PROVE  StageInv'
  BY DEF StageInv, StageOf

LEMMA NextStageInv == TypeOK /\ StageInv /\ TxnInv /\ [Next]_vars => StageInv'
  <1> SUFFICES ASSUME TypeOK, StageInv, TxnInv, [Next]_vars PROVE StageInv'
    OBVIOUS
  <1> USE DEF Goto
  <1>1. ASSUME NEW p \in Procs, CheckEmpty(p) \/ Start(p) \/ StoreNtp(p) \/ Stop(p)
        PROVE  StageInv'
    <2>1. StageOf(p)'
      BY <1>1, OrderPositive DEF CheckEmpty, Start, StoreNtp, Stop, txn, TypeOK,
                                 StageInv, StageOf
    <2>2. QED
      BY <1>1, <2>1, StageStep DEF CheckEmpty, Start, StoreNtp, Stop, txn, TypeOK
  <1>2. ASSUME NEW p \in Procs, Load(p) PROVE StageInv'
    <2>1. StageOf(p)'
      BY <1>2, LoadedType DEF Load, txn, TypeOK, StageInv, StageOf
    <2>2. QED
      BY <1>2, <2>1, StageStep DEF Load, txn, TypeOK
  <1>3. ASSUME NEW p \in Procs, Merge(p) PROVE StageInv'
    <2>1. StageOf(p)'
      BY <1>3 DEF Merge, Begin, TypeOK, StageInv, StageOf
    <2>2. owner = "client" /\ owner' = p /\ "client" \notin Procs
      BY <1>3 DEF Merge, Begin, TxnInv, Procs
    <2>3. QED
      BY <1>3, <2>1, <2>2, StageStep DEF Merge, TypeOK
  <1>4. ASSUME NEW p \in Procs, StoreTimezone(p) PROVE StageInv'
    <2>1. StageOf(p)'
      BY <1>4, OrderPositive, TimezoneAssumption
      DEF StoreTimezone, UnlinkLocaltime, Overtakes, txn, TypeOK, StageInv, StageOf
    <2>2. QED
      BY <1>4, <2>1, StageStep DEF StoreTimezone, Overtakes, txn, TypeOK
  <1>5. ASSUME NEW p \in Procs, LinkTimezone(p) PROVE StageInv'
    <2>1. StageOf(p)'
      BY <1>5, OrderPositive DEF LinkTimezone, Overtakes, txn, TypeOK, StageInv, StageOf
    <2>2. QED
      BY <1>5, <2>1, StageStep DEF LinkTimezone, Overtakes, txn, TypeOK
  <1>6. ASSUME NEW p \in Procs, StoreHostname(p) \/ CheckHostnameFails(p) PROVE StageInv'
    <2>1. StageOf(p)'
      BY <1>6 DEF StoreHostname, CheckHostnameFails, Overtakes, txn, TypeOK, StageInv,
                  StageOf
    <2>2. QED
      BY <1>6, <2>1, StageStep DEF StoreHostname, CheckHostnameFails, Overtakes, txn, TypeOK
  <1>7. ASSUME NEW p \in Procs, Subscribe(p) PROVE StageInv'
    <2>1. /\ subs[p] \in 0..3 /\ subs[p] < Len(Order(p)) /\ Len(Order(p)) \in Nat
          /\ pc[p] = "subscribe" /\ owner # p
      BY <1>7, OrderPositive DEF Subscribe, TypeOK, StageInv, StageOf
    <2>2. /\ subs'[p] = subs[p] + 1 /\ owner' = owner
          /\ pc'[p] = IF subs[p] + 1 = Len(Order(p)) THEN "up" ELSE "subscribe"
      BY <1>7 DEF Subscribe, txn, TypeOK
    <2>3. subs'[p] <= Len(Order(p)) /\ (pc'[p] = "subscribe" => subs'[p] < Len(Order(p)))
      BY <2>1, <2>2
    <2>4. StageOf(p)'
      BY <2>1, <2>2, <2>3 DEF StageOf
    <2>5. QED
      BY <1>7, <2>4, StageStep DEF Subscribe, txn, TypeOK
  <1>8. ASSUME UNCHANGED <<startup, pc, subs, loaded, owner>> PROVE StageInv'
    BY <1>8 DEF StageInv, StageOf
  <1>9. ASSUME NEW p \in Procs,
               SetHostname(p) \/ DeleteTimezone(p) \/ UnlinkTimezone(p)
                 \/ SymlinkTimezone(p) \/ ChangeNtp(p) \/ CallFails(p)
        PROVE  StageInv'
    <2>1. UNCHANGED <<startup, pc, subs, loaded, owner>>
      BY <1>9 DEF SetHostname, DeleteTimezone, UnlinkTimezone, SymlinkTimezone,
                  ChangeNtp, CallFails, OutsideCalls, CallDone, CallNext, CallFailed
    <2>2. QED
      BY <1>8, <2>1
  <1>10. ASSUME NEW p \in Procs, Disconnect(p) \/ UseAfterFree(p) \/ Dies(p)
         PROVE  StageInv'
    <2>1. /\ Gone(p) /\ startup' = startup
          /\ owner' = IF owner = p THEN "client" ELSE owner
      BY <1>10 DEF Disconnect, UseAfterFree, Dies, Lost, StageInv, StageOf
    <2>2. pc'[p] = "down" /\ subs'[p] = 0
      BY <2>1 DEF Gone, TypeOK
    <2>3. owner' # p /\ "client" \notin Procs
      BY <2>1 DEF Procs
    <2>4. StageOf(p)'
      BY <2>1, <2>2, <2>3, OrderPositive DEF StageOf
    <2>5. QED
      BY <2>1, <2>3, <2>4, StageStep DEF Gone, TypeOK
  <1>11. ASSUME NEW c \in Edits, Edit(c) PROVE StageInv'
    BY <1>8, <1>11 DEF Edit, Begin, TxnInv
  <1>12. CASE Commit \/ Reject
    <2>1. ASSUME NEW p \in Procs PROVE StageOf(p)'
      <3>1. /\ UNCHANGED <<startup, subs, loaded>> /\ owner' = "client" /\ p # "client"
            /\ pc'[p] \in IF p = owner THEN {"subscribe", "down"} ELSE {pc[p]}
        BY <1>12 DEF Commit, Reject, OwnerGoto, Procs
      <3>2. StageOf(p) /\ Len(Order(p)) \in Nat /\ 0 < Len(Order(p))
        BY OrderPositive DEF StageInv
      <3>3. QED
        BY <3>1, <3>2 DEF StageOf
    <2>2. QED
      BY <2>1 DEF StageInv
  <1>13. CASE UNCHANGED vars
    BY <1>8, <1>13 DEF vars, txn
  <1>14. QED
    BY <1>1, <1>2, <1>3, <1>4, <1>5, <1>6, <1>7, <1>9, <1>10, <1>11, <1>12, <1>13
    DEF Next, Step, Environment

----------------------------------------------------------------------------
(* Transactions and callbacks.                                             *)

\* An action that is not about the transaction.
LEMMA TxnFrame ==
  ASSUME TxnInv, UNCHANGED <<running, cand, owner, failed, calls, step, subs>>
  PROVE  TxnInv'
  BY DEF TxnInv, Subscribed, Changed

\* A callback of p goes on, ends or fails.
LEMMA TxnCall ==
  ASSUME TypeOK, TxnInv, NEW p \in Procs, calls[p] # {},
         UNCHANGED <<running, cand, owner, subs>>, failed' \in {failed, TRUE},
         \/ calls' = calls /\ step' \in [Procs -> {"start", "symlink"}]
                           /\ \A q \in Procs \ {p} : step'[q] = step[q]
         \/ \E l : calls' = [calls EXCEPT ![p] = @ \ l] /\ step' = [step EXCEPT ![p] = "start"]
  PROVE  TxnInv'
  <1>1. cand # NONE /\ cand' # NONE
    BY DEF TxnInv
  <1>2. Changed(cand)' = Changed(cand) /\ \A q \in Procs : Subscribed(q)' = Subscribed(q)
    BY DEF Changed, Subscribed
  <1>3. ASSUME NEW q \in Procs
        PROVE  calls'[q] \subseteq calls[q] /\ (calls'[q] = {} => step'[q] = "start")
    BY DEF TxnInv, TypeOK
  <1>4. QED
    BY <1>1, <1>2, <1>3 DEF TxnInv

LEMMA TxnBegin ==
  ASSUME TypeOK, StageInv, TxnInv, NEW c \in Data, NEW who, Begin(c, who), cand = NONE,
         UNCHANGED <<running, subs>>
  PROVE  TxnInv'
  <1>1. cand' = c /\ cand' # NONE
    BY PluginsAssumption DEF Begin
  <1>2. Changed(cand)' = Changed(c) /\ \A q \in Procs : Subscribed(q)' = Subscribed(q)
    BY <1>1 DEF Changed, Subscribed
  <1>3. \A q \in Procs : step'[q] = "start" /\ calls'[q] = Changed(c) \cap Subscribed(q)
    BY DEF Begin, TxnInv
  <1>4. QED
    BY <1>1, <1>2, <1>3 DEF TxnInv

LEMMA NextTxnInv == TypeOK /\ StageInv /\ TxnInv /\ [Next]_vars => TxnInv'
  <1> SUFFICES ASSUME TypeOK, StageInv, TxnInv, [Next]_vars PROVE TxnInv'
    OBVIOUS
  <1>1. ASSUME NEW p \in Procs,
               CheckEmpty(p) \/ Load(p) \/ StoreTimezone(p) \/ LinkTimezone(p)
                 \/ StoreHostname(p) \/ CheckHostnameFails(p) \/ StoreNtp(p)
                 \/ Start(p) \/ Stop(p)
        PROVE  TxnInv'
    BY <1>1, TxnFrame DEF CheckEmpty, Load, StoreTimezone, LinkTimezone, StoreHostname,
                          CheckHostnameFails, StoreNtp, Start, Stop, Overtakes, txn
  <1>2. ASSUME NEW p \in Procs, Merge(p) PROVE TxnInv'
    <2>1. Merged(running, loaded[p]) \in Data
      BY <1>2, MergedType DEF Merge, StageInv, StageOf, TypeOK
    <2>2. QED
      BY <1>2, <2>1, TxnBegin DEF Merge
  <1>3. ASSUME NEW p \in Procs, Subscribe(p) PROVE TxnInv'
    <2>1. UNCHANGED <<running, cand, owner, failed, calls, step>>
      BY <1>3 DEF Subscribe, txn
    <2>2. \A q \in Procs : subs[q] \in 0..3 /\ subs'[q] \in {subs[q], subs[q] + 1}
      BY <1>3 DEF Subscribe, TypeOK
    <2>3. \A q \in Procs : Subscribed(q) \subseteq Subscribed(q)'
      BY <2>2 DEF Subscribed
    <2>4. QED
      BY <2>1, <2>3 DEF TxnInv, Changed
  <1>4. ASSUME NEW p \in Procs, SetHostname(p) PROVE TxnInv'
    <2>1. calls[p] # {}
      BY <1>4, CallsFacts DEF SetHostname
    <2>2. UNCHANGED <<running, cand, owner, subs, failed>>
      BY <1>4 DEF SetHostname, OutsideCalls, CallDone
    <2>3. QED
      BY <1>4, <2>1, <2>2, TxnCall DEF SetHostname, CallDone
  <1>5. ASSUME NEW p \in Procs, calls[p] # {}, UNCHANGED <<running, subs>>, CallFailed(p)
        PROVE  TxnInv'
    <2>1. calls' = [calls EXCEPT ![p] = @ \ Leaves]
      BY <1>5 DEF CallFailed, TypeOK
    <2>2. QED
      BY <1>5, <2>1, TxnCall DEF CallFailed
  <1>6. ASSUME NEW p \in Procs,
               DeleteTimezone(p) \/ UnlinkTimezone(p) \/ SymlinkTimezone(p)
        PROVE  TxnInv'
    <2>1. calls[p] # {}
      BY <1>6, CallsFacts DEF DeleteTimezone, UnlinkTimezone, SymlinkTimezone
    <2>2. UNCHANGED <<running, subs>>
      BY <1>6 DEF DeleteTimezone, UnlinkTimezone, SymlinkTimezone, OutsideCalls
    <2>3. CallFailed(p) \/ CallDone(p, "tz") \/ CallNext(p, "symlink")
      BY <1>6 DEF DeleteTimezone, UnlinkTimezone, SymlinkTimezone
    <2>4. CASE CallDone(p, "tz")
      BY <2>1, <2>2, <2>4, TxnCall DEF CallDone
    <2>5. CASE CallNext(p, "symlink")
      BY <2>1, <2>2, <2>5, TxnCall DEF CallNext, TypeOK
    <2>6. QED
      BY <1>5, <2>1, <2>2, <2>3, <2>4, <2>5
  <1>7. ASSUME NEW p \in Procs, ChangeNtp(p) \/ CallFails(p) PROVE TxnInv'
    <2>1. calls[p] # {}
      BY <1>7, CallsFacts DEF ChangeNtp, CallFails
    <2>2. QED
      BY <1>5, <1>7, <2>1 DEF ChangeNtp, CallFails, OutsideCalls
  <1>9. ASSUME NEW p \in Procs, Disconnect(p) \/ UseAfterFree(p) \/ Dies(p) PROVE TxnInv'
    <2>1. /\ Gone(p) /\ UNCHANGED <<running, cand>>
          /\ cand = NONE => owner' = "client" /\ ~ failed'
      <3>1. cand = NONE => owner = "client" /\ owner # p /\ ~ failed /\ calls[p] = {}
        BY DEF TxnInv, Procs
      <3>2. CASE Disconnect(p)
        BY <3>1, <3>2 DEF Disconnect
      <3>3. CASE UseAfterFree(p) \/ Dies(p)
        BY <3>1, <3>3 DEF UseAfterFree, Dies, Lost
      <3>4. QED
        BY <1>9, <3>2, <3>3
    <2>2. Changed(cand)' = Changed(cand)
      BY <2>1 DEF Changed
    <2>3. calls'[p] = {} /\ step'[p] = "start"
      BY <2>1 DEF Gone, TypeOK
    <2>4. \A q \in Procs \ {p} : /\ calls'[q] = calls[q] /\ step'[q] = step[q]
                                 /\ Subscribed(q)' = Subscribed(q)
      BY <2>1 DEF Gone, TypeOK, Subscribed
    <2>5. QED
      BY <2>1, <2>2, <2>3, <2>4 DEF TxnInv
  <1>10. ASSUME NEW c \in Edits, Edit(c) PROVE TxnInv'
    BY <1>10, TxnBegin, PluginsAssumption DEF Edit
  <1>11. CASE Commit \/ Reject
    <2>1. cand' = NONE /\ owner' = "client" /\ ~ failed' /\ UNCHANGED <<calls, step, subs>>
      BY <1>11 DEF Commit, Reject
    <2>2. \A q \in Procs : calls[q] = {}
      BY <1>11 DEF Commit, Reject, Answered
    <2>3. QED
      BY <2>1, <2>2 DEF TxnInv
  <1>12. CASE UNCHANGED vars
    BY <1>12, TxnFrame DEF vars, txn
  <1>13. QED
    BY <1>1, <1>2, <1>3, <1>4, <1>6, <1>7, <1>9, <1>10, <1>11, <1>12
    DEF Next, Step, Environment

----------------------------------------------------------------------------
(* The hostname.                                                           *)

\* An action that is not about the hostname: no callback for it ends.
LEMMA HostFrame ==
  ASSUME HostInv, UNCHANGED <<running, cand, name, failed>>,
         "hostname" \in missed' <=> "hostname" \in missed,
         "hostname" \in heard' => "hostname" \in heard,
         \A q \in Procs : "hostname" \in calls[q] => "hostname" \in calls'[q]
  PROVE  HostInv'
  <1>1. Settled("hostname")' => Settled("hostname")
    BY DEF Settled, Changed
  <1>2. Pending("hostname")' => Pending("hostname")
    BY DEF Pending
  <1>3. QED
    BY <1>1, <1>2 DEF HostInv, Agrees, HostnameValue

\* A callback failed, or its process is gone: the transaction is rejected.
LEMMA HostFailed ==
  ASSUME HostInv, UNCHANGED <<running, cand, name, missed>>, failed'
  PROVE  HostInv'
  <1>1. Settled("hostname")' => Settled("hostname")
    BY DEF Settled, Changed
  <1>2. QED
    BY <1>1 DEF HostInv, Pending, Agrees

\* A transaction begins: who is told of the new hostname has yet to set it.
LEMMA HostBegin ==
  ASSUME TypeOK, TxnInv, HostInv, NEW c \in Data, NEW who, Begin(c, who), cand = NONE,
         UNCHANGED <<running, name, missed>>
  PROVE  HostInv'
  <1>1. cand' = c /\ cand' # NONE
    BY PluginsAssumption DEF Begin
  <1>2. Settled("hostname")' => Settled("hostname")
    BY DEF Settled
  <1>3. ASSUME "hostname" \in heard'
        PROVE  \E p \in Procs : "hostname" \in calls'[p]
    <2>1. PICK p \in Procs : "hostname" \in Changed(c) \cap Subscribed(p)
      BY <1>3 DEF Begin
    <2>2. "hostname" \in calls'[p]
      BY <2>1 DEF Begin
    <2>3. QED
      BY <2>2
  <1>4. QED
    BY <1>2, <1>3 DEF HostInv, Pending, Agrees

LEMMA NextHostInv == TypeOK /\ StageInv /\ TxnInv /\ HostInv /\ [Next]_vars => HostInv'
  <1> SUFFICES ASSUME TypeOK, StageInv, TxnInv, HostInv, [Next]_vars PROVE HostInv'
    OBVIOUS
  <1>1. ASSUME NEW p \in Procs,
               CheckEmpty(p) \/ Load(p) \/ StoreTimezone(p) \/ LinkTimezone(p)
                 \/ StoreNtp(p) \/ Subscribe(p) \/ Start(p) \/ Stop(p)
                 \/ CheckHostnameFails(p)
        PROVE  HostInv'
    <2>1. UNCHANGED <<running, cand, name, failed, calls>>
      BY <1>1 DEF CheckEmpty, Load, StoreTimezone, LinkTimezone, StoreNtp, Subscribe,
                  Start, Stop, CheckHostnameFails, Overtakes, system, txn
    <2>2. /\ "hostname" \in missed' <=> "hostname" \in missed
          /\ "hostname" \in heard' => "hostname" \in heard
      BY <1>1 DEF CheckEmpty, Load, StoreTimezone, LinkTimezone, StoreNtp, Subscribe,
                  Start, Stop, CheckHostnameFails, AsStartup, Overtakes, txn
    <2>3. QED
      BY <2>1, <2>2, HostFrame
  <1>2. ASSUME NEW p \in Procs, Merge(p) PROVE HostInv'
    <2>1. Merged(running, loaded[p]) \in Data
      BY <1>2, MergedType DEF Merge, StageInv, StageOf, TypeOK
    <2>2. QED
      BY <1>2, <2>1, HostBegin DEF Merge, system
  <1>3. ASSUME NEW p \in Procs, StoreHostname(p) PROVE HostInv'
    <2>1. CASE startup.hostname = NONE
      <3>1. UNCHANGED <<running, name, txn, missed>>
        BY <1>3, <2>1, PluginsAssumption DEF StoreHostname, TypeOK
      <3>2. QED
        BY <3>1, HostFrame DEF txn
    <2>2. CASE startup.hostname # NONE
      <3>1. /\ name' = startup.hostname /\ AsStartup("hostname")
            /\ UNCHANGED <<running, cand, failed, calls>>
            /\ "hostname" \in heard' => name' = name /\ heard' = heard
        BY <1>3, <2>2 DEF StoreHostname, Overtakes, txn
      <3>2. Settled("hostname")' => Agrees(running, "hostname")'
        BY <2>2, <3>1 DEF AsStartup, Settled, Agrees
      <3>3. Pending("hostname")' => Pending("hostname") /\ name' = name
        BY <3>1 DEF Pending
      <3>4. QED
        BY <3>1, <3>2, <3>3 DEF HostInv, HostnameValue
    <2>3. QED
      BY <2>1, <2>2
  <1>4. ASSUME NEW p \in Procs, SetHostname(p) PROVE HostInv'
    <2>1. cand # NONE /\ "hostname" \in Changed(cand)
      BY <1>4, CallsFacts DEF SetHostname
    <2>2. UNCHANGED <<running, cand, missed>> /\ name' = HostnameValue(cand)
      BY <1>4 DEF SetHostname, OutsideCalls, CallDone
    <2>3. ~ Settled("hostname")'
      BY <2>1, <2>2 DEF Settled, Changed
    <2>4. HostnameValue(cand)' = HostnameValue(cand)
      BY <2>2 DEF HostnameValue
    <2>5. QED
      BY <2>2, <2>3, <2>4 DEF HostInv
  <1>5. ASSUME NEW p \in Procs,
               DeleteTimezone(p) \/ UnlinkTimezone(p) \/ SymlinkTimezone(p)
        PROVE  HostInv'
    <2>1. UNCHANGED <<running, cand, name, missed>>
      BY <1>5 DEF DeleteTimezone, UnlinkTimezone, SymlinkTimezone, OutsideCalls,
                  CallDone, CallNext, CallFailed
    <2>2. CallFailed(p) \/ CallDone(p, "tz") \/ CallNext(p, "symlink")
      BY <1>5 DEF DeleteTimezone, UnlinkTimezone, SymlinkTimezone
    <2>3. CASE CallFailed(p)
      BY <2>1, <2>3, HostFailed DEF CallFailed
    <2>4. CASE CallDone(p, "tz") \/ CallNext(p, "symlink")
      <3>1. UNCHANGED <<failed, heard>>
        BY <2>4 DEF CallDone, CallNext
      <3>2. \A q \in Procs : "hostname" \in calls[q] => "hostname" \in calls'[q]
        BY <2>4 DEF CallDone, CallNext, TypeOK
      <3>3. QED
        BY <2>1, <3>1, <3>2, HostFrame
    <2>5. QED
      BY <2>2, <2>3, <2>4
  <1>6. ASSUME NEW p \in Procs, ChangeNtp(p) \/ CallFails(p) PROVE HostInv'
    BY <1>6, HostFailed DEF ChangeNtp, CallFails, OutsideCalls, CallFailed, system
  <1>7. ASSUME NEW p \in Procs, Disconnect(p) \/ UseAfterFree(p) \/ Dies(p) PROVE HostInv'
    <2>1. Gone(p) /\ UNCHANGED <<running, cand, name, heard, missed>>
      BY <1>7 DEF Disconnect, UseAfterFree, Dies, Lost, system
    <2>2. CASE failed'
      BY <2>1, <2>2, HostFailed
    <2>3. CASE calls[p] = {} /\ failed' = failed
      <3>1. \A q \in Procs : calls'[q] = calls[q]
        BY <2>1, <2>3 DEF Gone, TypeOK
      <3>2. QED
        BY <2>1, <2>3, <3>1, HostFrame
    <2>4. failed' \/ (calls[p] = {} /\ failed' = failed)
      BY <1>7 DEF Disconnect, UseAfterFree, Dies, Lost, TypeOK
    <2>5. QED
      BY <2>2, <2>3, <2>4
  <1>8. ASSUME NEW c \in Edits, Edit(c) PROVE HostInv'
    BY <1>8, HostBegin, PluginsAssumption DEF Edit, system
  <1>9. CASE Commit
    <2>1. /\ cand # NONE /\ ~ failed /\ \A q \in Procs : calls[q] = {}
          /\ running' = cand /\ cand' = NONE /\ UNCHANGED name
          /\ missed' = {l \in (missed \cup Changed(cand)) \ heard : ~ Agrees(cand, l)}
      BY <1>9 DEF Commit, Answered, system
    <2>2. CASE "hostname" \in heard
      <3>1. name = HostnameValue(cand)
        BY <2>1, <2>2 DEF HostInv, Pending
      <3>2. QED
        BY <2>1, <3>1 DEF HostInv, Pending, Agrees, HostnameValue
    <2>3. CASE "hostname" \notin missed \cup Changed(cand)
      <3>1. Agrees(running, "hostname")
        BY <2>3 DEF HostInv, Settled
      <3>2. running.hostname = cand.hostname
        BY <2>3 DEF Changed, Leaves
      <3>3. QED
        BY <2>1, <3>1, <3>2 DEF HostInv, Pending, Agrees
    <2>4. CASE Agrees(cand, "hostname")
      BY <2>1, <2>4 DEF HostInv, Pending, Agrees
    <2>5. CASE "hostname" \in missed'
      BY <2>1, <2>5 DEF HostInv, Pending, Settled
    <2>6. QED
      BY <2>1, <2>2, <2>3, <2>4, <2>5
  <1>10. CASE Reject
    <2>1. Settled("hostname")' => Settled("hostname")
      BY <1>10 DEF Reject, Settled
    <2>2. UNCHANGED <<running, name>> /\ cand' = NONE
      BY <1>10 DEF Reject, system
    <2>3. QED
      BY <2>1, <2>2 DEF HostInv, Pending, Agrees
  <1>11. CASE UNCHANGED vars
    BY <1>11, HostFrame DEF vars, system, txn
  <1>12. QED
    BY <1>1, <1>2, <1>3, <1>4, <1>5, <1>6, <1>7, <1>8, <1>9, <1>10, <1>11
    DEF Next, Step, Environment

----------------------------------------------------------------------------
(* The timezone.                                                           *)

LEMMA TzFrame ==
  ASSUME TzInv, UNCHANGED <<running, cand, localtime, failed>>,
         "tz" \in missed' <=> "tz" \in missed,
         "tz" \in heard' => "tz" \in heard,
         "tz" \in calls["main"] => "tz" \in calls'["main"]
  PROVE  TzInv'
  <1>1. Settled("tz")' => Settled("tz")
    BY DEF Settled, Changed
  <1>2. Pending("tz")' => Pending("tz")
    BY DEF Pending
  <1>3. QED
    BY <1>1, <1>2 DEF TzInv, Agrees, LinkValue

LEMMA TzFailed ==
  ASSUME TzInv, UNCHANGED <<running, cand, localtime, missed>>, failed'
  PROVE  TzInv'
  <1>1. Settled("tz")' => Settled("tz")
    BY DEF Settled, Changed
  <1>2. QED
    BY <1>1 DEF TzInv, Pending, Agrees, LinkValue

LEMMA TzBegin ==
  ASSUME TypeOK, StageInv, TzInv, NEW c \in Data, NEW who, Begin(c, who), cand = NONE,
         UNCHANGED <<running, localtime, missed>>
  PROVE  TzInv'
  <1>1. Settled("tz")' => Settled("tz")
    BY DEF Settled
  <1>2. ASSUME "tz" \in heard' PROVE "tz" \in calls'["main"]
    <2>1. PICK p \in Procs : "tz" \in Changed(c) \cap Subscribed(p)
      BY <1>2 DEF Begin
    <2>2. p = "main"
      BY <2>1, SubscribedFacts DEF Procs
    <2>3. QED
      BY <2>1, <2>2 DEF Begin
  <1>3. QED
    BY <1>1, <1>2 DEF TzInv, Pending, Agrees, LinkValue

LEMMA NextTzInv == TypeOK /\ StageInv /\ TxnInv /\ TzInv /\ [Next]_vars => TzInv'
  <1> SUFFICES ASSUME TypeOK, StageInv, TxnInv, TzInv, [Next]_vars PROVE TzInv'
    OBVIOUS
  <1>1. ASSUME NEW p \in Procs,
               CheckEmpty(p) \/ Load(p) \/ StoreHostname(p) \/ CheckHostnameFails(p)
                 \/ StoreNtp(p) \/ Subscribe(p) \/ Start(p) \/ Stop(p)
        PROVE  TzInv'
    <2>1. UNCHANGED <<running, cand, localtime, failed, calls>>
      BY <1>1 DEF CheckEmpty, Load, StoreHostname, CheckHostnameFails, StoreNtp, Subscribe,
                  Start, Stop, Overtakes, system, txn
    <2>2. ("tz" \in missed' <=> "tz" \in missed) /\ ("tz" \in heard' => "tz" \in heard)
      BY <1>1 DEF CheckEmpty, Load, StoreHostname, CheckHostnameFails, StoreNtp, Subscribe,
                  Start, Stop, AsStartup, Overtakes, txn
    <2>3. QED
      BY <2>1, <2>2, TzFrame
  <1>2. ASSUME NEW p \in Procs, Merge(p) PROVE TzInv'
    <2>1. Merged(running, loaded[p]) \in Data
      BY <1>2, MergedType DEF Merge, StageInv, StageOf, TypeOK
    <2>2. QED
      BY <1>2, <2>1, TzBegin DEF Merge, system
  <1>3. ASSUME NEW p \in Procs, StoreTimezone(p) \/ LinkTimezone(p) PROVE TzInv'
    <2>1. UNCHANGED <<running, cand, failed, calls>>
      BY <1>3 DEF StoreTimezone, LinkTimezone, Overtakes, txn
    <2>2. CASE UNCHANGED <<localtime, heard, missed>>
      BY <2>1, <2>2, TzFrame
    <2>3. CASE missed' = missed \cup {"tz"} /\ Overtakes("tz")
      BY <2>3 DEF Overtakes, TzInv, Settled, Pending
    <2>4. ASSUME AsStartup("tz"), localtime' = startup.tz, startup.tz # NONE,
                 "tz" \in heard' => localtime' = localtime /\ heard' = heard
          PROVE  TzInv'
      <3>1. Settled("tz")' => Agrees(running, "tz")'
        BY <2>1, <2>4 DEF AsStartup, Settled, Agrees, LinkValue
      <3>2. Pending("tz")' => Pending("tz") /\ localtime' = localtime
        BY <2>1, <2>4 DEF Pending
      <3>3. QED
        BY <2>1, <3>1, <3>2 DEF TzInv, LinkValue
    <2>5. CASE StoreTimezone(p)
      <3>1. CASE /\ ~ Unreadable /\ startup.tz = localtime /\ AsStartup("tz")
                 /\ UNCHANGED <<localtime, txn>>
        <4>1. startup.tz # NONE
          BY <3>1, PluginsAssumption DEF TypeOK, Unreadable
        <4>2. QED
          BY <2>4, <3>1, <4>1 DEF txn
      <3>2. QED
        BY <2>2, <2>3, <2>5, <3>1 DEF StoreTimezone, txn
    <2>6. CASE LinkTimezone(p)
      <3>1. startup.tz # NONE
        BY <2>6, PluginsAssumption DEF LinkTimezone, StageInv, StageOf
      <3>2. QED
        BY <2>2, <2>4, <2>6, <3>1 DEF LinkTimezone, Symlink, Overtakes, txn
    <2>7. QED
      BY <1>3, <2>5, <2>6
  <1>4. ASSUME NEW p \in Procs, SetHostname(p) PROVE TzInv'
    <2>1. UNCHANGED <<running, cand, localtime, failed, missed>>
      BY <1>4 DEF SetHostname, OutsideCalls, CallDone
    <2>2. /\ "tz" \in heard' => "tz" \in heard
          /\ "tz" \in calls["main"] => "tz" \in calls'["main"]
      BY <1>4 DEF SetHostname, CallDone, TypeOK, Procs
    <2>3. QED
      BY <2>1, <2>2, TzFrame
  <1>5. ASSUME NEW p \in Procs,
               DeleteTimezone(p) \/ UnlinkTimezone(p) \/ SymlinkTimezone(p)
        PROVE  TzInv'
    <2>1. cand # NONE /\ "tz" \in Changed(cand) /\ "tz" \in calls[p]
      BY <1>5, CallsFacts DEF DeleteTimezone, UnlinkTimezone, SymlinkTimezone
    <2>2. UNCHANGED <<running, cand, missed, heard>>
      BY <1>5 DEF DeleteTimezone, UnlinkTimezone, SymlinkTimezone, OutsideCalls,
                  CallDone, CallNext, CallFailed
    <2>3. ~ Settled("tz")'
      BY <2>1, <2>2 DEF Settled, Changed
    <2>4. p = "main"
      BY <2>1, SubscribedFacts DEF TxnInv, Procs
    <2>5. CASE failed'
      BY <2>3, <2>5 DEF TzInv, Pending
    <2>6. CASE CallNext(p, "symlink")
      BY <2>1, <2>3, <2>4, <2>6 DEF CallNext, TzInv
    <2>7. CASE localtime' = LinkValue(cand)
      BY <2>2, <2>3, <2>7 DEF TzInv, LinkValue
    <2>8. CASE DeleteTimezone(p)
      BY <2>5, <2>7, <2>8 DEF DeleteTimezone, LinkValue, CallFailed
    <2>9. CASE UnlinkTimezone(p)
      BY <2>5, <2>6, <2>9 DEF UnlinkTimezone, CallFailed
    <2>10. CASE SymlinkTimezone(p)
      BY <2>5, <2>7, <2>10 DEF SymlinkTimezone, Symlink, LinkValue, CallFailed
    <2>11. QED
      BY <1>5, <2>8, <2>9, <2>10
  <1>6. ASSUME NEW p \in Procs, ChangeNtp(p) \/ CallFails(p) PROVE TzInv'
    BY <1>6, TzFailed DEF ChangeNtp, CallFails, OutsideCalls, CallFailed, system
  <1>7. ASSUME NEW p \in Procs, Disconnect(p) \/ UseAfterFree(p) \/ Dies(p) PROVE TzInv'
    <2>1. Gone(p) /\ UNCHANGED <<running, cand, localtime, heard, missed>>
      BY <1>7 DEF Disconnect, UseAfterFree, Dies, Lost, system
    <2>2. CASE failed'
      BY <2>1, <2>2, TzFailed
    <2>3. CASE calls[p] = {} /\ failed' = failed
      <3>1. calls'["main"] = calls["main"]
        BY <2>1, <2>3 DEF Gone, TypeOK, Procs
      <3>2. QED
        BY <2>1, <2>3, <3>1, TzFrame
    <2>4. failed' \/ (calls[p] = {} /\ failed' = failed)
      BY <1>7 DEF Disconnect, UseAfterFree, Dies, Lost, TypeOK
    <2>5. QED
      BY <2>2, <2>3, <2>4
  <1>8. ASSUME NEW c \in Edits, Edit(c) PROVE TzInv'
    BY <1>8, TzBegin, PluginsAssumption DEF Edit, system
  <1>9. CASE Commit
    <2>1. /\ cand # NONE /\ ~ failed /\ "main" \in Procs /\ \A q \in Procs : calls[q] = {}
          /\ running' = cand /\ cand' = NONE /\ UNCHANGED localtime
          /\ missed' = {l \in (missed \cup Changed(cand)) \ heard : ~ Agrees(cand, l)}
      BY <1>9 DEF Commit, Answered, system, Procs
    <2>2. CASE "tz" \in heard
      <3>1. localtime = LinkValue(cand)
        BY <2>1, <2>2 DEF TzInv, Pending
      <3>2. QED
        BY <2>1, <3>1 DEF TzInv, Pending, Agrees, LinkValue
    <2>3. CASE "tz" \notin missed \cup Changed(cand)
      <3>1. Agrees(running, "tz")
        BY <2>3 DEF TzInv, Settled
      <3>2. running.tz = cand.tz
        BY <2>3 DEF Changed, Leaves
      <3>3. QED
        BY <2>1, <3>1, <3>2 DEF TzInv, Pending, Agrees, LinkValue
    <2>4. CASE Agrees(cand, "tz")
      BY <2>1, <2>4 DEF TzInv, Pending, Agrees, LinkValue
    <2>5. CASE "tz" \in missed'
      BY <2>1, <2>5 DEF TzInv, Pending, Settled
    <2>6. QED
      BY <2>1, <2>2, <2>3, <2>4, <2>5
  <1>10. CASE Reject
    <2>1. Settled("tz")' => Settled("tz")
      BY <1>10 DEF Reject, Settled
    <2>2. UNCHANGED <<running, localtime>> /\ cand' = NONE
      BY <1>10 DEF Reject, system
    <2>3. QED
      BY <2>1, <2>2 DEF TzInv, Pending, Agrees, LinkValue
  <1>11. CASE UNCHANGED vars
    BY <1>11, TzFrame DEF vars, system, txn
  <1>12. QED
    BY <1>1, <1>2, <1>3, <1>4, <1>5, <1>6, <1>7, <1>8, <1>9, <1>10, <1>11
    DEF Next, Step, Environment

----------------------------------------------------------------------------
(* The load of the main plugin.                                            *)

\* No callback runs, fails or loses its process in the main plugin's own
\* transaction, because the only leaf it changes has no other subscriber.
LEMMA MergeMain ==
  ASSUME TypeOK, StageInv, MainInv, Merge("main")
  PROVE  ~ failed' /\ \A q \in Procs : calls'[q] = {}
  <1> DEFINE c == Merged(running, loaded["main"])
  <1>1. /\ pc["main"] = "merge" /\ Begin(c, "main")
        /\ loaded["main"].hostname = NONE /\ loaded["main"].ntp = NONE
    BY DEF Merge, MainInv
  <1>2. c.hostname = running.hostname /\ c.ntp = running.ntp
    BY <1>1 DEF Merged
  <1> HIDE DEF c
  <1>3. Changed(c) \subseteq {"tz"}
    BY <1>2 DEF Changed, Leaves
  <1>4. Subscribed("main") = {} /\ "tz" \notin Subscribed("augeas")
    BY <1>1, SubscribedFacts DEF StageInv, StageOf, Procs
  <1>5. \A q \in Procs : Changed(c) \cap Subscribed(q) = {}
    BY <1>3, <1>4 DEF Procs
  <1>6. QED
    BY <1>1, <1>5 DEF Begin

\* An action that leaves the main plugin's start and its transaction alone.
LEMMA MainFrame ==
  ASSUME MainInv,
         pc'["main"] = "merge" => pc["main"] = "merge" /\ loaded'["main"] = loaded["main"],
         owner' = "main" => /\ owner = "main" /\ failed' = failed
                            /\ \A q \in Procs : calls'[q] \subseteq calls[q]
  PROVE  MainInv'
  BY DEF MainInv

LEMMA NextMainInv == TypeOK /\ StageInv /\ TxnInv /\ MainInv /\ [Next]_vars => MainInv'
  <1> SUFFICES ASSUME TypeOK, StageInv, TxnInv, MainInv, [Next]_vars PROVE MainInv'
    OBVIOUS
  <1> USE DEF Goto
  <1>1. ASSUME NEW p \in Procs,
               CheckEmpty(p) \/ StoreTimezone(p) \/ LinkTimezone(p) \/ StoreHostname(p)
                 \/ CheckHostnameFails(p) \/ StoreNtp(p) \/ Subscribe(p) \/ Start(p) \/ Stop(p)
        PROVE  MainInv'
    <2>1. UNCHANGED <<loaded, owner, failed, calls>>
      BY <1>1 DEF CheckEmpty, StoreTimezone, LinkTimezone, StoreHostname,
                  CheckHostnameFails, StoreNtp, Subscribe, Start, Stop, Overtakes, txn
    <2>2. pc'["main"] = "merge" => pc["main"] = "merge"
      BY <1>1 DEF CheckEmpty, StoreTimezone, LinkTimezone, StoreHostname,
                  CheckHostnameFails, StoreNtp, Subscribe, Start, Stop, TypeOK, Procs
    <2>3. QED
      BY <2>1, <2>2, MainFrame
  <1>2. ASSUME NEW p \in Procs, Load(p) PROVE MainInv'
    <2>1. UNCHANGED <<owner, failed, calls>>
      BY <1>2 DEF Load, txn
    <2>2. CASE p = "main"
      <3>1. loaded'["main"] = LoadedBy("main")
        BY <1>2, <2>2 DEF Load, TypeOK
      <3>2. LoadedBy("main").hostname = NONE /\ LoadedBy("main").ntp = NONE
        BY DEF LoadedBy
      <3>3. QED
        BY <2>1, <3>1, <3>2 DEF MainInv
    <2>3. CASE p # "main"
      <3>1. pc'["main"] = pc["main"] /\ loaded'["main"] = loaded["main"]
        BY <1>2, <2>3 DEF Load, TypeOK, Procs
      <3>2. QED
        BY <2>1, <3>1, MainFrame
    <2>4. QED
      BY <2>2, <2>3
  <1>3. ASSUME NEW p \in Procs, Merge(p) PROVE MainInv'
    <2>1. owner' = p /\ pc'[p] = "loading"
      BY <1>3 DEF Merge, Begin, TypeOK
    <2>2. CASE p = "main"
      BY <1>3, <2>1, <2>2, MergeMain DEF MainInv
    <2>3. CASE p # "main"
      <3>1. pc'["main"] = pc["main"] /\ loaded'["main"] = loaded["main"]
        BY <1>3, <2>3 DEF Merge, TypeOK, Procs
      <3>2. QED
        BY <2>1, <2>3, <3>1, MainFrame
    <2>4. QED
      BY <2>2, <2>3
  <1>4. ASSUME NEW p \in Procs, calls[p] # {}, UNCHANGED <<pc, loaded, owner>>
        PROVE  MainInv'
    BY <1>4 DEF MainInv
  <1>5. ASSUME NEW p \in Procs,
               SetHostname(p) \/ DeleteTimezone(p) \/ UnlinkTimezone(p)
                 \/ SymlinkTimezone(p) \/ ChangeNtp(p) \/ CallFails(p)
        PROVE  MainInv'
    <2>1. calls[p] # {}
      BY <1>5, CallsFacts DEF SetHostname, DeleteTimezone, UnlinkTimezone,
                              SymlinkTimezone, ChangeNtp, CallFails
    <2>2. UNCHANGED <<pc, loaded, owner>>
      BY <1>5 DEF SetHostname, DeleteTimezone, UnlinkTimezone, SymlinkTimezone,
                  ChangeNtp, CallFails, OutsideCalls, CallDone, CallNext, CallFailed
    <2>3. QED
      BY <1>4, <2>1, <2>2
  <1>6. ASSUME NEW p \in Procs, Disconnect(p) \/ UseAfterFree(p) \/ Dies(p) PROVE MainInv'
    <2>1. Gone(p)
      BY <1>6 DEF Disconnect, UseAfterFree, Dies, Lost
    <2>2. pc'["main"] = "merge" => pc["main"] = "merge" /\ loaded'["main"] = loaded["main"]
      BY <2>1 DEF Gone, TypeOK, Procs
    <2>3. \A q \in Procs : calls'[q] \subseteq calls[q]
      BY <2>1 DEF Gone, TypeOK
    <2>4. ASSUME owner' = "main" PROVE owner = "main" /\ failed' = failed
      <3>1. CASE Disconnect(p)
        BY <2>4, <3>1 DEF Disconnect
      <3>2. CASE UseAfterFree(p) \/ Dies(p)
        <4>1. owner = "main" /\ p # "main"
          BY <2>4, <3>2 DEF UseAfterFree, Dies, Lost
        <4>2. calls[p] = {} /\ ~ failed
          BY <4>1 DEF MainInv
        <4>3. failed' = (failed \/ calls[p] # {} \/ owner = p)
          BY <3>2 DEF UseAfterFree, Dies, Lost
        <4>4. QED
          BY <4>1, <4>2, <4>3 DEF TypeOK
      <3>3. QED
        BY <1>6, <3>1, <3>2
    <2>5. QED
      BY <2>2, <2>3, <2>4, MainFrame
  <1>7. ASSUME NEW c \in Edits, Edit(c) PROVE MainInv'
    BY <1>7, MainFrame DEF Edit, Begin
  <1>8. CASE Commit \/ Reject
    <2>1. /\ UNCHANGED loaded /\ owner' = "client"
          /\ pc'["main"] = "merge" => pc["main"] = "merge"
      BY <1>8 DEF Commit, Reject, OwnerGoto, Procs
    <2>2. QED
      BY <2>1, MainFrame
  <1>9. CASE UNCHANGED vars
    BY <1>9, MainFrame DEF vars, txn
  <1>10. QED
    BY <1>1, <1>2, <1>3, <1>5, <1>6, <1>7, <1>8, <1>9 DEF Next, Step, Environment

----------------------------------------------------------------------------
(* The theorems.                                                           *)

\* The inductive invariant holds in every reachable state of the two processes.
THEOREM Inductive == Spec => []IInv
  <1>1. IInv /\ [Next]_vars => IInv'
    BY NextTypeOK, NextStageInv, NextTxnInv, NextHostInv, NextTzInv, NextMainInv DEF IInv
  <1>2. QED
    BY InitIInv, <1>1, PTL DEF Spec

\* Every variable keeps its type; in particular sethostname() always gets a
\* host name, also when the leaf is deleted.
THEOREM TypeCorrect == Spec => []TypeOK
  <1>1. IInv => TypeOK
    BY DEF IInv
  <1>2. QED
    BY Inductive, <1>1, PTL

\* Between transactions the kernel's host name is that of the running datastore
\* after a commit that some plugin heard of and after a start that stored it,
\* in whatever order both plugins' callbacks set it.  The exclusions of `missed'
\* apply: a refused or aborted change, an edit that nobody was subscribed to and
\* a start that stores another startup hostname end what the theorem says, until
\* the next commit that is heard of or start that stores the running hostname.
THEOREM HostnameAlwaysFollows == Spec => []HostnameFollows
  <1>1. IInv => HostnameFollows
    BY DEF IInv, HostInv, Settled, HostnameFollows
  <1>2. QED
    BY Inductive, <1>1, PTL

\* /etc/localtime is the link that the committed timezone-name asks for, with
\* the same exclusions.
THEOREM TimezoneAlwaysFollows == Spec => []TimezoneFollows
  <1>1. IInv => TimezoneFollows
    BY DEF IInv, TzInv, Settled, TimezoneFollows
  <1>2. QED
    BY Inductive, <1>1, PTL

\* No transaction by which the main plugin loads the system is refused: its
\* start ends in that stage only when the process is killed or a call fails.
THEOREM MainIsNeverRefused == Spec => MainNeverRefused
  <1>1. ASSUME IInv, [Next]_vars, pc["main"] = "loading", pc'["main"] = "down"
        PROVE  faults' # faults
    <2>1. TypeOK /\ StageInv /\ TxnInv /\ MainInv
      BY <1>1 DEF IInv
    <2>2. owner = "main" /\ "main" \in Procs
      BY <1>1, <2>1 DEF StageInv, StageOf, Procs
    <2>3. ~ failed /\ \A q \in Procs : calls[q] = {}
      BY <2>1, <2>2 DEF MainInv
    <2>4. ASSUME NEW p \in Procs, Dies(p) PROVE faults' # faults
      BY <2>1, <2>4 DEF Dies, Fault, TypeOK
    <2>5. ASSUME NEW p \in Procs,
                 CheckEmpty(p) \/ Load(p) \/ Merge(p) \/ StoreTimezone(p) \/ LinkTimezone(p)
                   \/ StoreHostname(p) \/ CheckHostnameFails(p) \/ StoreNtp(p)
                   \/ Subscribe(p) \/ Start(p) \/ Stop(p)
          PROVE  FALSE
      <3>1. p # "main"
        BY <1>1, <2>5 DEF CheckEmpty, Load, Merge, StoreTimezone, LinkTimezone,
                          StoreHostname, CheckHostnameFails, StoreNtp, Subscribe, Start, Stop
      <3>2. pc'["main"] = pc["main"]
        BY <2>1, <2>2, <2>5, <3>1 DEF CheckEmpty, Load, Merge, StoreTimezone, LinkTimezone,
             StoreHostname, CheckHostnameFails, StoreNtp, Subscribe, Start, Stop, Goto, TypeOK
      <3>3. QED
        BY <1>1, <3>2
    <2>6. ASSUME NEW p \in Procs,
                 SetHostname(p) \/ DeleteTimezone(p) \/ UnlinkTimezone(p)
                   \/ SymlinkTimezone(p) \/ ChangeNtp(p) \/ CallFails(p) \/ UseAfterFree(p)
          PROVE  FALSE
      <3>1. calls[p] # {}
        BY <2>1, <2>6, CallsFacts DEF SetHostname, DeleteTimezone, UnlinkTimezone,
             SymlinkTimezone, ChangeNtp, CallFails, UseAfterFree
      <3>2. QED
        BY <2>3, <3>1
    <2>7. ASSUME NEW p \in Procs, Disconnect(p) PROVE FALSE
      <3>1. p # "main"
        BY <1>1, <2>7 DEF Disconnect
      <3>2. pc'["main"] = pc["main"]
        BY <2>1, <2>2, <2>7, <3>1 DEF Disconnect, Gone, Goto, TypeOK
      <3>3. QED
        BY <1>1, <3>2
    <2>8. ASSUME NEW c \in Edits, Edit(c) PROVE FALSE
      BY <1>1, <2>8 DEF Edit
    <2>9. CASE Commit
      BY <1>1, <2>2, <2>9 DEF Commit, OwnerGoto
    <2>10. CASE Reject
      BY <2>3, <2>10 DEF Reject
    <2>11. CASE UNCHANGED vars
      BY <1>1, <2>11 DEF vars
    <2>12. QED
      BY <1>1, <2>4, <2>5, <2>6, <2>7, <2>8, <2>9, <2>10, <2>11 DEF Next, Step, Environment
  <1>2. ASSUME IInv, [Next]_vars
        PROVE  (pc["main"] = "loading" /\ pc'["main"] = "down" => faults' # faults)
                  \/ UNCHANGED vars
    BY <1>1, <1>2
  <1>3. QED
    BY <1>2, Inductive, PTL DEF Spec, MainNeverRefused
=============================================================================
