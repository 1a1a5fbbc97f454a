----------------------------- MODULE NtpProofs -----------------------------
(***************************************************************************)
(* Proofs about Ntp, for any processes, servers, files and edits and any   *)
(* number of transactions and failures.                                    *)
(***************************************************************************)
EXTENDS Ntp, WellFoundedInduction, SequenceTheorems, TLAPS

----------------------------------------------------------------------------
(* The inductive invariant.                                                *)

\* The list of a process is in use only while its callback runs.  An event is
\* for the callback of ntp/enabled or for that of ntp/server, never for both,
\* and the loops run over servers that change.
StageInv ==
    \A p \in Procs :
        /\ pc[p] \in {"idle", "start", "enable", "load", "replied"} => temp[p] = <<>>
        /\ pc[p] \in {"start", "enable"} => cand.enabled # running.enabled
        /\ pc[p] \in {"load", "address", "options", "store"} =>
              cand.enabled = running.enabled
        /\ pc[p] \in {"address", "options"} => todo[p] \subseteq Changed

\* Some process is past the first, or past the second call of systemctl.
Activated == \E p \in Procs : pc[p] \in {"enable", "out", "replied"}
Enabled == \E p \in Procs : pc[p] \in {"out", "replied"}

\* When the event is not about the service, or nobody has touched it yet, both
\* of its states agree; each call gives one of them the new value, and no
\* process that comes later undoes it.
ServiceInv ==
    faults = 0 =>
        /\ cand.enabled = running.enabled \/ ~ Activated => active = boot
        /\ cand.enabled # running.enabled /\ Activated => active = cand.enabled
        /\ cand.enabled # running.enabled /\ Enabled => boot = cand.enabled

\* Every entry of the file that the transaction has nothing to do with.
KeptIn(list) == \A e \in ToSet(atEvent) : Unmentioned(e) => e \in ToSet(list)

\* The file is as it was until it is emptied; what must be kept is in the list
\* by then, and in the file once that was written.
FileInv ==
    faults = 0 => \A p \in Procs : Alone(p) =>
        /\ pc[p] \in {"start", "enable", "load", "address", "options"} => conf = atEvent
        /\ pc[p] \in {"address", "options", "store"} => KeptIn(temp[p])
        /\ pc[p] = "store" => conf = <<>>
        /\ pc[p] \in {"out", "replied"} => KeptIn(conf)

IInv == TypeOK /\ StageInv /\ ServiceInv /\ FileInv

----------------------------------------------------------------------------
(* Facts about the operators on lists.                                     *)

\* A set of numbers that is not empty has a smallest one.
LEMMA MinType == ASSUME NEW S \in SUBSET Nat, S # {} PROVE Min(S) \in S
  <1> DEFINE R == {r \in Nat \X Nat : r[1] < r[2]}
  <1>1. IsWellFoundedOn(R, Nat)
    BY NatLessThanWellFounded DEF OpToRel
  <1>2. PICK x \in S : \A y \in S : ~ (<<y, x>> \in R)
    <2> HIDE DEF R
    <2>1. QED
      BY <1>1, WFMin
  <1>3. ASSUME NEW y \in S PROVE x =< y
    <2>1. <<y, x>> \in Nat \X Nat
      OBVIOUS
    <2>2. ~ (y < x)
      BY <1>2, <2>1
    <2>3. QED
      BY <2>2
  <1>4. QED
    BY <1>3 DEF Min

\* system_ntp_server_list_find returns an element with the address, or none.
LEMMA FindType ==
  ASSUME NEW s \in Seq(Element), NEW a
  PROVE  /\ Find(s, a) = 0 \/ Find(s, a) \in 1..Len(s)
         /\ Find(s, a) # 0 => s[Find(s, a)].addr = a
  <1> DEFINE I == {i \in 1..Len(s) : s[i].addr = a /\ s[i].port = NONE}
  <1>1. I \in SUBSET Nat
    OBVIOUS
  <1>2. CASE I = {}
    BY <1>2 DEF Find, SelectInSeq
  <1>3. CASE I # {}
    <2>1. Min(I) \in I
      BY <1>1, <1>3, MinType
    <2>2. Find(s, a) = Min(I)
      BY <1>3 DEF Find, SelectInSeq
    <2>3. QED
      BY <2>1, <2>2
  <1>4. QED
    BY <1>2, <1>3

\* The elements of a sequence.
LEMMA InSeq ==
  ASSUME NEW S, NEW s \in Seq(S)
  PROVE  /\ \A i \in 1..Len(s) : s[i] \in ToSet(s) /\ s[i] \in S
         /\ \A e \in ToSet(s) : \E i \in 1..Len(s) : e = s[i]
  BY DEF ToSet

LEMMA AppendKeeps ==
  ASSUME NEW S, NEW s \in Seq(S), NEW e \in S
  PROVE  Append(s, e) \in Seq(S) /\ ToSet(s) \subseteq ToSet(Append(s, e))
  BY DEF ToSet

\* Removing an element keeps all others.
LEMMA RemoveKeeps ==
  ASSUME NEW S, NEW s \in Seq(S), NEW i \in 1..Len(s)
  PROVE  /\ RemoveAt(s, i) \in Seq(S)
         /\ \A e \in ToSet(s) : e # s[i] => e \in ToSet(RemoveAt(s, i))
  <1> DEFINE l == SubSeq(s, 1, i - 1)
             r == SubSeq(s, i + 1, Len(s))
  <1>1. Len(s) \in Nat /\ i \in Nat /\ i >= 1 /\ i <= Len(s)
    BY LenProperties
  <1>2. \A j \in 1..Len(s) : s[j] \in S
    BY ElementOfSeq
  <1>3. /\ l \in Seq(S) /\ Len(l) = i - 1
        /\ \A j \in 1..(i - 1) : l[j] = s[j]
    <2>1. /\ l \in Seq(S) /\ Len(l) = IF 1 <= i - 1 THEN (i - 1) - 1 + 1 ELSE 0
          /\ \A j \in 1..((i - 1) - 1 + 1) : l[j] = s[1 + j - 1]
      BY <1>1, <1>2, SubSeqProperties
    <2>2. QED
      BY <1>1, <2>1
  <1>4. /\ r \in Seq(S) /\ Len(r) = Len(s) - i
        /\ \A j \in 1..(Len(s) - i) : r[j] = s[i + j]
    <2>1. /\ r \in Seq(S)
          /\ Len(r) = IF i + 1 <= Len(s) THEN Len(s) - (i + 1) + 1 ELSE 0
          /\ \A j \in 1..(Len(s) - (i + 1) + 1) : r[j] = s[(i + 1) + j - 1]
      BY <1>1, <1>2, SubSeqProperties
    <2>2. QED
      BY <1>1, <2>1
  <1>5. /\ l \o r \in Seq(S) /\ Len(l \o r) = Len(s) - 1
        /\ \A k \in 1..(Len(s) - 1) :
              (l \o r)[k] = IF k <= i - 1 THEN l[k] ELSE r[k - (i - 1)]
    <2> HIDE DEF l, r
    <2>1. /\ l \o r \in Seq(S) /\ Len(l \o r) = Len(l) + Len(r)
          /\ \A k \in 1..(Len(l) + Len(r)) :
                (l \o r)[k] = IF k <= Len(l) THEN l[k] ELSE r[k - Len(l)]
      BY <1>3, <1>4, ConcatProperties
    <2>2. QED
      BY <1>1, <1>3, <1>4, <2>1
  <1> DEFINE t == RemoveAt(s, i)
  <1>6. t = l \o r
    BY DEF RemoveAt
  <1> HIDE DEF l, r, t
  <1>7. ASSUME NEW k \in 1..(Len(s) - 1)
        PROVE  t[k] = IF k < i THEN s[k] ELSE s[k + 1]
    <2>1. CASE k < i
      BY <1>1, <1>3, <1>5, <1>6, <2>1
    <2>2. CASE k >= i
      <3>1. k - (i - 1) \in 1..(Len(s) - i) /\ i + (k - (i - 1)) = k + 1
        BY <1>1, <2>2
      <3>2. r[k - (i - 1)] = s[k + 1]
        BY <1>4, <3>1
      <3>3. QED
        BY <1>1, <1>5, <1>6, <2>2, <3>2
    <2>3. QED
      BY <1>1, <2>1, <2>2
  <1>8. ASSUME NEW e \in ToSet(s), e # s[i] PROVE e \in ToSet(t)
    <2>1. PICK j \in 1..Len(s) : e = s[j] /\ j # i
      BY <1>8, InSeq
    <2>2. CASE j < i
      <3>1. j \in 1..(Len(s) - 1) /\ t[j] = e
        BY <1>1, <1>7, <2>1, <2>2
      <3>2. QED
        BY <1>5, <1>6, <3>1, InSeq
    <2>3. CASE j > i
      <3>1. j - 1 \in 1..(Len(s) - 1) /\ (j - 1) + 1 = j /\ ~ (j - 1 < i)
        BY <1>1, <2>1, <2>3
      <3>2. t[j - 1] = e
        BY <1>7, <2>1, <3>1
      <3>3. QED
        BY <1>5, <1>6, <3>1, <3>2, InSeq
    <2>4. QED
      BY <1>1, <2>1, <2>2, <2>3
  <1>9. t \in Seq(S)
    BY <1>5, <1>6
  <1>10. QED
    BY <1>8, <1>9 DEF t

\* Changing one element keeps all others.
LEMMA ReplaceKeeps ==
  ASSUME NEW S, NEW s \in Seq(S), NEW i \in 1..Len(s), NEW v \in S
  PROVE  /\ [s EXCEPT ![i] = v] \in Seq(S)
         /\ \A e \in ToSet(s) : e # s[i] => e \in ToSet([s EXCEPT ![i] = v])
  <1> DEFINE t == [s EXCEPT ![i] = v]
  <1>1. t \in Seq(S) /\ Len(t) = Len(s) /\ \A j \in 1..Len(s) : j # i => t[j] = s[j]
    OBVIOUS
  <1>2. ASSUME NEW e \in ToSet(s), e # s[i] PROVE e \in ToSet(t)
    <2>1. PICK j \in 1..Len(s) : e = s[j] /\ j # i
      BY <1>2 DEF ToSet
    <2>2. t[j] = e /\ j \in 1..Len(t)
      BY <1>1, <2>1
    <2>3. QED
      BY <1>1, <2>2, InSeq
  <1>3. QED
    BY <1>1, <1>2

\* An element whose association type is set is an entry of the file.
LEMMA SetElement == ASSUME NEW e \in Element, e.type # NULL PROVE e \in Server
  BY DEF Element, Server

LEMMA ServerIsElement == Server \subseteq Element
  BY DEF Element, Server

\* Merging a list whose types are set leaves entries in the file, and those of
\* the list alone when the file is empty.
LEMMA MergedType ==
  ASSUME NEW old \in Seq(Server), NEW new \in Seq(Element), ~ Unset(new)
  PROVE  /\ Merged(old, new) \in Seq(Server)
         /\ old = <<>> => Merged(old, new) = new
  <1>1. \A i \in 1..Len(new) : new[i] \in Server
    BY SetElement DEF Unset
  <1> DEFINE n == IF Len(new) > Len(old) THEN Len(new) ELSE Len(old)
             f(i) == IF i > Len(new) THEN old[i]
                     ELSE IF i > Len(old) \/ old[i].type # new[i].type THEN new[i]
                     ELSE [new[i] EXCEPT !.prefer = @ \/ old[i].prefer]
  <1>2. n \in Nat
    OBVIOUS
  <1>3. ASSUME NEW i \in 1..n PROVE f(i) \in Server
    <2>1. CASE i > Len(new)
      <3>1. i \in 1..Len(old)
        BY <2>1
      <3>2. QED
        BY <2>1, <3>1
    <2>2. CASE i <= Len(new)
      <3>1. i \in 1..Len(new) /\ new[i] \in Server
        BY <1>1, <2>2
      <3>2. CASE i > Len(old) \/ old[i].type # new[i].type
        BY <2>2, <3>1, <3>2
      <3>3. CASE ~ (i > Len(old) \/ old[i].type # new[i].type)
        <4>1. old[i] \in Server
          BY <3>1, <3>3
        <4>2. [new[i] EXCEPT !.prefer = @ \/ old[i].prefer] \in Server
          BY <3>1, <4>1 DEF Server
        <4>3. QED
          BY <2>2, <3>3, <4>2
      <3>4. QED
        BY <3>2, <3>3
    <2>3. QED
      BY <2>1, <2>2
  <1>4. Merged(old, new) = [i \in 1..n |-> f(i)]
    BY DEF Merged
  <1>5. Merged(old, new) \in Seq(Server)
    <2> HIDE DEF n, f
    <2>1. QED
      BY <1>2, <1>3, <1>4, IsASeq
  <1>6. ASSUME old = <<>> PROVE Merged(old, new) = new
    <2>1. n = Len(new) /\ \A i \in 1..Len(new) : f(i) = new[i]
      BY <1>6
    <2>2. new = [i \in 1..Len(new) |-> new[i]]
      OBVIOUS
    <2>3. QED
      BY <1>4, <2>1, <2>2
  <1>7. QED
    BY <1>5, <1>6

----------------------------------------------------------------------------
(* Types and stages.                                                       *)

\* Everything starts with empty lists, and the file is that of no event.
LEMMA InitIInv == Init => IInv
  <1> SUFFICES ASSUME Init PROVE IInv
    OBVIOUS
  <1>1. TypeOK
    <2>1. running \in Config /\ cand \in Config
      BY ConstantsAssumption DEF Init
    <2>2. active \in BOOLEAN /\ boot \in BOOLEAN
      BY <2>1 DEF Init, Config
    <2>3. conf \in Seq(Server) /\ temp \in [Procs -> Seq(Element)]
      BY ConstantsAssumption DEF Init
    <2>4. txns \in 0..MaxTxns /\ faults \in 0..MaxFaults
      BY ConstantsAssumption DEF Init
    <2>5. QED
      BY <2>1, <2>2, <2>3, <2>4 DEF Init, TypeOK
  <1>2. StageInv
    BY DEF Init, StageInv
  <1>3. ServiceInv
    BY DEF Init, ServiceInv, Activated, Enabled
  <1>4. FileInv
    BY DEF Init, FileInv
  <1>5. QED
    BY <1>1, <1>2, <1>3, <1>4 DEF IInv

\* A step of one process is about its own list; sysrepo's part stays.
LEMMA OnlyOwn ==
  ASSUME TypeOK, NEW p \in Procs, Step(p) \/ CallFails(p)
  PROVE  /\ UNCHANGED <<running, cand, atEvent, txns>>
         /\ \A q \in Procs \ {p} : /\ pc'[q] = pc[q] /\ temp'[q] = temp[q]
                                   /\ todo'[q] = todo[q]
         /\ pc[p] \notin {"down", "dead"} /\ pc'[p] # "down"
  <1> USE DEF TypeOK, Goto, Failed
  <1>1. CASE StartService(p) \/ EnableService(p) \/ LoadServer(p)
    BY <1>1 DEF StartService, EnableService, LoadServer
  <1>2. ASSUME NEW n \in Names, ChangeServerAddress(p, n)
        PROVE  /\ UNCHANGED <<running, cand, atEvent, txns>>
               /\ \A q \in Procs \ {p} : /\ pc'[q] = pc[q] /\ temp'[q] = temp[q]
                                         /\ todo'[q] = todo[q]
               /\ pc[p] \notin {"down", "dead"} /\ pc'[p] # "down"
    BY <1>2 DEF ChangeServerAddress
  <1>3. ASSUME NEW n \in Names, ChangeServerOptions(p, n)
        PROVE  /\ UNCHANGED <<running, cand, atEvent, txns>>
               /\ \A q \in Procs \ {p} : /\ pc'[q] = pc[q] /\ temp'[q] = temp[q]
                                         /\ todo'[q] = todo[q]
               /\ pc[p] \notin {"down", "dead"} /\ pc'[p] # "down"
    BY <1>3 DEF ChangeServerOptions
  <1>4. CASE ServerAddressesDone(p) \/ DeleteEntries(p) \/ StoreServer(p)
               \/ StoreDies(p) \/ Return(p)
    BY <1>4 DEF ServerAddressesDone, DeleteEntries, StoreServer, StoreDies, Return
  <1>5. CASE CallFails(p)
    BY <1>5 DEF CallFails
  <1>6. QED
    BY <1>1, <1>2, <1>3, <1>4, <1>5 DEF Step

LEMMA EntryType ==
  ASSUME TypeOK, NEW n \in Names
  PROVE  Old(n) \in Server \cup {NONE} /\ New(n) \in Server \cup {NONE}
  BY DEF TypeOK, Config, Old, New

\* One change of an address: what is not mentioned stays in the list.
LEMMA OneAddress ==
  ASSUME TypeOK, StageInv, NEW p \in Procs, NEW n \in Names, ChangeServerAddress(p, n)
  PROVE  /\ temp' \in [Procs -> Seq(Element)]
         /\ \A e \in ToSet(temp[p]) : Unmentioned(e) => e \in ToSet(temp'[p])
  <1> DEFINE a == IF New(n) = NONE THEN Old(n).addr ELSE New(n).addr
             i == Find(temp[p], a)
             s == IF Old(n) = NONE THEN Append(temp[p], NewElement(a))
                  ELSE IF New(n) = NONE THEN RemoveAt(temp[p], i)
                  ELSE temp[p]
  <1>1. temp[p] \in Seq(Element) /\ n \in Changed
    BY DEF TypeOK, StageInv, ChangeServerAddress
  <1>2. Old(n) # NONE \/ New(n) # NONE
    BY <1>1 DEF Changed
  <1>3. \/ temp' = temp
        \/ /\ temp' = [temp EXCEPT ![p] = s]
           /\ Old(n) # NONE /\ New(n) = NONE => i # 0
    BY DEF ChangeServerAddress
  <1>4. CASE temp' = temp
    BY <1>4 DEF TypeOK
  <1>5. CASE Old(n) = NONE /\ temp' = [temp EXCEPT ![p] = s]
    <2>1. New(n) \in Server /\ a = New(n).addr
      BY <1>2, <1>5, EntryType
    <2>2. NewElement(a) \in Element
      BY <2>1 DEF NewElement, Element, Server
    <2>3. s = Append(temp[p], NewElement(a))
      BY <1>5
    <2>4. s \in Seq(Element) /\ ToSet(temp[p]) \subseteq ToSet(s)
      <3> HIDE DEF s, a
      <3>1. QED
        BY <1>1, <2>2, <2>3, AppendKeeps
    <2>5. QED
      <3> HIDE DEF s
      <3>1. QED
        BY <1>5, <2>4 DEF TypeOK
  <1>6. CASE Old(n) # NONE /\ New(n) = NONE /\ temp' = [temp EXCEPT ![p] = s] /\ i # 0
    <2>1. a = Old(n).addr /\ s = RemoveAt(temp[p], i)
      BY <1>6
    <2> HIDE DEF a, s
    <2>2. i \in 1..Len(temp[p]) /\ temp[p][i].addr = a
      BY <1>1, <1>6, FindType
    <2> HIDE DEF i
    <2>3. /\ s \in Seq(Element)
          /\ \A e \in ToSet(temp[p]) : e # temp[p][i] => e \in ToSet(s)
      BY <1>1, <2>1, <2>2, RemoveKeeps
    <2>4. \A e : Unmentioned(e) => e # temp[p][i]
      BY <1>1, <1>6, <2>1, <2>2 DEF Unmentioned
    <2>5. QED
      BY <1>6, <2>3, <2>4 DEF TypeOK
  <1>7. CASE Old(n) # NONE /\ New(n) # NONE /\ temp' = [temp EXCEPT ![p] = s]
    <2>1. s = temp[p]
      BY <1>7
    <2>2. QED
      <3> HIDE DEF s
      <3>1. QED
        BY <1>7, <2>1 DEF TypeOK
  <1>8. QED
    BY <1>3, <1>4, <1>5, <1>6, <1>7

\* The same for the changes of the options of one server.
LEMMA OneOptions ==
  ASSUME TypeOK, StageInv, NEW p \in Procs, NEW n \in Names, ChangeServerOptions(p, n)
  PROVE  /\ temp' \in [Procs -> Seq(Element)]
         /\ \A e \in ToSet(temp[p]) : Unmentioned(e) => e \in ToSet(temp'[p])
  <1> DEFINE i == Find(temp[p], New(n).addr)
  <1>1. temp[p] \in Seq(Element) /\ n \in Changed
    BY DEF TypeOK, StageInv, ChangeServerOptions
  <1>2. \/ temp' = temp
        \/ /\ New(n) # NONE /\ i # 0
           /\ temp' = [temp EXCEPT ![p][i] = WithOptions(temp[p][i], n)]
    BY DEF ChangeServerOptions, AddressMissing
  <1>3. CASE temp' = temp
    BY <1>3 DEF TypeOK
  <1>4. CASE /\ New(n) # NONE /\ i # 0
             /\ temp' = [temp EXCEPT ![p][i] = WithOptions(temp[p][i], n)]
    <2>1. i \in 1..Len(temp[p]) /\ temp[p][i].addr = New(n).addr
      BY <1>1, <1>4, FindType
    <2>2. New(n) \in Server
      BY <1>4, EntryType
    <2> HIDE DEF i
    <2> DEFINE v == WithOptions(temp[p][i], n)
    <2>3. temp[p][i] \in Element
      BY <1>1, <2>1
    <2>4. v \in Element
      BY <2>2, <2>3 DEF Element, Server, WithOptions
    <2>5. temp'[p] = [temp[p] EXCEPT ![i] = v]
      BY <1>1, <1>4, <2>1 DEF TypeOK
    <2>6. temp' = [temp EXCEPT ![p] = [temp[p] EXCEPT ![i] = v]]
      BY <1>1, <1>4, <2>1 DEF TypeOK
    <2> HIDE DEF v
    <2>7. /\ [temp[p] EXCEPT ![i] = v] \in Seq(Element)
          /\ \A e \in ToSet(temp[p]) :
                e # temp[p][i] => e \in ToSet([temp[p] EXCEPT ![i] = v])
      BY <1>1, <2>1, <2>4, ReplaceKeeps
    <2>8. \A e : Unmentioned(e) => e # temp[p][i]
      BY <1>1, <1>4, <2>1 DEF Unmentioned
    <2>9. temp' \in [Procs -> Seq(Element)]
      BY <2>6, <2>7 DEF TypeOK
    <2>10. QED
      BY <2>5, <2>7, <2>8, <2>9
  <1>5. QED
    BY <1>2, <1>3, <1>4

LEMMA NextTypeOK == TypeOK /\ StageInv /\ [Next]_vars => TypeOK'
  <1> SUFFICES ASSUME TypeOK, StageInv, [Next]_vars PROVE TypeOK'
    OBVIOUS
  <1> USE DEF Goto, Failed
  <1>1. ASSUME NEW p \in Procs, StartService(p) \/ EnableService(p) PROVE TypeOK'
    <2>1. cand.enabled \in BOOLEAN
      BY DEF TypeOK, Config
    <2>2. QED
      BY <1>1, <2>1 DEF StartService, EnableService, TypeOK
  <1>2. ASSUME NEW p \in Procs, LoadServer(p) \/ ServerAddressesDone(p) PROVE TypeOK'
    <2>1. Changed \subseteq Names
      BY DEF Changed
    <2>2. conf \in Seq(Element)
      BY ServerIsElement, SeqMonotonic DEF TypeOK
    <2>3. temp' \in [Procs -> Seq(Element)] /\ todo' \in [Procs -> SUBSET Names]
      BY <1>2, <2>1, <2>2 DEF LoadServer, ServerAddressesDone, TypeOK
    <2>4. QED
      BY <1>2, <2>3 DEF LoadServer, ServerAddressesDone, TypeOK
  <1>3. ASSUME NEW p \in Procs, NEW n \in Names, ChangeServerAddress(p, n) PROVE TypeOK'
    <2>1. temp' \in [Procs -> Seq(Element)]
      BY <1>3, OneAddress
    <2>2. /\ todo' = todo \/ todo' = [todo EXCEPT ![p] = @ \ {n}]
          /\ pc' = pc \/ pc' = [pc EXCEPT ![p] = "out"]
          /\ error' = error \/ error' = [error EXCEPT ![p] = "failed"]
          /\ UNCHANGED <<running, cand, conf, active, boot, result, txns, faults>>
      BY <1>3 DEF ChangeServerAddress
    <2>3. todo' \in [Procs -> SUBSET Names]
      BY <2>2 DEF TypeOK
    <2>4. QED
      BY <2>1, <2>2, <2>3 DEF TypeOK
  <1>4. ASSUME NEW p \in Procs, NEW n \in Names, ChangeServerOptions(p, n) PROVE TypeOK'
    <2>1. temp' \in [Procs -> Seq(Element)]
      BY <1>4, OneOptions
    <2>2. /\ todo' = todo \/ todo' = [todo EXCEPT ![p] = @ \ {n}]
          /\ pc' = pc \/ pc' = [pc EXCEPT ![p] = "out"]
          /\ error' = error \/ error' = [error EXCEPT ![p] = "failed"]
          /\ UNCHANGED <<running, cand, conf, active, boot, result, txns, faults>>
      BY <1>4 DEF ChangeServerOptions
    <2>3. todo' \in [Procs -> SUBSET Names]
      BY <2>2 DEF TypeOK
    <2>4. QED
      BY <2>1, <2>2, <2>3 DEF TypeOK
  <1>5. ASSUME NEW p \in Procs, DeleteEntries(p) \/ StoreDies(p) PROVE TypeOK'
    <2>1. conf' = <<>> \/ conf' = conf
      BY <1>5 DEF DeleteEntries, StoreDies
    <2>2. conf' \in Seq(Server)
      BY <2>1, EmptySeq DEF TypeOK
    <2>3. QED
      BY <1>5, <2>2 DEF DeleteEntries, StoreDies, TypeOK
  <1>6. ASSUME NEW p \in Procs, StoreServer(p) PROVE TypeOK'
    <2>1. conf' \in Seq(Server)
      BY <1>6, MergedType DEF StoreServer, TypeOK
    <2>2. QED
      BY <1>6, <2>1 DEF StoreServer, TypeOK
  <1>7. ASSUME NEW p \in Procs, Return(p) PROVE TypeOK'
    BY <1>7 DEF Return, CallbackResult, TypeOK
  <1>8. ASSUME NEW p \in Procs, CallFails(p) PROVE TypeOK'
    <2>1. faults' \in 0..MaxFaults
      BY <1>8, ConstantsAssumption DEF CallFails, Fault, TypeOK
    <2>2. QED
      BY <1>8, <2>1 DEF CallFails, TypeOK
  <1>9. ASSUME NEW c \in Edits, Edit(c) PROVE TypeOK'
    <2>1. c \in Config
      BY ConstantsAssumption
    <2>2. txns' \in 0..MaxTxns
      BY <1>9, ConstantsAssumption DEF Edit, TypeOK
    <2>3. QED
      BY <1>9, <2>1, <2>2 DEF Edit, TypeOK
  <1>10. CASE Rejected
    BY <1>10 DEF Rejected, TypeOK
  <1>11. CASE UNCHANGED vars
    BY <1>11 DEF vars, TypeOK
  <1>12. QED
    BY <1>1, <1>2, <1>3, <1>4, <1>5, <1>6, <1>7, <1>8, <1>9, <1>10, <1>11
    DEF Next, Step

\* The stages of one process.
LEMMA NextStageInv == TypeOK /\ StageInv /\ [Next]_vars => StageInv'
  <1> SUFFICES ASSUME TypeOK, StageInv, [Next]_vars PROVE StageInv'
    OBVIOUS
  <1> DEFINE Stage(q) ==
        /\ pc[q] \in {"idle", "start", "enable", "load", "replied"} => temp[q] = <<>>
        /\ pc[q] \in {"start", "enable"} => cand.enabled # running.enabled
        /\ pc[q] \in {"load", "address", "options", "store"} =>
              cand.enabled = running.enabled
        /\ pc[q] \in {"address", "options"} => todo[q] \subseteq Changed
  <1>1. ASSUME NEW p \in Procs, Step(p) \/ CallFails(p), Stage(p)' PROVE StageInv'
    <2>1. /\ UNCHANGED <<running, cand>>
          /\ \A q \in Procs \ {p} : /\ pc'[q] = pc[q] /\ temp'[q] = temp[q]
                                    /\ todo'[q] = todo[q]
      BY <1>1, OnlyOwn
    <2>2. Changed' = Changed
      BY <2>1 DEF Changed, Old, New
    <2>3. \A q \in Procs \ {p} : Stage(q)'
      BY <2>1, <2>2 DEF StageInv
    <2>4. QED
      BY <1>1, <2>3 DEF StageInv
  <1>2. ASSUME NEW p \in Procs, Step(p) \/ CallFails(p) PROVE Stage(p)'
    <2> USE DEF TypeOK, Goto, Failed, StageInv
    <2>1. CASE StartService(p) \/ EnableService(p)
      BY <2>1 DEF StartService, EnableService
    <2>2. CASE LoadServer(p) \/ ServerAddressesDone(p)
      BY <2>2 DEF LoadServer, ServerAddressesDone, Changed, Old, New
    <2>3. ASSUME NEW n \in Names, ChangeServerAddress(p, n) PROVE Stage(p)'
      <3>1. /\ pc' = pc \/ pc' = [pc EXCEPT ![p] = "out"]
            /\ todo' = todo \/ todo' = [todo EXCEPT ![p] = @ \ {n}]
            /\ UNCHANGED <<running, cand>> /\ pc[p] = "address"
        BY <2>3 DEF ChangeServerAddress
      <3>2. QED
        BY <3>1 DEF Changed, Old, New
    <2>4. ASSUME NEW n \in Names, ChangeServerOptions(p, n) PROVE Stage(p)'
      <3>1. /\ pc' = pc \/ pc' = [pc EXCEPT ![p] = "out"]
            /\ todo' = todo \/ todo' = [todo EXCEPT ![p] = @ \ {n}]
            /\ UNCHANGED <<running, cand>> /\ pc[p] = "options"
        BY <2>4 DEF ChangeServerOptions
      <3>2. QED
        BY <3>1 DEF Changed, Old, New
    <2>5. CASE DeleteEntries(p) \/ StoreServer(p) \/ StoreDies(p) \/ Return(p)
      BY <2>5 DEF DeleteEntries, StoreServer, StoreDies, Return
    <2>6. CASE CallFails(p)
      BY <2>6 DEF CallFails
    <2>7. QED
      BY <1>2, <2>1, <2>2, <2>3, <2>4, <2>5, <2>6 DEF Step
  <1>3. ASSUME NEW c \in Edits, Edit(c) PROVE StageInv'
    BY <1>3 DEF Edit, StageInv, Alive, TypeOK
  <1>4. CASE Rejected
    BY <1>4 DEF Rejected, StageInv, Alive, TypeOK
  <1>5. CASE UNCHANGED vars
    BY <1>5 DEF vars, StageInv, Changed, Old, New
  <1>6. QED
    BY <1>1, <1>2, <1>3, <1>4, <1>5 DEF Next

----------------------------------------------------------------------------
(* The service.                                                            *)

\* Each process gives the service the new value twice: it does not matter how
\* the calls of several processes interleave.
LEMMA NextServiceInv == TypeOK /\ StageInv /\ ServiceInv /\ [Next]_vars => ServiceInv'
  <1> SUFFICES ASSUME TypeOK, StageInv, ServiceInv, [Next]_vars, faults' = 0
               PROVE  /\ (cand.enabled = running.enabled \/ ~ Activated => active = boot)'
                      /\ (cand.enabled # running.enabled /\ Activated =>
                             active = cand.enabled)'
                      /\ (cand.enabled # running.enabled /\ Enabled =>
                             boot = cand.enabled)'
    BY DEF ServiceInv
  <1> DEFINE Agree == /\ (cand.enabled = running.enabled \/ ~ Activated => active = boot)
                      /\ (cand.enabled # running.enabled /\ Activated =>
                             active = cand.enabled)
                      /\ (cand.enabled # running.enabled /\ Enabled =>
                             boot = cand.enabled)
  <1> USE DEF Goto, Failed
  <1>1. ASSUME NEW p \in Procs, StartService(p) PROVE Agree'
    <2>1. Agree /\ cand.enabled # running.enabled
      BY <1>1 DEF StartService, StageInv, ServiceInv
    <2>2. /\ UNCHANGED <<running, cand, boot>> /\ active' = cand.enabled
          /\ pc' = [pc EXCEPT ![p] = "enable"] /\ pc[p] = "start"
      BY <1>1 DEF StartService
    <2>3. Activated' /\ (Enabled' => Enabled)
      BY <2>2 DEF Activated, Enabled, TypeOK
    <2>4. QED
      BY <2>1, <2>2, <2>3
  <1>2. ASSUME NEW p \in Procs, EnableService(p) PROVE Agree'
    <2>1. Agree /\ cand.enabled # running.enabled /\ Activated
      BY <1>2 DEF EnableService, StageInv, ServiceInv, Activated
    <2>2. /\ UNCHANGED <<running, cand, active>> /\ boot' = cand.enabled
          /\ pc' = [pc EXCEPT ![p] = "out"]
      BY <1>2 DEF EnableService
    <2>3. QED
      BY <2>1, <2>2
  <1>3. ASSUME NEW p \in Procs, UNCHANGED <<running, cand, active, boot, faults>>,
               cand.enabled = running.enabled
        PROVE  Agree'
    BY <1>3 DEF ServiceInv
  <1>4. ASSUME NEW p \in Procs, LoadServer(p) \/ ServerAddressesDone(p)
                 \/ DeleteEntries(p) \/ StoreServer(p) \/ StoreDies(p)
        PROVE  Agree'
    <2>1. cand.enabled = running.enabled
      BY <1>4 DEF LoadServer, ServerAddressesDone, DeleteEntries, StoreServer,
                  StoreDies, StageInv
    <2>2. UNCHANGED <<running, cand, active, boot, faults>>
      BY <1>4 DEF LoadServer, ServerAddressesDone, DeleteEntries, StoreServer, StoreDies
    <2>3. QED
      BY <1>3, <2>1, <2>2
  <1>5. ASSUME NEW p \in Procs, NEW n \in Names,
               ChangeServerAddress(p, n) \/ ChangeServerOptions(p, n)
        PROVE  Agree'
    <2>1. cand.enabled = running.enabled
      BY <1>5 DEF ChangeServerAddress, ChangeServerOptions, StageInv
    <2>2. UNCHANGED <<running, cand, active, boot, faults>>
      BY <1>5 DEF ChangeServerAddress, ChangeServerOptions
    <2>3. QED
      BY <1>3, <2>1, <2>2
  <1>6. ASSUME NEW p \in Procs, Return(p) PROVE Agree'
    <2>1. /\ UNCHANGED <<running, cand, active, boot, faults>>
          /\ pc' = [pc EXCEPT ![p] = "replied"] /\ pc[p] = "out"
      BY <1>6 DEF Return
    <2>2. (Activated' <=> Activated) /\ (Enabled' <=> Enabled)
      BY <2>1 DEF Activated, Enabled, TypeOK
    <2>3. QED
      BY <2>1, <2>2 DEF ServiceInv
  <1>7. ASSUME NEW p \in Procs, CallFails(p) PROVE FALSE
    BY <1>7 DEF CallFails, Fault, TypeOK
  <1>8. ASSUME NEW c \in Edits, Edit(c) PROVE Agree'
    <2>1. ~ Activated /\ ~ Activated' /\ ~ Enabled'
      BY <1>8 DEF Edit, Alive, Activated, Enabled, TypeOK
    <2>2. UNCHANGED <<active, boot, faults>>
      BY <1>8 DEF Edit
    <2>3. QED
      BY <2>1, <2>2 DEF ServiceInv
  <1>9. CASE Rejected
    <2>1. UNCHANGED <<running, active, boot, faults>> /\ cand' = running
      BY <1>9 DEF Rejected
    <2>2. Activated /\ Enabled
      BY <1>9 DEF Rejected, Alive, Activated, Enabled
    <2>3. QED
      BY <2>1, <2>2 DEF ServiceInv
  <1>10. CASE UNCHANGED vars
    BY <1>10 DEF vars, ServiceInv, Activated, Enabled
  <1>11. QED
    BY <1>1, <1>2, <1>4, <1>5, <1>6, <1>7, <1>8, <1>9, <1>10 DEF Next, Step

----------------------------------------------------------------------------
(* The file.                                                               *)

\* With one process, what its transaction does not mention is in the file, in
\* its list, or in both, at every moment.
LEMMA NextFileInv == TypeOK /\ StageInv /\ FileInv /\ [Next]_vars => FileInv'
  <1> DEFINE Inv(p) ==
        /\ pc[p] \in {"start", "enable", "load", "address", "options"} => conf = atEvent
        /\ pc[p] \in {"address", "options", "store"} => KeptIn(temp[p])
        /\ pc[p] = "store" => conf = <<>>
        /\ pc[p] \in {"out", "replied"} => KeptIn(conf)
  <1> SUFFICES ASSUME TypeOK, StageInv, FileInv, [Next]_vars, faults' = 0,
                      NEW p \in Procs, Alone(p)'
               PROVE  Inv(p)'
    BY DEF FileInv
  <1> USE DEF Goto, Failed
  <1>1. ASSUME NEW q \in Procs, CallFails(q) PROVE FALSE
    BY <1>1 DEF CallFails, Fault, TypeOK
  <1>2. ASSUME NEW q \in Procs, Step(q)
        PROVE  q = p /\ Alone(p) /\ UNCHANGED <<running, cand, atEvent>>
    BY <1>2, OnlyOwn DEF Alone
  <1>3. ASSUME faults = 0, Alone(p), UNCHANGED <<running, cand, atEvent>>
        PROVE  /\ Inv(p)
               /\ \A e : Unmentioned(e)' <=> Unmentioned(e)
    <2>1. Changed' = Changed
      BY <1>3 DEF Changed, Old, New
    <2>2. QED
      BY <1>3, <2>1 DEF FileInv, Unmentioned, Old, New
  <1>4. ASSUME Step(p), Alone(p), UNCHANGED <<running, cand, atEvent>> PROVE Inv(p)'
    <2>1. CASE StartService(p) \/ LoadServer(p)
      <3>1. faults = 0
        BY <2>1 DEF StartService, LoadServer
      <3>2. QED
        BY <1>3, <1>4, <2>1, <3>1 DEF StartService, LoadServer, KeptIn, TypeOK
    <2>2. CASE EnableService(p) \/ ServerAddressesDone(p)
      <3>1. faults = 0
        BY <2>2 DEF EnableService, ServerAddressesDone
      <3>2. QED
        BY <1>3, <1>4, <2>2, <3>1 DEF EnableService, ServerAddressesDone, KeptIn, TypeOK
    <2>3. ASSUME NEW n \in Names, ChangeServerAddress(p, n) PROVE Inv(p)'
      <3>1. /\ pc[p] = "address" /\ UNCHANGED <<conf, faults>>
            /\ pc' = pc \/ pc' = [pc EXCEPT ![p] = "out"]
        BY <2>3 DEF ChangeServerAddress
      <3>2. \A e \in ToSet(temp[p]) : Unmentioned(e) => e \in ToSet(temp'[p])
        BY <2>3, OneAddress
      <3>3. conf = atEvent /\ KeptIn(temp[p])
        BY <1>3, <1>4, <3>1
      <3>4. KeptIn(temp[p])' /\ KeptIn(conf)' /\ pc'[p] \in {"address", "out"}
        BY <1>3, <1>4, <3>1, <3>2, <3>3 DEF KeptIn, TypeOK
      <3>5. QED
        BY <1>4, <3>1, <3>3, <3>4
    <2>4. ASSUME NEW n \in Names, ChangeServerOptions(p, n) PROVE Inv(p)'
      <3>1. /\ pc[p] = "options" /\ UNCHANGED <<conf, faults>>
            /\ pc' = pc \/ pc' = [pc EXCEPT ![p] = "out"]
        BY <2>4 DEF ChangeServerOptions
      <3>2. \A e \in ToSet(temp[p]) : Unmentioned(e) => e \in ToSet(temp'[p])
        BY <2>4, OneOptions
      <3>3. conf = atEvent /\ KeptIn(temp[p])
        BY <1>3, <1>4, <3>1
      <3>4. KeptIn(temp[p])' /\ KeptIn(conf)' /\ pc'[p] \in {"options", "out"}
        BY <1>3, <1>4, <3>1, <3>2, <3>3 DEF KeptIn, TypeOK
      <3>5. QED
        BY <1>4, <3>1, <3>3, <3>4
    <2>5. CASE DeleteEntries(p)
      <3>1. faults = 0
        BY <2>5 DEF DeleteEntries
      <3>2. QED
        BY <1>3, <1>4, <2>5, <3>1 DEF DeleteEntries, KeptIn, TypeOK
    <2>6. CASE StoreServer(p)
      <3>1. faults = 0 /\ pc[p] = "store" /\ pc' = [pc EXCEPT ![p] = "out"]
        BY <2>6 DEF StoreServer
      <3>2. conf = <<>> /\ KeptIn(temp[p])
        BY <1>3, <1>4, <3>1
      <3>3. conf' = temp[p]
        BY <2>6, <3>2, MergedType DEF StoreServer, TypeOK
      <3>4. QED
        BY <1>3, <1>4, <3>1, <3>2, <3>3 DEF KeptIn, TypeOK
    <2>7. CASE StoreDies(p)
      BY <2>7 DEF StoreDies, TypeOK
    <2>8. CASE Return(p)
      <3>1. faults = 0
        BY <2>8 DEF Return
      <3>2. QED
        BY <1>3, <1>4, <2>8, <3>1 DEF Return, KeptIn, TypeOK
    <2>9. QED
      BY <1>4, <2>1, <2>2, <2>3, <2>4, <2>5, <2>6, <2>7, <2>8 DEF Step
  <1>5. ASSUME NEW c \in Edits, Edit(c) PROVE Inv(p)'
    BY <1>5 DEF Edit, Alive, TypeOK
  <1>6. CASE Rejected
    BY <1>6 DEF Rejected, Alive, TypeOK
  <1>7. CASE UNCHANGED vars
    <2>1. faults = 0 /\ Alone(p) /\ UNCHANGED <<running, cand, atEvent>>
      BY <1>7 DEF vars, Alone
    <2>2. QED
      BY <1>3, <1>7, <2>1 DEF vars, KeptIn
  <1>8. QED
    BY <1>1, <1>2, <1>4, <1>5, <1>6, <1>7 DEF Next

----------------------------------------------------------------------------
(* The theorems.                                                           *)

\* The inductive invariant holds in every reachable state of the callbacks of
\* ntp/enabled and ntp/server in every process.
THEOREM Inductive == Spec => []IInv
  <1>1. IInv /\ [Next]_vars => IInv'
    BY NextTypeOK, NextStageInv, NextServiceInv, NextFileInv DEF IInv
  <1>2. QED
    BY InitIInv, <1>1, PTL DEF Spec

\* Every variable keeps its type: the file has entries with a known kind only,
\* although the lists of the processes may hold elements without one.
THEOREM TypeCorrect == Spec => []TypeOK
  <1>1. IInv => TypeOK
    BY DEF IInv
  <1>2. QED
    BY Inductive, <1>1, PTL

\* The assertion that ctx->temp_ntp_servers is NULL holds at the start of
\* every callback of ntp/server, whatever call of the last one failed.
THEOREM ListAlwaysFreed == Spec => []ListFreed
  <1>1. IInv => ListFreed
    BY DEF IInv, StageInv, ListFreed
  <1>2. QED
    BY Inductive, <1>1, PTL

\* The service is running exactly if it is started at boot whenever no callback
\* is under way: however the systemctl calls of the processes interleave and
\* although every transaction is rejected.
THEOREM ServiceAlwaysConsistent == Spec => []ServiceConsistent
  <1>1. ASSUME IInv, faults = 0, \A p \in Alive : pc[p] \in {"idle", "replied"}
        PROVE  active = boot
    <2>1. Activated => Enabled
      BY <1>1 DEF Activated, Enabled, Alive
    <2>2. QED
      BY <1>1, <2>1 DEF IInv, ServiceInv
  <1>2. IInv => ServiceConsistent
    BY <1>1 DEF ServiceConsistent
  <1>3. QED
    BY Inductive, <1>2, PTL

\* When the only process that was started has answered, every server, pool and
\* peer entry that the transaction does not mention is still in the file.
THEOREM ServersAlwaysKept == Spec => []ServersKept
  <1>1. IInv => ServersKept
    BY DEF IInv, FileInv, ServersKept, Answered, Kept, KeptIn
  <1>2. QED
    BY Inductive, <1>1, PTL
=============================================================================
