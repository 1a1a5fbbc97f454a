---------------------------- MODULE Transaction ----------------------------
(***************************************************************************)
(* What a plugin owes to a transaction of the running datastore, as far as *)
(* code that never undoes anything can keep it: while a transaction is     *)
(* pending the items it changes may move, in any order and any number at a *)
(* time, from what they are to what the transaction says, and nothing else *)
(* on the system moves; the transaction is committed only when all of them *)
(* have arrived, and may be dropped at any time, leaving those that have.  *)
(***************************************************************************)
CONSTANTS Items,    \* parts of the system
          Values    \* what an item may be

VARIABLES running,  \* datastore content
          cand,     \* content that the pending transaction would commit
          system,   \* the system
          pending   \* a transaction is pending

vars == <<running, cand, system, pending>>

Changed == {i \in Items : running[i] # cand[i]}

Init ==
    /\ running \in [Items -> Values]
    /\ cand = running
    /\ system = running
    /\ pending = FALSE

Begin ==
    /\ ~ pending
    /\ cand' \in [Items -> Values]
    /\ pending' = TRUE
    /\ UNCHANGED <<running, system>>

\* The items in S are brought to their new value.
Apply(S) ==
    /\ pending
    /\ system' = [i \in Items |-> IF i \in S THEN cand[i] ELSE system[i]]
    /\ UNCHANGED <<running, cand, pending>>

Commit ==
    /\ pending
    /\ \A i \in Changed : system[i] = cand[i]
    /\ running' = cand
    /\ pending' = FALSE
    /\ UNCHANGED <<cand, system>>

Drop ==
    /\ pending
    /\ cand' = running
    /\ pending' = FALSE
    /\ UNCHANGED <<running, system>>

Next ==
    \/ Begin
    \/ \E S \in SUBSET Changed : Apply(S)
    \/ Commit
    \/ Drop

Spec == Init /\ [][Next]_vars
=============================================================================
