----------------------------- MODULE ForkChoice -----------------------------
(***************************************************************************)
(* What ChainManager promises about its choice of branch.  The blocks it   *)
(* links form a tree that grows one block at a time, each on top of one    *)
(* that is linked already.  Of the linked blocks the one with the most     *)
(* work is chosen, and of several with that work the one linked first.     *)
(*                                                                         *)
(* Which blocks are linked is left open here.  It is not every block whose *)
(* data and whose ancestors' data came: see CompleteBlocksAreLinked in     *)
(* ChainManager.                                                           *)
(***************************************************************************)
EXTENDS Naturals

CONSTANTS Hash, NULL

VARIABLES
    parent, \* parent[h] of each linked block h, NULL for the first
    work,   \* the total work of each linked block
    best    \* the chosen block, NULL before the first

fcVars == <<parent, work, best>>

Init ==
    /\ parent = [h \in {} |-> NULL]
    /\ work = [h \in {} |-> 0]
    /\ best = NULL

\* Block b is linked on top of p.  A tie leaves the choice alone.
Link(b, p) ==
    /\ b \notin DOMAIN work
    /\ p = NULL <=> DOMAIN work = {}
    /\ parent' = [h \in DOMAIN work \cup {b} |-> IF h = b THEN p ELSE parent[h]]
    /\ work' \in [DOMAIN work \cup {b} -> Nat]
    /\ \A h \in DOMAIN work : work'[h] = work[h]
    /\ p # NULL => work'[b] > work[p]
    /\ best' = IF best = NULL THEN b ELSE IF work'[b] > work[best] THEN b ELSE best

Next == \E b \in Hash, p \in DOMAIN work \cup {NULL} : Link(b, p)

Spec == Init /\ [][Next]_fcVars
=============================================================================
