-------------------------- MODULE DocumentCatalog ---------------------------
(***************************************************************************)
(* What the people who search a knowledge base are promised about one      *)
(* uploaded source.  A search sees the units of at most one version of it, *)
(* a newer version replaces the older one in a single step, an older       *)
(* version never comes back, and a retired source shows nothing.           *)
(***************************************************************************)
EXTENDS Naturals

CONSTANT Sources

VARIABLES shown,    \* shown[s]: the versions whose text a search can return
          top,      \* top[s]: the newest version ever published
          retired   \* the sources that were archived

vars == <<shown, top, retired>>

Init == /\ shown = [s \in Sources |-> {}]
        /\ top = [s \in Sources |-> 0]
        /\ retired = {}

\* A newer version replaces whatever was shown, in one step.
Publish(s) == /\ top' \in [Sources -> Nat]
              /\ top'[s] > top[s]
              /\ top' = [top EXCEPT ![s] = top'[s]]
              /\ shown' = [shown EXCEPT ![s] = IF s \in retired THEN {} ELSE {top'[s]}]
              /\ UNCHANGED retired

\* The version shown is withdrawn; nothing takes its place.
Withdraw(s) == /\ shown' = [shown EXCEPT ![s] = {}]
               /\ UNCHANGED <<top, retired>>

\* The source is archived, for good.
Retire(s) == /\ retired' = retired \cup {s}
             /\ shown' = [shown EXCEPT ![s] = {}]
             /\ UNCHANGED top

Next == \E s \in Sources : Publish(s) \/ Withdraw(s) \/ Retire(s)

Spec == Init /\ [][Next]_vars
=============================================================================
