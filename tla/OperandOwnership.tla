-------------------------- MODULE OperandOwnership --------------------------
(***************************************************************************)
(* What the finalizer protocol promises, without reconciles, caches,       *)
(* requests or faults: operands appear only under an owner that carries    *)
(* the finalizer, and such an owner goes only by way of a deletion that    *)
(* has found nothing left.  Module Reconciler implements it.               *)
(***************************************************************************)
CONSTANTS
    Things,     \* what may be owned
    Confined    \* all of it is in reach of the cleanup

VARIABLES
    owner,      \* "none", "unguarded" (no finalizer), "guarded" or "deleting"
    held        \* the things that exist

Init == owner = "none" /\ held = {}

Create  == owner = "none" /\ owner' = "unguarded" /\ held' = held
Abandon == owner = "unguarded" /\ owner' = "none" /\ held' = held
Guard   == owner = "unguarded" /\ owner' = "guarded" /\ held' = held
Delete  == owner = "guarded" /\ owner' = "deleting" /\ held' = held

\* The finalizer goes last.
Release ==
    /\ owner = "deleting"
    /\ Confined => held = {}
    /\ owner' = "none" /\ held' = held

\* Until the deletion is noticed things may still be added.
Add(t) ==
    /\ owner \in {"guarded", "deleting"}
    /\ held' = held \cup {t} /\ owner' = owner

Lose == held' \subseteq held /\ owner' = owner

Next ==
    \/ Create \/ Abandon \/ Guard \/ Delete \/ Release
    \/ \E t \in Things : Add(t)
    \/ Lose

Spec == Init /\ [][Next]_<<owner, held>>
=============================================================================
