------------------------------ MODULE EditLog ------------------------------
(***************************************************************************)
(* What offline editing promises the user, whatever happens to requests,   *)
(* devices and servers: edits are numbered as they are made, Jellyfin gets *)
(* them in that order and none is skipped, and the device forgets an edit  *)
(* only after Jellyfin got it.  OperationSync implements this.             *)
(***************************************************************************)
EXTENDS Integers

VARIABLES
    made,       \* edits the device acknowledged to the user
    applied,    \* edits on record as carried out
    forgotten   \* edits the device no longer holds

vars == <<made, applied, forgotten>>

Init == made = {} /\ applied = {} /\ forgotten = {}

\* The next edit in the order of their numbers.
Follows(e, set) ==
    e \in Nat \ {0} /\ e \notin set /\ \A f \in 1..(e - 1) : f \in set

Make ==
    /\ \E e \in made' : Follows(e, made) /\ made' = made \cup {e}
    /\ UNCHANGED <<applied, forgotten>>

Apply ==
    /\ \E e \in made : Follows(e, applied) /\ applied' = applied \cup {e}
    /\ UNCHANGED <<made, forgotten>>

\* The device forgets some more edits, the oldest first.
Forget ==
    /\ forgotten \subseteq forgotten'
    /\ forgotten' \subseteq applied
    /\ \A e \in forgotten', f \in made : f < e => f \in forgotten'
    /\ UNCHANGED <<made, applied>>

Next == Make \/ Apply \/ Forget

Spec == Init /\ [][Next]_vars
=============================================================================
