------------------------------ MODULE StateLog ------------------------------
(***************************************************************************)
(* What the racer-state Secret promises to the seats that serve from it: a *)
(* succession of records, each of which may follow the one before.         *)
(***************************************************************************)
EXTENDS StateRecords

VARIABLE record  \* the committed record, None before the first one

(* A generation names one set of keys and roots. *)
SameKeys(prev, next) ==
    next.generation = prev.generation => next.keyring = prev.keyring

(* Terms advance: within one Lease object by its transitions, which name one
   holder, and from one Lease object only to one that was created later. *)
TermAdvances(prev, next) ==
    \/ next.uid > prev.uid
    \/ next.uid = prev.uid /\ next.transitions > prev.transitions
    \/ next = prev

Follows(prev, next) ==
    /\ CheckMonotonic(prev, next)
    /\ SameKeys(prev, next)
    /\ TermAdvances(prev.term, next.term)

Init == record = None

Commit ==
    /\ record' \in StateRecord
    /\ record = None \/ Follows(record, record')

Spec == Init /\ [][Commit]_record
=============================================================================
