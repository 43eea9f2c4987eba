----------------------------- MODULE LeaseTerms -----------------------------
(***************************************************************************)
(* What the primary Lease promises to everything built on it: a succession *)
(* of terms.  A term is (Lease UID, leaseTransitions); a claim opens a new *)
(* term on the current Lease object, a release ends one, and an operator   *)
(* may delete the Lease and create it again, which gives it a new UID and  *)
(* restarts its transitions from zero.                                     *)
(*                                                                         *)
(* Who may claim, and when, is the business of PrimaryElection, which      *)
(* implements this specification.  StateSecret builds its fencing argument *)
(* on this specification alone, so its theorems do not depend on clocks.   *)
(***************************************************************************)
EXTENDS Naturals

CONSTANTS
    Contenders, \* processes that may hold the primary Lease
    None        \* the holder of a free Lease

VARIABLES
    lease,      \* the Lease object; uid 0 while no such object exists
    lastUid     \* the UID given out last; the API never gives one out twice

(* UIDs are random strings in Kubernetes and the code only tests them for
   equality.  Numbering them in the order they were given out lets the
   properties speak about that order. *)
LeaseSpec == [uid : Nat, transitions : Nat, holder : Contenders \cup {None}]

Absent == [uid |-> 0, transitions |-> 0, holder |-> None]

termVars == <<lease, lastUid>>

Init ==
    /\ lease = [uid |-> 1, transitions |-> 0, holder |-> None]
    /\ lastUid = 1

(* election::claim: a claim always takes the next transition, also when the
   same Pod claims again. *)
ClaimTerm(c) ==
    /\ lease.uid > 0
    /\ lease' = [uid |-> lease.uid, transitions |-> lease.transitions + 1, holder |-> c]
    /\ UNCHANGED lastUid

(* election::release: the holder is cleared and the transitions are kept. *)
ReleaseTerm ==
    /\ lease.uid > 0
    /\ lease' = [lease EXCEPT !.holder = None]
    /\ UNCHANGED lastUid

(* An operator or an upgrade deletes the Lease object... *)
DeleteLease ==
    /\ lease.uid > 0
    /\ lease' = Absent
    /\ UNCHANGED lastUid

(* ... and creates it again: another UID, transitions from zero. *)
CreateLease ==
    /\ lease.uid = 0
    /\ lastUid' = lastUid + 1
    /\ lease' = [uid |-> lastUid + 1, transitions |-> 0, holder |-> None]

Next ==
    \/ \E c \in Contenders : ClaimTerm(c)
    \/ ReleaseTerm
    \/ DeleteLease
    \/ CreateLease

Spec == Init /\ [][Next]_termVars
=============================================================================
