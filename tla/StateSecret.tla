---------------------------- MODULE StateSecret ----------------------------
(***************************************************************************)
(* Writers of the racer-state Secret: primary::reconcile with the fencing  *)
(* of authority/state.rs and the counters of publication::prepare and      *)
(* keyring::plan_with.                                                     *)
(*                                                                         *)
(* Several processes may believe to be primary at once: a term may end     *)
(* without its writer noticing, and an operator may replace the Lease.  The*)
(* writers race on one Secret whose PUTs are applied only at the resource  *)
(* version they were based on.                                             *)
(*                                                                         *)
(* The succession of terms is LeaseTerms, without clocks.  A writer whose  *)
(* Lease authority has gone stale stops (EndTerm); nothing here relies on  *)
(* when it does, so fencing is shown for writers that are arbitrarily late.*)
(***************************************************************************)
EXTENDS StateRecords, FiniteSets

CONSTANTS
    MaxUid,          \* bound: Lease objects ever created
    MaxTransitions,  \* bound: claims on one Lease object
    MaxRv,           \* bound: versions of the Secret
    MaxOrphans       \* bound: abandoned PUTs that may still land

VARIABLES
    lease,      \* the primary Lease
    lastUid,    \* the Lease UID given out last
    secret,     \* the Secret: its version and its record
    orphans,    \* PUTs whose client no longer waits
    writer,     \* Term_.writer: the term and whether it is fenced
    pass        \* where the process's reconcile pass is

leaseVars == <<lease, lastUid>>
vars == <<lease, lastUid, secret, orphans, writer, pass>>

LT == INSTANCE LeaseTerms WITH Contenders <- Processes

SL == INSTANCE StateLog WITH record <- secret.record

-----------------------------------------------------------------------------
Put == [base : Nat, next : StateRecord]

NoWriter == [term |-> [uid |-> 0, transitions |-> 0], fenced |-> FALSE]

Steps == {"off", "idle", "read", "live", "sent", "ok", "conflict"}

(* What a pass has in hand: the Secret it read, the live Lease UID it read
   after it (0: not read, or no Lease), and its own PUT. *)
NoPut == [base |-> 0, next |-> None]

Off == [step |-> "off", rv |-> 0, current |-> None, live |-> 0, put |-> NoPut]

Idle == [Off EXCEPT !.step = "idle"]

TypeOK ==
    /\ lease \in LT!LeaseSpec
    /\ lastUid \in Nat
    /\ secret \in [rv : Nat, record : StateRecord \cup {None}]
    /\ orphans \subseteq Put
    /\ writer \in [Processes -> [term : [uid : Nat, transitions : Nat], fenced : BOOLEAN]]
    /\ pass \in [Processes -> [step : Steps, rv : Nat, current : StateRecord \cup {None},
                               live : Nat, put : Put \cup {NoPut}]]

Init ==
    /\ LT!Init
    /\ secret = [rv |-> 1, record |-> None]
    /\ orphans = {}
    /\ writer = [p \in Processes |-> NoWriter]
    /\ pass = [p \in Processes |-> Off]

-----------------------------------------------------------------------------
(* The pure rules *)

(* Mutant: a record of the writer's own transition fences it. *)
AuthorizeOnlyNewer(p, current, live) ==
    current # None =>
       IF current.term.uid # writer[p].term.uid
       THEN live = writer[p].term.uid
       ELSE current.term.transitions < writer[p].term.transitions

(* state::authorize_write *)
AuthorizeWrite(p, current, live) ==
    current # None =>
       IF current.term.uid # writer[p].term.uid
       THEN live = writer[p].term.uid
       ELSE /\ current.term.transitions <= writer[p].term.transitions
            /\ current.term.transitions = writer[p].term.transitions =>
                  current.term.holder = p

(* Writer::stamp *)
Stamp(p, base) ==
    [base EXCEPT !.term = [uid |-> writer[p].term.uid,
                           transitions |-> writer[p].term.transitions, holder |-> p]]

(* What plan_pass may return as next. *)
Plans(p, current) ==
    Revisions(Stamp(p, IF current = None THEN Empty ELSE current))


(* A client that no longer waits leaves its PUT behind if it can still land.
   Beyond the bound PUTs are lost. *)
Abandoned(p) ==
    IF /\ pass[p].step = "sent" /\ pass[p].put.base = secret.rv
       /\ Cardinality(orphans) < MaxOrphans
    THEN {pass[p].put} ELSE {}

-----------------------------------------------------------------------------
(* The Lease and the terms *)

(* primary::contend wins the Lease and lead starts a term. *)
Claim(p) ==
    /\ pass[p].step = "off"
    /\ lease.transitions < MaxTransitions
    /\ LT!ClaimTerm(p)
    /\ writer' = [writer EXCEPT ![p] =
                     [term |-> [uid |-> lease.uid, transitions |-> lease.transitions + 1],
                      fenced |-> FALSE]]
    /\ pass' = [pass EXCEPT ![p] = Idle]
    /\ UNCHANGED <<secret, orphans>>

Release ==
    /\ lease.holder # None
    /\ LT!ReleaseTerm
    /\ UNCHANGED <<secret, orphans, writer, pass>>

DeleteLease ==
    /\ LT!DeleteLease
    /\ UNCHANGED <<secret, orphans, writer, pass>>

CreateLease ==
    /\ lastUid < MaxUid
    /\ LT!CreateLease
    /\ UNCHANGED <<secret, orphans, writer, pass>>

(* The term ends: its authority went stale, its seat is gone, it was fenced, or
   the process died.  Nobody waits for its PUT any more. *)
EndTerm(p) ==
    /\ pass[p].step # "off"
    /\ orphans' = orphans \cup Abandoned(p)
    /\ pass' = [pass EXCEPT ![p] = Off]
    /\ writer' = [writer EXCEPT ![p] = NoWriter]
    /\ UNCHANGED <<leaseVars, secret>>

-----------------------------------------------------------------------------
(* primary::reconcile *)

(* read_state: the GET of the Secret. *)
ReadState(p) ==
    /\ pass[p].step = "idle"
    /\ ~writer[p].fenced
    /\ pass' = [pass EXCEPT ![p] =
                   [Off EXCEPT !.step = "read", !.rv = secret.rv, !.current = secret.record]]
    /\ UNCHANGED <<leaseVars, secret, orphans, writer>>

(* Mutant: the term's own Lease UID, read before the record, is taken as live. *)
LiveLeaseUidBefore(p) ==
    /\ pass[p].step = "read"
    /\ pass' = [pass EXCEPT ![p].step = "live", ![p].live = writer[p].term.uid]
    /\ UNCHANGED <<leaseVars, secret, orphans, writer>>

(* Mutant: the Lease is not read. *)
LiveLeaseUidUnread(p) ==
    /\ pass[p].step = "read"
    /\ pass' = [pass EXCEPT ![p].step = "live"]
    /\ UNCHANGED <<leaseVars, secret, orphans, writer>>

(* live_lease_uid: the Lease is read only when the record is of another one. *)
LiveLeaseUid(p) ==
    /\ pass[p].step = "read"
    /\ LET foreign == /\ pass[p].current # None
                      /\ pass[p].current.term.uid # writer[p].term.uid
       IN  pass' = [pass EXCEPT ![p].step = "live",
                                ![p].live = IF foreign THEN lease.uid ELSE 0]
    /\ UNCHANGED <<leaseVars, secret, orphans, writer>>

(* A read failed: the pass is skipped. *)
ReadFailed(p) ==
    /\ pass[p].step = "read"
    /\ pass' = [pass EXCEPT ![p] = Idle]
    /\ UNCHANGED <<leaseVars, secret, orphans, writer>>

(* Writer::observe refuses the record.  The writer is fenced for good, and lead
   ends its term. *)
Fence(p) ==
    /\ pass[p].step = "live"
    /\ ~AuthorizeWrite(p, pass[p].current, pass[p].live)
    /\ writer' = [writer EXCEPT ![p].fenced = TRUE]
    /\ pass' = [pass EXCEPT ![p] = Idle]
    /\ UNCHANGED <<leaseVars, secret, orphans>>

(* plan_pass finds nothing to change. *)
Unchanged(p) ==
    /\ pass[p].step = "live"
    /\ AuthorizeWrite(p, pass[p].current, pass[p].live)
    /\ pass[p].current \in Plans(p, pass[p].current)
    /\ pass' = [pass EXCEPT ![p] = Idle]
    /\ UNCHANGED <<leaseVars, secret, orphans, writer>>

(* plan_pass has a record to commit, and the PUT is sent.  A record equal to the
   one read stands for a change of what the model leaves out: the desired seats
   or a root's retention deadline. *)
Send(p) ==
    /\ pass[p].step = "live"
    /\ AuthorizeWrite(p, pass[p].current, pass[p].live)
    /\ \E next \in Plans(p, pass[p].current) :
          /\ pass[p].current # None => CheckMonotonic(pass[p].current, next)
          /\ pass' = [pass EXCEPT ![p] =
                         [Off EXCEPT !.step = "sent",
                                     !.put = [base |-> pass[p].rv, next |-> next]]]
    /\ UNCHANGED <<leaseVars, secret, orphans, writer>>

(* The PUT returned Ok.  The record is installed (see Serving). *)
Committed(p) ==
    /\ pass[p].step = "ok"
    /\ pass' = [pass EXCEPT ![p] = Idle]
    /\ UNCHANGED <<leaseVars, secret, orphans, writer>>

(* The PUT returned a conflict: read again, at once or, after the third attempt,
   in the next pass. *)
Retry(p) ==
    /\ pass[p].step = "conflict"
    /\ pass' = [pass EXCEPT ![p] = Idle]
    /\ UNCHANGED <<leaseVars, secret, orphans, writer>>

(* The PUT failed or timed out. *)
PutFailed(p) ==
    /\ pass[p].step \in {"sent", "ok", "conflict"}
    /\ orphans' = orphans \cup Abandoned(p)
    /\ pass' = [pass EXCEPT ![p] = Idle]
    /\ UNCHANGED <<leaseVars, secret, writer>>

-----------------------------------------------------------------------------
(* The API server *)

Lands(put) ==
    /\ put.base = secret.rv
    /\ secret.rv < MaxRv
    /\ secret' = [rv |-> secret.rv + 1, record |-> put.next]
    /\ orphans' = {}
    /\ UNCHANGED leaseVars

(* A PUT that was repeated on a broken connection is answered by a conflict
   although it landed. *)
LandPut(p) ==
    /\ pass[p].step = "sent"
    /\ Lands(pass[p].put)
    /\ \E answer \in {"ok", "conflict"} : pass' = [pass EXCEPT ![p] = [Off EXCEPT !.step = answer]]
    /\ UNCHANGED writer

RefusePut(p) ==
    /\ pass[p].step = "sent"
    /\ pass[p].put.base # secret.rv
    /\ pass' = [pass EXCEPT ![p] = [Off EXCEPT !.step = "conflict"]]
    /\ UNCHANGED <<leaseVars, secret, orphans, writer>>

LandOrphan(put) ==
    /\ Lands(put)
    /\ UNCHANGED <<writer, pass>>

-----------------------------------------------------------------------------
Reconcile(p) ==
    \/ ReadState(p) \/ LiveLeaseUid(p) \/ ReadFailed(p)
    \/ Fence(p) \/ Unchanged(p) \/ Send(p)
    \/ Committed(p) \/ Retry(p) \/ PutFailed(p)

Next ==
    \/ \E p \in Processes :
          Claim(p) \/ EndTerm(p) \/ Reconcile(p) \/ LandPut(p) \/ RefusePut(p)
    \/ \E put \in orphans : LandOrphan(put)
    \/ Release \/ DeleteLease \/ CreateLease

Spec == Init /\ [][Next]_vars

(* Every await of a pass is bounded by API_TIMEOUT, so passes follow one
   another.  The API server may fail reads and PUTs for a while, but of a writer
   that keeps trying it answers a read and applies a PUT in the end. *)
Fairness ==
    \A p \in Processes :
        /\ WF_vars(ReadState(p))
        /\ SF_vars(LiveLeaseUid(p))
        /\ WF_vars(Fence(p) \/ Unchanged(p) \/ Send(p))
        /\ WF_vars(Committed(p) \/ Retry(p) \/ PutFailed(p))
        /\ SF_vars(LandPut(p))

FairSpec == Spec /\ Fairness

-----------------------------------------------------------------------------
(* Properties *)

(* The Secret is the succession of records that every seat relies on.  Counters
   never go back, and the record's term only advances: a writer whose term was
   succeeded, or whose Lease object was replaced, never takes the record back,
   however late its PUTs land.  state::authorize_write: "once the live term
   stamps the record, the old holder ... is fenced and cannot take the record
   back." *)
RefinesStateLog == SL!Spec

(* Fencing never hits the primary that holds the current term of the Lease. *)
Current(p) ==
    /\ lease.holder = p
    /\ lease.uid = writer[p].term.uid
    /\ lease.transitions = writer[p].term.transitions

LiveNeverFenced == \A p \in Processes : writer[p].fenced => ~Current(p)

(* A primary that holds the current term and keeps making passes gets its term
   onto the record, whatever the writers before it left in flight. *)
Stamped(p) ==
    /\ secret.record # None
    /\ secret.record.term =
          [uid |-> writer[p].term.uid, transitions |-> writer[p].term.transitions,
           holder |-> p]

LeadersCommit ==
    \A p \in Processes :
        ~<>[](/\ Current(p) /\ pass[p].step # "off"
              /\ secret.rv < MaxRv /\ ~Stamped(p))
=============================================================================
