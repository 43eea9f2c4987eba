--------------------------- MODULE PrimaryElection ---------------------------
(***************************************************************************)
(* Election of the Racer primary on one Kubernetes Lease: primary::contend,*)
(* primary::lead's use of the Lease, and primary::renew, with the pure     *)
(* rules of authority/election.rs.                                         *)
(*                                                                         *)
(* A contender is one tenancy of a seat by one process: the task           *)
(* primary::contend and the terms it leads.  The task ends with its seat;  *)
(* a process that wins a seat again starts another contender.  (Both share *)
(* one holder key, but no claim of one equals a claim of the other, since  *)
(* every claim takes a new transition.)                                    *)
(*                                                                         *)
(* The API server keeps the Lease and applies a PUT only at the resource   *)
(* version it was based on.  A request takes time: it is sent, it may land,*)
(* and its client sees the reply, a conflict, or nothing at all.  A client *)
(* that stopped waiting leaves the PUT behind in orphans, where it may     *)
(* still land until another PUT takes the version it was based on.         *)
(* kube::call_inner repeats a PUT once when a pooled connection breaks, so *)
(* a PUT that did land may be reported as a conflict.                      *)
(*                                                                         *)
(* Clocks are local and are read as durations, so time is modelled by      *)
(* relative timers that Tick advances together.                            *)
(***************************************************************************)
EXTENDS Naturals

CONSTANTS
    Contenders, \* seat tenancies that may contend
    None,       \* the holder of a free Lease
    Duration,   \* limits::LEASE_DURATION, in ticks
    Freshness,  \* limits::LEASE_FRESHNESS, in ticks
    MaxRv,      \* bound: versions of the Lease ever written
    MaxUid      \* bound: Lease objects ever created

(* limits.rs: "It is shorter than LEASE_DURATION so a new holder never
   overlaps."  Equality is enough. *)
ASSUME TimesAssumption ==
    /\ Duration \in Nat
    /\ Freshness \in Nat
    /\ Freshness <= Duration
    /\ Duration > 0

ASSUME NoneAssumption == None \notin Contenders

ASSUME BoundsAssumption == MaxRv \in Nat /\ MaxUid \in Nat

VARIABLES
    lease,    \* the Lease object in the API server
    lastRv,   \* newest resource version given out
    lastUid,  \* newest Lease UID given out
    orphans,  \* PUTs whose client no longer waits
    seat,     \* seat_mine: the contender's process still holds its seat
    phase,    \* where the contender's task is
    got,      \* the Lease as its last GET returned it
    seen,     \* Observer: the version seen last and for how long
    request,  \* the task's own PUT: a claim or a release
    term,     \* Term_.writer.term: the term claimed last
    object,   \* Term_.object: the Lease as last written or read by the term
    left,     \* Term_.lease: how long the term's authority stays fresh
    alive,    \* Term_.alive
    renewal   \* the renew task of the term

leaseVars == <<lease, lastRv, lastUid>>
termVars == <<term, object, left, alive>>
vars == <<lease, lastRv, lastUid, orphans, seat, phase, got, seen, request,
          term, object, left, alive, renewal>>

-----------------------------------------------------------------------------
Holders == Contenders \cup {None}

(* lease::observe: uid and version 0 stand for a Lease that does not exist. *)
LeaseObject == [uid : Nat, rv : Nat, transitions : Nat, holder : Holders]

NoLease == [uid |-> 0, rv |-> 0, transitions |-> 0, holder |-> None]

(* A PUT of the Lease: the version it is based on and the spec it writes. *)
Put == [base : Nat, transitions : Nat, holder : Holders]

(* A PUT with its client: how long ago it was started, and the answer. *)
States == {"none", "sent", "ok", "conflict"}

Request == [put : Put, state : States, age : 0..Freshness, reply : LeaseObject]

NoRequest ==
    [put |-> [base |-> 0, transitions |-> 0, holder |-> None],
     state |-> "none", age |-> 0, reply |-> NoLease]

Conflict == [NoRequest EXCEPT !.state = "conflict"]

Phases == {"contend", "observe", "claim", "lead", "release", "done"}

Steps == {"off", "idle", "put", "get", "got"}

NoTerm == [uid |-> 0, transitions |-> 0]

TypeOK ==
    /\ lease \in LeaseObject
    /\ lastRv \in Nat
    /\ lastUid \in Nat
    /\ orphans \subseteq Put
    /\ seat \in [Contenders -> BOOLEAN]
    /\ phase \in [Contenders -> Phases]
    /\ got \in [Contenders -> LeaseObject]
    /\ seen \in [Contenders -> [rv : Nat, age : 0..Duration]]
    /\ request \in [Contenders -> Request]
    /\ term \in [Contenders -> [uid : Nat, transitions : Nat]]
    /\ object \in [Contenders -> LeaseObject]
    /\ left \in [Contenders -> 0..Freshness]
    /\ alive \in [Contenders -> BOOLEAN]
    /\ renewal \in [Contenders -> [step : Steps, req : Request, got : LeaseObject]]

NoRenewal == [step |-> "off", req |-> NoRequest, got |-> NoLease]

Unseen == [rv |-> 0, age |-> 0]

Init ==
    /\ lease = [uid |-> 1, rv |-> 1, transitions |-> 0, holder |-> None]
    /\ lastRv = 1
    /\ lastUid = 1
    /\ orphans = {}
    /\ seat = [c \in Contenders |-> TRUE]
    /\ phase = [c \in Contenders |-> "contend"]
    /\ got = [c \in Contenders |-> NoLease]
    /\ seen = [c \in Contenders |-> Unseen]
    /\ request = [c \in Contenders |-> NoRequest]
    /\ term = [c \in Contenders |-> NoTerm]
    /\ object = [c \in Contenders |-> NoLease]
    /\ left = [c \in Contenders |-> 0]
    /\ alive = [c \in Contenders |-> FALSE]
    /\ renewal = [c \in Contenders |-> NoRenewal]

-----------------------------------------------------------------------------
(* The pure rules of authority/election.rs and authority/state.rs *)

(* Mutant: a Pod that claims keeps the transitions it found. *)
ClaimKeepsTerm(prev, c) ==
    [base |-> prev.rv, transitions |-> prev.transitions, holder |-> c]

Claim(prev, c) ==
    [base |-> prev.rv, transitions |-> prev.transitions + 1, holder |-> c]

Renewal(prev) ==
    [base |-> prev.rv, transitions |-> prev.transitions, holder |-> prev.holder]

(* Mutant: a release resets the whole spec, its transitions included. *)
ReleaseResets(prev) == [base |-> prev.rv, transitions |-> 0, holder |-> None]

Release(prev) ==
    [base |-> prev.rv, transitions |-> prev.transitions, holder |-> None]

(* Mutant: the clock runs on from the first version seen. *)
ObservedOnce(c, obs) == [rv |-> obs.rv, age |-> seen[c].age]

(* Mutant: every read restarts the clock. *)
ObservedAnew(c, obs) == [rv |-> obs.rv, age |-> 0]

(* Observer::observe: a version not seen before restarts the clock. *)
Observed(c, obs) ==
    IF seen[c].rv = obs.rv THEN seen[c] ELSE [rv |-> obs.rv, age |-> 0]

(* Observer::expired, on what Observer::observe just recorded. *)
Expired(obs, s) == obs.holder = None \/ s.age >= Duration

(* Mutant: the time the request took is added, not taken off. *)
AuthorityExtended(age) == Freshness + age

(* Mutant: authority counts from the reply. *)
AuthorityFromReply(age) == Freshness

(* lease_authority(started), for a request started `age` ticks ago. *)
Authority(age) == IF age < Freshness THEN Freshness - age ELSE 0

(* same_term: the holder, the Lease object and the transition. *)
SameTerm(obs, c) ==
    /\ obs.holder = c
    /\ obs.uid = term[c].uid
    /\ obs.transitions = term[c].transitions

(* lease::put, started now. *)
Sent(put) == [put |-> put, state |-> "sent", age |-> 0, reply |-> NoLease]

(* A client that no longer waits for r leaves its PUT behind if that can still
   land. *)
Abandoned(r) ==
    IF r.state = "sent" /\ r.put.base = lease.rv THEN {r.put} ELSE {}

-----------------------------------------------------------------------------
(* The API server *)

(* A PUT that is based on the current version replaces the Lease. *)
Lands(put) ==
    /\ lease.uid > 0
    /\ put.base = lease.rv
    /\ lastRv < MaxRv
    /\ lastRv' = lastRv + 1
    /\ lease' = [uid |-> lease.uid, rv |-> lastRv + 1,
                 transitions |-> put.transitions, holder |-> put.holder]
    /\ orphans' = {}
    /\ UNCHANGED lastUid

(* Any other is refused. *)
Refused(put) == put.base # lease.rv

(* The answer to a PUT that landed: usually the new object, but a conflict
   when the client's transport repeated a PUT whose first reply was lost. *)
Answers(r) ==
    {[r EXCEPT !.state = "ok", !.reply = lease'], Conflict}

LandRequest(c) ==
    /\ request[c].state = "sent"
    /\ Lands(request[c].put)
    /\ \E r \in Answers(request[c]) : request' = [request EXCEPT ![c] = r]
    /\ UNCHANGED <<seat, phase, got, seen, termVars, renewal>>

RefuseRequest(c) ==
    /\ request[c].state = "sent"
    /\ Refused(request[c].put)
    /\ request' = [request EXCEPT ![c] = Conflict]
    /\ UNCHANGED <<leaseVars, orphans, seat, phase, got, seen, termVars, renewal>>

LandRenewal(c) ==
    /\ renewal[c].req.state = "sent"
    /\ Lands(renewal[c].req.put)
    /\ \E r \in Answers(renewal[c].req) : renewal' = [renewal EXCEPT ![c].req = r]
    /\ UNCHANGED <<seat, phase, got, seen, request, termVars>>

RefuseRenewal(c) ==
    /\ renewal[c].req.state = "sent"
    /\ Refused(renewal[c].req.put)
    /\ renewal' = [renewal EXCEPT ![c].req = Conflict]
    /\ UNCHANGED <<leaseVars, orphans, seat, phase, got, seen, request, termVars>>

LandOrphan(put) ==
    /\ Lands(put)
    /\ UNCHANGED <<seat, phase, got, seen, request, termVars, renewal>>

DeleteLease ==
    /\ lease.uid > 0
    /\ lease' = NoLease
    /\ orphans' = {}
    /\ UNCHANGED <<lastRv, lastUid, seat, phase, got, seen, request,
                   termVars, renewal>>

CreateLease ==
    /\ lease.uid = 0
    /\ lastUid < MaxUid
    /\ lastRv < MaxRv
    /\ lastUid' = lastUid + 1
    /\ lastRv' = lastRv + 1
    /\ lease' = [uid |-> lastUid + 1, rv |-> lastRv + 1, transitions |-> 0,
                 holder |-> None]
    /\ UNCHANGED <<orphans, seat, phase, got, seen, request, termVars, renewal>>

-----------------------------------------------------------------------------
(* primary::contend *)

(* The seat is lost, released, or the process is stopping. *)
LoseSeat(c) ==
    /\ seat[c]
    /\ seat' = [seat EXCEPT ![c] = FALSE]
    /\ UNCHANGED <<leaseVars, orphans, phase, got, seen, request, termVars, renewal>>

(* The head of the loop, then the GET.  A Lease that does not exist, like any
   other error, only leads to the next round. *)
ReadLease(c) ==
    /\ phase[c] = "contend"
    /\ seat[c]
    /\ lease.uid > 0
    /\ got' = [got EXCEPT ![c] = lease]
    /\ phase' = [phase EXCEPT ![c] = "observe"]
    /\ UNCHANGED <<leaseVars, orphans, seat, seen, request, termVars, renewal>>

(* The GET returned: Contend::observe, and the claim when it says so. *)
Observe(c) ==
    LET s == Observed(c, got[c])
    IN  /\ phase[c] = "observe"
        /\ seen' = [seen EXCEPT ![c] = s]
        /\ got' = [got EXCEPT ![c] = NoLease]
        /\ \/ /\ seat[c] /\ Expired(got[c], s)
              /\ request' = [request EXCEPT ![c] = Sent(Claim(got[c], c))]
              /\ phase' = [phase EXCEPT ![c] = "claim"]
           \/ /\ ~(seat[c] /\ Expired(got[c], s))
              /\ phase' = [phase EXCEPT ![c] = "contend"]
              /\ UNCHANGED request
        /\ UNCHANGED <<leaseVars, orphans, seat, termVars, renewal>>

(* The claim's PUT returned Ok: lead begins.  Authority counts from before the
   PUT was sent. *)
ClaimOk(c) ==
    /\ phase[c] = "claim"
    /\ request[c].state = "ok"
    /\ term' = [term EXCEPT ![c] =
                   [uid |-> request[c].reply.uid,
                    transitions |-> request[c].reply.transitions]]
    /\ object' = [object EXCEPT ![c] = request[c].reply]
    /\ left' = [left EXCEPT ![c] = Authority(request[c].age)]
    /\ alive' = [alive EXCEPT ![c] = TRUE]
    /\ renewal' = [renewal EXCEPT ![c].step = "idle"]
    /\ request' = [request EXCEPT ![c] = NoRequest]
    /\ phase' = [phase EXCEPT ![c] = "lead"]
    /\ UNCHANGED <<leaseVars, orphans, seat, got, seen>>

(* The claim's PUT returned a conflict or an error, or timed out. *)
ClaimFailed(c) ==
    /\ phase[c] = "claim"
    /\ orphans' = orphans \cup Abandoned(request[c])
    /\ request' = [request EXCEPT ![c] = NoRequest]
    /\ phase' = [phase EXCEPT ![c] = "contend"]
    /\ UNCHANGED <<leaseVars, seat, got, seen, termVars, renewal>>

(* The loop ends with the seat. *)
ContendEnds(c) ==
    /\ phase[c] = "contend"
    /\ ~seat[c]
    /\ phase' = [phase EXCEPT ![c] = "done"]
    /\ UNCHANGED <<leaseVars, orphans, seat, got, seen, request, termVars, renewal>>

-----------------------------------------------------------------------------
(* primary::renew *)

(* The end of a round: without authority or seat the term is over. *)
RoundEnds(c, fresh, live) ==
    /\ alive' = [alive EXCEPT ![c] = live /\ fresh > 0 /\ seat[c]]
    /\ renewal' = [renewal EXCEPT ![c] =
                      [NoRenewal EXCEPT !.step = IF alive'[c] THEN "idle" ELSE "off"]]

Renew(c) ==
    /\ renewal[c].step = "idle"
    /\ alive[c]
    /\ renewal' = [renewal EXCEPT ![c] =
                      [step |-> "put", req |-> Sent(Renewal(object[c])),
                       got |-> NoLease]]
    /\ UNCHANGED <<leaseVars, orphans, seat, phase, got, seen, request, termVars>>

RenewOk(c) ==
    /\ renewal[c].step = "put"
    /\ renewal[c].req.state = "ok"
    /\ object' = [object EXCEPT ![c] = renewal[c].req.reply]
    /\ left' = [left EXCEPT ![c] = Authority(renewal[c].req.age)]
    /\ RoundEnds(c, left'[c], alive[c])
    /\ UNCHANGED <<leaseVars, orphans, seat, phase, got, seen, request, term>>

(* A conflict: read the Lease to find out whether the term still stands. *)
RenewConflict(c) ==
    /\ renewal[c].step = "put"
    /\ renewal[c].req.state = "conflict"
    /\ renewal' = [renewal EXCEPT ![c] = [NoRenewal EXCEPT !.step = "get"]]
    /\ UNCHANGED <<leaseVars, orphans, seat, phase, got, seen, request, termVars>>

RereadLease(c) ==
    /\ renewal[c].step = "get"
    /\ lease.uid > 0
    /\ renewal' = [renewal EXCEPT ![c].step = "got", ![c].got = lease]
    /\ UNCHANGED <<leaseVars, orphans, seat, phase, got, seen, request, termVars>>

(* The term still stands: renew again from the object just read.  The round
   is not ended, so freshness is not tested here. *)
RenewAdopt(c) ==
    /\ renewal[c].step = "got"
    /\ SameTerm(renewal[c].got, c)
    /\ object' = [object EXCEPT ![c] = renewal[c].got]
    /\ renewal' = [renewal EXCEPT ![c] =
                      [NoRenewal EXCEPT !.step = IF alive[c] THEN "idle" ELSE "off"]]
    /\ UNCHANGED <<leaseVars, orphans, seat, phase, got, seen, request, term, left, alive>>

RenewLost(c) ==
    /\ renewal[c].step = "got"
    /\ ~SameTerm(renewal[c].got, c)
    /\ RoundEnds(c, left[c], FALSE)
    /\ UNCHANGED <<leaseVars, orphans, seat, phase, got, seen, request, term, object, left>>

(* The PUT or the GET failed or timed out, or the GET found no Lease. *)
RenewFailed(c) ==
    /\ renewal[c].step \in {"put", "get", "got"}
    /\ orphans' = orphans \cup Abandoned(renewal[c].req)
    /\ RoundEnds(c, left[c], alive[c])
    /\ UNCHANGED <<leaseVars, seat, phase, got, seen, request, term, object, left>>

-----------------------------------------------------------------------------
(* primary::lead *)

(* A pass met durable state it may not write: the term is given up, and the
   Lease is left to expire. *)
Fenced(c) ==
    /\ phase[c] = "lead"
    /\ alive[c]
    /\ alive' = [alive EXCEPT ![c] = FALSE]
    /\ UNCHANGED <<leaseVars, orphans, seat, phase, got, seen, request, term, object,
                   left, renewal>>

(* The loop of lead ends.  When the seat is gone the Lease is released with the
   object cached last; otherwise it is left to expire.  A renewal still under
   way belongs to a dead term: nothing it returns is used. *)
TermEnds(c) ==
    /\ phase[c] = "lead"
    /\ ~alive[c] \/ ~seat[c]
    /\ alive' = [alive EXCEPT ![c] = FALSE]
    /\ left' = [left EXCEPT ![c] = 0]
    /\ orphans' = orphans \cup Abandoned(renewal[c].req)
    /\ renewal' = [renewal EXCEPT ![c] = NoRenewal]
    /\ \/ /\ ~seat[c]
          /\ request' = [request EXCEPT ![c] = Sent(Release(object[c]))]
          /\ phase' = [phase EXCEPT ![c] = "release"]
          /\ UNCHANGED seen
       \/ /\ seat[c]
          /\ seen' = [seen EXCEPT ![c] = Unseen]
          /\ phase' = [phase EXCEPT ![c] = "contend"]
          /\ UNCHANGED request
    /\ object' = [object EXCEPT ![c] = NoLease]
    /\ UNCHANGED <<leaseVars, seat, got, term>>

(* The release returned, whatever the answer, or timed out. *)
ReleaseEnds(c) ==
    /\ phase[c] = "release"
    /\ orphans' = orphans \cup Abandoned(request[c])
    /\ request' = [request EXCEPT ![c] = NoRequest]
    /\ seen' = [seen EXCEPT ![c] = Unseen]
    /\ phase' = [phase EXCEPT ![c] = "contend"]
    /\ UNCHANGED <<leaseVars, seat, got, termVars, renewal>>

(* The process dies.  Its requests may still land. *)
Crash(c) ==
    /\ phase[c] # "done"
    /\ phase' = [phase EXCEPT ![c] = "done"]
    /\ seat' = [seat EXCEPT ![c] = FALSE]
    /\ orphans' = orphans \cup Abandoned(request[c]) \cup Abandoned(renewal[c].req)
    /\ request' = [request EXCEPT ![c] = NoRequest]
    /\ renewal' = [renewal EXCEPT ![c] = NoRenewal]
    /\ alive' = [alive EXCEPT ![c] = FALSE]
    /\ left' = [left EXCEPT ![c] = 0]
    /\ got' = [got EXCEPT ![c] = NoLease]
    /\ seen' = [seen EXCEPT ![c] = Unseen]
    /\ object' = [object EXCEPT ![c] = NoLease]
    /\ UNCHANGED <<leaseVars, term>>

-----------------------------------------------------------------------------
(* Timers stop at the value past which no rule tells them apart. *)
Older(age, max) == IF age < max THEN age + 1 ELSE age

Aged(r) ==
    IF r.state \in {"sent", "ok"} THEN [r EXCEPT !.age = Older(@, Freshness)] ELSE r

Tick ==
    /\ seen' = [c \in Contenders |->
                   IF seen[c].rv = 0 THEN seen[c]
                   ELSE [seen[c] EXCEPT !.age = Older(@, Duration)]]
    /\ request' = [c \in Contenders |-> Aged(request[c])]
    /\ renewal' = [c \in Contenders |-> [renewal[c] EXCEPT !.req = Aged(@)]]
    /\ left' = [c \in Contenders |-> IF left[c] > 0 THEN left[c] - 1 ELSE 0]
    /\ UNCHANGED <<leaseVars, orphans, seat, phase, got, term, object, alive>>

Contend(c) ==
    \/ LoseSeat(c) \/ ReadLease(c) \/ Observe(c)
    \/ ClaimOk(c) \/ ClaimFailed(c) \/ ContendEnds(c)

Lead(c) == Fenced(c) \/ TermEnds(c) \/ ReleaseEnds(c) \/ Crash(c)

RenewTask(c) ==
    \/ Renew(c) \/ RenewOk(c) \/ RenewConflict(c) \/ RereadLease(c)
    \/ RenewAdopt(c) \/ RenewLost(c) \/ RenewFailed(c)

Server ==
    \/ \E c \in Contenders :
          LandRequest(c) \/ RefuseRequest(c) \/ LandRenewal(c) \/ RefuseRenewal(c)
    \/ \E put \in orphans : LandOrphan(put)
    \/ DeleteLease
    \/ CreateLease

Next ==
    \/ \E c \in Contenders : Contend(c) \/ Lead(c) \/ RenewTask(c)
    \/ Server
    \/ Tick

Spec == Init /\ [][Next]_vars

(* Clocks advance.  Every await of the tasks is bounded (API_TIMEOUT,
   LEASE_RENEW, or a sleep), so a task always takes its next step.  The API
   server may refuse or lose requests for a while, but of a task that keeps
   sending a claim it applies one in the end. *)
Fairness ==
    /\ WF_vars(Tick)
    /\ \A c \in Contenders :
          /\ WF_vars(ReadLease(c))
          /\ WF_vars(Observe(c))
          /\ WF_vars(ClaimOk(c) \/ ClaimFailed(c))
          /\ WF_vars(ContendEnds(c))
          /\ WF_vars(Renew(c))
          /\ WF_vars(RenewOk(c) \/ RenewConflict(c) \/ RenewAdopt(c) \/ RenewLost(c)
                       \/ RenewFailed(c))
          /\ WF_vars(TermEnds(c) \/ ReleaseEnds(c))
          /\ SF_vars(LandRequest(c))

FairSpec == Spec /\ Fairness

-----------------------------------------------------------------------------
(* Properties *)

(* The term's writes and its renewals are allowed: Freshness::fresh(now). *)
Fresh(c) == phase[c] = "lead" /\ left[c] > 0

(* A primary that believes its authority fresh is right about it: as long as
   the Lease object it claimed exists, the API server names this contender as
   holder, in the term it leads.  This is what lets primary::reconcile act on
   Term_.lease, a local clock, without asking the API server. *)
FreshMeansHeld ==
    \A c \in Contenders :
        Fresh(c) /\ lease.uid = term[c].uid => SameTerm(lease, c)

(* limits.rs, LEASE_FRESHNESS: "a new holder never overlaps."  No two
   contenders have fresh authority from the same Lease object.  (An operator
   who deletes and creates the Lease starts another succession of terms; the
   state record's fencing, not the Lease, separates those.) *)
OneFreshPrimary ==
    \A c, d \in Contenders :
        Fresh(c) /\ Fresh(d) /\ term[c].uid = term[d].uid => c = d

(* No two claims ever lead to the same term, so a term names its writer:
   election::claim, "Transitions always increase, also for the same Pod." *)
TermsUnique ==
    \A c, d \in Contenders : term[c] = term[d] /\ term[c] # NoTerm => c = d

(* The election implements the succession of terms that the rest of the
   control plane relies on. *)
Terms == INSTANCE LeaseTerms WITH
    lease <- [uid |-> lease.uid, transitions |-> lease.transitions,
              holder |-> lease.holder]

RefinesLeaseTerms == Terms!Spec

(* The control plane does not stay without a primary: while one contender
   keeps its seat, the Lease exists and the API server still accepts writes,
   nobody having fresh authority cannot last for ever.  Whatever happened
   before - a primary that crashed, was fenced, lost the reply to its own claim
   or renewal - primary::contend takes the Lease in the end. *)
Vacant == lease.uid > 0 /\ lastRv < MaxRv /\ \A d \in Contenders : ~Fresh(d)

VacancyEnds == \A c \in Contenders : ~<>[](Vacant /\ seat[c])

-----------------------------------------------------------------------------
(* The inductive invariant behind FreshMeansHeld *)

(* A version names one state of the Lease, so an object read or returned at the
   current version is the current object. *)
Genuine(o) == o.rv \in 1..lastRv /\ o.uid \in 1..lastUid /\ (o.rv = lease.rv => o = lease)

LeaseVersions ==
    /\ lease.rv <= lastRv /\ lease.uid <= lastUid
    /\ lease.rv > 0 <=> lease.uid > 0
    /\ lease.uid = 0 => lease = NoLease

Versions(c) ==
    /\ seen[c].rv <= lastRv
    /\ term[c].uid <= lastUid
    /\ phase[c] = "observe" => Genuine(got[c])
    /\ phase[c] = "lead" => Genuine(object[c]) /\ SameTerm(object[c], c)
    /\ renewal[c].step = "got" => Genuine(renewal[c].got)
    /\ request[c].state = "ok" => Genuine(request[c].reply)
    /\ renewal[c].req.state = "ok" => Genuine(renewal[c].req.reply)

(* Requests belong to the phase that sent them. *)
Phased(c) ==
    /\ phase[c] # "lead" => renewal[c] = NoRenewal
    /\ phase[c] \notin {"claim", "release"} => request[c].state = "none"
    /\ renewal[c].req.state # "none" => renewal[c].step = "put"
    /\ phase[c] = "claim" /\ request[c].state = "ok" => request[c].reply.holder = c
    /\ renewal[c].req.state = "ok" => SameTerm(renewal[c].req.reply, c)

(* Contender c, with t a term it leads or has just been granted, has r ticks of
   authority left.  Then the Lease is still its own, and whoever watches the
   Lease has not watched the current version for longer than the authority has
   been running. *)
Covered(c, t, r) ==
    r > 0 /\ t.uid = lease.uid =>
        /\ lease.holder = c
        /\ lease.transitions = t.transitions
        /\ \A d \in Contenders : seen[d].rv = lease.rv => seen[d].age + r <= Freshness

Authorities(c) ==
    /\ phase[c] = "lead" => Covered(c, term[c], left[c])
    /\ renewal[c].req.state = "ok" =>
          Covered(c, term[c], Authority(renewal[c].req.age))
    /\ phase[c] = "claim" /\ request[c].state = "ok" =>
          Covered(c, request[c].reply, Authority(request[c].age))

(* Contender c neither has nor is about to be told of authority from the
   current Lease. *)
Powerless(c) ==
    /\ phase[c] = "lead" /\ left[c] > 0 => term[c].uid # lease.uid
    /\ renewal[c].req.state = "ok" /\ Authority(renewal[c].req.age) > 0 =>
          term[c].uid # lease.uid
    /\ phase[c] = "claim" /\ request[c].state = "ok" /\ Authority(request[c].age) > 0 =>
          request[c].reply.uid # lease.uid

Unowned == \A c \in Contenders : Powerless(c)

(* A PUT that can land either rewrites the spec it finds or takes the Lease from
   nobody: by the next claim, or by a release. *)
Renews(put) == put.transitions = lease.transitions /\ put.holder = lease.holder

Takes(put) ==
    /\ Unowned
    /\ \/ put.transitions = lease.transitions + 1 /\ put.holder # None
       \/ put.transitions = lease.transitions /\ put.holder = None

Puts(c) ==
    /\ request[c].state = "sent" =>
          /\ request[c].put.base \in 1..lastRv
          /\ phase[c] = "claim" => request[c].put.holder = c
          /\ request[c].put.base = lease.rv => Takes(request[c].put)
    /\ renewal[c].req.state = "sent" =>
          /\ renewal[c].req.put.base \in 1..lastRv
          /\ renewal[c].req.put.base = lease.rv =>
                Renews(renewal[c].req.put) /\ SameTerm(lease, c)

Landable(put) ==
    put.base = lease.rv /\ put.base > 0 /\ (Renews(put) \/ Takes(put))

Orphans == \A put \in orphans : Landable(put)

IInv ==
    /\ TypeOK
    /\ LeaseVersions
    /\ Orphans
    /\ \A c \in Contenders : Versions(c) /\ Phased(c) /\ Authorities(c) /\ Puts(c)
=============================================================================
