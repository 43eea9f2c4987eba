----------------------- MODULE PrimaryElectionProofs -----------------------
(***************************************************************************)
(* Proofs about PrimaryElection, for any set of contenders, any duration   *)
(* and any freshness that does not exceed it.                              *)
(***************************************************************************)
EXTENDS PrimaryElection, TLAPS

(* What is sent is a request, and what can no longer be answered is a set of
   PUTs. *)
LEMMA RequestTypes ==
    /\ NoLease \in LeaseObject
    /\ NoRequest \in Request
    /\ Conflict \in Request
    /\ NoRenewal \in [step : Steps, req : Request, got : LeaseObject]
    /\ Unseen \in [rv : Nat, age : 0..Duration]
    /\ \A put \in Put : Sent(put) \in Request
    /\ \A r \in Request : Aged(r) \in Request
    /\ \A r \in Request : Abandoned(r) \subseteq Put
    /\ \A age \in Nat : Authority(age) \in 0..Freshness
  BY TimesAssumption
     DEF NoLease, NoRequest, Conflict, NoRenewal, Unseen, Sent, Aged, Older,
         Abandoned, Authority, LeaseObject, Request, Put, States, Steps, Holders

(* The fields that the invariant reads of a fresh or an empty request. *)
LEMMA Blank ==
    /\ NoRequest.state = "none" /\ Conflict.state = "conflict"
    /\ NoRenewal.step = "off" /\ NoRenewal.req = NoRequest
    /\ Unseen.rv = 0 /\ Unseen.age = 0
    /\ \A put : Sent(put).state = "sent" /\ Sent(put).put = put
  BY DEF NoRequest, Conflict, NoRenewal, Unseen, Sent

LEMMA PutTypes ==
    ASSUME NEW o \in LeaseObject, NEW c \in Contenders
    PROVE  Claim(o, c) \in Put /\ Renewal(o) \in Put /\ Release(o) \in Put
  BY DEF Claim, Renewal, Release, LeaseObject, Put, Holders

(* What the API server answers is a request again. *)
LEMMA AnswerTypes ==
    ASSUME NEW r \in Request, lease' \in LeaseObject
    PROVE  Answers(r) \subseteq Request
<1>1. [r EXCEPT !.state = "ok", !.reply = lease'] \in Request
  BY Zenon DEF Request, States
<1> QED
  BY <1>1, RequestTypes DEF Answers

(* Every variable keeps its type: the timers stay within their caps, and no
   request loses its shape on its way through the API server. *)
LEMMA TypeStep == TypeOK /\ [Next]_vars => TypeOK'
<1> SUFFICES ASSUME TypeOK, [Next]_vars PROVE TypeOK'
  OBVIOUS
<1>1. ASSUME NEW put \in Put, Lands(put)
      PROVE  lease' \in LeaseObject /\ lastRv' \in Nat /\ lastUid' \in Nat /\ orphans' \subseteq Put
  BY <1>1 DEF Lands, TypeOK, LeaseObject, Put
<1>2. ASSUME NEW c \in Contenders, LandRequest(c) PROVE TypeOK'
  <2>1. request[c] \in Request /\ request[c].put \in Put
    BY DEF TypeOK, Request
  <2>2. lease' \in LeaseObject /\ lastRv' \in Nat /\ lastUid' \in Nat /\ orphans' \subseteq Put
    BY <1>1, <1>2, <2>1 DEF LandRequest
  <2>3. Answers(request[c]) \subseteq Request
    BY <2>1, <2>2, AnswerTypes
  <2>4. request' \in [Contenders -> Request]
    BY <1>2, <2>3 DEF LandRequest, TypeOK
  <2> QED
    BY <1>2, <2>2, <2>4 DEF LandRequest, TypeOK, termVars
<1>3. ASSUME NEW c \in Contenders, RefuseRequest(c) PROVE TypeOK'
  BY <1>3, RequestTypes DEF RefuseRequest, TypeOK, termVars, leaseVars
<1>4. ASSUME NEW c \in Contenders, LandRenewal(c) PROVE TypeOK'
  <2>1. renewal[c].req \in Request /\ renewal[c].req.put \in Put
    BY DEF TypeOK, Request
  <2>2. lease' \in LeaseObject /\ lastRv' \in Nat /\ lastUid' \in Nat /\ orphans' \subseteq Put
    BY <1>1, <1>4, <2>1 DEF LandRenewal
  <2>3. Answers(renewal[c].req) \subseteq Request
    BY <2>1, <2>2, AnswerTypes
  <2>4. PICK r \in Request : renewal' = [renewal EXCEPT ![c].req = r]
    BY <1>4, <2>3, Zenon DEF LandRenewal
  <2>5. renewal' \in [Contenders -> [step : Steps, req : Request, got : LeaseObject]]
    BY <2>4, Zenon DEF TypeOK
  <2> QED
    BY <1>4, <2>2, <2>5 DEF LandRenewal, TypeOK, termVars
<1>5. ASSUME NEW c \in Contenders, RefuseRenewal(c) PROVE TypeOK'
  BY <1>5, RequestTypes, Zenon DEF RefuseRenewal, TypeOK, termVars, leaseVars
<1>6. ASSUME NEW put \in orphans, LandOrphan(put) PROVE TypeOK'
  BY <1>1, <1>6 DEF LandOrphan, TypeOK, termVars
<1>7. CASE DeleteLease
  BY <1>7, RequestTypes DEF DeleteLease, TypeOK, termVars
<1>8. CASE CreateLease
  BY <1>8 DEF CreateLease, TypeOK, termVars, LeaseObject, Holders
<1>9. ASSUME NEW c \in Contenders, Contend(c) PROVE TypeOK'
  <2>1. CASE LoseSeat(c)
    BY <2>1 DEF LoseSeat, TypeOK, termVars, leaseVars
  <2>2. CASE ReadLease(c)
    BY <2>2 DEF ReadLease, TypeOK, termVars, leaseVars, Phases
  <2>3. CASE Observe(c)
    <3>1. Sent(Claim(got[c], c)) \in Request
      BY PutTypes, RequestTypes DEF TypeOK
    <3>2. Observed(c, got[c]) \in [rv : Nat, age : 0..Duration]
      BY TimesAssumption DEF TypeOK, Observed, LeaseObject
    <3>a. \/ /\ request' = [request EXCEPT ![c] = Sent(Claim(got[c], c))]
             /\ phase' = [phase EXCEPT ![c] = "claim"]
          \/ request' = request /\ phase' = [phase EXCEPT ![c] = "contend"]
      BY <2>3, Zenon DEF Observe
    <3>3. phase' \in [Contenders -> Phases]
      BY <3>a DEF TypeOK, Phases
    <3>b. request' \in [Contenders -> Request]
      BY <3>a, <3>1, Zenon DEF TypeOK
    <3>4. /\ got' \in [Contenders -> LeaseObject]
          /\ seen' \in [Contenders -> [rv : Nat, age : 0..Duration]]
      BY <2>3, <3>2, RequestTypes DEF Observe, TypeOK
    <3>5. UNCHANGED <<leaseVars, orphans, seat, termVars, renewal>>
      BY <2>3 DEF Observe
    <3> QED
      BY <3>3, <3>b, <3>4, <3>5 DEF TypeOK, termVars, leaseVars
  <2>4. CASE ClaimOk(c)
    <3>1. request[c] \in Request /\ request[c].reply \in LeaseObject /\ request[c].age \in Nat
      BY DEF TypeOK, Request
    <3>2. /\ term' \in [Contenders -> [uid : Nat, transitions : Nat]]
          /\ object' \in [Contenders -> LeaseObject]
      BY <2>4, <3>1 DEF ClaimOk, TypeOK, LeaseObject
    <3>3. left' \in [Contenders -> 0..Freshness] /\ alive' \in [Contenders -> BOOLEAN]
      BY <2>4, <3>1, RequestTypes DEF ClaimOk, TypeOK
    <3>4. renewal' \in [Contenders -> [step : Steps, req : Request, got : LeaseObject]]
      BY <2>4, Zenon DEF ClaimOk, TypeOK, Steps
    <3>5. request' \in [Contenders -> Request] /\ phase' \in [Contenders -> Phases]
      BY <2>4, RequestTypes DEF ClaimOk, TypeOK, Phases
    <3> QED
      BY <2>4, <3>2, <3>3, <3>4, <3>5 DEF ClaimOk, TypeOK, leaseVars
  <2>5. CASE ClaimFailed(c)
    BY <2>5, RequestTypes DEF ClaimFailed, TypeOK, termVars, leaseVars, Phases
  <2>6. CASE ContendEnds(c)
    BY <2>6 DEF ContendEnds, TypeOK, termVars, leaseVars, Phases
  <2> QED
    BY <1>9, <2>1, <2>2, <2>3, <2>4, <2>5, <2>6 DEF Contend
<1>10. ASSUME NEW c \in Contenders, Lead(c) PROVE TypeOK'
  <2>1. CASE Fenced(c)
    BY <2>1 DEF Fenced, TypeOK, leaseVars
  <2>2. CASE TermEnds(c)
    <3>1. Sent(Release(object[c])) \in Request
      BY PutTypes, RequestTypes DEF TypeOK
    <3>2. Abandoned(renewal[c].req) \subseteq Put
      BY RequestTypes DEF TypeOK
    <3>a. \/ /\ request' = [request EXCEPT ![c] = Sent(Release(object[c]))]
             /\ phase' = [phase EXCEPT ![c] = "release"]
             /\ seen' = seen
          \/ /\ seen' = [seen EXCEPT ![c] = Unseen]
             /\ phase' = [phase EXCEPT ![c] = "contend"]
             /\ request' = request
      BY <2>2, Zenon DEF TermEnds
    <3>3. phase' \in [Contenders -> Phases]
      BY <3>a DEF TypeOK, Phases
    <3>b. request' \in [Contenders -> Request]
      BY <3>a, <3>1, Zenon DEF TypeOK
    <3>c. seen' \in [Contenders -> [rv : Nat, age : 0..Duration]]
      BY <3>a, RequestTypes, ZenonT(60) DEF TypeOK
    <3>4. /\ alive' \in [Contenders -> BOOLEAN]
          /\ left' \in [Contenders -> 0..Freshness]
          /\ orphans' \subseteq Put
          /\ renewal' \in [Contenders -> [step : Steps, req : Request, got : LeaseObject]]
          /\ object' \in [Contenders -> LeaseObject]
      BY <2>2, <3>2, RequestTypes, TimesAssumption DEF TermEnds, TypeOK
    <3>5. UNCHANGED <<leaseVars, seat, got, term>>
      BY <2>2 DEF TermEnds
    <3> QED
      BY <3>3, <3>b, <3>c, <3>4, <3>5 DEF TypeOK, leaseVars
  <2>3. CASE ReleaseEnds(c)
    BY <2>3, RequestTypes DEF ReleaseEnds, TypeOK, termVars, leaseVars, Phases
  <2>4. CASE Crash(c)
    <3>1. Abandoned(renewal[c].req) \subseteq Put /\ Abandoned(request[c]) \subseteq Put
      BY RequestTypes DEF TypeOK
    <3> QED
      BY <2>4, <3>1, RequestTypes, TimesAssumption DEF Crash, TypeOK, leaseVars, Phases
  <2> QED
    BY <1>10, <2>1, <2>2, <2>3, <2>4 DEF Lead
<1>11. ASSUME NEW c \in Contenders, RenewTask(c) PROVE TypeOK'
  <2>0. renewal[c].req \in Request /\ renewal[c].req.reply \in LeaseObject /\ renewal[c].req.age \in Nat
    BY DEF TypeOK, Request
  <2>1. CASE Renew(c)
    <3>1. Sent(Renewal(object[c])) \in Request
      BY PutTypes, RequestTypes DEF TypeOK
    <3> QED
      BY <2>1, <3>1, RequestTypes DEF Renew, TypeOK, termVars, leaseVars, Steps
  <2>a. ASSUME NEW fresh, NEW live, RoundEnds(c, fresh, live)
        PROVE  /\ alive' \in [Contenders -> BOOLEAN]
               /\ renewal' \in [Contenders -> [step : Steps, req : Request, got : LeaseObject]]
    BY <2>a, RequestTypes, Zenon DEF RoundEnds, TypeOK, Steps, NoRenewal
  <2>2. CASE RenewOk(c)
    BY <2>0, <2>2, <2>a, RequestTypes DEF RenewOk, TypeOK, leaseVars
  <2>3. CASE RenewConflict(c)
    BY <2>3, RequestTypes, Zenon DEF RenewConflict, TypeOK, termVars, leaseVars, NoRenewal, Steps
  <2>4. CASE RereadLease(c)
    BY <2>4, ZenonT(60) DEF RereadLease, TypeOK, termVars, leaseVars, Steps
  <2>5. CASE RenewAdopt(c)
    BY <2>5, RequestTypes, Zenon DEF RenewAdopt, TypeOK, leaseVars, NoRenewal, Steps
  <2>6. CASE RenewLost(c)
    BY <2>6, <2>a, Zenon DEF RenewLost, TypeOK, leaseVars
  <2>7. CASE RenewFailed(c)
    BY <2>0, <2>7, <2>a, RequestTypes DEF RenewFailed, TypeOK, leaseVars
  <2> QED
    BY <1>11, <2>1, <2>2, <2>3, <2>4, <2>5, <2>6, <2>7 DEF RenewTask
<1>12. CASE Tick
  <2>1. seen' \in [Contenders -> [rv : Nat, age : 0..Duration]]
    BY <1>12, TimesAssumption DEF Tick, TypeOK, Older
  <2>2. request' \in [Contenders -> Request]
    BY <1>12, RequestTypes DEF Tick, TypeOK
  <2>3. renewal' \in [Contenders -> [step : Steps, req : Request, got : LeaseObject]]
    BY <1>12, RequestTypes, Zenon DEF Tick, TypeOK
  <2>4. left' \in [Contenders -> 0..Freshness]
    BY <1>12, TimesAssumption DEF Tick, TypeOK
  <2> QED
    BY <1>12, <2>1, <2>2, <2>3, <2>4 DEF Tick, TypeOK, leaseVars
<1>13. CASE UNCHANGED vars
  BY <1>13 DEF vars, TypeOK
<1> QED
  BY <1>2, <1>3, <1>4, <1>5, <1>6, <1>7, <1>8, <1>9, <1>10, <1>11, <1>12, <1>13
     DEF Next, Server

LEMMA TypeInit == Init => TypeOK
  BY RequestTypes, TimesAssumption
     DEF Init, TypeOK, LeaseObject, Put, Phases, NoTerm, Holders

(* The variables of the election always have their types: versions and UIDs are
   numbers, a process's observation of the Lease is never older than Duration
   and its authority never exceeds LEASE_FRESHNESS. *)
THEOREM TypeCorrect == Spec => []TypeOK
  BY TypeInit, TypeStep, PTL DEF Spec

-----------------------------------------------------------------------------
(* The types that the proofs below need, one contender at a time. *)
Typed(c) ==
    /\ lastRv \in Nat /\ lastUid \in Nat
    /\ seen[c].rv \in Nat /\ seen[c].age \in 0..Duration /\ term[c].uid \in Nat
    /\ left[c] \in 0..Freshness
    /\ Authority(request[c].age) \in 0..Freshness
    /\ Authority(renewal[c].req.age) \in 0..Freshness
    /\ request[c] \in Request /\ request[c].put \in Put
    /\ renewal[c].req \in Request /\ renewal[c].req.put \in Put
    /\ got[c] \in LeaseObject /\ object[c] \in LeaseObject /\ renewal[c].got \in LeaseObject
    /\ request[c].reply \in LeaseObject /\ renewal[c].req.reply \in LeaseObject

LEMMA Types ==
    ASSUME TypeOK, NEW c \in Contenders
    PROVE  Typed(c)
<1>1. request[c] \in Request /\ renewal[c].req \in Request
  BY DEF TypeOK
<1>2. request[c].age \in Nat /\ renewal[c].req.age \in Nat
  BY <1>1, TimesAssumption DEF Request
<1> QED
  BY <1>1, <1>2, RequestTypes DEF Typed, TypeOK, Request

LEMMA LeaseGenuine ==
    ASSUME IInv, lease.uid > 0
    PROVE  Genuine(lease)
  BY DEF IInv, TypeOK, LeaseObject, LeaseVersions, Genuine

LEMMA KnownVersions ==
    ASSUME IInv, NEW c \in Contenders
    PROVE  /\ seen[c].rv <= lastRv /\ seen[c].rv <= lastRv + 1 /\ seen[c].rv # lastRv + 1
           /\ term[c].uid <= lastUid /\ term[c].uid <= lastUid + 1 /\ term[c].uid # lastUid + 1
           /\ 0 <= lastRv
           /\ request[c].state = "ok" => request[c].reply.uid # lastUid + 1
<1>1. seen[c].rv <= lastRv /\ term[c].uid <= lastUid
  BY DEF IInv, Versions
<1>2. seen[c].rv \in Nat /\ term[c].uid \in Nat /\ lastRv \in Nat /\ lastUid \in Nat
  BY Types DEF IInv, Typed
<1>3. request[c].state = "ok" => request[c].reply.uid \in 1..lastUid
  BY DEF IInv, Versions, Genuine
<1> QED
  BY <1>1, <1>2, <1>3

LEMMA AbandonedLandable ==
    ASSUME IInv, NEW c \in Contenders
    PROVE  /\ \A put \in Abandoned(request[c]) : Landable(put)
           /\ \A put \in Abandoned(renewal[c].req) : Landable(put)
<1>1. lastRv \in Nat /\ Puts(c)
  BY DEF IInv, TypeOK
<1>2. \A put \in Abandoned(request[c]) : Landable(put)
  <2> SUFFICES ASSUME request[c].state = "sent", request[c].put.base = lease.rv
               PROVE  Landable(request[c].put)
    BY DEF Abandoned
  <2> QED
    BY <1>1 DEF Puts, Landable
<1>3. \A put \in Abandoned(renewal[c].req) : Landable(put)
  <2> SUFFICES ASSUME renewal[c].req.state = "sent", renewal[c].req.put.base = lease.rv
               PROVE  Landable(renewal[c].req.put)
    BY DEF Abandoned
  <2> QED
    BY <1>1 DEF Puts, Landable
<1> QED
  BY <1>2, <1>3

-----------------------------------------------------------------------------
(* Most steps are local: they leave the Lease alone and change the state of one
   contender.  For them it is enough to look at that contender. *)

(* Contender c's state, as far as the invariant reads it, is unchanged. *)
Same(d) ==
    /\ phase'[d] = phase[d] /\ got'[d] = got[d] /\ seen'[d] = seen[d]
    /\ request'[d] = request[d] /\ term'[d] = term[d] /\ object'[d] = object[d]
    /\ left'[d] = left[d] /\ renewal'[d] = renewal[d]

(* The step leaves the Lease alone, changes only c, and gives c no authority and
   no head start as an observer. *)
LocalTo(c) ==
    /\ UNCHANGED leaseVars
    /\ \A d \in Contenders \ {c} : Same(d)
    /\ seen'[c].rv = lease.rv => seen'[c].age = 0 \/ seen'[c] = seen[c]
    /\ Powerless(c) => Powerless(c)'

(* Covered after the step, for a term and an authority that do not change. *)
StillCovered(c, t, r) ==
    r > 0 /\ t.uid = lease'.uid =>
        /\ lease'.holder = c
        /\ lease'.transitions = t.transitions
        /\ \A d \in Contenders : seen'[d].rv = lease'.rv => seen'[d].age + r <= Freshness

LEMMA UnownedStays ==
    ASSUME NEW c \in Contenders, LocalTo(c), Unowned
    PROVE  Unowned'
<1> SUFFICES ASSUME NEW d \in Contenders PROVE Powerless(d)'
  BY DEF Unowned
<1>1. CASE d = c
  BY <1>1 DEF LocalTo, Unowned
<1>2. CASE d # c
  BY <1>2 DEF LocalTo, Unowned, Same, Powerless, leaseVars, Authority
<1> QED
  BY <1>1, <1>2

LEMMA CoverStays ==
    ASSUME IInv, TypeOK', NEW c \in Contenders, LocalTo(c),
           NEW d \in Contenders, NEW t, NEW r \in 0..Freshness, Covered(d, t, r)
    PROVE  StillCovered(d, t, r)
<1> SUFFICES ASSUME r > 0, t.uid = lease'.uid
             PROVE  /\ lease'.holder = d
                    /\ lease'.transitions = t.transitions
                    /\ \A e \in Contenders :
                          seen'[e].rv = lease'.rv => seen'[e].age + r <= Freshness
  BY DEF StillCovered
<1>1. lease' = lease
  BY DEF LocalTo, leaseVars
<1>2. /\ lease.holder = d
      /\ lease.transitions = t.transitions
      /\ \A e \in Contenders : seen[e].rv = lease.rv => seen[e].age + r <= Freshness
  BY <1>1 DEF Covered
<1>3. ASSUME NEW e \in Contenders, seen'[e].rv = lease.rv
      PROVE  seen'[e].age + r <= Freshness
  <2>1. CASE e = c
    BY <1>2, <1>3, <2>1 DEF LocalTo
  <2>2. CASE e # c
    BY <1>2, <1>3, <2>2 DEF LocalTo, Same
  <2> QED
    BY <2>1, <2>2
<1> QED
  BY <1>1, <1>2, <1>3

LEMMA LocalStep ==
    ASSUME IInv, TypeOK', NEW c \in Contenders, LocalTo(c),
           Versions(c)', Phased(c)', Authorities(c)', Puts(c)',
           \A put \in orphans' \ orphans : Landable(put)
    PROVE  IInv'
<1>1. lease' = lease /\ lastRv' = lastRv /\ lastUid' = lastUid
  BY DEF LocalTo, leaseVars
<1>2. LeaseVersions'
  BY <1>1 DEF IInv, LeaseVersions, NoLease
<1>3. ASSUME NEW put, Takes(put) PROVE Takes(put)'
  BY <1>1, <1>3, UnownedStays DEF Takes
<1>4. Orphans'
  BY <1>1, <1>3 DEF IInv, Orphans, Landable, Renews
<1>5. ASSUME NEW d \in Contenders, d # c
      PROVE  Versions(d)' /\ Phased(d)' /\ Authorities(d)' /\ Puts(d)'
  <2>1. Same(d) /\ Versions(d) /\ Phased(d) /\ Authorities(d) /\ Puts(d)
    BY <1>5 DEF LocalTo, IInv
  <2>2. Versions(d)'
    BY <1>1, <2>1, Zenon DEF Versions, Same, Genuine, SameTerm
  <2>3. Phased(d)'
    BY <2>1, Zenon DEF Phased, Same, SameTerm, NoRenewal
  <2>4. Authorities(d)'
    <3>1. left[d] \in 0..Freshness /\ request[d].age \in Nat /\ renewal[d].req.age \in Nat
      BY <1>5 DEF IInv, TypeOK, Request
    <3>2. Authority(request[d].age) \in 0..Freshness /\ Authority(renewal[d].req.age) \in 0..Freshness
      BY <3>1, RequestTypes
    <3>3. phase[d] = "lead" => StillCovered(d, term[d], left[d])
      BY <1>5, <2>1, <3>1, CoverStays, Zenon DEF Authorities
    <3>4. renewal[d].req.state = "ok" =>
            StillCovered(d, term[d], Authority(renewal[d].req.age))
      BY <1>5, <2>1, <3>2, CoverStays DEF Authorities
    <3>5. phase[d] = "claim" /\ request[d].state = "ok" =>
            StillCovered(d, request[d].reply, Authority(request[d].age))
      BY <1>5, <2>1, <3>2, CoverStays DEF Authorities
    <3> QED
      BY <2>1, <3>3, <3>4, <3>5, ZenonT(60) DEF Authorities, Covered, StillCovered, Same, Authority
  <2>5. Puts(d)'
    BY <1>1, <1>3, <2>1, Zenon DEF Puts, Same, Renews, SameTerm
  <2> QED
    BY <2>2, <2>3, <2>4, <2>5
<1> QED
  BY <1>2, <1>4, <1>5 DEF IInv

(* A refused request leaves its sender with a conflict. *)
LEMMA RefuseRequestKeeps ==
    ASSUME IInv, TypeOK', NEW c \in Contenders, RefuseRequest(c)
    PROVE  IInv'
<1>1. TypeOK /\ Typed(c) /\ Versions(c) /\ Phased(c) /\ Authorities(c) /\ Puts(c)
  BY Types DEF IInv
<1>2. /\ request[c].state = "sent"
      /\ phase'[c] = phase[c]
      /\ got'[c] = got[c]
      /\ seen'[c] = seen[c]
      /\ request'[c] = Conflict
      /\ term'[c] = term[c]
      /\ object'[c] = object[c]
      /\ left'[c] = left[c]
      /\ renewal'[c] = renewal[c]
  BY <1>1 DEF RefuseRequest, TypeOK, termVars
<1>3. UNCHANGED leaseVars /\ \A d \in Contenders \ {c} : Same(d)
  BY <1>1 DEF RefuseRequest, TypeOK, Same, termVars
<1>4. LocalTo(c)
  BY <1>1, <1>2, <1>3, Blank, Zenon DEF LocalTo, Powerless, Phased, leaseVars
<1>5. Versions(c)'
  BY <1>1, <1>2, <1>3, Blank, Zenon
     DEF Versions, Typed, Phased, Genuine, SameTerm, leaseVars
<1>6. Phased(c)'
  BY <1>1, <1>2, Blank, Zenon DEF Phased, SameTerm
<1>7. Authorities(c)'
  <2>1. /\ Covered(c, term[c], left[c]) => StillCovered(c, term[c], left[c])
        /\ Covered(c, term[c], Authority(renewal[c].req.age)) =>
              StillCovered(c, term[c], Authority(renewal[c].req.age))
        /\ Covered(c, request[c].reply, Authority(request[c].age)) =>
              StillCovered(c, request[c].reply, Authority(request[c].age))
    BY <1>1, <1>4, CoverStays, ZenonT(60) DEF Typed
  <2> QED
    BY <1>1, <1>2, <2>1, Blank, Zenon DEF Authorities, Covered, StillCovered, Phased, Authority
<1>8. Puts(c)'
  BY <1>1, <1>2, <1>3, <1>4, Blank, UnownedStays, Zenon
     DEF Puts, Takes, Renews, SameTerm, Phased, leaseVars
<1>9. \A put \in orphans' \ orphans : Landable(put)
  BY <1>1 DEF RefuseRequest
<1> QED
  BY <1>4, <1>5, <1>6, <1>7, <1>8, <1>9, LocalStep

(* So does a refused renewal. *)
LEMMA RefuseRenewalKeeps ==
    ASSUME IInv, TypeOK', NEW c \in Contenders, RefuseRenewal(c)
    PROVE  IInv'
<1>1. TypeOK /\ Typed(c) /\ Versions(c) /\ Phased(c) /\ Authorities(c) /\ Puts(c)
  BY Types DEF IInv
<1>2. /\ renewal[c].req.state = "sent"
      /\ phase'[c] = phase[c]
      /\ got'[c] = got[c]
      /\ seen'[c] = seen[c]
      /\ request'[c] = request[c]
      /\ term'[c] = term[c]
      /\ object'[c] = object[c]
      /\ left'[c] = left[c]
      /\ renewal'[c].step = renewal[c].step
      /\ renewal'[c].req = Conflict
      /\ renewal'[c].got = renewal[c].got
  BY <1>1 DEF RefuseRenewal, TypeOK, termVars
<1>3. UNCHANGED leaseVars /\ \A d \in Contenders \ {c} : Same(d)
  BY <1>1 DEF RefuseRenewal, TypeOK, Same, termVars
<1>10. phase[c] = "lead" /\ request[c].state = "none"
  BY <1>1, <1>2, Blank, Zenon DEF Phased
<1>4. LocalTo(c)
  BY <1>1, <1>2, <1>3, <1>10, Blank, Zenon DEF LocalTo, Powerless, Phased, leaseVars
<1>5. Versions(c)'
  BY <1>1, <1>2, <1>3, <1>10, Blank, Zenon
     DEF Versions, Typed, Phased, Genuine, SameTerm, leaseVars
<1>6. Phased(c)'
  BY <1>1, <1>2, <1>10, Blank, Zenon DEF Phased, SameTerm
<1>7. Authorities(c)'
  <2>1. /\ Covered(c, term[c], left[c]) => StillCovered(c, term[c], left[c])
        /\ Covered(c, term[c], Authority(renewal[c].req.age)) =>
              StillCovered(c, term[c], Authority(renewal[c].req.age))
        /\ Covered(c, request[c].reply, Authority(request[c].age)) =>
              StillCovered(c, request[c].reply, Authority(request[c].age))
    BY <1>1, <1>4, CoverStays, Zenon DEF Typed
  <2> QED
    BY <1>1, <1>2, <1>10, <2>1, Blank, ZenonT(60) DEF Authorities, Covered, StillCovered, Phased, Authority
<1>8. Puts(c)'
  BY <1>1, <1>2, <1>3, <1>4, <1>10, Blank, UnownedStays, Zenon
     DEF Puts, Takes, Renews, SameTerm, Phased, leaseVars
<1>9. \A put \in orphans' \ orphans : Landable(put)
  BY <1>1 DEF RefuseRenewal
<1> QED
  BY <1>4, <1>5, <1>6, <1>7, <1>8, <1>9, LocalStep

(* Losing the seat stops nothing at once. *)
LEMMA LoseSeatKeeps ==
    ASSUME IInv, TypeOK', NEW c \in Contenders, LoseSeat(c)
    PROVE  IInv'
<1>1. TypeOK /\ Typed(c) /\ Versions(c) /\ Phased(c) /\ Authorities(c) /\ Puts(c)
  BY Types DEF IInv
<1>2. /\ phase'[c] = phase[c]
      /\ got'[c] = got[c]
      /\ seen'[c] = seen[c]
      /\ request'[c] = request[c]
      /\ term'[c] = term[c]
      /\ object'[c] = object[c]
      /\ left'[c] = left[c]
      /\ renewal'[c] = renewal[c]
  BY <1>1 DEF LoseSeat, TypeOK, termVars
<1>3. UNCHANGED leaseVars /\ \A d \in Contenders \ {c} : Same(d)
  BY <1>1 DEF LoseSeat, TypeOK, Same, termVars
<1>4. LocalTo(c)
  BY <1>1, <1>2, <1>3, Blank DEF LocalTo, Powerless, Phased, leaseVars
<1>5. Versions(c)'
  BY <1>1, <1>2, <1>3, Blank, ZenonT(60)
     DEF Versions, Typed, Phased, Genuine, SameTerm, leaseVars
<1>6. Phased(c)'
  BY <1>1, <1>2, Blank, Zenon DEF Phased, SameTerm
<1>7. Authorities(c)'
  <2>1. /\ Covered(c, term[c], left[c]) => StillCovered(c, term[c], left[c])
        /\ Covered(c, term[c], Authority(renewal[c].req.age)) =>
              StillCovered(c, term[c], Authority(renewal[c].req.age))
        /\ Covered(c, request[c].reply, Authority(request[c].age)) =>
              StillCovered(c, request[c].reply, Authority(request[c].age))
    BY <1>1, <1>4, CoverStays, Zenon DEF Typed
  <2> QED
    BY <1>1, <1>2, <2>1, Blank, ZenonT(60) DEF Authorities, Covered, StillCovered, Phased, Authority
<1>8. Puts(c)'
  BY <1>1, <1>2, <1>3, <1>4, Blank, UnownedStays, ZenonT(60)
     DEF Puts, Takes, Renews, SameTerm, Phased, leaseVars
<1>9. \A put \in orphans' \ orphans : Landable(put)
  BY <1>1 DEF LoseSeat
<1> QED
  BY <1>4, <1>5, <1>6, <1>7, <1>8, <1>9, LocalStep

(* A read returns the current Lease. *)
LEMMA ReadLeaseKeeps ==
    ASSUME IInv, TypeOK', NEW c \in Contenders, ReadLease(c)
    PROVE  IInv'
<1>1. TypeOK /\ Typed(c) /\ Versions(c) /\ Phased(c) /\ Authorities(c) /\ Puts(c)
  BY Types DEF IInv
<1>2. /\ phase[c] = "contend" /\ lease.uid > 0
      /\ phase'[c] = "observe"
      /\ got'[c] = lease
      /\ seen'[c] = seen[c]
      /\ request'[c] = request[c]
      /\ term'[c] = term[c]
      /\ object'[c] = object[c]
      /\ left'[c] = left[c]
      /\ renewal'[c] = renewal[c]
  BY <1>1, Zenon DEF ReadLease, TypeOK, termVars
<1>3. UNCHANGED leaseVars /\ \A d \in Contenders \ {c} : Same(d)
  BY <1>1 DEF ReadLease, TypeOK, Same, termVars
<1>4. LocalTo(c)
  BY <1>1, <1>2, <1>3, Blank, Zenon DEF LocalTo, Powerless, Phased, leaseVars
<1>5. Versions(c)'
  BY <1>1, <1>2, <1>3, Blank, LeaseGenuine, Zenon
     DEF Versions, Typed, Phased, Genuine, SameTerm, leaseVars
<1>6. Phased(c)'
  BY <1>1, <1>2, Blank, Zenon DEF Phased, SameTerm
<1>7. Authorities(c)'
  <2>1. /\ Covered(c, term[c], left[c]) => StillCovered(c, term[c], left[c])
        /\ Covered(c, term[c], Authority(renewal[c].req.age)) =>
              StillCovered(c, term[c], Authority(renewal[c].req.age))
        /\ Covered(c, request[c].reply, Authority(request[c].age)) =>
              StillCovered(c, request[c].reply, Authority(request[c].age))
    BY <1>1, <1>4, CoverStays, Zenon DEF Typed
  <2> QED
    BY <1>1, <1>2, <2>1, Blank, ZenonT(60) DEF Authorities, Covered, StillCovered, Phased, Authority
<1>8. Puts(c)'
  BY <1>1, <1>2, <1>3, <1>4, Blank, UnownedStays
     DEF Puts, Takes, Renews, SameTerm, Phased, leaseVars
<1>9. \A put \in orphans' \ orphans : Landable(put)
  BY <1>1 DEF ReadLease
<1> QED
  BY <1>4, <1>5, <1>6, <1>7, <1>8, <1>9, LocalStep

(* A failed claim may leave its PUT behind. *)
LEMMA ClaimFailedKeeps ==
    ASSUME IInv, TypeOK', NEW c \in Contenders, ClaimFailed(c)
    PROVE  IInv'
<1>1. TypeOK /\ Typed(c) /\ Versions(c) /\ Phased(c) /\ Authorities(c) /\ Puts(c)
  BY Types DEF IInv
<1>2. /\ phase[c] = "claim"
      /\ phase'[c] = "contend"
      /\ got'[c] = got[c]
      /\ seen'[c] = seen[c]
      /\ request'[c] = NoRequest
      /\ term'[c] = term[c]
      /\ object'[c] = object[c]
      /\ left'[c] = left[c]
      /\ renewal'[c] = renewal[c]
  BY <1>1, ZenonT(60) DEF ClaimFailed, TypeOK, termVars
<1>3. UNCHANGED leaseVars /\ \A d \in Contenders \ {c} : Same(d)
  BY <1>1 DEF ClaimFailed, TypeOK, Same, termVars
<1>4. LocalTo(c)
  BY <1>1, <1>2, <1>3, Blank DEF LocalTo, Powerless, Phased, leaseVars
<1>5. Versions(c)'
  BY <1>1, <1>2, <1>3, Blank, Zenon
     DEF Versions, Typed, Phased, Genuine, SameTerm, leaseVars
<1>6. Phased(c)'
  BY <1>1, <1>2, Blank, Zenon DEF Phased, SameTerm
<1>7. Authorities(c)'
  <2>1. /\ Covered(c, term[c], left[c]) => StillCovered(c, term[c], left[c])
        /\ Covered(c, term[c], Authority(renewal[c].req.age)) =>
              StillCovered(c, term[c], Authority(renewal[c].req.age))
        /\ Covered(c, request[c].reply, Authority(request[c].age)) =>
              StillCovered(c, request[c].reply, Authority(request[c].age))
    BY <1>1, <1>4, CoverStays, Zenon DEF Typed
  <2> QED
    BY <1>1, <1>2, <2>1, Blank, ZenonT(60) DEF Authorities, Covered, StillCovered, Phased, Authority
<1>8. Puts(c)'
  BY <1>1, <1>2, <1>3, <1>4, Blank, UnownedStays
     DEF Puts, Takes, Renews, SameTerm, Phased, leaseVars
<1>9. \A put \in orphans' \ orphans : Landable(put)
  BY <1>1, AbandonedLandable DEF ClaimFailed
<1> QED
  BY <1>4, <1>5, <1>6, <1>7, <1>8, <1>9, LocalStep

(* A contender without a seat only ends. *)
LEMMA ContendEndsKeeps ==
    ASSUME IInv, TypeOK', NEW c \in Contenders, ContendEnds(c)
    PROVE  IInv'
<1>1. TypeOK /\ Typed(c) /\ Versions(c) /\ Phased(c) /\ Authorities(c) /\ Puts(c)
  BY Types DEF IInv
<1>2. /\ phase[c] = "contend"
      /\ phase'[c] = "done"
      /\ got'[c] = got[c]
      /\ seen'[c] = seen[c]
      /\ request'[c] = request[c]
      /\ term'[c] = term[c]
      /\ object'[c] = object[c]
      /\ left'[c] = left[c]
      /\ renewal'[c] = renewal[c]
  BY <1>1, ZenonT(60) DEF ContendEnds, TypeOK, termVars
<1>3. UNCHANGED leaseVars /\ \A d \in Contenders \ {c} : Same(d)
  BY <1>1 DEF ContendEnds, TypeOK, Same, termVars
<1>4. LocalTo(c)
  BY <1>1, <1>2, <1>3, Blank, Zenon DEF LocalTo, Powerless, Phased, leaseVars
<1>5. Versions(c)'
  BY <1>1, <1>2, <1>3, Blank, Zenon
     DEF Versions, Typed, Phased, Genuine, SameTerm, leaseVars
<1>6. Phased(c)'
  BY <1>1, <1>2, Blank, Zenon DEF Phased, SameTerm
<1>7. Authorities(c)'
  <2>1. /\ Covered(c, term[c], left[c]) => StillCovered(c, term[c], left[c])
        /\ Covered(c, term[c], Authority(renewal[c].req.age)) =>
              StillCovered(c, term[c], Authority(renewal[c].req.age))
        /\ Covered(c, request[c].reply, Authority(request[c].age)) =>
              StillCovered(c, request[c].reply, Authority(request[c].age))
    BY <1>1, <1>4, CoverStays, Zenon DEF Typed
  <2> QED
    BY <1>1, <1>2, <2>1, Blank, ZenonT(60) DEF Authorities, Covered, StillCovered, Phased, Authority
<1>8. Puts(c)'
  BY <1>1, <1>2, <1>3, <1>4, Blank, UnownedStays, Zenon
     DEF Puts, Takes, Renews, SameTerm, Phased, leaseVars
<1>9. \A put \in orphans' \ orphans : Landable(put)
  BY <1>1 DEF ContendEnds
<1> QED
  BY <1>4, <1>5, <1>6, <1>7, <1>8, <1>9, LocalStep

(* Fencing a term changes nothing that the invariant reads. *)
LEMMA FencedKeeps ==
    ASSUME IInv, TypeOK', NEW c \in Contenders, Fenced(c)
    PROVE  IInv'
<1>1. TypeOK /\ Typed(c) /\ Versions(c) /\ Phased(c) /\ Authorities(c) /\ Puts(c)
  BY Types DEF IInv
<1>2. /\ phase'[c] = phase[c]
      /\ got'[c] = got[c]
      /\ seen'[c] = seen[c]
      /\ request'[c] = request[c]
      /\ term'[c] = term[c]
      /\ object'[c] = object[c]
      /\ left'[c] = left[c]
      /\ renewal'[c] = renewal[c]
  BY <1>1 DEF Fenced, TypeOK, termVars
<1>3. UNCHANGED leaseVars /\ \A d \in Contenders \ {c} : Same(d)
  BY <1>1 DEF Fenced, TypeOK, Same, termVars
<1>4. LocalTo(c)
  BY <1>1, <1>2, <1>3, Blank DEF LocalTo, Powerless, Phased, leaseVars
<1>5. Versions(c)'
  BY <1>1, <1>2, <1>3, Blank, Zenon
     DEF Versions, Typed, Phased, Genuine, SameTerm, leaseVars
<1>6. Phased(c)'
  BY <1>1, <1>2, Blank, Zenon DEF Phased, SameTerm
<1>7. Authorities(c)'
  <2>1. /\ Covered(c, term[c], left[c]) => StillCovered(c, term[c], left[c])
        /\ Covered(c, term[c], Authority(renewal[c].req.age)) =>
              StillCovered(c, term[c], Authority(renewal[c].req.age))
        /\ Covered(c, request[c].reply, Authority(request[c].age)) =>
              StillCovered(c, request[c].reply, Authority(request[c].age))
    BY <1>1, <1>4, CoverStays, Zenon DEF Typed
  <2> QED
    BY <1>1, <1>2, <2>1, Blank, Zenon DEF Authorities, Covered, StillCovered, Phased, Authority
<1>8. Puts(c)'
  BY <1>1, <1>2, <1>3, <1>4, Blank, UnownedStays
     DEF Puts, Takes, Renews, SameTerm, Phased, leaseVars
<1>9. \A put \in orphans' \ orphans : Landable(put)
  BY <1>1 DEF Fenced
<1> QED
  BY <1>4, <1>5, <1>6, <1>7, <1>8, <1>9, LocalStep

(* A release, answered or not, may leave its PUT behind. *)
LEMMA ReleaseEndsKeeps ==
    ASSUME IInv, TypeOK', NEW c \in Contenders, ReleaseEnds(c)
    PROVE  IInv'
<1>1. TypeOK /\ Typed(c) /\ Versions(c) /\ Phased(c) /\ Authorities(c) /\ Puts(c)
  BY Types DEF IInv
<1>2. /\ phase[c] = "release"
      /\ phase'[c] = "contend"
      /\ got'[c] = got[c]
      /\ seen'[c] = Unseen
      /\ request'[c] = NoRequest
      /\ term'[c] = term[c]
      /\ object'[c] = object[c]
      /\ left'[c] = left[c]
      /\ renewal'[c] = renewal[c]
  BY <1>1, ZenonT(60) DEF ReleaseEnds, TypeOK, termVars
<1>3. UNCHANGED leaseVars /\ \A d \in Contenders \ {c} : Same(d)
  BY <1>1 DEF ReleaseEnds, TypeOK, Same, termVars
<1>4. LocalTo(c)
  BY <1>1, <1>2, <1>3, Blank DEF LocalTo, Powerless, Phased, leaseVars
<1>5. Versions(c)'
  <2>1. 0 <= lastRv /\ term[c].uid <= lastUid
    BY KnownVersions
  <2>2. renewal'[c].step = "off" /\ renewal'[c].req.state = "none"
    BY <1>1, <1>2, Blank DEF Phased
  <2> QED
    BY <1>2, <1>3, <2>1, <2>2, Blank DEF Versions, leaseVars
<1>6. Phased(c)'
  BY <1>1, <1>2, Blank DEF Phased, SameTerm
<1>7. Authorities(c)'
  <2>1. /\ Covered(c, term[c], left[c]) => StillCovered(c, term[c], left[c])
        /\ Covered(c, term[c], Authority(renewal[c].req.age)) =>
              StillCovered(c, term[c], Authority(renewal[c].req.age))
        /\ Covered(c, request[c].reply, Authority(request[c].age)) =>
              StillCovered(c, request[c].reply, Authority(request[c].age))
    BY <1>1, <1>4, CoverStays, Zenon DEF Typed
  <2> QED
    BY <1>1, <1>2, <2>1, Blank, Zenon DEF Authorities, Covered, StillCovered, Phased, Authority
<1>8. Puts(c)'
  BY <1>1, <1>2, <1>3, <1>4, Blank, UnownedStays, Zenon
     DEF Puts, Takes, Renews, SameTerm, Phased, leaseVars
<1>9. \A put \in orphans' \ orphans : Landable(put)
  BY <1>1, AbandonedLandable DEF ReleaseEnds
<1> QED
  BY <1>4, <1>5, <1>6, <1>7, <1>8, <1>9, LocalStep

(* A crash takes authority away and leaves PUTs behind. *)
LEMMA CrashKeeps ==
    ASSUME IInv, TypeOK', NEW c \in Contenders, Crash(c)
    PROVE  IInv'
<1>1. TypeOK /\ Typed(c) /\ Versions(c) /\ Phased(c) /\ Authorities(c) /\ Puts(c)
  BY Types DEF IInv
<1>2. /\ phase'[c] = "done"
      /\ got'[c] = NoLease
      /\ seen'[c] = Unseen
      /\ request'[c] = NoRequest
      /\ term'[c] = term[c]
      /\ object'[c] = NoLease
      /\ left'[c] = 0
      /\ renewal'[c] = NoRenewal
  BY <1>1, Zenon DEF Crash, TypeOK, termVars
<1>3. UNCHANGED leaseVars /\ \A d \in Contenders \ {c} : Same(d)
  BY <1>1, ZenonT(60) DEF Crash, TypeOK, Same, termVars
<1>4. LocalTo(c)
  BY <1>1, <1>2, <1>3, Blank, Zenon DEF LocalTo, Powerless, Phased, leaseVars
<1>5. Versions(c)'
  <2>1. 0 <= lastRv /\ term[c].uid <= lastUid
    BY KnownVersions
  <2>2. renewal'[c].step = "off" /\ renewal'[c].req.state = "none"
    BY <1>1, <1>2, Blank, Zenon DEF Phased
  <2> QED
    BY <1>2, <1>3, <2>1, <2>2, Blank, Zenon DEF Versions, leaseVars
<1>6. Phased(c)'
  BY <1>1, <1>2, Blank DEF Phased, SameTerm
<1>7. Authorities(c)'
  <2>1. /\ Covered(c, term[c], left[c]) => StillCovered(c, term[c], left[c])
        /\ Covered(c, term[c], Authority(renewal[c].req.age)) =>
              StillCovered(c, term[c], Authority(renewal[c].req.age))
        /\ Covered(c, request[c].reply, Authority(request[c].age)) =>
              StillCovered(c, request[c].reply, Authority(request[c].age))
    BY <1>1, <1>4, CoverStays, Zenon DEF Typed
  <2> QED
    BY <1>1, <1>2, <2>1, Blank, Zenon DEF Authorities, Covered, StillCovered, Phased, Authority
<1>8. Puts(c)'
  BY <1>1, <1>2, <1>3, <1>4, Blank, UnownedStays, Zenon
     DEF Puts, Takes, Renews, SameTerm, Phased, leaseVars
<1>9. \A put \in orphans' \ orphans : Landable(put)
  BY <1>1, AbandonedLandable DEF Crash
<1> QED
  BY <1>4, <1>5, <1>6, <1>7, <1>8, <1>9, LocalStep

(* A renewal is based on the object the term holds. *)
LEMMA RenewKeeps ==
    ASSUME IInv, TypeOK', NEW c \in Contenders, Renew(c)
    PROVE  IInv'
<1>1. TypeOK /\ Typed(c) /\ Versions(c) /\ Phased(c) /\ Authorities(c) /\ Puts(c)
  BY Types DEF IInv
<1>2. /\ renewal[c].step = "idle"
      /\ phase'[c] = phase[c]
      /\ got'[c] = got[c]
      /\ seen'[c] = seen[c]
      /\ request'[c] = request[c]
      /\ term'[c] = term[c]
      /\ object'[c] = object[c]
      /\ left'[c] = left[c]
      /\ renewal'[c].step = "put"
      /\ renewal'[c].req = Sent(Renewal(object[c]))
      /\ renewal'[c].got = NoLease
  BY <1>1 DEF Renew, TypeOK, termVars
<1>3. UNCHANGED leaseVars /\ \A d \in Contenders \ {c} : Same(d)
  BY <1>1 DEF Renew, TypeOK, Same, termVars
<1>10. phase[c] = "lead" /\ request[c].state = "none"
  BY <1>1, <1>2, Blank, Zenon DEF Phased
<1>4. LocalTo(c)
  BY <1>1, <1>2, <1>3, <1>10, Blank, Zenon DEF LocalTo, Powerless, Phased, leaseVars
<1>5. Versions(c)'
  BY <1>1, <1>2, <1>3, <1>10, Blank, Zenon
     DEF Versions, Typed, Phased, Genuine, SameTerm, leaseVars
<1>6. Phased(c)'
  BY <1>1, <1>2, <1>10, Blank, Zenon DEF Phased, SameTerm
<1>7. Authorities(c)'
  <2>1. /\ Covered(c, term[c], left[c]) => StillCovered(c, term[c], left[c])
        /\ Covered(c, term[c], Authority(renewal[c].req.age)) =>
              StillCovered(c, term[c], Authority(renewal[c].req.age))
        /\ Covered(c, request[c].reply, Authority(request[c].age)) =>
              StillCovered(c, request[c].reply, Authority(request[c].age))
    BY <1>1, <1>4, CoverStays, Zenon DEF Typed
  <2> QED
    BY <1>1, <1>2, <1>10, <2>1, Blank, Zenon DEF Authorities, Covered, StillCovered, Phased, Authority
<1>8. Puts(c)'
  <2>1. renewal[c].req.state = "none" /\ request'[c].state = "none"
    BY <1>1, <1>2, <1>10, Blank, Zenon DEF Phased
  <2>2. /\ renewal'[c].req.state = "sent" /\ renewal'[c].req.put = Renewal(object[c])
        /\ Genuine(object[c]) /\ SameTerm(object[c], c)
    BY <1>1, <1>2, <1>10, Blank DEF Versions
  <2>3. Renewal(object[c]).base \in 1..lastRv
    BY <2>2 DEF Genuine, Renewal
  <2>4. Renewal(object[c]).base = lease.rv =>
          Renews(Renewal(object[c])) /\ SameTerm(lease, c)
    BY <2>2 DEF Genuine, Renewal, Renews
  <2> QED
    BY <1>2, <1>3, <2>1, <2>2, <2>3, <2>4, Zenon DEF Puts, Renews, SameTerm, leaseVars
<1>9. \A put \in orphans' \ orphans : Landable(put)
  BY <1>1 DEF Renew
<1> QED
  BY <1>4, <1>5, <1>6, <1>7, <1>8, <1>9, LocalStep

(* A conflict leads to a read. *)
LEMMA RenewConflictKeeps ==
    ASSUME IInv, TypeOK', NEW c \in Contenders, RenewConflict(c)
    PROVE  IInv'
<1>1. TypeOK /\ Typed(c) /\ Versions(c) /\ Phased(c) /\ Authorities(c) /\ Puts(c)
  BY Types DEF IInv
<1>2. /\ renewal[c].step = "put"
      /\ phase'[c] = phase[c]
      /\ got'[c] = got[c]
      /\ seen'[c] = seen[c]
      /\ request'[c] = request[c]
      /\ term'[c] = term[c]
      /\ object'[c] = object[c]
      /\ left'[c] = left[c]
      /\ renewal'[c].step = "get"
      /\ renewal'[c].req = NoRequest
      /\ renewal'[c].got = NoLease
  BY <1>1 DEF RenewConflict, TypeOK, termVars, NoRenewal
<1>3. UNCHANGED leaseVars /\ \A d \in Contenders \ {c} : Same(d)
  BY <1>1 DEF RenewConflict, TypeOK, Same, termVars
<1>10. phase[c] = "lead" /\ request[c].state = "none"
  BY <1>1, <1>2, Blank DEF Phased
<1>4. LocalTo(c)
  BY <1>1, <1>2, <1>3, <1>10, Blank DEF LocalTo, Powerless, Phased, leaseVars
<1>5. Versions(c)'
  BY <1>1, <1>2, <1>3, <1>10, Blank, Zenon
     DEF Versions, Typed, Phased, Genuine, SameTerm, leaseVars
<1>6. Phased(c)'
  BY <1>1, <1>2, <1>10, Blank, Zenon DEF Phased, SameTerm
<1>7. Authorities(c)'
  <2>1. /\ Covered(c, term[c], left[c]) => StillCovered(c, term[c], left[c])
        /\ Covered(c, term[c], Authority(renewal[c].req.age)) =>
              StillCovered(c, term[c], Authority(renewal[c].req.age))
        /\ Covered(c, request[c].reply, Authority(request[c].age)) =>
              StillCovered(c, request[c].reply, Authority(request[c].age))
    BY <1>1, <1>4, CoverStays, Zenon DEF Typed
  <2> QED
    BY <1>1, <1>2, <1>10, <2>1, Blank, ZenonT(60) DEF Authorities, Covered, StillCovered, Phased, Authority
<1>8. Puts(c)'
  BY <1>1, <1>2, <1>3, <1>4, <1>10, Blank, UnownedStays
     DEF Puts, Takes, Renews, SameTerm, Phased, leaseVars
<1>9. \A put \in orphans' \ orphans : Landable(put)
  BY <1>1 DEF RenewConflict
<1> QED
  BY <1>4, <1>5, <1>6, <1>7, <1>8, <1>9, LocalStep

(* The read returns the current Lease. *)
LEMMA RereadLeaseKeeps ==
    ASSUME IInv, TypeOK', NEW c \in Contenders, RereadLease(c)
    PROVE  IInv'
<1>1. TypeOK /\ Typed(c) /\ Versions(c) /\ Phased(c) /\ Authorities(c) /\ Puts(c)
  BY Types DEF IInv
<1>2. /\ renewal[c].step = "get" /\ lease.uid > 0
      /\ phase'[c] = phase[c]
      /\ got'[c] = got[c]
      /\ seen'[c] = seen[c]
      /\ request'[c] = request[c]
      /\ term'[c] = term[c]
      /\ object'[c] = object[c]
      /\ left'[c] = left[c]
      /\ renewal'[c].step = "got"
      /\ renewal'[c].req = renewal[c].req
      /\ renewal'[c].got = lease
  BY <1>1 DEF RereadLease, TypeOK, termVars
<1>3. UNCHANGED leaseVars /\ \A d \in Contenders \ {c} : Same(d)
  BY <1>1 DEF RereadLease, TypeOK, Same, termVars
<1>10. phase[c] = "lead" /\ request[c].state = "none"
  BY <1>1, <1>2, Blank, Zenon DEF Phased
<1>4. LocalTo(c)
  BY <1>1, <1>2, <1>3, <1>10, Blank, Zenon DEF LocalTo, Powerless, Phased, leaseVars
<1>5. Versions(c)'
  BY <1>1, <1>2, <1>3, <1>10, Blank, LeaseGenuine, Zenon
     DEF Versions, Typed, Phased, Genuine, SameTerm, leaseVars
<1>6. Phased(c)'
  BY <1>1, <1>2, <1>10, Blank, Zenon DEF Phased, SameTerm
<1>7. Authorities(c)'
  <2>1. /\ Covered(c, term[c], left[c]) => StillCovered(c, term[c], left[c])
        /\ Covered(c, term[c], Authority(renewal[c].req.age)) =>
              StillCovered(c, term[c], Authority(renewal[c].req.age))
        /\ Covered(c, request[c].reply, Authority(request[c].age)) =>
              StillCovered(c, request[c].reply, Authority(request[c].age))
    BY <1>1, <1>4, CoverStays, Zenon DEF Typed
  <2> QED
    BY <1>1, <1>2, <1>10, <2>1, Blank, Zenon DEF Authorities, Covered, StillCovered, Phased, Authority
<1>8. Puts(c)'
  BY <1>1, <1>2, <1>3, <1>4, <1>10, Blank, UnownedStays, Zenon
     DEF Puts, Takes, Renews, SameTerm, Phased, leaseVars
<1>9. \A put \in orphans' \ orphans : Landable(put)
  BY <1>1 DEF RereadLease
<1> QED
  BY <1>4, <1>5, <1>6, <1>7, <1>8, <1>9, LocalStep

(* The reply to a claim starts a term with the authority the claim has left. *)
LEMMA ClaimOkKeeps ==
    ASSUME IInv, TypeOK', NEW c \in Contenders, ClaimOk(c)
    PROVE  IInv'
<1>1. TypeOK /\ Typed(c) /\ Versions(c) /\ Phased(c) /\ Authorities(c) /\ Puts(c)
  BY Types DEF IInv
<1>2. /\ phase[c] = "claim" /\ request[c].state = "ok"
      /\ phase'[c] = "lead"
      /\ got'[c] = got[c]
      /\ seen'[c] = seen[c]
      /\ request'[c] = NoRequest
      /\ term'[c].uid = request[c].reply.uid
      /\ term'[c].transitions = request[c].reply.transitions
      /\ object'[c] = request[c].reply
      /\ left'[c] = Authority(request[c].age)
      /\ renewal'[c].step = "idle"
      /\ renewal'[c].req = renewal[c].req
      /\ renewal'[c].got = renewal[c].got
  BY <1>1 DEF ClaimOk, TypeOK, termVars
<1>3. UNCHANGED leaseVars /\ \A d \in Contenders \ {c} : Same(d)
  BY <1>1 DEF ClaimOk, TypeOK, Same, termVars
<1>10. renewal[c].req.state = "none"
  BY <1>1, <1>2, Blank, Zenon DEF Phased
<1>4. LocalTo(c)
  BY <1>1, <1>2, <1>3, <1>10, Blank, ZenonT(60) DEF LocalTo, Powerless, Phased, leaseVars
<1>5. Versions(c)'
  <2>1. /\ seen[c].rv <= lastRv /\ lastUid \in Nat
        /\ Genuine(request[c].reply) /\ request[c].reply.holder = c
    BY <1>1, <1>2, Zenon DEF Versions, Phased, Typed
  <2>2. request[c].reply.uid <= lastUid
    BY <2>1 DEF Genuine
  <2>3. request'[c].state = "none" /\ renewal'[c].req.state = "none"
    BY <1>2, <1>10, Blank, Zenon
  <2> QED
    BY <1>2, <1>3, <2>1, <2>2, <2>3, Zenon DEF Versions, Genuine, SameTerm, leaseVars
<1>6. Phased(c)'
  BY <1>1, <1>2, <1>10, Blank, Zenon DEF Phased, SameTerm
<1>7. Authorities(c)'
  <2>1. /\ Covered(c, term[c], left[c]) => StillCovered(c, term[c], left[c])
        /\ Covered(c, term[c], Authority(renewal[c].req.age)) =>
              StillCovered(c, term[c], Authority(renewal[c].req.age))
        /\ Covered(c, request[c].reply, Authority(request[c].age)) =>
              StillCovered(c, request[c].reply, Authority(request[c].age))
    BY <1>1, <1>4, CoverStays, Zenon DEF Typed
  <2> QED
    BY <1>1, <1>2, <1>10, <2>1, Blank, Zenon DEF Authorities, Covered, StillCovered, Phased, Authority
<1>8. Puts(c)'
  BY <1>1, <1>2, <1>3, <1>4, <1>10, Blank, UnownedStays, Zenon
     DEF Puts, Takes, Renews, SameTerm, Phased, leaseVars
<1>9. \A put \in orphans' \ orphans : Landable(put)
  BY <1>1 DEF ClaimOk
<1> QED
  BY <1>4, <1>5, <1>6, <1>7, <1>8, <1>9, LocalStep

(* A claim is sent only on a Lease that nobody has authority from: it was free,
   or its version has been watched for Duration, which is at least Freshness. *)
LEMMA ObserveKeeps ==
    ASSUME IInv, TypeOK', NEW c \in Contenders, Observe(c)
    PROVE  IInv'
<1>1. Versions(c) /\ Phased(c) /\ Authorities(c) /\ Puts(c) /\ TypeOK /\ Typed(c)
  BY Types DEF IInv
<1> DEFINE s == Observed(c, got[c])
<1>2. /\ phase[c] = "observe" /\ phase'[c] \in {"claim", "contend"}
      /\ seen'[c] = s /\ term'[c] = term[c] /\ object'[c] = object[c]
      /\ left'[c] = left[c] /\ renewal'[c] = renewal[c]
  BY <1>1 DEF Observe, TypeOK, termVars
<1>3. \/ /\ Expired(got[c], s) /\ phase'[c] = "claim"
         /\ request'[c] = Sent(Claim(got[c], c))
      \/ phase'[c] = "contend" /\ request'[c] = request[c]
  BY <1>1 DEF Observe, TypeOK
<1>4. UNCHANGED leaseVars /\ orphans' = orphans
  BY DEF Observe
<1>5. \A d \in Contenders \ {c} : Same(d)
  BY <1>1 DEF Observe, TypeOK, Same, termVars
<1>6. request[c].state = "none" /\ request'[c].state \in {"none", "sent"}
  BY <1>1, <1>2, <1>3, Blank, ZenonT(60) DEF Phased
<1>7. s.rv = got[c].rv /\ (s = seen[c] \/ s.age = 0)
  BY Zenon DEF Observed
<1>8. LocalTo(c)
  BY <1>1, <1>2, <1>4, <1>5, <1>6, <1>7, Zenon DEF LocalTo, Powerless, leaseVars
<1>9. Versions(c)'
  <2>a. got[c].rv \in 1..lastRv
    BY <1>1, <1>2, Zenon DEF Versions, Genuine
  <2>b. lastRv \in Nat
    BY <1>1 DEF Typed
  <2>c. renewal[c] = NoRenewal
    BY <1>1, <1>2 DEF Phased
  <2>1. got[c].rv <= lastRv /\ renewal[c].req.state = "none" /\ renewal[c].step = "off"
    BY <2>a, <2>b, <2>c, Blank
  <2> QED
    BY <1>1, <1>2, <1>4, <1>6, <1>7, <2>1, ZenonT(60) DEF Versions, leaseVars
<1>10. Phased(c)'
  BY <1>1, <1>2, <1>3, <1>6, Zenon DEF Phased, SameTerm
<1>11. Authorities(c)'
  BY <1>1, <1>2, <1>6, Blank, Zenon DEF Authorities, Phased, NoRequest
<1>12. ASSUME Expired(got[c], s), got[c].rv = lease.rv PROVE Unowned
  <2>1. got[c] = lease
    BY <1>1, <1>2, <1>12, Zenon DEF Versions, Genuine
  <2>2. ASSUME NEW d \in Contenders, NEW t, NEW r \in 0..Freshness, Covered(d, t, r), r > 0
        PROVE  t.uid # lease.uid
    <3>1. CASE lease.holder = None
      BY <2>2, <3>1, NoneAssumption DEF Covered
    <3>2. CASE s.age >= Duration
      <4>1. seen[c].rv \in Nat /\ seen[c].age \in 0..Duration
        BY <1>1 DEF Typed
      <4>2. s = seen[c] /\ seen[c].rv = lease.rv
        BY <1>7, <1>12, <3>2, TimesAssumption
      <4>3. t.uid = lease.uid => seen[c].age + r <= Freshness
        BY <2>2, <4>2 DEF Covered
      <4> QED
        BY <2>2, <3>2, <4>1, <4>2, <4>3, TimesAssumption
    <3> QED
      BY <1>12, <2>1, <3>1, <3>2 DEF Expired
  <2> SUFFICES ASSUME NEW d \in Contenders PROVE Powerless(d)
    BY DEF Unowned
  <2>3. /\ left[d] \in 0..Freshness
        /\ Authority(request[d].age) \in 0..Freshness
        /\ Authority(renewal[d].req.age) \in 0..Freshness
    BY <1>1, Types DEF Typed
  <2> QED
    BY <2>2, <2>3, Zenon DEF IInv, Authorities, Powerless
<1>13. Puts(c)'
  <2>1. ~(renewal'[c].req.state = "sent")
    BY <1>1, <1>2, Blank, Zenon DEF Phased
  <2>2. CASE phase'[c] = "contend" /\ request'[c] = request[c]
    BY <1>6, <2>1, <2>2, ZenonT(60) DEF Puts
  <2>3. CASE Expired(got[c], s) /\ phase'[c] = "claim" /\ request'[c] = Sent(Claim(got[c], c))
    <3>1. request'[c].put = Claim(got[c], c)
      BY <2>3, Blank
    <3>2. got[c].rv \in 1..lastRv /\ (got[c].rv = lease.rv => got[c] = lease)
      BY <1>1, <1>2, Zenon DEF Versions, Genuine
    <3>3. /\ request'[c].put.base = got[c].rv /\ request'[c].put.holder = c
          /\ request'[c].put.transitions = got[c].transitions + 1
      <4>1. /\ Claim(got[c], c).base = got[c].rv /\ Claim(got[c], c).holder = c
            /\ Claim(got[c], c).transitions = got[c].transitions + 1
        BY DEF Claim
      <4> QED
        BY <3>1, <4>1, ZenonT(60)
    <3>4. ASSUME got[c].rv = lease.rv PROVE Takes(request[c].put)'
      <4>1. Unowned'
        BY <1>8, <1>12, <2>3, <3>4, UnownedStays
      <4> QED
        BY <1>4, <3>2, <3>3, <3>4, <4>1, NoneAssumption DEF Takes, leaseVars
    <3> QED
      BY <1>4, <2>1, <3>2, <3>3, <3>4 DEF Puts, leaseVars
  <2> QED
    BY <1>3, <2>2, <2>3
<1> QED
  BY <1>4, <1>8, <1>9, <1>10, <1>11, <1>13, LocalStep

(* A release is based on the object of a term that has just ended, so the Lease
   it can land on is the contender's own, and nobody has authority from it. *)
LEMMA TermEndsKeeps ==
    ASSUME IInv, TypeOK', NEW c \in Contenders, TermEnds(c)
    PROVE  IInv'
<1>1. Versions(c) /\ Phased(c) /\ Authorities(c) /\ Puts(c) /\ TypeOK /\ Typed(c)
  BY Types DEF IInv
<1>2. /\ phase[c] = "lead" /\ left'[c] = 0 /\ renewal'[c] = NoRenewal
      /\ got'[c] = got[c] /\ term'[c] = term[c] /\ object'[c] = NoLease
  BY <1>1 DEF TermEnds, TypeOK
<1>3. \/ /\ phase'[c] = "release" /\ seen'[c] = seen[c]
         /\ request'[c] = Sent(Release(object[c]))
      \/ phase'[c] = "contend" /\ seen'[c] = Unseen /\ request'[c] = request[c]
  BY <1>1 DEF TermEnds, TypeOK
<1>4. UNCHANGED leaseVars /\ orphans' = orphans \cup Abandoned(renewal[c].req)
  BY Zenon DEF TermEnds
<1>5. \A d \in Contenders \ {c} : Same(d)
  BY <1>1 DEF TermEnds, TypeOK, Same
<1>6. request[c].state = "none" /\ request'[c].state \in {"none", "sent"}
  BY <1>1, <1>2, <1>3, Blank, ZenonT(60) DEF Phased
<1>7. Powerless(c)'
  BY <1>2, <1>3, <1>6, Blank, Zenon DEF Powerless
<1>8. LocalTo(c)
  BY <1>1, <1>3, <1>4, <1>5, <1>7, Blank, Zenon DEF LocalTo
<1>9. Versions(c)'
  <2>1. seen'[c].rv <= lastRv
    <3>1. seen[c].rv <= lastRv /\ 0 <= lastRv
      BY KnownVersions
    <3> QED
      BY <1>3, <3>1, Blank, Zenon
  <2> QED
    BY <1>1, <1>2, <1>3, <1>4, <1>6, <2>1, Blank, Zenon DEF Versions, leaseVars
<1>10. Phased(c)'
  BY <1>2, <1>3, <1>6, Blank DEF Phased
<1>11. Authorities(c)'
  BY <1>2, <1>3, <1>6, Blank DEF Authorities
<1>12. ASSUME object[c].rv = lease.rv PROVE Unowned'
  <2>1. lease.holder = c
    BY <1>1, <1>2, <1>12, Zenon DEF Versions, Genuine, SameTerm
  <2>2. ASSUME NEW d \in Contenders \ {c} PROVE Powerless(d)'
    <3>1. Powerless(d)
      BY <2>1, <2>2, Zenon DEF IInv, Authorities, Covered, Powerless
    <3> QED
      BY <1>4, <1>5, <2>2, <3>1, Zenon DEF Powerless, Same, leaseVars, Authority
  <2> QED
    BY <1>7, <2>2 DEF Unowned
<1>13. Puts(c)'
  <2>1. ~(renewal'[c].req.state = "sent")
    BY <1>2, Blank, Zenon
  <2>2. CASE request'[c] = request[c]
    BY <1>6, <2>1, <2>2 DEF Puts
  <2>3. CASE phase'[c] = "release" /\ request'[c] = Sent(Release(object[c]))
    <3>1. request'[c].put = Release(object[c])
      BY <2>3, Blank
    <3>2. object[c].rv \in 1..lastRv /\ (object[c].rv = lease.rv => object[c] = lease)
      BY <1>1, <1>2, Zenon DEF Versions, Genuine
    <3>3. /\ request'[c].put.base = object[c].rv /\ request'[c].put.holder = None
          /\ request'[c].put.transitions = object[c].transitions
      BY <3>1 DEF Release
    <3>4. ASSUME object[c].rv = lease.rv PROVE Takes(request[c].put)'
      BY <1>4, <1>12, <3>2, <3>3, <3>4 DEF Takes, leaseVars
    <3> QED
      BY <1>4, <2>1, <2>3, <3>2, <3>3, <3>4, Zenon DEF Puts, leaseVars
  <2> QED
    BY <1>3, <2>2, <2>3, Zenon
<1>14. \A put \in orphans' \ orphans : Landable(put)
  BY <1>1, <1>4, AbandonedLandable
<1> QED
  BY <1>8, <1>9, <1>10, <1>11, <1>13, <1>14, LocalStep

(* The rounds of the renew task.  Whatever a round did, it leaves the renewal
   without a request. *)
LEMMA RoundLeaves ==
    ASSUME TypeOK, NEW c \in Contenders, NEW fresh, NEW live, RoundEnds(c, fresh, live)
    PROVE  /\ renewal'[c].step \in {"idle", "off"} /\ renewal'[c].req = NoRequest
           /\ \A d \in Contenders \ {c} : renewal'[d] = renewal[d]
  BY DEF RoundEnds, TypeOK, NoRenewal

(* Of the three ways a round ends with nothing new in hand: the term keeps what
   authority it has left. *)
LEMMA RoundKeeps ==
    ASSUME IInv, TypeOK', NEW c \in Contenders, phase[c] = "lead",
           UNCHANGED leaseVars, \A d \in Contenders \ {c} : Same(d),
           phase'[c] = phase[c], seen'[c] = seen[c], request'[c] = request[c],
           term'[c] = term[c], left'[c] = left[c],
           object'[c] \in {object[c], renewal[c].got},
           object'[c] = object[c] \/ (renewal[c].step = "got" /\ SameTerm(renewal[c].got, c)),
           renewal'[c].step \in {"idle", "off"}, renewal'[c].req = NoRequest,
           orphans' \in {orphans, orphans \cup Abandoned(renewal[c].req)}
    PROVE  IInv'
<1>1. Versions(c) /\ Phased(c) /\ Authorities(c) /\ Puts(c) /\ TypeOK
  BY DEF IInv
<1>2. request[c].state = "none" /\ renewal'[c].req.state = "none"
  BY <1>1, Blank, Zenon DEF Phased
<1>3. LocalTo(c)
  BY <1>1, <1>2, Zenon DEF LocalTo, Powerless, leaseVars
<1>4. Versions(c)'
  BY <1>1, <1>2, Zenon DEF Versions, Genuine, SameTerm, leaseVars
<1>5. Phased(c)'
  BY <1>1, <1>2, Zenon DEF Phased
<1>6. Authorities(c)'
  <2>1. left[c] \in 0..Freshness
    BY <1>1 DEF TypeOK
  <2>2. StillCovered(c, term[c], left[c])
    BY <1>1, <1>3, <2>1, CoverStays, Zenon DEF Authorities
  <2> QED
    BY <1>2, <2>2, Zenon DEF Authorities, Covered, StillCovered
<1>7. Puts(c)'
  BY <1>2, ZenonT(60) DEF Puts
<1>8. \A put \in orphans' \ orphans : Landable(put)
  BY <1>1, AbandonedLandable, ZenonT(60)
<1> QED
  BY <1>3, <1>4, <1>5, <1>6, <1>7, <1>8, LocalStep, ZenonT(60)

LEMMA RenewingLeads ==
    ASSUME IInv, NEW c \in Contenders, renewal[c].step \in {"put", "get", "got"}
    PROVE  phase[c] = "lead"
  BY Blank, Zenon DEF IInv, Phased

LEMMA RenewAdoptKeeps ==
    ASSUME IInv, TypeOK', NEW c \in Contenders, RenewAdopt(c)
    PROVE  IInv'
<1>1. phase[c] = "lead" /\ TypeOK
  BY RenewingLeads DEF RenewAdopt, IInv
<1>2. renewal'[c].step \in {"idle", "off"} /\ renewal'[c].req = NoRequest
  BY <1>1 DEF RenewAdopt, TypeOK, NoRenewal
<1>3. UNCHANGED leaseVars /\ \A d \in Contenders \ {c} : Same(d)
  BY <1>1 DEF RenewAdopt, TypeOK, Same
<1>4. /\ phase'[c] = phase[c] /\ seen'[c] = seen[c] /\ request'[c] = request[c]
      /\ term'[c] = term[c] /\ left'[c] = left[c] /\ object'[c] = renewal[c].got
      /\ renewal[c].step = "got" /\ SameTerm(renewal[c].got, c) /\ orphans' = orphans
  BY <1>1 DEF RenewAdopt, TypeOK
<1> QED
  BY <1>1, <1>2, <1>3, <1>4, RoundKeeps, Zenon

LEMMA RenewLostKeeps ==
    ASSUME IInv, TypeOK', NEW c \in Contenders, RenewLost(c)
    PROVE  IInv'
<1>1. phase[c] = "lead" /\ TypeOK
  BY RenewingLeads, Zenon DEF RenewLost, IInv
<1>2. /\ renewal'[c].step \in {"idle", "off"} /\ renewal'[c].req = NoRequest
      /\ \A d \in Contenders \ {c} : renewal'[d] = renewal[d]
  BY <1>1, RoundLeaves, ZenonT(60) DEF RenewLost
<1>3. UNCHANGED leaseVars /\ \A d \in Contenders \ {c} : Same(d)
  BY <1>2, Zenon DEF RenewLost, Same
<1>4. /\ phase'[c] = phase[c] /\ seen'[c] = seen[c] /\ request'[c] = request[c]
      /\ term'[c] = term[c] /\ left'[c] = left[c] /\ object'[c] = object[c]
      /\ orphans' = orphans
  BY DEF RenewLost
<1> QED
  BY <1>1, <1>2, <1>3, <1>4, RoundKeeps, Zenon

LEMMA RenewFailedKeeps ==
    ASSUME IInv, TypeOK', NEW c \in Contenders, RenewFailed(c)
    PROVE  IInv'
<1>1. phase[c] = "lead" /\ TypeOK
  BY RenewingLeads, Zenon DEF RenewFailed, IInv
<1>2. /\ renewal'[c].step \in {"idle", "off"} /\ renewal'[c].req = NoRequest
      /\ \A d \in Contenders \ {c} : renewal'[d] = renewal[d]
  BY <1>1, RoundLeaves, Zenon DEF RenewFailed
<1>3. UNCHANGED leaseVars /\ \A d \in Contenders \ {c} : Same(d)
  BY <1>2 DEF RenewFailed, Same
<1>4. /\ phase'[c] = phase[c] /\ seen'[c] = seen[c] /\ request'[c] = request[c]
      /\ term'[c] = term[c] /\ left'[c] = left[c] /\ object'[c] = object[c]
      /\ orphans' = orphans \cup Abandoned(renewal[c].req)
  BY DEF RenewFailed
<1> QED
  BY <1>1, <1>2, <1>3, <1>4, RoundKeeps, Zenon

(* The reply to a renewal passes on the authority that the renewal has left. *)
LEMMA RenewOkKeeps ==
    ASSUME IInv, TypeOK', NEW c \in Contenders, RenewOk(c)
    PROVE  IInv'
<1>1. Versions(c) /\ Phased(c) /\ Authorities(c) /\ Puts(c) /\ TypeOK
  BY DEF IInv
<1>2. phase[c] = "lead" /\ request[c].state = "none"
  BY <1>1, RenewingLeads, Zenon DEF RenewOk, Phased
<1>3. /\ renewal'[c].step \in {"idle", "off"} /\ renewal'[c].req.state = "none"
      /\ \A d \in Contenders \ {c} : renewal'[d] = renewal[d]
  BY <1>1, RoundLeaves, Blank, Zenon DEF RenewOk
<1>4. /\ renewal[c].req.state = "ok" /\ phase'[c] = "lead" /\ seen'[c] = seen[c]
      /\ request'[c].state = "none" /\ term'[c] = term[c]
      /\ left'[c] = Authority(renewal[c].req.age)
      /\ object'[c] = renewal[c].req.reply /\ orphans' = orphans
  BY <1>1, <1>2, Zenon DEF RenewOk, TypeOK
<1>5. UNCHANGED leaseVars /\ \A d \in Contenders \ {c} : Same(d)
  BY <1>1, <1>3 DEF RenewOk, TypeOK, Same
<1>6. LocalTo(c)
  BY <1>1, <1>3, <1>4, <1>5, Zenon DEF LocalTo, Powerless, leaseVars
<1>7. Versions(c)'
  BY <1>1, <1>3, <1>4, <1>5, Zenon DEF Versions, Phased, Genuine, SameTerm, leaseVars
<1>8. Phased(c)'
  BY <1>3, <1>4, Zenon DEF Phased
<1>9. Authorities(c)'
  <2>1. Authority(renewal[c].req.age) \in 0..Freshness
    BY <1>1, RequestTypes DEF TypeOK, Request
  <2>2. StillCovered(c, term[c], Authority(renewal[c].req.age))
    BY <1>1, <1>4, <1>6, <2>1, CoverStays, ZenonT(60) DEF Authorities
  <2> QED
    BY <1>3, <1>4, <2>2, Zenon DEF Authorities, Covered, StillCovered
<1>10. Puts(c)'
  BY <1>3, <1>4, ZenonT(60) DEF Puts
<1> QED
  BY <1>4, <1>6, <1>7, <1>8, <1>9, <1>10, LocalStep, Zenon

-----------------------------------------------------------------------------
(* The steps of the API server.  A PUT that lands gives the Lease a version that
   nobody has seen, so every older snapshot and request is harmless, and every
   observer starts again. *)

LEMMA LandingVersions ==
    ASSUME IInv, NEW put \in Put, Lands(put)
    PROVE  /\ lease'.uid = lease.uid /\ lease'.uid \in 1..lastUid
           /\ lease.rv \in 1..lastRv /\ lease'.rv = lastRv + 1
           /\ lastRv' = lastRv + 1 /\ lastUid' = lastUid /\ lastRv \in Nat /\ lastUid \in Nat
           /\ lease'.holder = put.holder /\ lease'.transitions = put.transitions
           /\ LeaseVersions' /\ Orphans'
<1>1. lastRv \in Nat /\ lastUid \in Nat /\ lease.uid \in Nat /\ lease.rv \in Nat /\ LeaseVersions
  BY DEF IInv, TypeOK, LeaseObject
<1>2. /\ lease'.uid = lease.uid /\ lease'.rv = lastRv + 1 /\ lease.uid > 0
      /\ lastRv' = lastRv + 1 /\ lastUid' = lastUid /\ orphans' = {}
      /\ lease'.holder = put.holder /\ lease'.transitions = put.transitions
  BY DEF Lands
<1>3. lease'.uid \in 1..lastUid /\ lease.rv \in 1..lastRv
  BY <1>1, <1>2 DEF LeaseVersions
<1>4. LeaseVersions' /\ Orphans'
  BY <1>1, <1>2 DEF LeaseVersions, Orphans
<1> QED
  BY <1>1, <1>2, <1>3, <1>4

LEMMA CoverLands ==
    ASSUME IInv, NEW put \in Put, Lands(put), seen' = seen,
           NEW d \in Contenders, NEW t, NEW r \in 0..Freshness, Covered(d, t, r),
           Renews(put) \/ (r > 0 => t.uid # lease.uid)
    PROVE  StillCovered(d, t, r)
<1>1. ASSUME NEW e \in Contenders PROVE seen[e].rv # lastRv + 1
  BY <1>1, KnownVersions
<1> QED
  BY <1>1, LandingVersions DEF StillCovered, Covered, Renews

(* Genuine after the step, for a snapshot that does not change. *)
StillGenuine(o) ==
    o.rv \in 1..lastRv' /\ o.uid \in 1..lastUid' /\ (o.rv = lease'.rv => o = lease')

LEMMA LandingKeepsOthers ==
    ASSUME IInv, NEW put \in Put, Lands(put), Renews(put) \/ Takes(put), seen' = seen,
           NEW d \in Contenders, Same(d)
    PROVE  Versions(d)' /\ Phased(d)' /\ Authorities(d)' /\ Puts(d)'
<1>1. Versions(d) /\ Phased(d) /\ Authorities(d) /\ Puts(d) /\ Typed(d)
  BY Types DEF IInv
<1>2. /\ lease'.uid = lease.uid /\ lease'.rv = lastRv + 1
      /\ lastRv' = lastRv + 1 /\ lastUid' = lastUid /\ lastRv \in Nat /\ lastUid \in Nat
  BY LandingVersions
<1>3. ASSUME NEW o, Genuine(o) PROVE StillGenuine(o)
  BY <1>2, <1>3 DEF Genuine, StillGenuine
<1>4. Versions(d)'
  <2>1. seen[d].rv <= lastRv + 1 /\ term[d].uid <= lastUid
    BY KnownVersions, Zenon
  <2> QED
    BY <1>1, <1>2, <1>3, <2>1, ZenonT(60) DEF Versions, Same, Genuine, StillGenuine, SameTerm
<1>5. Phased(d)'
  BY <1>1, Zenon DEF Phased, Same, SameTerm
<1>6. Authorities(d)'
  <2>1. left[d] \in 0..Freshness
    BY <1>1, Zenon DEF Typed
  <2>2. Authority(request[d].age) \in 0..Freshness /\ Authority(renewal[d].req.age) \in 0..Freshness
    BY <1>1 DEF Typed
  <2>3. Renews(put) \/ Powerless(d)
    BY DEF Takes, Unowned
  <2>4. phase[d] = "lead" => StillCovered(d, term[d], left[d])
    BY <1>1, <2>1, <2>3, CoverLands, Zenon DEF Authorities, Powerless
  <2>5. renewal[d].req.state = "ok" =>
          StillCovered(d, term[d], Authority(renewal[d].req.age))
    BY <1>1, <2>2, <2>3, CoverLands, Zenon DEF Authorities, Powerless
  <2>6. phase[d] = "claim" /\ request[d].state = "ok" =>
          StillCovered(d, request[d].reply, Authority(request[d].age))
    BY <1>1, <2>2, <2>3, CoverLands, Zenon DEF Authorities, Powerless
  <2> QED
    BY <2>4, <2>5, <2>6, Zenon DEF Authorities, Covered, StillCovered, Same, Authority
<1>7. Puts(d)'
  <2>1. ASSUME NEW b \in 1..lastRv PROVE b \in 1..lastRv' /\ b # lease'.rv
    BY <1>2
  <2> QED
    BY <1>1, <2>1, Zenon DEF Puts, Same
<1> QED
  BY <1>4, <1>5, <1>6, <1>7

LEMMA LandRequestKeeps ==
    ASSUME IInv, TypeOK', NEW c \in Contenders, LandRequest(c)
    PROVE  IInv'
<1> DEFINE put == request[c].put
<1>1. Versions(c) /\ Phased(c) /\ Authorities(c) /\ Puts(c) /\ TypeOK
  BY DEF IInv
<1>2. put \in Put /\ Lands(put) /\ request[c].state = "sent" /\ put.base = lease.rv
  BY <1>1 DEF LandRequest, Lands, TypeOK, Request
<1>3. Takes(put) /\ (phase[c] = "claim" => put.holder = c)
  BY <1>1, <1>2, Zenon DEF Puts
<1>4. phase[c] # "lead" /\ renewal[c].req.state = "none" /\ renewal[c].step = "off"
  BY <1>1, <1>2, Blank, Zenon DEF Phased
<1>5. /\ lease'.uid = lease.uid /\ lease'.uid \in 1..lastUid /\ lease'.rv = lastRv + 1
      /\ lastRv' = lastRv + 1 /\ lastUid' = lastUid /\ lastRv \in Nat /\ lastUid \in Nat
      /\ lease'.holder = put.holder /\ LeaseVersions' /\ Orphans'
  BY <1>2, LandingVersions, Zenon
<1>6. \A d \in Contenders \ {c} : Same(d)
  BY <1>1 DEF LandRequest, Same, TypeOK, termVars
<1>7. /\ phase'[c] = phase[c] /\ got'[c] = got[c] /\ seen' = seen /\ term'[c] = term[c]
      /\ object'[c] = object[c] /\ left'[c] = left[c] /\ renewal'[c] = renewal[c]
  BY Zenon DEF LandRequest, termVars
<1>8. \/ request'[c].state = "ok" /\ request'[c].reply = lease'
      \/ request'[c].state = "conflict"
  <2>1. PICK r \in Answers(request[c]) : request' = [request EXCEPT ![c] = r]
    BY Zenon DEF LandRequest
  <2>2. request'[c] = r /\ request[c] \in Request
    BY <1>1, <2>1 DEF TypeOK
  <2> QED
    BY <2>1, <2>2, Blank, Zenon DEF Answers, Request
<1>9. ASSUME NEW d \in Contenders, d # c
      PROVE  Versions(d)' /\ Phased(d)' /\ Authorities(d)' /\ Puts(d)'
  BY <1>2, <1>3, <1>6, <1>7, <1>9, LandingKeepsOthers, Zenon
<1>10. Versions(c)'
  <2>1. seen[c].rv <= lastRv + 1 /\ term[c].uid <= lastUid
    BY KnownVersions
  <2>2. Genuine(lease)' /\ (Genuine(got[c]) => StillGenuine(got[c]))
    BY <1>5 DEF Genuine, StillGenuine
  <2> QED
    BY <1>1, <1>4, <1>5, <1>7, <1>8, <2>1, <2>2, Zenon DEF Versions, Genuine, StillGenuine
<1>11. Phased(c)'
  BY <1>1, <1>2, <1>3, <1>4, <1>5, <1>7, <1>8, Zenon DEF Phased
<1>12. Authorities(c)'
  <2>1. ASSUME NEW e \in Contenders PROVE seen'[e].rv # lease'.rv
    BY <1>5, <1>7, KnownVersions, Zenon
  <2> QED
    BY <1>3, <1>4, <1>5, <1>7, <1>8, <2>1, Zenon DEF Authorities, Covered
<1>13. Puts(c)'
  BY <1>4, <1>7, <1>8, Zenon DEF Puts
<1> QED
  BY <1>5, <1>9, <1>10, <1>11, <1>12, <1>13, Zenon DEF IInv

LEMMA LandRenewalKeeps ==
    ASSUME IInv, TypeOK', NEW c \in Contenders, LandRenewal(c)
    PROVE  IInv'
<1> DEFINE put == renewal[c].req.put
<1>1. Versions(c) /\ Phased(c) /\ Authorities(c) /\ Puts(c) /\ TypeOK
  BY DEF IInv
<1>2. put \in Put /\ Lands(put) /\ renewal[c].req.state = "sent" /\ put.base = lease.rv
  BY <1>1 DEF LandRenewal, Lands, TypeOK, Request
<1>3. Renews(put) /\ SameTerm(lease, c)
  BY <1>1, <1>2, Zenon DEF Puts
<1>4. phase[c] = "lead" /\ request[c].state = "none" /\ renewal[c].step = "put"
  BY <1>1, <1>2, Blank, Zenon DEF Phased
<1>5. /\ lease'.uid = lease.uid /\ lease'.uid \in 1..lastUid /\ lease'.rv = lastRv + 1
      /\ lastRv' = lastRv + 1 /\ lastUid' = lastUid /\ lastRv \in Nat /\ lastUid \in Nat
      /\ lease'.holder = put.holder /\ lease'.transitions = put.transitions
      /\ LeaseVersions' /\ Orphans'
  BY <1>2, LandingVersions, Zenon
<1>6. \A d \in Contenders \ {c} : Same(d)
  BY <1>1 DEF LandRenewal, Same, TypeOK, termVars
<1>7. /\ phase'[c] = phase[c] /\ got'[c] = got[c] /\ seen' = seen /\ term'[c] = term[c]
      /\ object'[c] = object[c] /\ left'[c] = left[c] /\ request'[c] = request[c]
  BY DEF LandRenewal, termVars
<1>8. PICK r \in Answers(renewal[c].req) : renewal' = [renewal EXCEPT ![c].req = r]
  BY Zenon DEF LandRenewal
<1>9. /\ renewal'[c].step = "put" /\ renewal'[c].req = r
      /\ (r.state = "ok" /\ r.reply = lease') \/ r.state = "conflict"
  BY <1>1, <1>4, <1>8, Blank, ZenonT(60) DEF Answers, TypeOK, Request
<1>10. ASSUME NEW d \in Contenders, d # c
      PROVE  Versions(d)' /\ Phased(d)' /\ Authorities(d)' /\ Puts(d)'
  BY <1>2, <1>3, <1>6, <1>7, <1>10, LandingKeepsOthers, Zenon
<1>11. Versions(c)'
  <2>1. seen[c].rv <= lastRv + 1 /\ term[c].uid <= lastUid
    BY KnownVersions
  <2>2. Genuine(lease)' /\ (Genuine(object[c]) => StillGenuine(object[c]))
    BY <1>5 DEF Genuine, StillGenuine
  <2> QED
    BY <1>1, <1>4, <1>5, <1>7, <1>9, <2>1, <2>2, Zenon DEF Versions, Genuine, StillGenuine, SameTerm
<1>12. Phased(c)'
  BY <1>3, <1>4, <1>5, <1>7, <1>9 DEF Phased, SameTerm, Renews
<1>13. Authorities(c)'
  <2>1. ASSUME NEW e \in Contenders PROVE seen'[e].rv # lease'.rv
    BY <1>5, <1>7, KnownVersions, ZenonT(60)
  <2>2. lease'.holder = c /\ lease'.transitions = term'[c].transitions
    BY <1>3, <1>5, <1>7 DEF SameTerm, Renews
  <2> QED
    BY <1>4, <1>7, <1>9, <2>1, <2>2, Zenon DEF Authorities, Covered
<1>14. Puts(c)'
  BY <1>4, <1>7, <1>9, Zenon DEF Puts
<1> QED
  BY <1>5, <1>10, <1>11, <1>12, <1>13, <1>14, Zenon DEF IInv

LEMMA LandOrphanKeeps ==
    ASSUME IInv, TypeOK', NEW put \in orphans, LandOrphan(put)
    PROVE  IInv'
<1>1. put \in Put /\ Lands(put) /\ (Renews(put) \/ Takes(put)) /\ seen' = seen
  BY DEF IInv, TypeOK, Orphans, Landable, LandOrphan
<1>2. \A d \in Contenders : Same(d)
  BY Zenon DEF LandOrphan, Same, termVars
<1>3. \A d \in Contenders : Versions(d)' /\ Phased(d)' /\ Authorities(d)' /\ Puts(d)'
  BY <1>1, <1>2, LandingKeepsOthers
<1> QED
  BY <1>1, <1>3, LandingVersions, Zenon DEF IInv

(* A Lease that is gone grants nothing, and no request can land on it. *)
LEMMA DeleteLeaseKeeps ==
    ASSUME IInv, TypeOK', DeleteLease
    PROVE  IInv'
<1>1. TypeOK /\ LeaseVersions /\ lease' = NoLease /\ orphans' = {} /\ UNCHANGED <<lastRv, lastUid>>
  BY DEF IInv, DeleteLease
<1>2. NoLease.rv = 0 /\ NoLease.uid = 0
  BY DEF NoLease
<1>3. LeaseVersions' /\ Orphans'
  BY <1>1, <1>2 DEF LeaseVersions, Orphans, TypeOK
<1>4. ASSUME NEW d \in Contenders
      PROVE  Versions(d)' /\ Phased(d)' /\ Authorities(d)' /\ Puts(d)'
  <2>1. Same(d) /\ Versions(d) /\ Phased(d) /\ Authorities(d) /\ Puts(d)
    BY DEF IInv, DeleteLease, Same, termVars
  <2>a. ASSUME NEW n \in 1..lastRv PROVE n # 0
    BY <1>1 DEF TypeOK
  <2>b. ASSUME NEW n \in 1..lastUid PROVE n # 0
    BY <1>1 DEF TypeOK
  <2>2. Versions(d)'
    BY <1>1, <1>2, <2>1, <2>a, ZenonT(60) DEF Versions, Same, Genuine, SameTerm
  <2>3. Phased(d)'
    BY <2>1, Zenon DEF Phased, Same, SameTerm
  <2>4. Authorities(d)'
    <3>1. phase[d] = "lead" => term[d].uid # 0
      BY <2>1, <2>b, Zenon DEF Versions, Genuine, SameTerm
    <3>2. renewal[d].req.state = "ok" => phase[d] = "lead"
      BY <2>1, Blank, Zenon DEF Phased
    <3>3. request[d].state = "ok" => request[d].reply.uid # 0
      BY <2>1, <2>b, Zenon DEF Versions, Genuine
    <3> QED
      BY <1>1, <1>2, <2>1, <3>1, <3>2, <3>3, Zenon DEF Authorities, Covered, Same
  <2>5. Puts(d)'
    BY <1>1, <1>2, <2>1, <2>a, Zenon DEF Puts, Same
  <2> QED
    BY <2>2, <2>3, <2>4, <2>5
<1> QED
  BY <1>3, <1>4 DEF IInv

(* A new Lease has a version and a UID that nobody has seen. *)
LEMMA CreateLeaseKeeps ==
    ASSUME IInv, TypeOK', CreateLease
    PROVE  IInv'
<1>1. /\ lease'.rv = lastRv + 1 /\ lease'.uid = lastUid + 1 /\ lastRv \in Nat /\ lastUid \in Nat
      /\ lastRv' = lastRv + 1 /\ lastUid' = lastUid + 1 /\ orphans' = orphans
  BY DEF IInv, CreateLease, TypeOK
<1>2. orphans = {}
  <2>1. lease = NoLease
    BY DEF IInv, CreateLease, LeaseVersions
  <2> QED
    BY <2>1 DEF IInv, NoLease, Orphans, Landable
<1>3. LeaseVersions' /\ Orphans'
  BY <1>1, <1>2 DEF LeaseVersions, Orphans
<1>4. ASSUME NEW d \in Contenders
      PROVE  Versions(d)' /\ Phased(d)' /\ Authorities(d)' /\ Puts(d)'
  <2>1. Same(d) /\ Versions(d) /\ Phased(d) /\ Authorities(d) /\ Puts(d) /\ Typed(d)
    BY Types DEF IInv, CreateLease, Same, termVars
  <2>2. Versions(d)'
    <3>1. seen[d].rv <= lastRv + 1 /\ term[d].uid <= lastUid + 1
      BY KnownVersions
    <3>2. ASSUME NEW o, Genuine(o) PROVE StillGenuine(o)
      BY <1>1, <3>2 DEF Genuine, StillGenuine
    <3> QED
      BY <1>1, <2>1, <3>1, <3>2, ZenonT(60) DEF Versions, Same, Genuine, StillGenuine, SameTerm
  <2>3. Phased(d)'
    BY <2>1, Zenon DEF Phased, Same, SameTerm
  <2>4. Authorities(d)'
    <3>1. term[d].uid # lastUid + 1
      BY KnownVersions
    <3>2. request[d].state = "ok" => request[d].reply.uid # lastUid + 1
      BY KnownVersions
    <3> QED
      BY <1>1, <2>1, <3>1, <3>2, Zenon DEF Authorities, Covered, Same
  <2>5. Puts(d)'
    <3>1. ASSUME NEW b \in 1..lastRv PROVE b \in 1..lastRv' /\ b # lease'.rv
      BY <1>1
    <3> QED
      BY <2>1, <3>1, Zenon DEF Puts, Same
  <2> QED
    BY <2>2, <2>3, <2>4, <2>5
<1> QED
  BY <1>3, <1>4 DEF IInv

-----------------------------------------------------------------------------
(* The clock.  A tick takes from every authority what it adds to the longest
   observation, so their sum stays within Freshness. *)
Less(r) == IF r > 0 THEN r - 1 ELSE 0

LEMMA AgedRequest ==
    ASSUME NEW r \in Request
    PROVE  /\ Aged(r).state = r.state /\ Aged(r).put = r.put /\ Aged(r).reply = r.reply
           /\ r.state = "ok" => Authority(Aged(r).age) = Less(Authority(r.age))
<1>1. Aged(r).state = r.state /\ Aged(r).put = r.put /\ Aged(r).reply = r.reply
  BY DEF Aged, Request
<1>2. ASSUME r.state = "ok" PROVE Authority(Aged(r).age) = Less(Authority(r.age))
  <2>1. r.age \in 0..Freshness
    BY DEF Request
  <2>2. Aged(r).age = Older(r.age, Freshness)
    BY <1>2 DEF Aged, Request
  <2> QED
    BY <2>1, <2>2, TimesAssumption DEF Older, Authority, Less
<1> QED
  BY <1>1, <1>2

LEMMA TickValues ==
    ASSUME TypeOK, Tick, NEW c \in Contenders
    PROVE  /\ phase'[c] = phase[c] /\ got'[c] = got[c] /\ term'[c] = term[c]
           /\ object'[c] = object[c] /\ left'[c] = Less(left[c])
           /\ seen'[c].rv = seen[c].rv /\ seen'[c].age <= seen[c].age + 1
           /\ request'[c] = Aged(request[c])
           /\ renewal'[c].step = renewal[c].step /\ renewal'[c].got = renewal[c].got
           /\ renewal'[c].req = Aged(renewal[c].req)
           /\ renewal[c] = NoRenewal => renewal'[c] = NoRenewal
<1>1. phase'[c] = phase[c] /\ got'[c] = got[c] /\ term'[c] = term[c] /\ object'[c] = object[c]
  BY DEF Tick
<1>2. left'[c] = Less(left[c]) /\ request'[c] = Aged(request[c])
  BY DEF Tick, Less
<1>3. seen'[c].rv = seen[c].rv /\ seen'[c].age <= seen[c].age + 1
  <2>1. seen[c] \in [rv : Nat, age : 0..Duration]
    BY DEF TypeOK
  <2>2. seen[c].age \in Nat
    BY <2>1, TimesAssumption
  <2>3. CASE seen[c].rv = 0
    BY <2>2, <2>3 DEF Tick
  <2>4. CASE seen[c].rv # 0
    <3>1. seen'[c] = [seen[c] EXCEPT !.age = Older(@, Duration)]
      BY <2>4 DEF Tick
    <3>2. seen'[c].rv = seen[c].rv /\ seen'[c].age = Older(seen[c].age, Duration)
      BY <2>1, <3>1
    <3> QED
      BY <2>2, <3>2, TimesAssumption DEF Older
  <2> QED
    BY <2>3, <2>4
<1>4. renewal'[c] = [renewal[c] EXCEPT !.req = Aged(@)]
  BY DEF Tick
<1>5. /\ renewal'[c].step = renewal[c].step /\ renewal'[c].got = renewal[c].got
      /\ renewal'[c].req = Aged(renewal[c].req)
  BY <1>4 DEF TypeOK
<1>6. renewal[c] = NoRenewal => renewal'[c] = NoRenewal
  <2>1. Aged(NoRequest) = NoRequest
    BY DEF Aged, NoRequest
  <2> QED
    BY <1>4, <2>1 DEF NoRenewal
<1> QED
  BY <1>1, <1>2, <1>3, <1>5, <1>6

LEMMA CoverTicks ==
    ASSUME TypeOK, Tick, NEW c \in Contenders, NEW t, NEW r \in 0..Freshness, Covered(c, t, r)
    PROVE  StillCovered(c, t, Less(r))
<1> SUFFICES ASSUME Less(r) > 0, t.uid = lease'.uid
             PROVE  /\ lease'.holder = c
                    /\ lease'.transitions = t.transitions
                    /\ \A d \in Contenders :
                          seen'[d].rv = lease'.rv => seen'[d].age + Less(r) <= Freshness
  BY DEF StillCovered
<1>1. lease' = lease
  BY DEF Tick, leaseVars
<1>2. r > 0 /\ Less(r) = r - 1 /\ r \in Nat
  BY TimesAssumption DEF Less
<1>3. ASSUME NEW d \in Contenders, seen'[d].rv = lease'.rv
      PROVE  seen'[d].age + Less(r) <= Freshness
  <2>1. seen[d].age + r <= Freshness
    BY <1>1, <1>2, <1>3, TickValues DEF Covered
  <2>2. seen'[d].age <= seen[d].age + 1
    BY TickValues
  <2>3. seen[d].age \in Nat /\ seen'[d].age \in Nat
    <3>1. TypeOK'
      BY TypeStep DEF Next
    <3> QED
      <4>1. seen \in [Contenders -> [rv : Nat, age : 0..Duration]]
        BY Zenon DEF IInv, TypeOK
      <4>2. seen' \in [Contenders -> [rv : Nat, age : 0..Duration]]
        BY <3>1, Zenon DEF TypeOK
      <4> QED
        BY <4>1, <4>2, TimesAssumption
  <2> QED
    BY <1>2, <2>1, <2>2, <2>3, TimesAssumption
<1> QED
  BY <1>1, <1>2, <1>3 DEF Covered

LEMMA TickKeeps ==
    ASSUME IInv, TypeOK', Tick
    PROVE  IInv'
<1>1. TypeOK /\ LeaseVersions /\ Orphans
  BY DEF IInv
<1>2. lease' = lease /\ lastRv' = lastRv /\ lastUid' = lastUid /\ orphans' = orphans
  BY DEF Tick, leaseVars
<1> DEFINE Ticked(d) ==
      /\ phase'[d] = phase[d] /\ got'[d] = got[d] /\ term'[d] = term[d]
      /\ object'[d] = object[d] /\ seen'[d].rv = seen[d].rv
      /\ request'[d].state = request[d].state /\ request'[d].put = request[d].put
      /\ request'[d].reply = request[d].reply
      /\ renewal'[d].step = renewal[d].step /\ renewal'[d].got = renewal[d].got
      /\ renewal'[d].req.state = renewal[d].req.state
      /\ renewal'[d].req.put = renewal[d].req.put
      /\ renewal'[d].req.reply = renewal[d].req.reply
      /\ renewal[d] = NoRenewal => renewal'[d] = NoRenewal
<1> DEFINE Lessens(d) ==
      /\ left'[d] = Less(left[d])
      /\ request[d].state = "ok" =>
            Authority(request'[d].age) = Less(Authority(request[d].age))
      /\ renewal[d].req.state = "ok" =>
            Authority(renewal'[d].req.age) = Less(Authority(renewal[d].req.age))
<1>3. ASSUME NEW d \in Contenders PROVE Ticked(d) /\ Lessens(d)
  <2>1. request[d] \in Request /\ renewal[d].req \in Request
    BY <1>1 DEF TypeOK
  <2> QED
    BY <1>1, <2>1, AgedRequest, TickValues, ZenonT(60)
<1>4. ASSUME NEW r \in 0..Freshness PROVE Less(r) > 0 => r > 0
  BY TimesAssumption DEF Less
<1>5. ASSUME Unowned PROVE Unowned'
  <2> SUFFICES ASSUME NEW d \in Contenders PROVE Powerless(d)'
    BY DEF Unowned
  <2>1. /\ left[d] \in 0..Freshness
        /\ Authority(request[d].age) \in 0..Freshness
        /\ Authority(renewal[d].req.age) \in 0..Freshness
    BY <1>1, Types, Zenon DEF Typed
  <2>2. /\ Less(left[d]) > 0 => left[d] > 0
        /\ Less(Authority(request[d].age)) > 0 => Authority(request[d].age) > 0
        /\ Less(Authority(renewal[d].req.age)) > 0 => Authority(renewal[d].req.age) > 0
    BY <1>4, <2>1
  <2>3. Powerless(d) /\ Ticked(d) /\ Lessens(d)
    BY <1>3, <1>5, Zenon DEF Unowned
  <2> QED
    BY <1>2, <2>2, <2>3, Zenon DEF Powerless
<1>6. ASSUME NEW put, Takes(put) PROVE Takes(put)'
  BY <1>2, <1>5, <1>6 DEF Takes
<1>7. LeaseVersions' /\ Orphans'
  BY <1>1, <1>2, <1>6 DEF LeaseVersions, NoLease, Orphans, Landable, Renews
<1>8. ASSUME NEW d \in Contenders
      PROVE  Versions(d)' /\ Phased(d)' /\ Authorities(d)' /\ Puts(d)'
  <2>1. Versions(d) /\ Phased(d) /\ Authorities(d) /\ Puts(d) /\ Ticked(d) /\ Lessens(d)
    BY <1>3, Zenon DEF IInv
  <2>2. Versions(d)'
    BY <1>2, <2>1, Zenon DEF Versions, Genuine, SameTerm
  <2>3. Phased(d)'
    BY <2>1, Zenon DEF Phased, SameTerm
  <2>4. Authorities(d)'
    <3>1. /\ left[d] \in 0..Freshness
          /\ Authority(request[d].age) \in 0..Freshness
          /\ Authority(renewal[d].req.age) \in 0..Freshness
      BY <1>1, Types DEF Typed
    <3>2. phase[d] = "lead" => StillCovered(d, term[d], Less(left[d]))
      BY <1>1, <2>1, <3>1, CoverTicks, Zenon DEF Authorities
    <3>3. renewal[d].req.state = "ok" =>
             StillCovered(d, term[d], Less(Authority(renewal[d].req.age)))
      BY <1>1, <2>1, <3>1, CoverTicks, Zenon DEF Authorities
    <3>4. phase[d] = "claim" /\ request[d].state = "ok" =>
             StillCovered(d, request[d].reply, Less(Authority(request[d].age)))
      BY <1>1, <2>1, <3>1, CoverTicks, Zenon DEF Authorities
    <3> QED
      BY <2>1, <3>2, <3>3, <3>4, ZenonT(60) DEF Authorities, Covered, StillCovered
  <2>5. Puts(d)'
    BY <1>2, <1>6, <2>1, Zenon DEF Puts, Renews, SameTerm
  <2> QED
    BY <2>2, <2>3, <2>4, <2>5
<1> QED
  BY <1>7, <1>8 DEF IInv

-----------------------------------------------------------------------------
LEMMA InvInit == Init => IInv
<1> SUFFICES ASSUME Init PROVE IInv
  OBVIOUS
<1>1. TypeOK
  BY TypeInit
<1>2. LeaseVersions /\ Orphans
  BY DEF Init, LeaseVersions, Orphans
<1>3. ASSUME NEW c \in Contenders PROVE Versions(c) /\ Phased(c) /\ Authorities(c) /\ Puts(c)
  <2>1. /\ phase[c] = "contend" /\ request[c] = NoRequest /\ renewal[c] = NoRenewal
        /\ seen[c] = Unseen /\ term[c].uid = 0 /\ lastRv = 1 /\ lastUid = 1
    BY DEF Init, NoTerm
  <2> QED
    <3>1. request[c].state = "none" /\ renewal[c].req.state = "none" /\ renewal[c].step = "off"
          /\ seen[c].rv = 0
      BY <2>1, Blank
    <3>2. Versions(c)
      BY <2>1, <3>1 DEF Versions
    <3>3. Phased(c)
      BY <2>1, <3>1 DEF Phased
    <3>4. Authorities(c)
      BY <2>1, <3>1 DEF Authorities
    <3>5. Puts(c)
      BY <3>1 DEF Puts
    <3> QED
      BY <3>2, <3>3, <3>4, <3>5
<1> QED
  BY <1>1, <1>2, <1>3 DEF IInv

LEMMA InvStep == IInv /\ [Next]_vars => IInv'
<1> SUFFICES ASSUME IInv, [Next]_vars PROVE IInv'
  OBVIOUS
<1>1. TypeOK'
  BY TypeStep DEF IInv
<1>2. ASSUME NEW c \in Contenders, Contend(c) PROVE IInv'
  BY <1>1, <1>2, LoseSeatKeeps, ReadLeaseKeeps, ObserveKeeps, ClaimOkKeeps,
     ClaimFailedKeeps, ContendEndsKeeps DEF Contend
<1>3. ASSUME NEW c \in Contenders, Lead(c) PROVE IInv'
  BY <1>1, <1>3, FencedKeeps, TermEndsKeeps, ReleaseEndsKeeps, CrashKeeps DEF Lead
<1>4. ASSUME NEW c \in Contenders, RenewTask(c) PROVE IInv'
  BY <1>1, <1>4, RenewKeeps, RenewOkKeeps, RenewConflictKeeps, RereadLeaseKeeps,
     RenewAdoptKeeps, RenewLostKeeps, RenewFailedKeeps DEF RenewTask
<1>5. CASE Server
  BY <1>1, <1>5, LandRequestKeeps, RefuseRequestKeeps, LandRenewalKeeps,
     RefuseRenewalKeeps, LandOrphanKeeps, DeleteLeaseKeeps, CreateLeaseKeeps DEF Server
<1>6. CASE Tick
  BY <1>1, <1>6, TickKeeps
<1>7. CASE UNCHANGED vars
  <2>1. /\ lease' = lease /\ lastRv' = lastRv /\ lastUid' = lastUid /\ orphans' = orphans
        /\ \A d \in Contenders : Same(d)
        /\ phase' = phase /\ renewal' = renewal /\ request' = request /\ left' = left
        /\ term' = term /\ seen' = seen
    BY <1>7 DEF vars, Same
  <2>2. Unowned' = Unowned
    BY <2>1, Zenon DEF Unowned, Powerless, Authority
  <2>3. LeaseVersions' /\ Orphans'
    BY <2>1, <2>2 DEF IInv, LeaseVersions, NoLease, Orphans, Landable, Renews, Takes
  <2>4. ASSUME NEW d \in Contenders PROVE Versions(d)' /\ Phased(d)' /\ Authorities(d)' /\ Puts(d)'
    <3>1. Same(d) /\ Versions(d) /\ Phased(d) /\ Authorities(d) /\ Puts(d)
      BY <2>1 DEF IInv
    <3>2. Versions(d)'
      BY <2>1, <3>1, Zenon DEF Versions, Genuine, SameTerm, Same
    <3>3. Phased(d)'
      BY <3>1, Zenon DEF Phased, SameTerm, Same
    <3>4. Authorities(d)'
      BY <2>1, <3>1, Zenon DEF Authorities, Covered, Authority
    <3>5. Puts(d)'
      BY <2>1, <2>2, <3>1, Zenon DEF Puts, Takes, Renews, SameTerm, Same
    <3> QED
      BY <3>2, <3>3, <3>4, <3>5
  <2> QED
    BY <1>1, <2>3, <2>4 DEF IInv
<1> QED
  BY <1>2, <1>3, <1>4, <1>5, <1>6, <1>7 DEF Next

(* The invariant behind all the others: what every process has read, sent and
   been granted agrees with the version of the Lease it names, and nobody has
   watched the current version for longer than its holder's authority runs. *)
THEOREM Inductive == Spec => []IInv
  BY InvInit, InvStep, PTL DEF Spec

(* A primary whose authority is fresh by its own clock is the holder the API
   server names, in the term it leads, for any number of contenders, any delays
   and losses of requests, and any crash: Term_.lease can be trusted without
   asking the API server. *)
THEOREM FreshAuthority == Spec => []FreshMeansHeld
<1>1. IInv => FreshMeansHeld
  <2> SUFFICES ASSUME IInv, NEW c \in Contenders, Fresh(c), lease.uid = term[c].uid
               PROVE  SameTerm(lease, c)
    BY Zenon DEF FreshMeansHeld
  <2>1. Covered(c, term[c], left[c])
    BY Zenon DEF IInv, Authorities, Fresh
  <2> QED
    BY <2>1 DEF Covered, Fresh, SameTerm
<1> QED
  BY <1>1, Inductive, PTL

-----------------------------------------------------------------------------
(* A PUT that lands is a claim of the next term, a release, or a renewal, which
   the succession of terms does not see. *)
LEMMA LandingIsTermStep ==
    ASSUME IInv, NEW put \in Put, Lands(put), Renews(put) \/ Takes(put)
    PROVE  [Terms!Next]_(Terms!termVars)
<1>1. /\ lease' = [uid |-> lease.uid, rv |-> lastRv + 1,
                   transitions |-> put.transitions, holder |-> put.holder]
      /\ lease.uid > 0 /\ lastUid' = lastUid
  BY Zenon DEF Lands
<1>2. lease'.uid = lease.uid /\ lease'.transitions = put.transitions /\ lease'.holder = put.holder
  BY <1>1
<1>3. CASE Renews(put)
  BY <1>1, <1>2, <1>3, Zenon DEF Renews, Terms!termVars
<1>4. CASE put.transitions = lease.transitions + 1 /\ put.holder # None
  <2>1. put.holder \in Contenders
    BY <1>4 DEF Put, Holders
  <2>2. Terms!ClaimTerm(put.holder)
    BY <1>1, <1>2, <1>4, Zenon DEF Terms!ClaimTerm
  <2> QED
    BY <2>1, <2>2 DEF Terms!Next
<1>5. CASE put.transitions = lease.transitions /\ put.holder = None
  <2>1. Terms!ReleaseTerm
    BY <1>1, <1>2, <1>5 DEF Terms!ReleaseTerm
  <2> QED
    BY <2>1 DEF Terms!Next
<1> QED
  BY <1>3, <1>4, <1>5 DEF Takes

LEMMA StepRefines == IInv /\ [Next]_vars => [Terms!Next]_(Terms!termVars)
<1> SUFFICES ASSUME IInv, [Next]_vars PROVE [Terms!Next]_(Terms!termVars)
  OBVIOUS
<1>1. ASSUME lease' = lease, lastUid' = lastUid PROVE [Terms!Next]_(Terms!termVars)
  BY <1>1 DEF Terms!termVars
<1>2. ASSUME NEW c \in Contenders, LandRequest(c) PROVE [Terms!Next]_(Terms!termVars)
  <2>1. request[c].put \in Put /\ Lands(request[c].put) /\ Takes(request[c].put)
    BY <1>2, Types, Zenon DEF LandRequest, Lands, IInv, Typed, Puts
  <2> QED
    BY <2>1, LandingIsTermStep
<1>3. ASSUME NEW c \in Contenders, LandRenewal(c) PROVE [Terms!Next]_(Terms!termVars)
  <2>1. renewal[c].req.put \in Put /\ Lands(renewal[c].req.put) /\ Renews(renewal[c].req.put)
    BY <1>3, Types DEF LandRenewal, Lands, IInv, Typed, Puts
  <2> QED
    BY <2>1, LandingIsTermStep
<1>4. ASSUME NEW put \in orphans, LandOrphan(put) PROVE [Terms!Next]_(Terms!termVars)
  <2>1. put \in Put /\ Lands(put) /\ (Renews(put) \/ Takes(put))
    BY <1>4 DEF LandOrphan, IInv, TypeOK, Orphans, Landable
  <2> QED
    BY <2>1, LandingIsTermStep
<1>5. CASE DeleteLease
  <2>1. Terms!DeleteLease
    BY <1>5 DEF DeleteLease, Terms!DeleteLease, Terms!Absent, NoLease
  <2> QED
    BY <2>1 DEF Terms!Next
<1>6. CASE CreateLease
  <2>1. Terms!CreateLease
    BY <1>6 DEF CreateLease, Terms!CreateLease
  <2> QED
    BY <2>1 DEF Terms!Next
<1>7. ASSUME NEW c \in Contenders, Contend(c) PROVE [Terms!Next]_(Terms!termVars)
  BY <1>1, <1>7
     DEF Contend, LoseSeat, ReadLease, Observe, ClaimOk, ClaimFailed, ContendEnds, leaseVars
<1>8. ASSUME NEW c \in Contenders, Lead(c) PROVE [Terms!Next]_(Terms!termVars)
  BY <1>1, <1>8 DEF Lead, Fenced, TermEnds, ReleaseEnds, Crash, leaseVars
<1>9. ASSUME NEW c \in Contenders, RenewTask(c) PROVE [Terms!Next]_(Terms!termVars)
  BY <1>1, <1>9, Zenon
     DEF RenewTask, Renew, RenewOk, RenewConflict, RereadLease, RenewAdopt, RenewLost,
         RenewFailed, leaseVars
<1>10. ASSUME NEW c \in Contenders, RefuseRequest(c) \/ RefuseRenewal(c)
       PROVE  [Terms!Next]_(Terms!termVars)
  BY <1>1, <1>10 DEF RefuseRequest, RefuseRenewal, leaseVars
<1>11. CASE Tick \/ UNCHANGED vars
  BY <1>1, <1>11 DEF Tick, leaseVars, vars
<1> QED
  BY <1>2, <1>3, <1>4, <1>5, <1>6, <1>7, <1>8, <1>9, <1>10, <1>11 DEF Next, Server

(* The election implements the succession of terms that every other part of the
   control plane builds on: whatever is delayed, lost or repeated, the Lease
   only ever moves to the next transition by a claim, or is released, deleted
   or created. *)
THEOREM ImplementsLeaseTerms == Spec => RefinesLeaseTerms
<1>1. Init => Terms!Init
  BY DEF Init, Terms!Init
<1> QED
  BY <1>1, StepRefines, Inductive, PTL DEF Spec, RefinesLeaseTerms, Terms!Spec

-----------------------------------------------------------------------------
(* Authority from one Lease object, after that object is gone as well. *)

(* Contender c has, or is about to be told of, authority from the Lease object u. *)
Holds(c, u) ==
    \/ phase[c] = "lead" /\ left[c] > 0 /\ term[c].uid = u
    \/ renewal[c].req.state = "ok" /\ Authority(renewal[c].req.age) > 0 /\ term[c].uid = u
    \/ /\ phase[c] = "claim" /\ request[c].state = "ok"
       /\ Authority(request[c].age) > 0 /\ request[c].reply.uid = u

Exclusive == \A c, d \in Contenders, u \in Nat : Holds(c, u) /\ Holds(d, u) => c = d

(* Authority from an object that is not the current one is never gained. *)
LEMMA OldAuthority ==
    ASSUME IInv, [Next]_vars, NEW c \in Contenders, NEW u \in Nat, u # lease'.uid, Holds(c, u)'
    PROVE  Holds(c, u)
<1>1. TypeOK
  BY DEF IInv
<1>2. ASSUME phase'[c] = phase[c], left'[c] = left[c], term'[c] = term[c],
             renewal'[c].req = renewal[c].req \/ renewal'[c].req.state # "ok",
             request'[c] = request[c] \/ request'[c].state # "ok"
      PROVE  Holds(c, u)
  BY <1>2 DEF Holds, Authority
<1>3. ASSUME NEW d \in Contenders, Contend(d) PROVE Holds(c, u)
  <2>1. CASE LoseSeat(d)
    BY <1>1, <2>1 DEF LoseSeat, termVars, Holds, Authority
  <2>2. CASE ReadLease(d)
    BY <1>1, <2>2, Zenon DEF ReadLease, termVars, TypeOK, Holds, Authority
  <2>3. CASE Observe(d)
    <3>1. \/ request' = [request EXCEPT ![d] = Sent(Claim(got[d], d))]
             /\ phase' = [phase EXCEPT ![d] = "claim"]
          \/ request' = request /\ phase' = [phase EXCEPT ![d] = "contend"]
      BY <2>3, Zenon DEF Observe
    <3>2. left' = left /\ term' = term /\ renewal' = renewal
      BY <2>3 DEF Observe, termVars
    <3> QED
      <4>1. phase'[c] \in {phase[c], "claim", "contend"}
        BY <1>1, <3>1 DEF TypeOK
      <4>2. phase'[c] = phase[c] \/ phase'[c] # "lead"
        BY <4>1
      <4>3. request'[c] = request[c] \/ request'[c].state = "sent"
        <5>1. CASE request' = request
          BY <5>1
        <5>2. CASE request' = [request EXCEPT ![d] = Sent(Claim(got[d], d))]
          <6>1. request'[c] = request[c] \/ request'[c] = Sent(Claim(got[d], d))
            BY <1>1, <5>2 DEF TypeOK
          <6> QED
            BY <6>1, Blank
        <5> QED
          BY <3>1, <5>1, <5>2
      <4>4. c # d => phase'[c] = phase[c]
        BY <1>1, <3>1 DEF TypeOK
      <4>5. c = d => phase[c] = "observe" /\ request[c].state = "none"
        BY <2>3, Zenon DEF Observe, IInv, Phased
      <4> QED
        BY <3>2, <4>2, <4>3, <4>4, <4>5, Zenon DEF Holds, Authority
  <2>4. CASE ClaimOk(d)
    <3>1. CASE c = d
      <4>1. /\ phase[c] = "claim" /\ request[c].state = "ok" /\ phase'[c] = "lead"
            /\ left'[c] = Authority(request[c].age) /\ term'[c].uid = request[c].reply.uid
            /\ renewal'[c].req = renewal[c].req
        BY <1>1, <2>4, <3>1 DEF ClaimOk, TypeOK
      <4>2. renewal[c].req.state = "none"
        BY <4>1, Blank, Zenon DEF IInv, Phased
      <4> QED
        BY <4>1, <4>2, Zenon DEF Holds, Authority
    <3>2. CASE c # d
      BY <1>1, <2>4, <3>2 DEF ClaimOk, TypeOK, Holds, Authority
    <3> QED
      BY <3>1, <3>2
  <2>5. CASE ClaimFailed(d)
    BY <1>1, <2>5, Blank, Zenon DEF ClaimFailed, termVars, TypeOK, Holds, Authority
  <2>6. CASE ContendEnds(d)
    BY <1>1, <2>6, Zenon DEF ContendEnds, termVars, TypeOK, Holds, Authority
  <2> QED
    BY <1>3, <2>1, <2>2, <2>3, <2>4, <2>5, <2>6 DEF Contend
<1>4. ASSUME NEW d \in Contenders, Lead(d) PROVE Holds(c, u)
  <2>1. CASE Fenced(d)
    BY <2>1 DEF Fenced, Holds, Authority
  <2>2. CASE TermEnds(d)
    <3>1. /\ term' = term /\ left' = [left EXCEPT ![d] = 0]
          /\ renewal' = [renewal EXCEPT ![d] = NoRenewal] /\ phase[d] = "lead"
      BY <2>2 DEF TermEnds
    <3>2. \/ /\ request' = [request EXCEPT ![d] = Sent(Release(object[d]))]
             /\ phase' = [phase EXCEPT ![d] = "release"]
          \/ phase' = [phase EXCEPT ![d] = "contend"] /\ request' = request
      BY <2>2, Zenon DEF TermEnds
    <3> QED
      BY <1>1, <3>1, <3>2, Blank, Zenon DEF TypeOK, Holds, Authority
  <2>3. CASE ReleaseEnds(d)
    BY <1>1, <2>3, Blank, Zenon DEF ReleaseEnds, termVars, TypeOK, Holds, Authority
  <2>4. CASE Crash(d)
    BY <1>1, <2>4, Blank, Zenon DEF Crash, TypeOK, Holds, Authority
  <2> QED
    BY <1>4, <2>1, <2>2, <2>3, <2>4 DEF Lead
<1>5. ASSUME NEW d \in Contenders, RenewTask(d) PROVE Holds(c, u)
  <2>1. CASE Renew(d)
    BY <1>1, <1>2, <2>1, Blank, Zenon DEF Renew, termVars, TypeOK
  <2>2. CASE RenewOk(d)
    <3>1. /\ renewal'[d].req.state = "none"
          /\ \A e \in Contenders \ {d} : renewal'[e] = renewal[e]
      BY <1>1, <2>2, RoundLeaves, Blank, Zenon DEF RenewOk
    <3>2. /\ left' = [left EXCEPT ![d] = Authority(renewal[d].req.age)]
          /\ renewal[d].req.state = "ok" /\ UNCHANGED <<phase, request, term>>
      BY <2>2 DEF RenewOk
    <3> QED
      BY <1>1, <3>1, <3>2, Zenon DEF TypeOK, Holds, Authority
  <2>3. CASE RenewConflict(d)
    BY <1>1, <1>2, <2>3, Blank DEF RenewConflict, termVars, TypeOK, NoRenewal
  <2>4. CASE RereadLease(d)
    BY <1>1, <1>2, <2>4 DEF RereadLease, termVars, TypeOK
  <2>5. CASE RenewAdopt(d)
    BY <1>1, <1>2, <2>5, Blank DEF RenewAdopt, TypeOK, NoRenewal
  <2>6. CASE RenewLost(d)
    BY <1>1, <1>2, <2>6, RoundLeaves, Blank, Zenon DEF RenewLost
  <2>7. CASE RenewFailed(d)
    BY <1>1, <1>2, <2>7, RoundLeaves, Blank, Zenon DEF RenewFailed
  <2> QED
    BY <1>5, <2>1, <2>2, <2>3, <2>4, <2>5, <2>6, <2>7 DEF RenewTask
<1>6. ASSUME NEW d \in Contenders, LandRequest(d) PROVE Holds(c, u)
  <2>1. PICK r \in Answers(request[d]) : request' = [request EXCEPT ![d] = r]
    BY <1>6, Zenon DEF LandRequest
  <2>2. r.state = "ok" => r.reply = lease'
    BY <1>1, <2>1, Blank, Zenon DEF Answers, TypeOK, Request
  <2>3. UNCHANGED <<phase, term, left, renewal>>
    BY <1>6 DEF LandRequest, termVars
  <2> QED
    BY <1>1, <2>1, <2>2, <2>3, Zenon DEF TypeOK, Holds, Authority
<1>7. ASSUME NEW d \in Contenders, LandRenewal(d) PROVE Holds(c, u)
  <2>1. PICK r \in Answers(renewal[d].req) : renewal' = [renewal EXCEPT ![d].req = r]
    BY <1>7, Zenon DEF LandRenewal
  <2>2. UNCHANGED <<phase, term, left, request>>
    BY <1>7 DEF LandRenewal, termVars
  <2>3. term[d].uid = lease'.uid
    BY <1>7 DEF LandRenewal, Lands, IInv, Puts, SameTerm
  <2>4. CASE c = d
    BY <2>2, <2>3, <2>4 DEF Holds, Authority
  <2>5. CASE c # d
    BY <1>1, <1>2, <2>1, <2>2, <2>5 DEF TypeOK
  <2> QED
    BY <2>4, <2>5
<1>8. ASSUME NEW d \in Contenders, RefuseRequest(d) \/ RefuseRenewal(d) PROVE Holds(c, u)
  BY <1>1, <1>2, <1>8, Blank DEF RefuseRequest, RefuseRenewal, termVars, TypeOK
<1>9. ASSUME UNCHANGED <<phase, term, left, renewal, request>> PROVE Holds(c, u)
  BY <1>2, <1>9
<1>10. CASE Tick
  <2>1. /\ phase'[c] = phase[c] /\ term'[c] = term[c] /\ left'[c] = Less(left[c])
        /\ request'[c] = Aged(request[c]) /\ renewal'[c].req = Aged(renewal[c].req)
    BY <1>1, <1>10, TickValues, ZenonT(60)
  <2>2. /\ request[c] \in Request /\ renewal[c].req \in Request /\ left[c] \in 0..Freshness
        /\ Authority(request[c].age) \in 0..Freshness
        /\ Authority(renewal[c].req.age) \in 0..Freshness
    BY <1>1, Types, Zenon DEF Typed
  <2>3. ASSUME NEW r \in 0..Freshness PROVE Less(r) > 0 => r > 0
    BY TimesAssumption DEF Less
  <2> QED
    BY <2>1, <2>2, <2>3, AgedRequest, ZenonT(60) DEF Holds
<1> QED
  BY <1>3, <1>4, <1>5, <1>6, <1>7, <1>8, <1>9, <1>10
     DEF Next, Server, LandOrphan, DeleteLease, CreateLease, termVars, vars

(* No two contenders ever have fresh authority from the same Lease object, not
   even from one that has been deleted under them.  limits.rs says of
   LEASE_FRESHNESS: "It is shorter than LEASE_DURATION so a new holder never
   overlaps." *)
THEOREM NoOverlap == Spec => []OneFreshPrimary
<1>1. Init => Exclusive
  BY Blank, Zenon DEF Init, Exclusive, Holds
<1>2. IInv /\ IInv' /\ Exclusive /\ [Next]_vars => Exclusive'
  <2> SUFFICES ASSUME IInv, IInv', Exclusive, [Next]_vars,
                      NEW c \in Contenders, NEW d \in Contenders, NEW u \in Nat,
                      Holds(c, u)', Holds(d, u)'
               PROVE  c = d
    BY DEF Exclusive
  <2>1. CASE u = lease'.uid
    <3>1. Holds(c, lease.uid)' /\ Holds(d, lease.uid)'
      BY <2>1, Zenon DEF Holds
    <3>2. (lease.holder = c)' /\ (lease.holder = d)'
      BY <3>1, Zenon DEF IInv, Holds, Authorities, Covered
    <3> QED
      BY <3>2
  <2>2. CASE u # lease'.uid
    BY <2>2, OldAuthority DEF Exclusive
  <2> QED
    BY <2>1, <2>2
<1>3. IInv /\ Exclusive => OneFreshPrimary
  <2> SUFFICES ASSUME IInv, Exclusive, NEW c \in Contenders, NEW d \in Contenders,
                      Fresh(c), Fresh(d), term[c].uid = term[d].uid
               PROVE  c = d
    BY DEF OneFreshPrimary
  <2>1. term[c].uid \in Nat
    BY Types DEF IInv, Typed
  <2> QED
    BY <2>1, Zenon DEF Exclusive, Holds, Fresh
<1> QED
  BY <1>1, <1>2, <1>3, Inductive, PTL DEF Spec
=============================================================================
