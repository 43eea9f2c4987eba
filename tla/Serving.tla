------------------------------ MODULE Serving ------------------------------
(***************************************************************************)
(* What one control process serves: Shared.serving, as its seat follower   *)
(* (seat::follower) and, while it leads, its primary task                  *)
(* (primary::reconcile) install records read from or written to the        *)
(* racer-state Secret.                                                     *)
(*                                                                         *)
(* The tasks share one thread and interleave at awaits.  A read is three   *)
(* steps: it is started, the API server answers from the Secret as it is   *)
(* then, and the answer is handled.  Other primaries commit to the Secret  *)
(* at any time, which also covers the process's own PUTs that land late;   *)
(* an operator may restore an old Secret or wipe it.                       *)
(*                                                                         *)
(* A process that loses its seat during a read and gets another one has    *)
(* two followers for a while, so there is a set of them.  Who may write is *)
(* StateSecret's matter: terms are not stamped here, and being fenced is   *)
(* possible at any pass.  The seat Lease is held throughout.               *)
(***************************************************************************)
EXTENDS StateRecords, Sequences

CONSTANTS
    Followers,   \* follower tasks of the process
    Freshness,   \* STATE_FRESHNESS, in ticks
    Timeout,     \* API_TIMEOUT, in ticks
    Tampering,   \* whether an operator tampers with the Secret
    MaxRv        \* bound: versions of the Secret

(* A read is handled while what it confirms is still fresh, also by the primary,
   which makes two calls. *)
ASSUME TimesAssumption ==
    /\ Freshness \in Nat /\ Timeout \in Nat
    /\ 2 * Timeout < Freshness
    /\ Tampering \in BOOLEAN

VARIABLES
    log,       \* the versions of the Secret: each record, and the ticks since it was replaced
    tampered,  \* the Secret was restored or wiped (history)
    serving,   \* Shared.serving
    follow,    \* each follower's follow_once
    lead       \* the primary task and its reconcile pass

vars == <<log, tampered, serving, follow, lead>>

-----------------------------------------------------------------------------
Secret == log[Len(log)].record

(* publication::Record, as far as images are matched by it. *)
Images == [sequence : Nat, content : Contents]

Bundles == [generation : Nat, keyring : Keyrings]

(* Serving.  confirmed is the age of the confirmation, Freshness when there is
   none or it is too old; at is the version the record was read from or written
   as (history). *)
Servings ==
    [record : StateRecord \cup {None}, high : StateRecord \cup {None},
     image : Images \cup {None}, bundle : Bundles \cup {None},
     confirmed : 0..Freshness, at : Nat]

Start ==
    [record |-> None, high |-> None, image |-> None, bundle |-> None,
     confirmed |-> Freshness, at |-> 0]

(* follow_once: whether a record was installed since it started (the counter
   Serving.installs moved), the version it got, its age. *)
FollowSteps == {"off", "sent", "read", "fetch"}

Resting == [step |-> "off", overtaken |-> FALSE, rv |-> 0, age |-> 0]

(* reconcile: the version it got, its PUT, and the age of the call that will
   confirm what it installs. *)
LeadSteps == {"off", "idle", "sent", "read", "checked", "put", "ok"}

Waiting == [step |-> "idle", rv |-> 0, next |-> None, age |-> 0]

TypeOK ==
    /\ log \in Seq([record : StateRecord \cup {None}, gone : 0..Freshness])
    /\ Len(log) > 0
    /\ tampered \in BOOLEAN
    /\ serving \in Servings
    /\ follow \in [Followers -> [step : FollowSteps, overtaken : BOOLEAN, rv : Nat,
                                 age : 0..Timeout]]
    /\ lead \in [step : LeadSteps, rv : Nat, next : StateRecord \cup {None},
                 age : 0..(2 * Timeout)]

Init ==
    /\ log = <<[record |-> None, gone |-> 0]>>
    /\ tampered = FALSE
    /\ serving = Start
    /\ follow = [f \in Followers |-> Resting]
    /\ lead = [Waiting EXCEPT !.step = "off"]

-----------------------------------------------------------------------------
(* The rules of step/seat.rs and the installers of seat.rs *)

(* Mutant: older news is not told from a rollback. *)
SupersededNever(installed, high, record) == FALSE

(* superseded *)
Superseded(installed, high, record) ==
    installed /\ high # None /\ record.sequence < high.sequence

(* admit *)
Admit(high, record) == high # None => CheckMonotonic(high, record)

(* record_of *)
ImageOf(record) == [sequence |-> record.sequence, content |-> record.content]

(* Mutant: an image of an older record is kept. *)
NeedAnyImage(record, image, isPrimary) ==
    ~isPrimary /\ record.sequence # 0 /\ image = None

(* need_image *)
NeedImage(record, image, isPrimary) ==
    ~isPrimary /\ record.sequence # 0 /\ image # ImageOf(record)

(* Mutant: the high water mark is cleared as well. *)
FailClosedForgets ==
    [serving EXCEPT !.record = None, !.confirmed = Freshness, !.image = None,
                    !.bundle = None, !.high = None]

(* fail_closed *)
FailClosed ==
    [serving EXCEPT !.record = None, !.confirmed = Freshness, !.image = None,
                    !.bundle = None]

(* Mutant: a record without keys has a bundle. *)
BundleWithoutKeys(record) ==
    [generation |-> record.generation, keyring |-> record.keyring]

(* The bundle of a record: generation 0 has none. *)
BundleOf(record) ==
    IF record.generation = 0 THEN None
    ELSE [generation |-> record.generation, keyring |-> record.keyring]

(* Mutant: only the generation is compared. *)
BundleByGeneration(record) ==
    IF serving.bundle # None /\ serving.bundle.generation = record.generation
    THEN serving.bundle ELSE BundleOf(record)

(* The bundle is kept while its generation and the keyring stay. *)
Bundle(record) ==
    IF /\ serving.bundle # None /\ serving.bundle.generation = record.generation
       /\ serving.record # None /\ serving.record.keyring = record.keyring
    THEN serving.bundle ELSE BundleOf(record)

(* Mutant: the record is confirmed when it is installed. *)
InstalledNow(record, age, rv) ==
    [serving EXCEPT !.bundle = Bundle(record), !.high = record, !.record = record,
                    !.confirmed = 0, !.at = rv]

(* install_record of an admitted record, version rv, confirmed age ticks ago. *)
Installed(record, age, rv) ==
    [serving EXCEPT !.bundle = Bundle(record), !.high = record, !.record = record,
                    !.confirmed = age, !.at = rv]

(* The reads that are under way when a record is installed. *)
Overtaken ==
    [f \in Followers |->
        IF follow[f].step \in {"sent", "read"}
        THEN [follow[f] EXCEPT !.overtaken = TRUE] ELSE follow[f]]

(* primary::install_image, after install_record made s of serving. *)
InstallImage(s, image) ==
    IF s.record # None /\ ImageOf(s.record) = image THEN [s EXCEPT !.image = image] ELSE s

-----------------------------------------------------------------------------
(* The Secret *)

(* What a pass may make of a record.  Versions that keep the record are left out:
   nothing here looks at the version of the Secret. *)
Changes(record) == Revisions(IF record = None THEN Empty ELSE record) \ {record}

(* The next version of the Secret. *)
Write(record) ==
    /\ Len(log) < MaxRv
    /\ log' = Append(log, [record |-> record, gone |-> 0])

(* Another primary, or a PUT of this one that nobody waits for, commits. *)
Commit ==
    /\ \E next \in Changes(Secret) : Write(next)
    /\ UNCHANGED <<tampered, serving, follow, lead>>

(* An operator restores an earlier version of the Secret, or wipes it. *)
Restore ==
    /\ Tampering
    /\ \E i \in 1..(Len(log) - 1) : Write(log[i].record)
    /\ tampered' = TRUE
    /\ UNCHANGED <<serving, follow, lead>>

-----------------------------------------------------------------------------
(* seat::follow_once *)

FollowStart(f) ==
    /\ follow[f].step = "off"
    /\ follow' = [follow EXCEPT ![f] = [Resting EXCEPT !.step = "sent"]]
    /\ UNCHANGED <<log, tampered, serving, lead>>

FollowServed(f) ==
    /\ follow[f].step = "sent"
    /\ follow' = [follow EXCEPT ![f].step = "read", ![f].rv = Len(log)]
    /\ UNCHANGED <<log, tampered, serving, lead>>

FollowFailed(f) ==
    /\ follow[f].step \in {"sent", "read", "fetch"}
    /\ follow' = [follow EXCEPT ![f] = Resting]
    /\ UNCHANGED <<log, tampered, serving, lead>>

(* The answer holds no record: fresh, or wiped. *)
FollowEmpty(f) ==
    /\ follow[f].step = "read" /\ log[follow[f].rv].record = None
    /\ serving' = IF serving.high # None THEN FailClosed ELSE serving
    /\ follow' = [follow EXCEPT ![f] = Resting]
    /\ UNCHANGED <<log, tampered, lead>>

(* The answer holds a record.  It is dropped or installed; when it is installed,
   its image may be missing. *)
FollowRecord(f) ==
    LET record == log[follow[f].rv].record
        fetch == NeedImage(record, serving.image, lead.step # "off")
    IN  /\ follow[f].step = "read" /\ record # None
        /\ \/ /\ Superseded(follow[f].overtaken, serving.high, record)
              /\ follow' = [follow EXCEPT ![f] = Resting]
              /\ UNCHANGED serving
           \/ /\ ~Superseded(follow[f].overtaken, serving.high, record)
              /\ ~Admit(serving.high, record)
              /\ follow' = [follow EXCEPT ![f] = Resting]
              /\ serving' = FailClosed
           \/ /\ ~Superseded(follow[f].overtaken, serving.high, record)
              /\ Admit(serving.high, record)
              /\ follow' = [Overtaken EXCEPT ![f] =
                               IF fetch THEN [Resting EXCEPT !.step = "fetch"] ELSE Resting]
              /\ serving' = Installed(record, follow[f].age, follow[f].rv)
        /\ UNCHANGED <<log, tampered, lead>>

(* fetch_image: the primary answers with the image of some committed record,
   which is installed if it is the one of the record served now. *)
FollowFetched(f) ==
    /\ follow[f].step = "fetch"
    /\ \E i \in DOMAIN log :
          /\ log[i].record # None /\ log[i].record.sequence # 0
          /\ serving' = InstallImage(serving, ImageOf(log[i].record))
    /\ follow' = [follow EXCEPT ![f] = Resting]
    /\ UNCHANGED <<log, tampered, lead>>

-----------------------------------------------------------------------------
(* primary::lead and primary::reconcile *)

LeadStart ==
    /\ lead.step = "off"
    /\ lead' = Waiting
    /\ UNCHANGED <<log, tampered, serving, follow>>

(* The term ends. *)
Over == [Waiting EXCEPT !.step = "off"]

LeadEnds ==
    /\ lead.step # "off"
    /\ lead' = Over
    /\ UNCHANGED <<log, tampered, serving, follow>>

(* reconcile returned an error that ends the term. *)
GiveUp ==
    /\ serving' = FailClosed
    /\ lead' = Over

PassStart ==
    /\ lead.step = "idle"
    /\ lead' = [Waiting EXCEPT !.step = "sent"]
    /\ UNCHANGED <<log, tampered, serving, follow>>

PassServed ==
    /\ lead.step = "sent"
    /\ lead' = [lead EXCEPT !.step = "read", !.rv = Len(log)]
    /\ UNCHANGED <<log, tampered, serving, follow>>

(* A call failed, or a PUT was refused. *)
PassFailed ==
    /\ lead.step \notin {"off", "idle"}
    /\ lead' = Waiting
    /\ UNCHANGED <<log, tampered, serving, follow>>

(* read_state's test against the high water mark. *)
PassRead ==
    LET current == log[lead.rv].record
    IN  /\ lead.step = "read"
        /\ IF serving.high # None => current # None /\ CheckMonotonic(serving.high, current)
           THEN lead' = [lead EXCEPT !.step = "checked"] /\ UNCHANGED serving
           ELSE GiveUp
        /\ UNCHANGED <<log, tampered, follow>>

(* live_lease_uid has been read, and Writer::observe refuses. *)
PassFenced ==
    /\ lead.step = "checked"
    /\ GiveUp
    /\ UNCHANGED <<log, tampered, follow>>

(* The plan's image, if the plan was made from a full observation. *)
PlannedImages(record) ==
    IF record.sequence = 0 THEN {None} ELSE {None, ImageOf(record)}

(* install_record, which may refuse, then install_image. *)
PassInstalls(record) ==
    /\ \/ ~Admit(serving.high, record) /\ GiveUp /\ UNCHANGED follow
       \/ /\ Admit(serving.high, record)
          /\ \E image \in PlannedImages(record) :
                serving' = InstallImage(Installed(record, lead.age, lead.rv), image)
          /\ follow' = Overtaken
          /\ lead' = Waiting
    /\ UNCHANGED <<log, tampered>>

(* Nothing to change. *)
PassUnchanged ==
    /\ lead.step = "checked" /\ log[lead.rv].record # None
    /\ PassInstalls(log[lead.rv].record)

(* A record to commit: the PUT is sent. *)
PassPut ==
    LET current == log[lead.rv].record
    IN  /\ lead.step = "checked"
        /\ \E next \in Changes(current) :
              lead' = [lead EXCEPT !.step = "put", !.next = next, !.age = 0]
        /\ UNCHANGED <<log, tampered, serving, follow>>

PassLands ==
    /\ lead.step = "put" /\ lead.rv = Len(log)
    /\ Write(lead.next)
    /\ lead' = [lead EXCEPT !.step = "ok", !.rv = Len(log) + 1]
    /\ UNCHANGED <<tampered, serving, follow>>

PassOk == lead.step = "ok" /\ PassInstalls(lead.next)

(* The ways in which an image comes to be served. *)
FetchesImage(f) ==
    /\ serving.record # None
    /\ FollowFetched(f) /\ serving'.image = ImageOf(serving.record)

PassRestores ==
    /\ PassUnchanged
    /\ serving'.record # None /\ serving'.image = ImageOf(serving'.record)

-----------------------------------------------------------------------------
Capped(age) == IF age < Freshness THEN age + 1 ELSE age

(* Time passes, but no call is out for longer than its deadline. *)
Tick ==
    /\ \A f \in Followers : follow[f].step \in {"sent", "read"} => follow[f].age < Timeout
    /\ lead.step \in {"sent", "read", "put", "ok"} => lead.age < Timeout
    /\ lead.step = "checked" => lead.age < 2 * Timeout
    /\ log' = [i \in DOMAIN log |->
                  IF i = Len(log) THEN log[i] ELSE [log[i] EXCEPT !.gone = Capped(@)]]
    /\ serving' = [serving EXCEPT !.confirmed = Capped(@)]
    /\ follow' = [f \in Followers |->
                     IF follow[f].step \in {"sent", "read"}
                     THEN [follow[f] EXCEPT !.age = @ + 1] ELSE follow[f]]
    /\ lead' = IF lead.step \in {"off", "idle"} THEN lead ELSE [lead EXCEPT !.age = @ + 1]
    /\ UNCHANGED tampered

Follower(f) ==
    \/ FollowStart(f) \/ FollowServed(f) \/ FollowFailed(f)
    \/ FollowEmpty(f) \/ FollowRecord(f) \/ FollowFetched(f)

Pass ==
    \/ PassStart \/ PassServed \/ PassFailed \/ PassRead \/ PassFenced
    \/ PassUnchanged \/ PassPut \/ PassLands \/ PassOk

Next ==
    \/ Commit \/ Restore
    \/ \E f \in Followers : Follower(f)
    \/ LeadStart \/ LeadEnds \/ Pass
    \/ Tick

Spec == Init /\ [][Next]_vars

(* The follower's loop never stops, and its timeouts keep it from waiting for
   ever.  The API server and the primary that serves the image answer in the end
   if they are asked again and again, and the watches of a primary's term are in
   sync again and again. *)
Fairness ==
    /\ \A f \in Followers :
          /\ WF_vars(FollowStart(f))
          /\ SF_vars(FollowServed(f))
          /\ SF_vars(FollowEmpty(f) \/ FollowRecord(f))
          /\ WF_vars(FollowFailed(f))
          /\ SF_vars(FetchesImage(f))
    /\ WF_vars(PassStart) /\ WF_vars(PassFailed)
    /\ SF_vars(PassServed)
    /\ SF_vars(PassRead)
    /\ SF_vars(PassRestores)

FairSpec == Spec /\ Fairness

-----------------------------------------------------------------------------
(* Properties *)

(* shared.rs says of the high water mark: "Never cleared, also not by
   fail_closed, so a rolled back or wiped Secret is refused for the life of the
   process."  Whatever is restored, read late or committed meanwhile, the
   process never accepts a record that rolls back one it accepted before. *)
HighWaterRises ==
    [][serving.high # None => serving'.high # None /\ CheckMonotonic(serving.high, serving'.high)]_vars

(* limits.rs: "Committed state older than this, by local clock, is not served."
   A record that is still taken as confirmed was the Secret's record not longer
   ago than its confirmation, however long the answer took. *)
BoundedStaleness ==
    serving.record # None /\ serving.confirmed < Freshness =>
        log[serving.at].gone <= serving.confirmed

(* The bundle that is handed to nodes is the one of the record that is served. *)
BundleMatches == serving.record # None => serving.bundle = BundleOf(serving.record)

Closes(f) == FollowEmpty(f) \/ FollowRecord(f)

(* step::seat::superseded: "It is dropped instead of failing closed".  As long as
   nobody tampers with the Secret, a follower does not fail closed over a read
   of an older publication than its process accepted during the read. *)
PublicationsNeverClose ==
    [][\A f \in Followers :
          LET record == log[follow[f].rv].record
          IN  Closes(f) /\ ~tampered /\ record # None /\ serving.record # None
                /\ serving'.record = None => record.sequence = serving.high.sequence]_vars

(* Ready, but for the seat Lease and the seat's own root. *)
Ready ==
    /\ serving.record # None /\ serving.confirmed < Freshness
    /\ serving.image = ImageOf(serving.record)
    /\ serving.bundle # None

(* The same rule as it is stated, for every commit: a ready seat does not fail
   closed over a read that was overtaken. *)
CommitsNeverClose ==
    [][\A f \in Followers :
          FollowRecord(f) /\ ~tampered /\ Ready => serving'.record # None]_vars

(* A process whose Secret holds a publication and keys, and is not tampered
   with, is ready again and again, whatever made it fail closed: as a follower
   or, if it keeps its terms, as primary. *)
Recovers ==
    <>[](lead.step = "off") \/ <>[](lead.step # "off") =>
        ~<>[](/\ ~tampered /\ ~Ready
              /\ Secret # None /\ Secret.sequence # 0 /\ Secret.generation # 0)
=============================================================================
