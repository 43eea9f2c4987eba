# TLA+ models of Unbounded: the Racer control plane

This directory holds TLA+ specifications of parts of this repository, TLC
configurations that check them on small instances, and proofs that TLAPS checks
for every instance. The core is the control plane of Racer
(`cmd/racer/cluster-control`), the distributed read-through cache: the part of
the repository in which several processes agree on something through an
unreliable network and local clocks. The other parts are listed below with what
is planned for them.

`PROJECT.json` maps every definition to the source lines it models and lists the
runs, the mutants each property is known to catch, the hazards and the theorems.

## How to run

    tlc -workers 2 -config MCPrimaryElection.cfg MCPrimaryElection
    tlapm PrimaryElectionProofs.tla

Every run of the table below finishes within three minutes on two cores. The
proofs take about a quarter of an hour from nothing.

## The system

### The control plane

Every Racer Pod runs the control-plane code. Its durable state is Kubernetes
objects only:

| Object | Content | Written by |
| --- | --- | --- |
| seat Leases `racer-seat-N` | who serves as seat N, with its addresses, certificate and issuer root | the Pod that holds the seat |
| primary Lease | which seat holder is primary, and what it tells every Pod | contenders and the primary |
| Secret `racer-state` | one *state record*: the term that wrote it, publication counters with content hashes, the keyring | the primary |
| webhook configuration, EndpointSlice | trust roots and addresses of the admission webhook | the primary |

The tasks of one process share one thread and interleave at awaits:

| Task | State | Operations |
| --- | --- | --- |
| `seat::lottery`, `seat_task` | the seat, its Lease authority, issuer and pending issuer | claim, renew, rotate, drain, release |
| `primary::contend`, `lead`, `renew` | the observed Lease version and since when, the term, the cached Lease object, its authority, `alive` | observe, claim, renew, observe after a conflict, give up, release |
| `primary::reconcile` | the writer (term, fenced), the pass | read the Secret, read the live Lease, plan, PUT, install |
| `seat::follower` | `Shared.serving`: record, confirmation time, image, bundle, high water mark | read, drop as superseded, install, fetch the image, fail closed |
| server | caches of authorizations | serve image and bundle while `Shared::ready` |

Interactions: a seat holder contends for the primary Lease; the term it wins
stamps the records it commits; every seat reads the records and serves from
them; a seat serves only while its Lease and its state are both fresh by its own
clock.

What makes it hard:

* A request is sent, applied and answered at three different times. A client
  that stopped waiting does not know whether its PUT landed, or will. The HTTP
  client repeats a PUT once on a broken connection, so a PUT that landed may be
  answered by a conflict.
* Authority is a local clock. It must end before anybody else may take over.
* An operator can delete and recreate the Lease, which restarts its transitions,
  and can restore or wipe the Secret.
* Two tasks of one process install records from reads and writes of different
  age.
* A process may crash anywhere.

What must hold: one fresh primary per Lease object; a term names one writer;
no writer of an older term takes the record back; the primary of the current
term is never fenced; a counter never names two contents; no process accepts a
rollback; what is served was current not longer ago than it claims; and a
primary, a commit and a serving seat come about in the end.

### The other parts

| Part | What it does | Plan |
| --- | --- | --- |
| Racer control-plane client (`controlplane`) | long polls, publication cell, worker rollout barrier | `Rollout`, `Published`, `ControlFeed` |
| Racer decision core (`core`) | read budgets, page flights, subscriptions, peer silence | `ReadBudget`, `Subscriptions`, `PageFlights` |
| Racer flow control (`flow`) | quotas, circuits, cohorts | `Cohorts` |
| Racer storage (`alloc`, `src/store`) | segments, checkpoints | `Checkpoints` |
| Racer topology, wire formats, crypto, HTTP | pure functions | operators for placement; the rest is encoding |
| Racer runtime, verbs, gpu | io_uring, RDMA, CUDA drivers | none: the behaviour is the kernel's and the device's |
| Gantry (`internal/gantry`) | image distribution: Lease chairs, cold start, negative cache | `Chairs`, `ColdStart` |
| Orca (`internal/orca`) | chunk cache with rendezvous coordinators | `ChunkFill` |
| unbounded-net (`internal/net`) | pod CIDR allocation, IPAM, routes, eBPF | `PodCidrs`; routes and eBPF are kernel state |
| operator, metalman, machina, machine operations, agent, CLI | reconcilers, host set-up and tools | after the above |

## The modules

### LeaseTerms (abstract)

What the primary Lease promises: a succession of terms (Lease UID, transition).
A claim takes the next transition, a release keeps it, and a recreated Lease has
a new UID and starts again. There are no clocks and no requests.

### PrimaryElection

`primary::contend`, the use of the Lease by `primary::lead`, and
`primary::renew`. A contender is one tenancy of a seat by one process.

* State: the Lease and its versions; `orphans`, the PUTs nobody waits for; and
  for each contender the phase of its task, its `Observer`, its own PUT, and the
  fields of `Term_` with the renew task.
* Actions: one per step between two awaits. A PUT is sent in one action
  (`Observe`, `Renew`, `TermEnds`), applied or refused by the API server in
  another (`Land...`, `Refuse...`) and handled in a third (`ClaimOk`, `RenewOk`,
  `RenewConflict`, ...). `ClaimFailed`, `RenewFailed` and `ReleaseEnds` give up
  at any time and leave the PUT behind.
* Time: timers are relative and `Tick` advances them together. A timer stops
  where no rule tells its values apart.
* Left out: holder keys are contenders, annotations are not modelled, and
  `Fenced` (a pass that ends the term) may happen at any time.

It implements LeaseTerms, with the version dropped from the Lease.

### StateRecords, StateLog (abstract), StateSecret

StateRecords has the state record and the pure rules on it: `check_monotonic`,
`publication::prepare` and the generation rule of `keyring::plan_with`. A hash
is what it is a hash of. StateLog is what the Secret promises: each record may
follow the one before.

StateSecret is `primary::reconcile` on the Secret. It uses LeaseTerms for the
terms, so no argument depends on clocks: a writer may act arbitrarily long after
its term was succeeded. A pass reads the record, then the live Lease if the
record is of another one, is fenced or plans, and PUTs at the version it read.
What a pass plans is any of `Revisions`: this covers every observation of the
cluster. It implements StateLog.

### Serving

`Shared.serving` of one process, as its followers and its primary task install
records. The Secret is a log of versions; others commit to it at any time, and
an operator may restore or wipe it (`Tampering`). A read is started, served and
handled in three steps. `Ready` is `Shared::ready` without the seat Lease and the
seat's own root. Passes stamp no terms here (that is StateSecret's matter) and
may be fenced at any time.

## What the runs show

| Run | Question | Bounds |
| --- | --- | --- |
| `election` | Is fresh authority real and exclusive; are terms unique; is the Lease a succession of terms? | 2 contenders, 4 versions, 2 Lease objects, freshness = duration = 2 |
| `election_live` | Does a Lease nobody is fresh on find a primary? | 2 contenders, 3 versions, 1 object |
| `fencing` | Does the record's term ever go back; is the current primary ever fenced? | 2 processes, 2 Lease objects with 2 terms each, 4 versions, 1 abandoned PUT |
| `counters` | Can a counter name two contents? | 2 processes, 2 memberships, 2 rests, 1 keyring, 3 versions |
| `commit_live` | Does the current primary commit? | 2 processes, 2 Lease objects with 1 term each |
| `staleness` | Is confirmed state as young as it claims; are overtaken reads dropped? | 1 follower, calls of up to 1 tick, freshness 3 |
| `rollback` | Is a restored Secret refused, and does the bundle match the record? | 2 followers, 2 keyrings, 4 versions |
| `recovery` | Does a seat that failed closed serve again? | 1 follower, 3 versions |
| `overtaken_reads` | Does a ready seat fail closed over its own primary's commit? (violated) | 1 follower, 2 keyrings, 3 versions |

Why the bounds are enough. The races need an old holder, a new one, a write
that lands late and one more version for it to collide with: two processes and
three or four versions. Two Lease objects are needed to compare a large
transition of the old one with a small one of the new. Freshness equal to the
duration is the tightest case the proofs allow; the code has a margin. In
`staleness` freshness 3 with calls of 1 tick is the smallest instance of "twice
a call is less than the freshness". The bounds are constants in the guards:
`MaxRv`, `MaxUid`, `MaxTransitions`, `MaxOrphans`. Past `MaxOrphans` an
abandoned PUT is lost, which is one of its possible fates.

Symmetry is declared for sets of interchangeable model values, and only for
runs without liveness.

Deadlock is checked in the election and serving runs. In the StateSecret runs it
is not: every process may be gone with the Lease deleted for good, and then
nothing happens any more.

### The disagreement found

`step::seat::superseded` is documented to drop a follower's read when "another
installer (the primary's own commit) raised the high water mark past it while
the read was in flight". It compares the publication sequence only. A commit
that changes the keyring alone raises the generation and not the sequence; a
read overtaken by it is refused by `check_monotonic`, and the seat stops serving
until the next read. `overtaken_reads` shows it: a follower's read is served,
the process's own primary commits new keys, the read is handled.
`PublicationsNeverClose` is what does hold, and `Recovers` shows that the seat
comes back.

## Fairness

* PrimaryElection: clocks advance, and every await of a task is bounded
  (`API_TIMEOUT`, `LEASE_RENEW`, or a sleep), which is weak fairness of the task's
  steps. Of a task that keeps sending claims the API server applies one in the
  end: strong fairness of `LandRequest`.
* StateSecret: the same for passes, with strong fairness of the live Lease read
  and of the PUT.
* Serving: the follower's loop and its timeouts (weak); the API server and the
  primary that serves the image answer in the end if asked again and again
  (strong). Commits, terms and tampering are never forced. `Recovers` speaks
  about processes whose role settles.

## What is proved

`PrimaryElectionProofs` proves, for every set of contenders, every duration,
every freshness that does not exceed it and every bound:

* `TypeCorrect`: `Spec => []TypeOK`
* `FreshAuthority`: `Spec => []FreshMeansHeld`
* `NoOverlap`: `Spec => []OneFreshPrimary`
* `ImplementsLeaseTerms`: `Spec => RefinesLeaseTerms`

They rest on the assumptions `TimesAssumption` (freshness at most the duration),
`NoneAssumption` and `BoundsAssumption`.

The argument. Neither property is inductive: a claim on the wire may take the
Lease from a fresh holder unless we know why it was sent. The invariant `IInv`
says

* `Versions`: whatever a task has read or been told is genuine: at the current
  version it is the current object;
* `Phased`: a request belongs to the phase that sent it;
* `Authorities`: who has r ticks of authority left holds the Lease, and nobody
  has watched its current version for longer than `Freshness - r` ticks. This is
  where the local clocks meet: a watcher's clock starts at or after the write
  it watches, and authority starts before it;
* `Puts`, `Orphans`: a PUT that can still land either rewrites the spec it finds
  or takes the Lease when nobody has, or is about to be told of, authority. A
  claim is sent only after a whole duration of watching, by which time
  `Authorities` leaves no authority.

`Inductive` proves `Spec => []IInv`: one lemma per action, with `LocalStep` for
the actions that leave the Lease alone and `LandingKeepsOthers` for the PUTs
that land. `FreshAuthority` follows at once. `NoOverlap` needs one more fact for
the Lease objects that are gone: of every object, at most one contender has, or
will be told of, authority (`Exclusive`, which `IInv` makes inductive). The refinement
needs `Puts` and `Orphans`, which say that a PUT that lands is a renewal (a
stutter), a claim of the next term, or a release.

Only model-checked: `TermsUnique`; everything about StateSecret and Serving; and
all liveness, which is beyond the prover.

## Not modelled

Annotations, addresses, certificates and TLS; the derivation of memberships and
caches from Kubernetes objects (commits choose freely among the results);
encoding and sizes of records; the seat Leases (a seat may be lost at any time);
wake-ups (tasks may run at any time); a process whose old term is still in a
pass while its next one runs. Everything outside the control plane.

## Plan

1. Model: `SeatLottery` (seat Leases, followers and contenders of one process
   over several tenancies), `Keyring` (prepared and active keys, roots that
   retire), `WebhookTrust`, `AuthCache`; a composition of PrimaryElection,
   StateSecret and Serving in which terms, commits and serving share clocks.
2. Model: `Rollout`, `Published`, `ControlFeed`; `ReadBudget`, `Subscriptions`,
   `PageFlights`, `Cohorts`, `Checkpoints`; `Chairs`, `ColdStart`, `ChunkFill`,
   `PodCidrs`. Each with an abstract promise where it has one, runs of two or
   three actors, and the hazards of `PROJECT.json`.
3. Prove: `RefinesStateLog` and `LiveNeverFenced` (snapshots are genuine; the
   record's term is at most the newest; a live read equal to the own UID means
   the record's Lease is gone), `HighWaterRises`, `BundleMatches` and
   `BoundedStaleness` of Serving, `TermsUnique`; then conservation of credits in
   `ReadBudget` and the barrier of `Rollout`.
