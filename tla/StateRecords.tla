---------------------------- MODULE StateRecords ----------------------------
(***************************************************************************)
(* The records of the racer-state Secret (authority/state.rs) and the pure *)
(* rules on them: which record may follow which, and how a pass of the     *)
(* primary derives the next one.                                           *)
(*                                                                         *)
(* A record carries the term that stamped it, the publication counters     *)
(* with the content they name, and the keyring generation with the keys it *)
(* names.  Hashes are what they are hashes of.  Content is a pair of the   *)
(* membership and the rest of the publication (caches and pools).          *)
(***************************************************************************)
EXTENDS Naturals

CONSTANTS
    Processes,   \* control processes
    Memberships, \* values of a publication's membership
    Rests,       \* values of the rest of a publication
    Keyrings,    \* values of the keyring's keys and roots
    None         \* no holder, content, keys or record

Contents == [members : Memberships, rest : Rests]

Terms == [uid : Nat, transitions : Nat, holder : Processes \cup {None}]

(* version is membership_version. *)
StateRecord ==
    [term : Terms, sequence : Nat, content : Contents \cup {None},
     version : Nat, members : Memberships \cup {None},
     generation : Nat, keyring : Keyrings \cup {None}]

(* The record plan_pass starts from when none is committed. *)
Empty ==
    [term |-> [uid |-> 0, transitions |-> 0, holder |-> None],
     sequence |-> 0, content |-> None, version |-> 0, members |-> None,
     generation |-> 0, keyring |-> None]

(* state::check_monotonic *)
CheckMonotonic(prev, next) ==
    /\ next.sequence >= prev.sequence
    /\ next.version >= prev.version
    /\ next.generation >= prev.generation
    /\ next.sequence = prev.sequence => next.content = prev.content
    /\ next.version = prev.version => next.members = prev.members

(* publication::prepare: changed content takes the next sequence, and changed
   membership also takes the next version. *)
Prepare(prev, content) ==
    [prev EXCEPT !.sequence = IF prev.content # content THEN @ + 1 ELSE @,
                 !.content = content,
                 !.version = IF prev.members # content.members THEN @ + 1 ELSE @,
                 !.members = content.members]

(* Mutant: new keys keep the generation. *)
RekeyKeepsGeneration(prev, keyring) == [prev EXCEPT !.keyring = keyring]

(* keyring::plan_with: a changed bundle takes the next generation. *)
Rekey(prev, keyring) ==
    [prev EXCEPT !.generation = IF prev.keyring # keyring THEN @ + 1 ELSE @,
                 !.keyring = keyring]

(* What plan_pass may make of a record.  Without a full observation of the
   cluster the committed publication is kept; without a catalog, the keys. *)
Revisions(base) ==
    LET keyed == {base} \cup {Rekey(base, k) : k \in Keyrings}
    IN  keyed \cup {Prepare(r, c) : r \in keyed, c \in Contents}
=============================================================================
