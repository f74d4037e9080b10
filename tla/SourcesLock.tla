------------------------- MODULE SourcesLock -------------------------
(***************************************************************************)
(* The lock of source artifacts (airgap/sources.lock.yaml, parsed and       *)
(* validated in airgap_bundle.py).  Every command is given a lock file, from  *)
(* the checkout of its side of the air gap, and reads it once.              *)
(***************************************************************************)
EXTENDS Naturals, Sequences, FiniteSets

CONSTANTS
  EntryOrder, \* names of the artifacts of the compatibility set, sorted
  Hashes,    \* hashes of artifact contents; a content stands for its hash
  Locks,     \* the lock files that commands can be given
  Budgets,   \* how often each event may happen, one function per scenario
  Missing,   \* an absent file or an absent field
  None       \* nothing running, no plan, no verdict

Entries == {EntryOrder[i] : i \in DOMAIN EntryOrder}

LockEntries ==
  [image: BOOLEAN,
   sha256: Hashes \cup {Missing},
   digest: Hashes \cup {Missing},   \* the field ociDigest
   source: Hashes \cup {Missing},   \* the digest that the canonical source pins
   target: Hashes \cup {Missing},   \* the digest that the destination pins
   inside: BOOLEAN,   \* the destination is in the private registry, or bundle
   destination: STRING]

ASSUME LockAssumption ==
  /\ Locks \subseteq [Entries -> LockEntries]
  /\ EntryOrder \in Seq(Entries)
  /\ None \notin Locks
  /\ \A budget \in Budgets : \A event \in DOMAIN budget : budget[event] \in Nat

VARIABLE
  left  \* what is left of the scenario's budget

Spend(event) == /\ left[event] > 0
                /\ left' = [left EXCEPT ![event] = @ - 1]

\* What is fetched is checked against: the sha256 of a file, by the bundle;
\* the digest in the source of an image, by the tool that copies it.  Nothing
\* is ever checked against the field ociDigest, which is only written down.
Pinned(entry) == IF entry.image THEN entry.source ELSE entry.sha256

Images(lock) == {e \in Entries : lock[e].image}

\* The name of an image in the private registry, which ends with a digest.
Destination(entry) == <<entry.destination, entry.target>>

\* A slip: an image needs a hash as every other artifact, and no pins.
ValidEntryAnyHash(entry) ==
  /\ entry.sha256 # Missing \/ entry.digest # Missing
  /\ entry.inside

\* _validate_entry: source and destination of an image have to pin a digest,
\* any digest, and to have no mutable tag, which counts as no pin here; the
\* shape of hashes, and license and provenance texts, are abstracted.
ValidEntry(entry) ==
  /\ entry.sha256 # Missing \/ entry.digest # Missing
  /\ entry.inside
  /\ entry.image =>
       /\ entry.digest # Missing
       /\ entry.source # Missing /\ entry.target # Missing

\* validate_source_lock, for a compatibility set with all its entries.
ValidLock(lock) ==
  /\ \A d, e \in Entries : Destination(lock[d]) = Destination(lock[e]) => d = e
  /\ \A e \in Entries : ValidEntry(lock[e])

\* The lock files that a command accepts, of those it can be given.
ValidLocks == {lock \in Locks : ValidLock(lock)}

=============================================================================
