------------------------- MODULE AirgapBundle -------------------------
(***************************************************************************)
(* The air-gap bundle (airgap_bundle.py): build_bundle on the connected     *)
(* side writes a directory of files, some medium carries them over, and     *)
(* verify_bundle decides on the disconnected side.                          *)
(*                                                                         *)
(* A build works file by file and may fail or be killed between two; files  *)
(* are copied one by one, on top of what was copied before, also while the  *)
(* next build is writing; on the way, files are lost or damaged.  A file is *)
(* [doc, rev] as its program reads it: rev 1 is a change of its bytes that  *)
(* it does not notice, and the hash of a file is the whole record.          *)
(***************************************************************************)
EXTENDS SourcesLock, SequencesExt

CONSTANTS
  Modes,     \* payload modes used, of "descriptor" and "fetch"
  PartCount, \* parts that a blob is split into
  CopyOrders \* the orders in which a medium copies files

VARIABLES
  dist,     \* the bundle directory on the connected side
  arrived,  \* the bundle directory on the disconnected side
  build,    \* the build that is running
  copying,  \* the files still to be copied, by their place in the order
  verdict,  \* the lock under which verify_bundle passed for arrived as it is
  restored  \* the output file of reassemble_parts, and whether it returned

bundleVars == <<dist, arrived, build, copying, verdict, restored>>

Blob == <<"bundle.blob">>
Report == <<"build-report.json">>
ChecksumFile == <<"checksums.sha256">>
InventoryFile == <<"inventory.json">>
PartList == <<"parts.json">>

PartFiles == [i \in 1..PartCount |-> <<"part", i>>]
PayloadFiles(mode) ==
  [i \in DOMAIN EntryOrder |-> <<"payload", mode, EntryOrder[i]>>]

InSeq(s) == {s[i] : i \in DOMAIN s}

Files == {Blob, Report, ChecksumFile, InventoryFile, PartList}
         \cup InSeq(PartFiles) \cup UNION {InSeq(PayloadFiles(m)) : m \in Modes}

Says(doc) == [doc |-> doc, rev |-> 0]

\* What an interrupted write leaves.
Torn == [doc |-> Missing, rev |-> 1]

-----------------------------------------------------------------------------
(* The contents of the files.                                               *)

\* What is in a payload: an artifact, by its hash, or the description of one,
\* which is its entry of the lock.
Payload(mode, what) == <<mode, what>>

Payloads(files, mode) == [e \in Entries |-> files[<<"payload", mode, e>>]]

Inventory(lock, mode, files) ==
  [lock |-> lock, mode |-> mode, sums |-> Payloads(files, mode)]

\* _write_checksum_file: the inventory and every payload.
Checksums(files, mode) ==
  [inventory |-> files[InventoryFile], payloads |-> Payloads(files, mode)]

Parts(files) == [complete |-> files[Blob],
                 parts |-> [i \in 1..PartCount |-> files[PartFiles[i]]]]

\* The contents of the file f, as a build that comes to write it can make them.
Contents(docs) == [doc: docs, rev: {0}]
PayloadDocs == ({"fetch"} \X Hashes) \cup ({"descriptor"} \X LockEntries)
BlobDocs == [Entries -> Contents(PayloadDocs)]
InventoryDocs == [lock: ValidLocks, mode: Modes, sums: BlobDocs]
ChecksumDocs == [inventory: Contents(InventoryDocs), payloads: BlobDocs]
PartDocs == (1..PartCount) \X Contents(BlobDocs)
PartListDocs == [complete: Contents(BlobDocs),
                 parts: [1..PartCount -> Contents(PartDocs)]]

Docs(f) ==
  CASE f[1] = "payload" -> PayloadDocs
    [] f = InventoryFile -> InventoryDocs
    [] f = ChecksumFile  -> ChecksumDocs
    [] f = Blob          -> BlobDocs
    [] f[1] = "part"     -> PartDocs
    [] f = PartList      -> PartListDocs
    [] f = Report        -> {"built"}

\* What a file may hold on the way: its contents or a part of them, damaged
\* or not.
Carried(f) == [doc: Docs(f) \cup {Missing}, rev: {0, 1}]

ASSUME BundleAssumption ==
  /\ Modes \subseteq {"descriptor", "fetch"}
  /\ PartCount \in Nat
  /\ CopyOrders \subseteq Seq(Files)
  /\ \A f \in Files : Missing \notin Docs(f) \cup Carried(f)

\* A slip: what is fetched is not compared with the lock.
FetchedUnchecked(entry) == Hashes

\* What _fetch_payload lets through: a file with the sha256 of the lock, or
\* any file if the lock has none; the image that its source pins.
Fetched(entry) == IF Pinned(entry) # Missing THEN {Pinned(entry)} ELSE Hashes

\* The payload of an entry, as build_bundle may write it.
PayloadsFor(entry, mode) ==
  IF mode = "fetch" THEN {Payload(mode, h) : h \in Fetched(entry)}
                    ELSE {Payload(mode, entry)}

\* What the running build may write into the file f.
DocsFor(f) ==
  CASE f[1] = "payload" -> PayloadsFor(build.lock[f[3]], build.mode)
    [] f = InventoryFile -> {Inventory(build.lock, build.mode, dist)}
    [] f = ChecksumFile  -> {Checksums(dist, build.mode)}
    [] f = Blob          -> {Payloads(dist, build.mode)}
    [] f[1] = "part"     -> {<<f[2], dist[Blob]>>}
    [] f = PartList      -> {Parts(dist)}
    [] f = Report        -> {"built"}

-----------------------------------------------------------------------------
(* build_bundle.                                                            *)

\* _clear_previous_bundle_files: the named files one after the other, then
\* what is in payloads, then what is in parts, as the directory lists it.
ClearRank(f) == CASE f = Blob          -> 1
                  [] f = Report        -> 2
                  [] f = ChecksumFile  -> 3
                  [] f = InventoryFile -> 4
                  [] f[1] = "payload"  -> 5
                  [] OTHER             -> 6

\* A slip: the report is written before the parts are.
WriteOrderReportEarly(mode, split) ==
  PayloadFiles(mode) \o <<InventoryFile, ChecksumFile, Blob, Report>>
  \o IF split THEN PartFiles \o <<PartList>> ELSE <<>>

\* The order of build_bundle and, for the parts, of split_file.
WriteOrder(mode, split) ==
  PayloadFiles(mode) \o <<InventoryFile, ChecksumFile, Blob>>
  \o (IF split THEN PartFiles \o <<PartList>> ELSE <<>>)
  \o <<Report>>

ConnectedOnly == UNCHANGED <<arrived, copying, verdict, restored>>

\* The lock is read and validated once, before anything is touched.
StartBuild ==
  /\ build = None
  /\ DOMAIN copying # {} => left["overlap"] > 0
  /\ Spend("build")
  /\ \E lock \in ValidLocks, mode \in Modes, split \in BOOLEAN :
       build' = [lock |-> lock, mode |-> mode,
                 clear |-> {f \in Files : dist[f] # Missing},
                 write |-> WriteOrder(mode, split)]
  /\ UNCHANGED dist
  /\ ConnectedOnly

ClearFile ==
  /\ build # None
  /\ \E f \in build.clear :
       /\ \A g \in build.clear : ClearRank(f) <= ClearRank(g)
       /\ dist' = [dist EXCEPT ![f] = Missing]
       /\ build' = [build EXCEPT !.clear = @ \ {f}]
  /\ UNCHANGED left
  /\ ConnectedOnly

Writing == build # None /\ build.clear = {}

WriteFile ==
  /\ Writing
  /\ LET f == Head(build.write) IN
       \E doc \in DocsFor(f) : dist' = [dist EXCEPT ![f] = Says(doc)]
  /\ build' = IF Tail(build.write) = <<>>
              THEN None ELSE [build EXCEPT !.write = Tail(@)]
  /\ UNCHANGED left
  /\ ConnectedOnly

\* A fetch fails or does not match the lock, a write fails, or the process is
\* killed: the file at hand may be there in part, and nothing is undone.
StopBuild ==
  /\ build # None
  /\ Spend("stop")
  /\ build' = None
  /\ \/ UNCHANGED dist
     \/ Writing /\ dist' = [dist EXCEPT ![Head(build.write)] = Torn]
  /\ ConnectedOnly

-----------------------------------------------------------------------------
(* The transfer medium: nothing in the repository copies the directory.     *)

TransferOnly == UNCHANGED <<dist, build, restored>>

StartCopy ==
  /\ DOMAIN copying = {}
  /\ build # None => left["overlap"] > 0
  /\ Spend("copy")
  /\ \E order \in CopyOrders :
       copying' = Restrict(order, {i \in DOMAIN order : dist[order[i]] # Missing})
  /\ UNCHANGED <<arrived, verdict>>
  /\ TransferOnly

CopyFile ==
  /\ DOMAIN copying # {}
  /\ LET next == Min(DOMAIN copying)
         f == copying[next]
     IN  /\ arrived' = IF dist[f] = Missing THEN arrived
                                            ELSE [arrived EXCEPT ![f] = dist[f]]
         /\ copying' = Restrict(copying, DOMAIN copying \ {next})
  /\ verdict' = None
  /\ UNCHANGED left
  /\ TransferOnly

\* A file is damaged or lost on the way, or the rest of them is.
LoseFiles ==
  /\ Spend("damage")
  /\ \/ /\ DOMAIN copying # {}
        /\ copying' = <<>>
        /\ UNCHANGED arrived
     \/ /\ \E f \in Files :
             /\ arrived[f] # Missing
             /\ arrived' \in {[arrived EXCEPT ![f].rev = 1],
                              [arrived EXCEPT ![f] = Missing]}
        /\ UNCHANGED copying
  /\ verdict' = None
  /\ TransferOnly

-----------------------------------------------------------------------------
(* verify_bundle and reassemble_parts.                                      *)

\* The sets and digests of the inventory are those of the lock at hand.
InventoryMatches(files, lock) ==
  /\ files[InventoryFile] # Missing
  /\ files[InventoryFile].doc # Missing
  /\ files[InventoryFile].doc.lock = lock

\* Each payload is what the inventory says that was built.
PayloadsMatch(files) ==
  LET inventory == files[InventoryFile].doc IN
    \A e \in Entries : /\ files[<<"payload", inventory.mode, e>>] # Missing
                       /\ files[<<"payload", inventory.mode, e>>] = inventory.sums[e]

ChecksumsMatch(files) ==
  files[ChecksumFile] = Says(Checksums(files, files[InventoryFile].doc.mode))

\* The parts are those of the list, each by its hash.
PartsIntact(files) ==
  /\ files[PartList].doc # Missing
  /\ \A i \in 1..PartCount : /\ files[PartFiles[i]] # Missing
                             /\ files[PartFiles[i]] = files[PartList].doc.parts[i]

\* Parts are looked at if their list is there, the blob if it is there too.
PartsMatch(files) ==
  files[PartList] # Missing =>
    /\ PartsIntact(files)
    /\ files[Blob] # Missing => files[Blob] = files[PartList].doc.complete

Verifies(files, lock) ==
  /\ lock \in ValidLocks
  /\ InventoryMatches(files, lock)
  /\ PayloadsMatch(files)
  /\ ChecksumsMatch(files)
  /\ PartsMatch(files)

Verify ==
  /\ \E lock \in Locks :
       verdict' = IF Verifies(arrived, lock) THEN lock ELSE None
  /\ UNCHANGED <<dist, arrived, build, copying, restored, left>>

\* The blob that parts written one after the other make.
Joined(files) ==
  IF \E f \in {files[PartList].doc.complete} :
       \A i \in 1..PartCount : files[PartFiles[i]] = Says(<<i, f>>)
  THEN files[PartList].doc.complete
  ELSE Torn

\* A slip: the parts are joined as they are.
ReassembledUnchecked(files) ==
  [ok |-> files[PartList].doc # Missing /\ \A i \in 1..PartCount : files[PartFiles[i]] # Missing,
   content |-> IF files[PartList].doc = Missing THEN Torn ELSE Joined(files)]

\* Without its list nothing is written; the output file is opened at once, so
\* a refusal leaves it in part.
Reassembled(files) ==
  IF files[PartList].doc = Missing THEN restored
  ELSE LET matches == PartsIntact(files) /\ Joined(files) # Torn IN
         [ok |-> matches, content |-> IF matches THEN Joined(files) ELSE Torn]

Reassemble ==
  /\ arrived[PartList] # Missing
  /\ Spend("reassemble")
  /\ restored' = Reassembled(arrived)
  /\ UNCHANGED <<dist, arrived, build, copying, verdict>>

-----------------------------------------------------------------------------
BundleInit ==
  /\ dist = [f \in Files |-> Missing]
  /\ arrived = dist
  /\ build = None
  /\ copying = <<>>
  /\ verdict = None
  /\ restored = [ok |-> FALSE, content |-> Missing]

BundleNext ==
  \/ StartBuild \/ ClearFile \/ WriteFile \/ StopBuild
  \/ StartCopy \/ CopyFile \/ LoseFiles
  \/ Verify \/ Reassemble

\* Every file has contents of its own kind, or a part of them, or is missing,
\* and the programs at work know no other files.
BundleTypeOK ==
  /\ DOMAIN dist = Files /\ DOMAIN arrived = Files
  /\ \A f \in Files : /\ dist[f] \in Contents(Docs(f)) \cup {Missing, Torn}
                      /\ arrived[f] \in Carried(f) \cup {Missing}
  /\ InSeq(copying) \subseteq Files
  /\ build # None =>
       /\ build.lock \in ValidLocks /\ build.mode \in Modes
       /\ build.clear \subseteq Files /\ InSeq(build.write) \subseteq Files
       /\ build.write # <<>>
  /\ verdict \in ValidLocks \cup {None}
  /\ restored \in [ok: BOOLEAN, content: Contents(BlobDocs) \cup {Missing, Torn}]

-----------------------------------------------------------------------------
(* Properties.                                                              *)

\* The payload is what the entry of the lock asks for: the image that its
\* source pins, a file with its sha256, or the description of that entry.
IsLocked(payload, entry, mode) ==
  IF mode = "fetch"
  THEN Pinned(entry) # Missing => payload = Says(Payload(mode, Pinned(entry)))
  ELSE payload = Says(Payload(mode, entry))

\* The payloads are, for one mode, what the lock asks for.
Locked(payloads, lock) ==
  \E mode \in Modes : \A e \in Entries : IsLocked(payloads[e], lock[e], mode)

\* What is verified on the disconnected side is what its lock asks for: builds
\* that were stopped, copies that overtook a build or were put on top of an
\* older bundle, files damaged or lost on the way, and locks that differ never
\* come out as verified.  What a lock says in ociDigest is no part of it: an
\* image is the one that canonicalSource pins.
VerifiedIsLocked ==
  verdict # None =>
    \E mode \in Modes : Locked(Payloads(arrived, mode), verdict)

\* A bundle with a build report would pass the verification on the side that
\* built it, under the lock it was built from: a build that failed, was killed
\* or is going on over an earlier bundle never leaves a report beside files
\* that do not belong to it.
ReportMeansWhole ==
  dist[Report] = Says("built") =>
    /\ dist[InventoryFile] # Missing
    /\ Verifies(dist, dist[InventoryFile].doc.lock)

\* What reassemble_parts returns is one blob of one build, made of what one
\* lock asks for, whatever builds the parts that arrived come from.
RestoredIsOneBuild ==
  restored.ok => /\ restored.content # Torn
                 /\ \E lock \in ValidLocks : Locked(restored.content.doc, lock)

=============================================================================
