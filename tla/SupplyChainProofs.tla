------------------------- MODULE SupplyChainProofs -------------------------
(***************************************************************************)
(* Theorems about SupplyChain, for any locks, artifacts, numbers of parts,  *)
(* orders of copying and budgets: what is verified and what is restored on  *)
(* the disconnected side is what a lock asks for, and promoted images       *)
(* are in the registry.                                                     *)
(***************************************************************************)
EXTENDS SupplyChain, SequenceTheorems, TLAPS

-----------------------------------------------------------------------------
(* The inductive invariant.                                                 *)

\* Payloads of one mode, by entry, are what the lock asks for.
AsLocked(payloads, lock, mode) ==
  \A e \in Entries : IsLocked(payloads[e], lock[e], mode)

\* An inventory that can be read says what its own lock says.
TrueInventory(file) ==
  file # Missing /\ file.doc # Missing =>
    /\ file.doc.mode \in Modes
    /\ AsLocked(file.doc.sums, file.doc.lock, file.doc.mode)

\* The blob of one build.
OneBlob(file) == /\ file # Torn
                 /\ \E lock \in ValidLocks : Locked(file.doc, lock)

\* A list of parts that can be read belongs to the blob of one build.
TrueParts(file) ==
  file # Missing /\ file.doc # Missing => OneBlob(file.doc.complete)

\* A file that is there has contents, of which damage leaves the bits.
Readable(files) ==
  \A f \in Files : files[f] # Missing => "doc" \in DOMAIN files[f]

Honest(files) == /\ DOMAIN files = Files
                 /\ Readable(files)
                 /\ TrueInventory(files[InventoryFile])
                 /\ TrueParts(files[PartList])

\* The running build is at the file k of its order: the payloads before it are
\* as locked and, once it is written, so is the blob.
Reached(files, lock, mode, order, k) ==
  /\ \A i \in 1..Len(EntryOrder) :
       i < k => IsLocked(files[order[i]], lock[EntryOrder[i]], mode)
  /\ k > Len(EntryOrder) + 3 => OneBlob(files[Blob])

Progress(b, files) ==
  /\ DOMAIN b = {"lock", "mode", "clear", "write"}
  /\ b.lock \in ValidLocks
  /\ b.mode \in Modes
  /\ \E split \in BOOLEAN : \E k \in 1..Len(WriteOrder(b.mode, split)) :
       /\ b.write = SubSeq(WriteOrder(b.mode, split), k,
                           Len(WriteOrder(b.mode, split)))
       /\ b.clear # {} => k = 1
       /\ Reached(files, b.lock, b.mode, WriteOrder(b.mode, split), k)

IInv == /\ Honest(dist)
        /\ Honest(arrived)
        /\ build # None => Progress(build, dist)
        /\ VerifiedIsLocked
        /\ RestoredIsOneBuild

-----------------------------------------------------------------------------
(* The files.                                                               *)

LEMMA EntryOrderIsSeq ==
  /\ EntryOrder \in Seq(Entries)
  /\ DOMAIN EntryOrder = 1..Len(EntryOrder)
  /\ Len(EntryOrder) \in Nat
  /\ \A i \in 1..Len(EntryOrder) : EntryOrder[i] \in Entries
  /\ \A e \in Entries : \E i \in 1..Len(EntryOrder) : EntryOrder[i] = e
BY LockAssumption DEF LockAssumption, Entries

\* The names of the files differ.
LEMMA Names ==
  /\ Blob[1] = "bundle.blob" /\ Report[1] = "build-report.json"
  /\ ChecksumFile[1] = "checksums.sha256"
  /\ InventoryFile[1] = "inventory.json" /\ PartList[1] = "parts.json"
  /\ \A i \in 1..PartCount : PartFiles[i][1] = "part"
  /\ \A m, e : <<"payload", m, e>>[1] = "payload" /\ <<"payload", m, e>>[3] = e
BY DEF Blob, Report, ChecksumFile, InventoryFile, PartList, PartFiles

LEMMA PartFilesIsSeq ==
  /\ PartFiles \in Seq(InSeq(PartFiles))
  /\ DOMAIN PartFiles = 1..PartCount
  /\ Len(PartFiles) = PartCount
<1>1. PartCount \in Nat
  BY BundleAssumption DEF BundleAssumption
<1>2. DOMAIN PartFiles = 1..PartCount
  BY DEF PartFiles
<1>3. \A i \in 1..PartCount : PartFiles[i] \in InSeq(PartFiles)
  BY <1>2 DEF InSeq
<1>4. PartFiles = [i \in 1..PartCount |-> PartFiles[i]]
  BY DEF PartFiles
<1> QED BY <1>1, <1>2, <1>3, <1>4

LEMMA PayloadFilesIsSeq ==
  ASSUME NEW mode
  PROVE  /\ PayloadFiles(mode) \in Seq(InSeq(PayloadFiles(mode)))
         /\ Len(PayloadFiles(mode)) = Len(EntryOrder)
         /\ \A i \in 1..Len(EntryOrder) :
              PayloadFiles(mode)[i] = <<"payload", mode, EntryOrder[i]>>
<1> DEFINE s == PayloadFiles(mode)
<1>1. s = [i \in 1..Len(EntryOrder) |-> <<"payload", mode, EntryOrder[i]>>]
  BY EntryOrderIsSeq DEF PayloadFiles
<1>2. DOMAIN s = 1..Len(EntryOrder)
  BY <1>1
<1>3. \A i \in 1..Len(EntryOrder) : s[i] \in InSeq(s)
  BY <1>2 DEF InSeq
<1>4. \A i \in 1..Len(EntryOrder) : s[i] = <<"payload", mode, EntryOrder[i]>>
  BY <1>1
<1> HIDE DEF s
<1>5. s = [i \in 1..Len(EntryOrder) |-> s[i]]
  BY <1>1, <1>4
<1>6. s \in Seq(InSeq(s)) /\ Len(s) = Len(EntryOrder)
  BY <1>3, <1>5, EntryOrderIsSeq
<1> QED BY <1>4, <1>6 DEF s

\* build_bundle writes the payloads, the inventory, the checksums and the blob
\* in this order, and then other files.
LEMMA OrderOfFiles ==
  ASSUME NEW mode, NEW split \in BOOLEAN
  PROVE  LET order == WriteOrder(mode, split)
             n == Len(EntryOrder)
         IN  /\ order \in Seq(InSeq(PayloadFiles(mode)) \cup InSeq(PartFiles)
                              \cup {InventoryFile, ChecksumFile, Blob, PartList,
                                    Report})
             /\ n + 4 \in 1..Len(order)
             /\ \A i \in 1..n : order[i] = <<"payload", mode, EntryOrder[i]>>
             /\ order[n + 1] = InventoryFile
             /\ order[n + 2] = ChecksumFile
             /\ order[n + 3] = Blob
             /\ \A i \in (n + 4)..Len(order) :
                  order[i] \in InSeq(PartFiles) \cup {PartList, Report}
<1> DEFINE n == Len(EntryOrder)
           S == InSeq(PayloadFiles(mode)) \cup InSeq(PartFiles)
                \cup {InventoryFile, ChecksumFile, Blob, PartList, Report}
           T == InSeq(PartFiles) \cup {PartList, Report}
           head == PayloadFiles(mode)
           middle == <<InventoryFile, ChecksumFile, Blob>>
           parts == IF split THEN PartFiles \o <<PartList>> ELSE <<>>
           last == parts \o <<Report>>
           front == head \o middle
<1>1. WriteOrder(mode, split) = (front \o parts) \o <<Report>>
  BY DEF WriteOrder
<1>2. head \in Seq(S) /\ Len(head) = n /\ n \in Nat
      /\ \A i \in 1..n : head[i] = <<"payload", mode, EntryOrder[i]>>
  <2>1. head \in Seq(InSeq(head)) /\ InSeq(head) \subseteq S
    BY PayloadFilesIsSeq
  <2> QED BY <2>1, PayloadFilesIsSeq, EntryOrderIsSeq, SeqMonotonic
<1>3. middle \in Seq(S) /\ Len(middle) = 3
      /\ middle[1] = InventoryFile /\ middle[2] = ChecksumFile
      /\ middle[3] = Blob
  OBVIOUS
<1>4. last \in Seq(T) /\ Len(last) >= 1 /\ parts \in Seq(T)
  <2>1. PartFiles \in Seq(T)
    BY PartFilesIsSeq, SeqMonotonic
  <2>2. <<PartList>> \in Seq(T) /\ <<Report>> \in Seq(T) /\ <<>> \in Seq(T)
    OBVIOUS
  <2>3. parts \in Seq(T)
    BY <2>1, <2>2, ConcatProperties
  <2> HIDE DEF parts, T
  <2>4. last \in Seq(T) /\ Len(last) = Len(parts) + 1
    BY <2>2, <2>3, ConcatProperties
  <2>5. Len(parts) \in Nat
    BY <2>3
  <2> QED BY <2>3, <2>4, <2>5
<1>5. last \in Seq(S) /\ parts \in Seq(S) /\ <<Report>> \in Seq(S)
  BY <1>4, SeqMonotonic
<1> HIDE DEF head, middle, parts, S, T
<1>6. /\ front \in Seq(S) /\ Len(front) = n + 3
      /\ \A i \in 1..n + 3 : front[i] = IF i <= n THEN head[i] ELSE middle[i - n]
  <2>1. /\ head \o middle \in Seq(S)
        /\ Len(head \o middle) = Len(head) + Len(middle)
        /\ \A i \in 1..Len(head) + Len(middle) :
             (head \o middle)[i] = IF i <= Len(head) THEN head[i]
                                                     ELSE middle[i - Len(head)]
    <3>1. head \in Seq(S) /\ middle \in Seq(S)
      BY <1>2, <1>3
    <3> QED BY <3>1, ConcatProperties
  <2>2. Len(head) = n /\ Len(middle) = 3
    BY <1>2, <1>3
  <2> HIDE DEF n
  <2> QED BY <2>1, <2>2
<1> HIDE DEF front
<1>0. WriteOrder(mode, split) = front \o last
  BY <1>1, <1>5, <1>6, ConcatAssociative
<1> HIDE DEF last
<1>7. /\ front \o last \in Seq(S) /\ Len(front \o last) = n + 3 + Len(last)
      /\ \A i \in 1..n + 3 + Len(last) :
           (front \o last)[i] = IF i <= n + 3 THEN front[i] ELSE last[i - (n + 3)]
  <2>1. /\ front \o last \in Seq(S)
        /\ Len(front \o last) = Len(front) + Len(last)
        /\ \A i \in 1..Len(front) + Len(last) :
             (front \o last)[i] = IF i <= Len(front) THEN front[i]
                                                     ELSE last[i - Len(front)]
    BY <1>5, <1>6, ConcatProperties
  <2>2. Len(front) = n + 3
    BY <1>6
  <2> HIDE DEF n
  <2> QED BY <2>1, <2>2
<1>8. Len(last) \in Nat /\ \A i \in 1..Len(last) : last[i] \in T
  BY <1>4
<1> DEFINE order == front \o last
<1> HIDE DEF order
<1>9. order \in Seq(S) /\ n + 4 \in 1..Len(order)
  BY <1>2, <1>4, <1>7, <1>8 DEF order
<1>10. \A i \in 1..n : order[i] = <<"payload", mode, EntryOrder[i]>>
  BY <1>2, <1>6, <1>7, <1>8 DEF order
<1>11. order[n + 1] = InventoryFile /\ order[n + 2] = ChecksumFile
       /\ order[n + 3] = Blob
  <2>1. n + 1 \in 1..n + 3 /\ n + 2 \in 1..n + 3 /\ n + 3 \in 1..n + 3
        /\ ~(n + 1 <= n) /\ ~(n + 2 <= n) /\ ~(n + 3 <= n)
        /\ (n + 1) - n = 1 /\ (n + 2) - n = 2 /\ (n + 3) - n = 3
    BY <1>2
  <2>2. \A i \in 1..n + 3 : order[i] = front[i]
    BY <1>2, <1>7, <1>8 DEF order
  <2> QED BY <1>3, <1>6, <2>1, <2>2
<1>12. \A i \in (n + 4)..Len(order) : order[i] \in T
  BY <1>2, <1>7, <1>8 DEF order
<1> QED BY <1>0, <1>9, <1>10, <1>11, <1>12 DEF order, S, T

LEMMA NamesAreFiles ==
  /\ {Blob, Report, ChecksumFile, InventoryFile, PartList} \subseteq Files
  /\ InSeq(PartFiles) \subseteq Files
  /\ \A mode \in Modes, e \in Entries : <<"payload", mode, e>> \in Files
<1>1. ASSUME NEW mode \in Modes, NEW e \in Entries
      PROVE  <<"payload", mode, e>> \in Files
  <2>1. PICK i \in 1..Len(EntryOrder) : EntryOrder[i] = e
    BY EntryOrderIsSeq
  <2>2. PayloadFiles(mode)[i] = <<"payload", mode, e>>
        /\ DOMAIN PayloadFiles(mode) = 1..Len(EntryOrder)
    BY <2>1, PayloadFilesIsSeq
  <2>3. <<"payload", mode, e>> \in InSeq(PayloadFiles(mode))
    BY <2>2 DEF InSeq
  <2> QED BY <2>3 DEF Files
<1> QED BY <1>1 DEF Files

-----------------------------------------------------------------------------
(* The build.                                                               *)

\* One file of the build: whatever it is, what the inventory and the list of
\* parts say stays true, and the payloads written so far are as locked.
LEMMA Writes ==
  ASSUME Honest(dist), NEW lock, NEW mode \in Modes, NEW split \in BOOLEAN,
         build.lock = lock, lock \in ValidLocks, build.mode = mode,
         NEW k \in 1..Len(WriteOrder(mode, split)),
         Reached(dist, lock, mode, WriteOrder(mode, split), k),
         NEW doc \in DocsFor(WriteOrder(mode, split)[k]),
         dist' = [dist EXCEPT ![WriteOrder(mode, split)[k]] = Says(doc)]
  PROVE  /\ Honest(dist')
         /\ Reached(dist', lock, mode, WriteOrder(mode, split), k + 1)
<1> DEFINE order == WriteOrder(mode, split)
           n == Len(EntryOrder)
           f == order[k]
<1>1. /\ n \in Nat /\ k \in Nat /\ k \in 1..Len(order) /\ Len(order) \in Nat
      /\ n + 4 \in 1..Len(order)
      /\ \A i \in 1..n : order[i] = <<"payload", mode, EntryOrder[i]>>
      /\ order[n + 1] = InventoryFile
      /\ order[n + 2] = ChecksumFile
      /\ order[n + 3] = Blob
      /\ \A i \in (n + 4)..Len(order) :
           order[i] \in InSeq(PartFiles) \cup {PartList, Report}
  <2>1. order \in Seq(InSeq(PayloadFiles(mode)) \cup InSeq(PartFiles)
                      \cup {InventoryFile, ChecksumFile, Blob, PartList, Report})
    BY OrderOfFiles
  <2>2. Len(order) \in Nat
    BY <2>1, LenProperties
  <2>3. k \in Nat
    BY <2>2
  <2> QED BY <2>2, <2>3, EntryOrderIsSeq, OrderOfFiles
<1>2. /\ dist' = [dist EXCEPT ![f] = Says(doc)] /\ doc \in DocsFor(f)
      /\ DOMAIN dist = Files /\ DOMAIN dist' = Files
      /\ Reached(dist, lock, mode, order, k)
  BY DEF Honest
<1> HIDE DEF order
<1>3. /\ \A g \in Files : g # f => dist'[g] = dist[g]
      /\ f \in Files => dist'[f] = Says(doc)
  BY <1>2
<1>4. /\ InventoryFile \in Files /\ PartList \in Files /\ Blob \in Files
      /\ \A i \in 1..n : order[i] \in Files
  BY <1>1, NamesAreFiles, EntryOrderIsSeq
<1>0. Readable(dist')
  <2>1. "doc" \in DOMAIN Says(doc)
    BY DEF Says
  <2>2. \A g \in Files : dist[g] # Missing => "doc" \in DOMAIN dist[g]
    BY DEF Honest, Readable
  <2> HIDE DEF f
  <2>3. ASSUME NEW g \in Files, dist'[g] # Missing
        PROVE  "doc" \in DOMAIN dist'[g]
    BY <1>3, <2>1, <2>2, <2>3
  <2> QED BY <2>3 DEF Readable
<1>5. CASE k <= n
  <2>0. k \in 1..n /\ f = <<"payload", mode, EntryOrder[k]>>
    <3>1. k \in 1..n
      BY <1>1, <1>5
    <3> QED BY <1>1, <3>1
  <2>1. f = <<"payload", mode, EntryOrder[k]>> /\ f[1] = "payload"
        /\ f[3] = EntryOrder[k]
    BY <2>0, Names
  <2>2. f # InventoryFile /\ f # PartList
    BY <2>1, Names
  <2>3. Honest(dist')
    BY <1>0, <1>2, <1>3, <1>4, <2>2 DEF Honest
  <2>4. IsLocked(dist'[f], lock[EntryOrder[k]], mode)
    <3>1. doc \in PayloadsFor(lock[EntryOrder[k]], mode)
      <4>1. /\ f # InventoryFile /\ f # ChecksumFile /\ f # Blob
            /\ f # PartList /\ f # Report /\ f[1] # "part"
        BY <2>1, Names
      <4>2. doc \in PayloadsFor(build.lock[f[3]], build.mode)
        <5> HIDE DEF f
        <5> QED BY <1>2, <2>1, <4>1 DEF DocsFor
      <4> QED BY <2>1, <4>2
    <3>2. IsLocked(Says(doc), lock[EntryOrder[k]], mode)
      BY <3>1 DEF PayloadsFor, Fetched, IsLocked
    <3> QED BY <2>0, <1>1, <1>3, <1>4, <3>2
  <2>5. ASSUME NEW i \in 1..n, i < k + 1
        PROVE  IsLocked(dist'[order[i]], lock[EntryOrder[i]], mode)
    <3>1. CASE order[i] = f
      <4>1. EntryOrder[i] = EntryOrder[k]
        BY <1>1, <2>1, <3>1, Names
      <4> QED BY <2>4, <2>5, <3>1, <4>1
    <3>2. CASE order[i] # f
      <4>1. i < k
        BY <1>1, <2>5, <3>2
      <4> QED BY <1>2, <1>3, <1>4, <2>5, <3>2, <4>1 DEF Reached
    <3> QED BY <3>1, <3>2
  <2> QED BY <1>1, <1>5, <2>3, <2>5 DEF Reached, order
<1>6. CASE k > n
  <2>1. \A i \in 1..n : IsLocked(dist[order[i]], lock[EntryOrder[i]], mode)
    BY <1>1, <1>2, <1>6 DEF Reached
  <2>2. AsLocked(Payloads(dist, mode), lock, mode)
    <3> SUFFICES ASSUME NEW e \in Entries
                 PROVE  IsLocked(Payloads(dist, mode)[e], lock[e], mode)
      BY DEF AsLocked
    <3>1. PICK i \in 1..n : EntryOrder[i] = e
      BY EntryOrderIsSeq
    <3>2. IsLocked(dist[<<"payload", mode, e>>], lock[e], mode)
      BY <1>1, <2>1, <3>1
    <3> QED BY <3>2 DEF Payloads
  <2>3. f[1] # "payload" /\ \A i \in 1..n : order[i] # f
    <3>1. \/ f \in {InventoryFile, ChecksumFile, Blob, PartList, Report}
          \/ f \in InSeq(PartFiles)
      <4>1. k = n + 1 \/ k = n + 2 \/ k = n + 3 \/ k \in (n + 4)..Len(order)
        BY <1>1, <1>6
      <4> QED BY <1>1, <4>1
    <3>2. f[1] # "payload"
      BY <3>1, Names, PartFilesIsSeq DEF InSeq
    <3> QED BY <1>1, <3>2, Names
  <2>4. \A i \in 1..n : dist'[order[i]] = dist[order[i]]
    BY <1>3, <1>4, <2>3
  <2>5. f = InventoryFile => TrueInventory(dist'[InventoryFile])
    <3> SUFFICES ASSUME f = InventoryFile
                 PROVE  TrueInventory(dist'[InventoryFile])
      OBVIOUS
    <3>1. doc = Inventory(lock, mode, dist)
      BY <1>2, Names DEF DocsFor
    <3>2. dist'[InventoryFile] = Says(Inventory(lock, mode, dist))
      BY <1>3, <1>4, <3>1
    <3>3. /\ Says(Inventory(lock, mode, dist)).doc.mode = mode
          /\ Says(Inventory(lock, mode, dist)).doc.lock = lock
          /\ Says(Inventory(lock, mode, dist)).doc.sums = Payloads(dist, mode)
      BY DEF Says, Inventory
    <3> QED BY <2>2, <3>2, <3>3 DEF TrueInventory
  <2>6. f = PartList => TrueParts(dist'[PartList])
    <3> SUFFICES ASSUME f = PartList
                 PROVE  TrueParts(dist'[PartList])
      OBVIOUS
    <3>1. k > n + 3
      <4>1. k # n + 1 /\ k # n + 2 /\ k # n + 3
        BY <1>1, Names
      <4> QED BY <1>1, <1>6, <4>1
    <3>2. OneBlob(dist[Blob])
      BY <1>2, <3>1 DEF Reached
    <3>3. doc = Parts(dist)
      BY <1>2, Names DEF DocsFor
    <3>4. dist'[PartList].doc.complete = dist[Blob]
      BY <1>3, <1>4, <3>3 DEF Says, Parts
    <3> QED BY <3>2, <3>4 DEF TrueParts
  <2>7. Honest(dist')
    BY <1>0, <1>2, <1>3, <1>4, <2>5, <2>6 DEF Honest
  <2>8. k + 1 > n + 3 => OneBlob(dist'[Blob])
    <3>1. CASE k = n + 3
      <4>1. f = Blob
        BY <1>1, <3>1
      <4>2. doc = Payloads(dist, mode)
        BY <1>2, <4>1, Names DEF DocsFor
      <4>3. dist'[Blob] = Says(Payloads(dist, mode))
        BY <1>3, <1>4, <4>1, <4>2
      <4>4. Says(Payloads(dist, mode)).doc = Payloads(dist, mode)
            /\ Says(Payloads(dist, mode)) # Torn
        BY DEF Says, Torn
      <4>5. Locked(Payloads(dist, mode), lock)
        BY <2>2 DEF Locked, AsLocked
      <4> QED BY <4>3, <4>4, <4>5 DEF OneBlob
    <3>2. CASE k > n + 3
      <4>1. f # Blob
        <5>1. f \in InSeq(PartFiles) \cup {PartList, Report}
          BY <1>1, <3>2
        <5> QED BY <5>1, Names, PartFilesIsSeq DEF InSeq
      <4> QED BY <1>2, <1>3, <1>4, <3>2, <4>1 DEF Reached
    <3> QED BY <1>1, <3>1, <3>2
  <2> QED BY <2>1, <2>4, <2>7, <2>8 DEF Reached, order
<1> QED BY <1>1, <1>5, <1>6

LEMMA Builds ==
  ASSUME IInv, StartBuild \/ ClearFile \/ WriteFile \/ StopBuild
  PROVE  IInv'
<1>1. UNCHANGED <<arrived, verdict, restored>>
  BY DEF StartBuild, ClearFile, WriteFile, StopBuild, ConnectedOnly
<1>2. Honest(arrived') /\ VerifiedIsLocked' /\ RestoredIsOneBuild'
  BY <1>1 DEF IInv, VerifiedIsLocked, RestoredIsOneBuild
<1>3. Honest(dist)
  BY DEF IInv
<1> SUFFICES /\ Honest(dist')
             /\ build' # None => Progress(build', dist')
  BY <1>2 DEF IInv
<1>4. CASE StartBuild
  <2>1. PICK lock \in ValidLocks, mode \in Modes, split \in BOOLEAN :
          build' = [lock |-> lock, mode |-> mode,
                    clear |-> {f \in Files : dist[f] # Missing},
                    write |-> WriteOrder(mode, split)]
    BY <1>4 DEF StartBuild
  <2> DEFINE order == WriteOrder(mode, split)
             c == {f \in Files : dist[f] # Missing}
  <2>2. /\ DOMAIN build' = {"lock", "mode", "clear", "write"}
        /\ build'.lock = lock /\ build'.mode = mode /\ build'.write = order
    <3> HIDE DEF c, order
    <3> QED BY <2>1 DEF c, order
  <2>3. 1 \in 1..Len(order) /\ order = SubSeq(order, 1, Len(order))
    <3> DEFINE S == InSeq(PayloadFiles(mode)) \cup InSeq(PartFiles)
                    \cup {InventoryFile, ChecksumFile, Blob, PartList, Report}
    <3>1. order \in Seq(S) /\ Len(EntryOrder) + 4 \in 1..Len(order)
      BY OrderOfFiles
    <3> HIDE DEF order, S
    <3>2. Len(order) \in Nat /\ 1 <= Len(order)
      BY <3>1, EntryOrderIsSeq
    <3> QED BY <3>1, <3>2, SubSeqFull
  <2>4. Reached(dist, lock, mode, order, 1)
    BY EntryOrderIsSeq DEF Reached
  <2>5. UNCHANGED dist
    BY <1>4 DEF StartBuild
  <2> HIDE DEF order
  <2>6. Progress(build', dist)
    BY <2>2, <2>3, <2>4 DEF Progress, order
  <2> QED BY <1>3, <2>5, <2>6
<1>5. CASE ClearFile
  <2>1. /\ build # None /\ build.clear # {}
        /\ \E f \in build.clear :
             /\ dist' = [dist EXCEPT ![f] = Missing]
             /\ build' = [build EXCEPT !.clear = build.clear \ {f}]
    BY <1>5 DEF ClearFile
  <2>2. DOMAIN dist' = Files /\ \A f \in Files : dist'[f] \in {dist[f], Missing}
    BY <1>3, <2>1 DEF Honest
  <2>3. Honest(dist')
    BY <1>3, <2>2, NamesAreFiles DEF Honest, Readable, TrueInventory, TrueParts
  <2>4. Progress(build, dist)
    BY <2>1 DEF IInv
  <2>5. PICK split \in BOOLEAN :
          /\ 1 \in 1..Len(WriteOrder(build.mode, split))
          /\ build.write = SubSeq(WriteOrder(build.mode, split), 1,
                                  Len(WriteOrder(build.mode, split)))
    BY <2>1, <2>4 DEF Progress
  <2>6. /\ DOMAIN build' = DOMAIN build
        /\ build'.lock = build.lock /\ build'.mode = build.mode
        /\ build'.write = build.write
    BY <2>1, <2>4 DEF Progress
  <2>7. Reached(dist', build.lock, build.mode, WriteOrder(build.mode, split), 1)
    BY EntryOrderIsSeq DEF Reached
  <2>8. Progress(build', dist')
    BY <2>4, <2>5, <2>6, <2>7 DEF Progress
  <2> QED BY <2>3, <2>8
<1>6. CASE WriteFile
  <2>1. /\ build # None /\ build.clear = {}
        /\ \E doc \in DocsFor(Head(build.write)) :
             dist' = [dist EXCEPT ![Head(build.write)] = Says(doc)]
        /\ build' = IF Tail(build.write) = <<>>
                    THEN None ELSE [build EXCEPT !.write = Tail(@)]
    BY <1>6 DEF WriteFile, Writing
  <2>2. Progress(build, dist)
    BY <2>1 DEF IInv
  <2> DEFINE mode == build.mode
             lock == build.lock
  <2>0. PICK split \in BOOLEAN : \E k \in 1..Len(WriteOrder(mode, split)) :
          /\ build.write = SubSeq(WriteOrder(mode, split), k,
                                  Len(WriteOrder(mode, split)))
          /\ Reached(dist, lock, mode, WriteOrder(mode, split), k)
    BY <2>2 DEF Progress
  <2>3. PICK k \in 1..Len(WriteOrder(mode, split)) :
          /\ build.write = SubSeq(WriteOrder(mode, split), k,
                                  Len(WriteOrder(mode, split)))
          /\ Reached(dist, lock, mode, WriteOrder(mode, split), k)
    BY <2>0
  <2> DEFINE order == WriteOrder(mode, split)
             S == InSeq(PayloadFiles(mode)) \cup InSeq(PartFiles)
                  \cup {InventoryFile, ChecksumFile, Blob, PartList, Report}
  <2>4. order \in Seq(S)
    BY OrderOfFiles
  <2>5. k \in 1..Len(order) /\ Len(order) \in Nat /\ Len(order) \in k..Len(order)
    <3> HIDE DEF order, S
    <3>1. Len(order) \in Nat
      BY <2>4
    <3> QED BY <2>3, <3>1 DEF order
  <2>6. /\ Head(build.write) = order[k]
        /\ Tail(build.write) = SubSeq(order, k + 1, Len(order))
    <3> HIDE DEF order, S
    <3> QED BY <2>3, <2>4, <2>5, HeadTailOfSubSeq DEF order
  <2>7. mode \in Modes /\ lock \in ValidLocks
    BY <2>2 DEF Progress
  <2>8. Honest(dist') /\ Reached(dist', lock, mode, order, k + 1)
    <3>1. PICK doc \in DocsFor(order[k]) :
            dist' = [dist EXCEPT ![order[k]] = Says(doc)]
      BY <2>1, <2>6
    <3>2. build.lock = lock /\ build.mode = mode
      OBVIOUS
    <3> HIDE DEF mode, lock
    <3> QED BY <1>3, <2>3, <2>7, <3>1, <3>2, Writes
  <2>9. ASSUME build' # None
        PROVE  Progress(build', dist')
    <3>1. Tail(build.write) # <<>> /\ build' = [build EXCEPT !.write = Tail(@)]
      BY <2>1, <2>9
    <3>2. k + 1 \in 1..Len(order)
      <4>1. k # Len(order)
        BY <2>5, <2>6, <3>1, SubSeqEmpty
      <4> HIDE DEF order
      <4> QED BY <2>5, <4>1
    <3>3. /\ DOMAIN build' = {"lock", "mode", "clear", "write"}
          /\ build'.lock = lock /\ build'.mode = mode /\ build'.clear = {}
          /\ build'.write = SubSeq(order, k + 1, Len(order))
      BY <2>1, <2>2, <2>6, <3>1 DEF Progress
    <3> HIDE DEF order, mode, lock
    <3> QED BY <2>7, <2>8, <3>2, <3>3 DEF Progress, order
  <2> QED BY <2>8, <2>9
<1>7. CASE StopBuild
  <2>1. /\ build' = None
        /\ \/ UNCHANGED dist
           \/ \E f \in {Head(build.write)} : dist' = [dist EXCEPT ![f] = Torn]
    BY <1>7 DEF StopBuild
  <2>2. DOMAIN dist' = Files /\ \A f \in Files : dist'[f] \in {dist[f], Torn}
    BY <1>3, <2>1 DEF Honest
  <2>3. Torn.doc = Missing /\ "doc" \in DOMAIN Torn
    BY DEF Torn
  <2>4. Honest(dist')
    BY <1>3, <2>2, <2>3, NamesAreFiles
       DEF Honest, Readable, TrueInventory, TrueParts
  <2> QED BY <2>1, <2>4
<1> QED BY <1>4, <1>5, <1>6, <1>7

-----------------------------------------------------------------------------
(* The transfer and the disconnected side.                                  *)

LEMMA Transfers ==
  ASSUME IInv, StartCopy \/ CopyFile \/ LoseFiles
  PROVE  IInv'
<1>1. UNCHANGED <<dist, build, restored>>
  BY DEF StartCopy, CopyFile, LoseFiles, TransferOnly
<1>2. /\ Honest(dist') /\ RestoredIsOneBuild'
      /\ build' # None => Progress(build', dist')
  BY <1>1 DEF IInv, RestoredIsOneBuild
<1>3. Honest(arrived) /\ Honest(dist)
  BY DEF IInv
<1> SUFFICES Honest(arrived') /\ VerifiedIsLocked'
  BY <1>2 DEF IInv
<1>4. CASE StartCopy
  BY <1>3, <1>4 DEF StartCopy, IInv, VerifiedIsLocked
<1>5. CASE CopyFile
  <2>1. /\ verdict' = None
        /\ \E f \in {copying[Min(DOMAIN copying)]} :
             \/ arrived' = arrived
             \/ arrived' = [arrived EXCEPT ![f] = dist[f]]
    BY <1>5 DEF CopyFile
  <2>2. /\ DOMAIN arrived' = Files
        /\ \A f \in Files : arrived'[f] \in {arrived[f], dist[f]}
    BY <1>3, <2>1 DEF Honest
  <2>3. Honest(arrived')
    BY <1>3, <2>2, NamesAreFiles DEF Honest, Readable
  <2> QED BY <2>1, <2>3 DEF VerifiedIsLocked
<1>6. CASE LoseFiles
  <2>1. verdict' = None
    BY <1>6 DEF LoseFiles
  <2>2. \/ arrived' = arrived
        \/ \E f \in Files :
             /\ arrived[f] # Missing
             /\ arrived' \in {[arrived EXCEPT ![f].rev = 1],
                              [arrived EXCEPT ![f] = Missing]}
    BY <1>6 DEF LoseFiles
  <2>3. /\ DOMAIN arrived' = Files
        /\ \A f \in Files :
             \/ arrived'[f] \in {arrived[f], Missing}
             \/ /\ arrived[f] # Missing
                /\ DOMAIN arrived'[f] = DOMAIN arrived[f]
                /\ arrived'[f].doc = arrived[f].doc
    <3>1. CASE arrived' = arrived
      BY <1>3, <3>1 DEF Honest
    <3>2. ASSUME NEW f \in Files, arrived' = [arrived EXCEPT ![f] = Missing]
          PROVE  <2>3
      BY <1>3, <3>2 DEF Honest
    <3>3. ASSUME NEW f \in Files, arrived[f] # Missing,
                 arrived' = [arrived EXCEPT ![f].rev = 1]
          PROVE  <2>3
      <4>1. /\ DOMAIN arrived' = Files
            /\ \A g \in Files : g # f => arrived'[g] = arrived[g]
            /\ arrived'[f] = [arrived[f] EXCEPT !.rev = 1]
        BY <1>3, <3>3 DEF Honest
      <4>2. DOMAIN arrived'[f] = DOMAIN arrived[f]
        BY <4>1
      <4>3. arrived'[f].doc = arrived[f].doc
        BY <1>3, <3>3, <4>1 DEF Honest, Readable
      <4> QED BY <3>3, <4>1, <4>2, <4>3
    <3> QED BY <2>2, <3>1, <3>2, <3>3
  <2>4. Honest(arrived')
    BY <1>3, <2>3, NamesAreFiles
       DEF Honest, Readable, TrueInventory, TrueParts
  <2> QED BY <2>1, <2>4 DEF VerifiedIsLocked
<1> QED BY <1>4, <1>5, <1>6

\* A bundle passes only with payloads that are those of an inventory, and only
\* under the lock of that inventory.
LEMMA Verifications ==
  ASSUME IInv, Verify
  PROVE  IInv'
<1>1. UNCHANGED <<arrived, dist, build, restored>>
  BY DEF Verify
<1>2. VerifiedIsLocked'
  <2> SUFFICES ASSUME verdict' # None
               PROVE  \E mode \in Modes :
                        Locked(Payloads(arrived, mode), verdict')
    BY <1>1 DEF VerifiedIsLocked
  <2>1. Verifies(arrived, verdict')
    BY DEF Verify
  <2> DEFINE inventory == arrived[InventoryFile].doc
             mode == inventory.mode
  <2>2. /\ arrived[InventoryFile] # Missing /\ inventory # Missing
        /\ inventory.lock = verdict'
    BY <2>1 DEF Verifies, InventoryMatches
  <2>3. mode \in Modes /\ AsLocked(inventory.sums, verdict', mode)
    BY <2>2 DEF IInv, Honest, TrueInventory
  <2>4. \A e \in Entries : Payloads(arrived, mode)[e] = inventory.sums[e]
    BY <2>1 DEF Verifies, PayloadsMatch, Payloads
  <2>5. AsLocked(Payloads(arrived, mode), verdict', mode)
    BY <2>3, <2>4 DEF AsLocked
  <2>6. Locked(Payloads(arrived, mode), verdict')
    BY <2>3, <2>5 DEF AsLocked, Locked
  <2> QED BY <2>3, <2>6
<1> QED BY <1>1, <1>2 DEF IInv, RestoredIsOneBuild

\* What is restored is the blob that the list of parts is about.
LEMMA Reassemblies ==
  ASSUME IInv, Reassemble
  PROVE  IInv'
<1>1. /\ UNCHANGED <<arrived, dist, build, verdict>>
      /\ arrived[PartList] # Missing
      /\ restored' = Reassembled(arrived)
  BY DEF Reassemble
<1>2. RestoredIsOneBuild'
  <2>1. CASE arrived[PartList].doc = Missing
    BY <1>1, <2>1 DEF Reassembled, IInv, RestoredIsOneBuild
  <2>2. CASE arrived[PartList].doc # Missing
    <3>1. OneBlob(arrived[PartList].doc.complete)
      BY <1>1, <2>2 DEF IInv, Honest, TrueParts
    <3>2. Joined(arrived) \in {arrived[PartList].doc.complete, Torn}
      BY DEF Joined
    <3> DEFINE matches == PartsIntact(arrived) /\ Joined(arrived) # Torn
    <3>3. restored' = [ok |-> matches,
                       content |-> IF matches THEN Joined(arrived) ELSE Torn]
      BY <1>1, <2>2 DEF Reassembled
    <3>4. restored'.ok => /\ Joined(arrived) # Torn
                          /\ restored'.content = Joined(arrived)
      BY <3>3
    <3> QED BY <3>1, <3>2, <3>4 DEF RestoredIsOneBuild, OneBlob
  <2> QED BY <2>1, <2>2
<1> QED BY <1>1, <1>2 DEF IInv, VerifiedIsLocked

-----------------------------------------------------------------------------
(* The invariant and what follows from it.                                  *)

LEMMA InitInvariant == Init => IInv
<1> SUFFICES ASSUME Init PROVE IInv
  OBVIOUS
<1>1. Honest(dist) /\ arrived = dist
  BY NamesAreFiles
     DEF Init, BundleInit, Honest, Readable, TrueInventory, TrueParts
<1> QED BY <1>1
        DEF Init, BundleInit, IInv, VerifiedIsLocked, RestoredIsOneBuild

LEMMA StepInvariant == IInv /\ [Next]_vars => IInv'
<1> SUFFICES ASSUME IInv, [Next]_vars PROVE IInv'
  OBVIOUS
<1>1. CASE BundleNext
  BY <1>1, Builds, Transfers, Verifications, Reassemblies DEF BundleNext
<1>2. CASE UNCHANGED bundleVars
  BY <1>2 DEF bundleVars, IInv, VerifiedIsLocked, RestoredIsOneBuild
<1> QED BY <1>1, <1>2 DEF Next, vars

THEOREM Invariance == Spec => []IInv
BY InitInvariant, StepInvariant, PTL DEF Spec

\* What verify_bundle passes on the disconnected side is what its lock asks
\* for: of an image, what its source pins; of a file with a sha256, that
\* (verify_bundle, build_bundle, _fetch_payload, _fetch_image_payload).
THEOREM VerifiedBundle == Spec => []VerifiedIsLocked
<1>1. IInv => VerifiedIsLocked
  BY DEF IInv
<1> QED BY <1>1, Invariance, PTL

\* What reassemble_parts returns is one blob of one build, made of what its
\* lock asks for in the same sense (reassemble_parts, split_file).
THEOREM RestoredBlob == Spec => []RestoredIsOneBuild
<1>1. IInv => RestoredIsOneBuild
  BY DEF IInv
<1> QED BY <1>1, Invariance, PTL

-----------------------------------------------------------------------------
(* The promotion of the images.                                             *)

\* What a running apply with skopeo is done with is in the registry.
PushedSoFar ==
  push # None =>
    /\ DOMAIN push = {"plan", "rest", "absent"}
    /\ push.plan.tool = "skopeo" =>
         \A i \in DOMAIN push.plan.actions \ push.rest :
           push.plan.actions[i].to \in registry

\* An overlay that passed renders locked images only.
ProvenIsLocked == proven # None => overlay \subseteq References(proven)

PromotionInv == PushedSoFar /\ AppliedIsPresent /\ ProvenIsLocked

\* One image is done: it is in the registry, or the tool is not skopeo.
LEMMA Advances ==
  ASSUME PromotionInv, Pushing, Advance, registry \subseteq registry',
         push.plan.tool = "skopeo" => At.to \in registry'
  PROVE  PushedSoFar'
<1> DEFINE i0 == Min(push.rest)
<1>1. push # None /\ DOMAIN push = {"plan", "rest", "absent"}
  BY DEF Pushing, PromotionInv, PushedSoFar
<1>2. push' = [push EXCEPT !.rest = push.rest \ {i0}, !.absent = ~push.plan.check]
  BY DEF Advance
<1>3. push.plan.tool = "skopeo" => push.plan.actions[i0].to \in registry'
  BY DEF At
<1> HIDE DEF i0
<1>4. /\ DOMAIN push' = {"plan", "rest", "absent"}
      /\ push'.plan = push.plan /\ push'.rest = push.rest \ {i0}
  BY <1>1, <1>2
<1>5. push.plan.tool = "skopeo" =>
        \A i \in DOMAIN push.plan.actions \ push.rest :
          push.plan.actions[i].to \in registry
  BY <1>1 DEF PromotionInv, PushedSoFar
<1> QED BY <1>3, <1>4, <1>5 DEF PushedSoFar

LEMMA StepPromotionInv == PromotionInv /\ [Next]_vars => PromotionInv'
<1> SUFFICES ASSUME PromotionInv, [Next]_vars PROVE PromotionInv'
  OBVIOUS
<1>1. CASE PlanPromotion
  BY <1>1 DEF PlanPromotion, PromotionInv, PushedSoFar, AppliedIsPresent,
              ProvenIsLocked
<1>2. CASE StartPush
  <2>1. PushedSoFar'
    BY <1>2 DEF StartPush, PushedSoFar
  <2> QED BY <1>2, <2>1
          DEF StartPush, PromotionInv, AppliedIsPresent, ProvenIsLocked
<1>3. CASE CheckExisting
  <2>1. UNCHANGED <<registry, plan, report, overlay, proven>> /\ Pushing
    BY <1>3 DEF CheckExisting
  <2>2. PushedSoFar'
    <3>1. CASE Found /\ Advance
      BY <2>1, <3>1, Advances DEF Found
    <3>2. CASE push' = [push EXCEPT !.absent = TRUE]
      BY <2>1, <3>2 DEF PromotionInv, PushedSoFar, Pushing
    <3> QED BY <1>3, <3>1, <3>2 DEF CheckExisting
  <2> QED BY <2>1, <2>2 DEF PromotionInv, AppliedIsPresent, ProvenIsLocked
<1>4. CASE CopyImage
  <2>1. /\ UNCHANGED <<plan, report, overlay, proven>> /\ Pushing /\ Advance
        /\ registry' = registry \cup CopiedBy(push.plan.tool)
    BY <1>4 DEF CopyImage
  <2>2. push.plan.tool = "skopeo" => At.to \in registry'
    BY <2>1 DEF CopiedBy
  <2>3. PushedSoFar'
    BY <2>1, <2>2, Advances
  <2> QED BY <2>1, <2>3 DEF PromotionInv, AppliedIsPresent, ProvenIsLocked,
                            InPlan
<1>5. CASE FailCopy
  BY <1>5 DEF FailCopy, AfterFailure, PromotionInv, PushedSoFar,
              AppliedIsPresent, ProvenIsLocked
<1>6. CASE FinishPush
  <2>1. /\ push # None /\ push.rest = {} /\ report' = push.plan /\ push' = None
        /\ UNCHANGED <<registry, plan, overlay, proven>>
    BY <1>6 DEF FinishPush
  <2>2. AppliedIsPresent'
    BY <2>1 DEF PromotionInv, PushedSoFar, AppliedIsPresent, InPlan
  <2> QED BY <2>1, <2>2 DEF PromotionInv, PushedSoFar, ProvenIsLocked
<1>7. CASE VerifyManifests
  <2>1. UNCHANGED <<registry, plan, push, report, overlay>>
    BY <1>7 DEF VerifyManifests
  <2>2. ProvenIsLocked'
    BY <1>7, LockAssumption
       DEF VerifyManifests, ProvenIsLocked, OnlyLocked, LockAssumption
  <2> QED BY <2>1, <2>2 DEF PromotionInv, PushedSoFar, AppliedIsPresent
<1>8. CASE EditOverlay
  BY <1>8 DEF EditOverlay, PromotionInv, PushedSoFar, AppliedIsPresent,
              ProvenIsLocked
<1>9. CASE UNCHANGED promotionVars
  BY <1>9 DEF promotionVars, PromotionInv, PushedSoFar, AppliedIsPresent,
              ProvenIsLocked
<1> QED BY <1>1, <1>2, <1>3, <1>4, <1>5, <1>6, <1>7, <1>8, <1>9
        DEF Next, PromotionNext, vars

LEMMA PromotionInvariance == Spec => []PromotionInv
<1>1. Init => PromotionInv
  BY DEF Init, PromotionInit, PromotionInv, PushedSoFar, AppliedIsPresent,
         ProvenIsLocked
<1> QED BY <1>1, StepPromotionInv, PTL DEF Spec

\* An apply with skopeo that reports success left every image of its plan in
\* the registry, whatever applies failed half-way before it, and whatever the
\* existence checks answered (apply_registry_promotion).
THEOREM AppliedImages == Spec => []AppliedIsPresent
<1>1. PromotionInv => AppliedIsPresent
  BY DEF PromotionInv
<1> QED BY <1>1, PromotionInvariance, PTL

\* The plan of a lock holds every image of the lock.
LEMMA PlansEveryImage ==
  ASSUME NEW lock, NEW p, p.actions = PlannedActions(lock)
  PROVE  References(lock) \subseteq InPlan(p)
<1> SUFFICES ASSUME NEW e \in Images(lock)
             PROVE  Destination(lock[e]) \in InPlan(p)
  BY DEF References
<1>1. PICK i \in DOMAIN EntryOrder : EntryOrder[i] = e
  BY DEF Images, Entries
<1>2. i \in DOMAIN p.actions /\ p.actions[i].to = Destination(lock[e])
  BY <1>1 DEF PlannedActions, Images
<1> QED BY <1>2 DEF InPlan

\* Of an overlay that passed verify manifests under the lock that was promoted
\* with skopeo, every image can be pulled (verify_manifests, _validate_images).
THEOREM PullableOverlay == Spec => []ProvenIsPullable
<1>1. PromotionInv => ProvenIsPullable
  <2> SUFFICES ASSUME PromotionInv, proven # None, report # None,
                      report.tool = "skopeo",
                      report.actions = PlannedActions(proven)
               PROVE  overlay \subseteq registry
    BY DEF ProvenIsPullable
  <2>1. overlay \subseteq References(proven)
    BY DEF PromotionInv, ProvenIsLocked
  <2>2. References(proven) \subseteq InPlan(report)
    BY PlansEveryImage
  <2> QED BY <2>1, <2>2 DEF PromotionInv, AppliedIsPresent
<1> QED BY <1>1, PromotionInvariance, PTL

-----------------------------------------------------------------------------
(* The types, and the build report.                                         *)

\* The files that are there.
There(files) == {f \in Files : files[f] # Missing}

\* The files before the place k of an order.
Earlier(order, k) == {order[i] : i \in 1..k - 1}

\* Every file of the running build is what build_bundle makes of the files
\* before it, and they are there.
PayloadsHeld(files, mode) ==
  \A e \in Entries : files[<<"payload", mode, e>>] # Missing =>
                       files[<<"payload", mode, e>>] \in Contents(PayloadDocs)

AllPayloads(files, mode) ==
  \A e \in Entries : files[<<"payload", mode, e>>] # Missing

InventoryHeld(files, lock, mode) ==
  files[InventoryFile] # Missing =>
    /\ AllPayloads(files, mode)
    /\ files[InventoryFile] = Says(Inventory(lock, mode, files))

ChecksumsHeld(files, mode) ==
  files[ChecksumFile] # Missing =>
    /\ files[InventoryFile] # Missing
    /\ files[ChecksumFile] = Says(Checksums(files, mode))

BlobHeld(files, mode) ==
  files[Blob] # Missing =>
    /\ files[ChecksumFile] # Missing
    /\ files[Blob] = Says(Payloads(files, mode))

PartsHeld(files) ==
  \A i \in 1..PartCount :
    files[PartFiles[i]] # Missing =>
      /\ files[Blob] # Missing
      /\ files[PartFiles[i]] = Says(<<i, files[Blob]>>)

PartListHeld(files) ==
  files[PartList] # Missing =>
    /\ files[Blob] # Missing
    /\ \A i \in 1..PartCount : files[PartFiles[i]] # Missing
    /\ files[PartList] = Says(Parts(files))

Coherent(files, lock, mode) ==
  /\ PayloadsHeld(files, mode)
  /\ InventoryHeld(files, lock, mode)
  /\ ChecksumsHeld(files, mode)
  /\ BlobHeld(files, mode)
  /\ PartsHeld(files)
  /\ PartListHeld(files)

\* The running build clears what was there when it started, the report before
\* what it is about; then exactly the files that it wrote are there.
Underway(b, files) ==
  \E split \in BOOLEAN : \E k \in 1..Len(WriteOrder(b.mode, split)) :
    /\ b.write = SubSeq(WriteOrder(b.mode, split), k,
                        Len(WriteOrder(b.mode, split)))
    /\ \/ b.clear # {} /\ k = 1 /\ There(files) \subseteq b.clear
       \/ /\ b.clear = {}
          /\ There(files) = Earlier(WriteOrder(b.mode, split), k)
          /\ Coherent(files, b.lock, b.mode)

BundleInv == /\ BundleTypeOK
             /\ ReportMeansWhole
             /\ build # None => Underway(build, dist)

\* A promotion plan.
PlanOK(p) == /\ p.tool \in Tools
             /\ p.check \in BOOLEAN
             /\ \A r \in InPlan(p) : r[2] \in Hashes

PushOK == push # None => PlanOK(push.plan)

LeftOK == \A event \in DOMAIN left : left[event] \in Nat

TypeInv == LeftOK /\ BundleInv /\ PromotionTypeOK /\ PushOK

-----------------------------------------------------------------------------
(* The kinds of files.                                                      *)

LEMMA DocsOf ==
  /\ \A m, e : Docs(<<"payload", m, e>>) = PayloadDocs
  /\ Docs(InventoryFile) = InventoryDocs
  /\ Docs(ChecksumFile) = ChecksumDocs
  /\ Docs(Blob) = BlobDocs
  /\ \A i \in 1..PartCount : Docs(PartFiles[i]) = PartDocs
  /\ Docs(PartList) = PartListDocs
  /\ Docs(Report) = {"built"}
<1>1. ASSUME NEW m, NEW e
      PROVE  Docs(<<"payload", m, e>>) = PayloadDocs
  <2> DEFINE f == <<"payload", m, e>>
  <2>1. f[1] = "payload"
    OBVIOUS
  <2> HIDE DEF f
  <2>2. Docs(f) = PayloadDocs
    BY <2>1, Names DEF Docs
  <2> QED BY <2>2 DEF f
<1>2. ASSUME NEW i \in 1..PartCount
      PROVE  Docs(PartFiles[i]) = PartDocs
  <2> DEFINE f == PartFiles[i]
  <2>1. f[1] = "part"
    BY Names
  <2> HIDE DEF f
  <2>2. Docs(f) = PartDocs
    BY <2>1, Names DEF Docs
  <2> QED BY <2>2 DEF f
<1>3. Docs(InventoryFile) = InventoryDocs
  BY Names DEF Docs
<1>4. Docs(ChecksumFile) = ChecksumDocs
  BY Names DEF Docs
<1>5. Docs(Blob) = BlobDocs
  BY Names DEF Docs
<1>6. Docs(PartList) = PartListDocs
  BY Names DEF Docs
<1>7. Docs(Report) = {"built"}
  BY Names DEF Docs
<1> QED BY <1>1, <1>2, <1>3, <1>4, <1>5, <1>6, <1>7

\* A file with contents is there, and so are its contents.
LEMMA NotMissing ==
  ASSUME NEW f \in Files
  PROVE  /\ Missing \notin Docs(f)
         /\ Missing \notin Contents(Docs(f))
         /\ \A doc \in Docs(f) : Says(doc) # Missing /\ Says(doc) \in Contents(Docs(f))
         /\ Missing # Torn
<1>1. Missing \notin Docs(f) /\ Missing \notin Carried(f)
  BY BundleAssumption DEF BundleAssumption
<1>2. Contents(Docs(f)) \subseteq Carried(f) /\ Torn \in Carried(f)
  BY DEF Contents, Carried, Torn
<1>3. \A doc \in Docs(f) : Says(doc) \in Contents(Docs(f))
  BY DEF Says, Contents
<1> QED BY <1>1, <1>2, <1>3

LEMMA PartFileIsFile ==
  \A i \in 1..PartCount : PartFiles[i] \in Files
<1>1. \A i \in 1..PartCount : PartFiles[i] \in InSeq(PartFiles)
  BY PartFilesIsSeq DEF InSeq
<1> QED BY <1>1, NamesAreFiles

LEMMA ConcatAt ==
  ASSUME NEW S, NEW a, NEW b, NEW c, a \in Seq(S), b \in Seq(S), c = a \o b
  PROVE  /\ c \in Seq(S)
         /\ Len(c) = Len(a) + Len(b)
         /\ Len(a) \in Nat /\ Len(b) \in Nat
         /\ \A i \in 1..Len(a) : c[i] = a[i]
         /\ \A j \in 1..Len(b) : c[Len(a) + j] = b[j]
<1>1. Len(a) \in Nat /\ Len(b) \in Nat
  OBVIOUS
<1>2. /\ a \o b \in Seq(S)
      /\ Len(a \o b) = Len(a) + Len(b)
      /\ \A i \in 1..Len(a) + Len(b) :
           (a \o b)[i] = IF i <= Len(a) THEN a[i] ELSE b[i - Len(a)]
  BY ConcatProperties
<1>3. ASSUME NEW i \in 1..Len(a) PROVE (a \o b)[i] = a[i]
  <2>1. i \in 1..Len(a) + Len(b) /\ i <= Len(a)
    BY <1>1
  <2> QED BY <1>2, <2>1
<1>4. ASSUME NEW j \in 1..Len(b) PROVE (a \o b)[Len(a) + j] = b[j]
  <2> DEFINE i == Len(a) + j
  <2>1. i \in 1..Len(a) + Len(b) /\ ~(i <= Len(a)) /\ i - Len(a) = j
    BY <1>1
  <2> HIDE DEF i
  <2>2. (a \o b)[i] = b[j]
    BY <1>2, <2>1
  <2> QED BY <2>2 DEF i
<1> QED BY <1>1, <1>2, <1>3, <1>4

\* After the blob come the parts and their list, if there are any, and the
\* report is the last.
LEMMA LastFiles ==
  ASSUME NEW mode, NEW split \in BOOLEAN
  PROVE  LET order == WriteOrder(mode, split)
             n == Len(EntryOrder)
         IN  /\ split => /\ Len(order) = n + 5 + PartCount
                         /\ \A j \in 1..PartCount : order[n + 3 + j] = PartFiles[j]
                         /\ order[n + 4 + PartCount] = PartList
             /\ ~split => Len(order) = n + 4
             /\ order[Len(order)] = Report
<1> DEFINE n == Len(EntryOrder)
           S == InSeq(PayloadFiles(mode)) \cup InSeq(PartFiles)
                \cup {InventoryFile, ChecksumFile, Blob, PartList, Report}
           head == PayloadFiles(mode)
           middle == <<InventoryFile, ChecksumFile, Blob>>
           list == <<PartList>>
           report1 == <<Report>>
           parts == IF split THEN PartFiles \o list ELSE <<>>
           front == head \o middle
           order == WriteOrder(mode, split)
<1>1. order = (front \o parts) \o report1
  BY DEF WriteOrder
<1>2. head \in Seq(S) /\ Len(head) = n /\ n \in Nat
  <2>1. head \in Seq(InSeq(head)) /\ InSeq(head) \subseteq S
    BY PayloadFilesIsSeq
  <2> QED BY <2>1, PayloadFilesIsSeq, EntryOrderIsSeq, SeqMonotonic
<1>3. /\ middle \in Seq(S) /\ Len(middle) = 3
      /\ list \in Seq(S) /\ Len(list) = 1 /\ list[1] = PartList
      /\ report1 \in Seq(S) /\ Len(report1) = 1 /\ report1[1] = Report
      /\ <<>> \in Seq(S) /\ Len(<<>>) = 0
  OBVIOUS
<1>4. PartFiles \in Seq(S) /\ Len(PartFiles) = PartCount /\ PartCount \in Nat
  BY PartFilesIsSeq, SeqMonotonic, BundleAssumption DEF BundleAssumption
<1> HIDE DEF head, middle, list, report1, S
<1>0. front = head \o middle
  OBVIOUS
<1> HIDE DEF front
<1>5. front \in Seq(S) /\ Len(front) = n + 3
  <2>1. head \in Seq(S) /\ middle \in Seq(S)
    BY <1>2, <1>3
  <2>2. front \in Seq(S) /\ Len(front) = Len(head) + Len(middle)
    BY <1>0, <2>1, ConcatAt
  <2> QED BY <1>2, <1>3, <2>2
<1>6. /\ parts \in Seq(S)
      /\ split => /\ Len(parts) = PartCount + 1
                  /\ \A j \in 1..PartCount : parts[j] = PartFiles[j]
                  /\ parts[PartCount + 1] = PartList
      /\ ~split => Len(parts) = 0
  <2>1. CASE split
    <3>1. parts = PartFiles \o list
      BY <2>1
    <3> HIDE DEF parts
    <3>2. /\ parts \in Seq(S) /\ Len(parts) = Len(PartFiles) + Len(list)
          /\ \A j \in 1..Len(PartFiles) : parts[j] = PartFiles[j]
          /\ \A j \in 1..Len(list) : parts[Len(PartFiles) + j] = list[j]
      <4>1. PartFiles \in Seq(S) /\ list \in Seq(S)
        BY <1>3, <1>4
      <4> QED BY <3>1, <4>1, ConcatAt
    <3>3. 1 \in 1..Len(list)
      BY <1>3
    <3> QED BY <1>3, <1>4, <2>1, <3>2, <3>3
  <2>2. CASE ~split
    BY <1>3, <2>2
  <2> QED BY <2>1, <2>2
<1> HIDE DEF parts
<1> DEFINE body == front \o parts
<1>13. body = front \o parts
  OBVIOUS
<1> HIDE DEF body
<1>7. /\ body \in Seq(S) /\ Len(body) = n + 3 + Len(parts) /\ Len(parts) \in Nat
      /\ \A j \in 1..Len(parts) : body[n + 3 + j] = parts[j]
  <2>1. /\ body \in Seq(S) /\ Len(body) = Len(front) + Len(parts)
        /\ Len(parts) \in Nat
        /\ \A j \in 1..Len(parts) : body[Len(front) + j] = parts[j]
    <3>1. front \in Seq(S) /\ parts \in Seq(S)
      BY <1>5, <1>6
    <3> QED BY <1>13, <3>1, ConcatAt
  <2> QED BY <1>5, <2>1
<1>9. order = body \o report1
  BY <1>1 DEF body
<1> HIDE DEF order
<1>8. /\ Len(body) \in Nat
      /\ Len(order) = Len(body) + 1
      /\ \A i \in 1..Len(body) : order[i] = body[i]
      /\ order[Len(body) + 1] = Report
  <2>1. /\ Len(order) = Len(body) + Len(report1)
        /\ Len(body) \in Nat
        /\ \A i \in 1..Len(body) : order[i] = body[i]
        /\ \A j \in 1..Len(report1) : order[Len(body) + j] = report1[j]
    <3>1. body \in Seq(S) /\ report1 \in Seq(S)
      BY <1>3, <1>7
    <3> QED BY <1>9, <3>1, ConcatAt
  <2>2. 1 \in 1..Len(report1)
    BY <1>3
  <2> QED BY <1>3, <2>1, <2>2
<1> HIDE DEF n
<1>10. /\ Len(order) = n + 3 + Len(parts) + 1
       /\ \A j \in 1..Len(parts) : order[n + 3 + j] = parts[j]
       /\ order[Len(order)] = Report
  <2>1. ASSUME NEW j \in 1..Len(parts) PROVE order[n + 3 + j] = parts[j]
    <3>1. n + 3 + j \in 1..Len(body)
      BY <1>2, <1>7
    <3> QED BY <1>7, <1>8, <3>1
  <2> QED BY <1>7, <1>8, <2>1
<1>11. ASSUME split
       PROVE  /\ Len(order) = n + 5 + PartCount
              /\ \A j \in 1..PartCount : order[n + 3 + j] = PartFiles[j]
              /\ order[n + 4 + PartCount] = PartList
  <2>1. Len(parts) = PartCount + 1 /\ PartCount + 1 \in 1..Len(parts)
        /\ \A j \in 1..PartCount : j \in 1..Len(parts)
    BY <1>4, <1>6, <1>11
  <2>2. order[n + 3 + (PartCount + 1)] = PartList
    BY <1>6, <1>10, <1>11, <2>1
  <2>3. n + 3 + (PartCount + 1) = n + 4 + PartCount
    BY <1>2, <1>4
  <2>4. Len(order) = n + 5 + PartCount
    BY <1>2, <1>4, <1>10, <2>1
  <2>5. \A j \in 1..PartCount : order[n + 3 + j] = PartFiles[j]
    BY <1>6, <1>10, <1>11, <2>1
  <2> QED BY <2>2, <2>3, <2>4, <2>5
<1>12. ~split => Len(order) = n + 4
  BY <1>2, <1>6, <1>10
<1> QED BY <1>10, <1>11, <1>12 DEF order, n

\* The file f is the next one of a build in this mode that wrote the files
\* before: what it is made of is there, and what is made of it is not.
InTurn(f, before, mode) ==
  /\ f \in Files
  /\ Report \notin before
  /\ \/ \E e \in Entries : f = <<"payload", mode, e>> /\ InventoryFile \notin before
     \/ /\ f = InventoryFile /\ f \notin before
        /\ \A e \in Entries : <<"payload", mode, e>> \in before
     \/ f = ChecksumFile /\ InventoryFile \in before
     \/ f = Blob /\ f \notin before /\ ChecksumFile \in before
     \/ /\ \E i \in 1..PartCount : f = PartFiles[i]
        /\ Blob \in before /\ PartList \notin before
     \/ /\ f = PartList /\ Blob \in before
        /\ \A i \in 1..PartCount : PartFiles[i] \in before
     \/ f = Report /\ ChecksumFile \in before

\* Where the kinds of files are in the order.
LEMMA Places ==
  ASSUME NEW mode, NEW split \in BOOLEAN
  PROVE  LET order == WriteOrder(mode, split)
             n == Len(EntryOrder)
         IN  /\ n \in Nat /\ Len(order) \in Nat /\ Len(order) >= n + 4
             /\ split => Len(order) = n + 5 + PartCount
             /\ \A i \in 1..Len(order) :
                  \/ i <= n /\ order[i] = <<"payload", mode, EntryOrder[i]>>
                  \/ i = n + 1 /\ order[i] = InventoryFile
                  \/ i = n + 2 /\ order[i] = ChecksumFile
                  \/ i = n + 3 /\ order[i] = Blob
                  \/ /\ split /\ i \in n + 4..n + 3 + PartCount
                     /\ order[i] = PartFiles[i - (n + 3)]
                  \/ split /\ i = n + 4 + PartCount /\ order[i] = PartList
                  \/ i = Len(order) /\ order[i] = Report
<1> DEFINE n == Len(EntryOrder)
           order == WriteOrder(mode, split)
<1>1. n \in Nat /\ PartCount \in Nat
  BY EntryOrderIsSeq, BundleAssumption DEF BundleAssumption
<1>2. /\ n + 4 \in 1..Len(order)
      /\ \A i \in 1..n : order[i] = <<"payload", mode, EntryOrder[i]>>
      /\ order[n + 1] = InventoryFile
      /\ order[n + 2] = ChecksumFile
      /\ order[n + 3] = Blob
  BY OrderOfFiles
<1>3. /\ split => /\ Len(order) = n + 5 + PartCount
                  /\ \A j \in 1..PartCount : order[n + 3 + j] = PartFiles[j]
                  /\ order[n + 4 + PartCount] = PartList
      /\ ~split => Len(order) = n + 4
      /\ order[Len(order)] = Report
  BY LastFiles
<1> HIDE DEF n, order
<1>4. Len(order) \in Nat /\ Len(order) >= n + 4
  BY <1>1, <1>3
<1>5. ASSUME NEW i \in 1..Len(order)
      PROVE  \/ i <= n /\ order[i] = <<"payload", mode, EntryOrder[i]>>
             \/ i = n + 1 /\ order[i] = InventoryFile
             \/ i = n + 2 /\ order[i] = ChecksumFile
             \/ i = n + 3 /\ order[i] = Blob
             \/ /\ split /\ i \in n + 4..n + 3 + PartCount
                /\ order[i] = PartFiles[i - (n + 3)]
             \/ split /\ i = n + 4 + PartCount /\ order[i] = PartList
             \/ i = Len(order) /\ order[i] = Report
  <2>1. \/ i \in 1..n \/ i = n + 1 \/ i = n + 2 \/ i = n + 3
        \/ i = Len(order)
        \/ i > n + 3 /\ i < Len(order)
    BY <1>1, <1>4
  <2>2. ASSUME i > n + 3, i < Len(order)
        PROVE  /\ split
               /\ \/ i \in n + 4..n + 3 + PartCount /\ order[i] = PartFiles[i - (n + 3)]
                  \/ i = n + 4 + PartCount /\ order[i] = PartList
    <3>1. split
      BY <1>1, <1>3, <2>2
    <3> DEFINE j == i - (n + 3)
    <3>2. i = n + 3 + j /\ (j \in 1..PartCount \/ i = n + 4 + PartCount)
      BY <1>1, <1>3, <2>2, <3>1
    <3>3. i = n + 4 + PartCount \/ i \in n + 4..n + 3 + PartCount
      BY <1>1, <1>3, <2>2, <3>1
    <3> HIDE DEF j
    <3>4. CASE i = n + 4 + PartCount
      BY <1>3, <3>1, <3>4
    <3>5. CASE i # n + 4 + PartCount
      <4>1. order[i] = PartFiles[j]
        BY <1>3, <3>1, <3>2, <3>5
      <4> QED BY <3>1, <3>3, <3>5, <4>1 DEF j
    <3> QED BY <3>4, <3>5
  <2>3. i \in 1..n => i <= n /\ order[i] = <<"payload", mode, EntryOrder[i]>>
    BY <1>1, <1>2
  <2> QED BY <1>2, <1>3, <2>1, <2>2, <2>3
<1> QED BY <1>1, <1>3, <1>4, <1>5 DEF n, order

LEMMA Turns ==
  ASSUME NEW mode \in Modes, NEW split \in BOOLEAN,
         NEW k \in 1..Len(WriteOrder(mode, split))
  PROVE  InTurn(WriteOrder(mode, split)[k],
                Earlier(WriteOrder(mode, split), k), mode)
<1> DEFINE n == Len(EntryOrder)
           order == WriteOrder(mode, split)
           f == order[k]
           before == Earlier(order, k)
<1> SUFFICES InTurn(f, before, mode)
  OBVIOUS
<1>1. /\ n \in Nat /\ Len(order) \in Nat /\ Len(order) >= n + 4
      /\ split => Len(order) = n + 5 + PartCount
      /\ \A i \in 1..Len(order) :
           \/ i <= n /\ order[i] = <<"payload", mode, EntryOrder[i]>>
           \/ i = n + 1 /\ order[i] = InventoryFile
           \/ i = n + 2 /\ order[i] = ChecksumFile
           \/ i = n + 3 /\ order[i] = Blob
           \/ /\ split /\ i \in n + 4..n + 3 + PartCount
              /\ order[i] = PartFiles[i - (n + 3)]
           \/ split /\ i = n + 4 + PartCount /\ order[i] = PartList
           \/ i = Len(order) /\ order[i] = Report
  BY Places
<1>2. k \in 1..Len(order) /\ PartCount \in Nat
  BY BundleAssumption DEF BundleAssumption
<1>3. /\ n + 4 \in 1..Len(order)
      /\ \A i \in 1..n : order[i] = <<"payload", mode, EntryOrder[i]>>
      /\ order[n + 1] = InventoryFile
      /\ order[n + 2] = ChecksumFile
      /\ order[n + 3] = Blob
      /\ split => \A j \in 1..PartCount : order[n + 3 + j] = PartFiles[j]
      /\ order[Len(order)] = Report
  BY OrderOfFiles, LastFiles
<1> HIDE DEF order
<1>4. ASSUME NEW i \in 1..Len(order)
      PROVE  order[i][1] = IF i <= n THEN "payload"
                           ELSE IF i = n + 1 THEN "inventory.json"
                           ELSE IF i = n + 2 THEN "checksums.sha256"
                           ELSE IF i = n + 3 THEN "bundle.blob"
                           ELSE IF i = Len(order) THEN "build-report.json"
                           ELSE IF i = n + 4 + PartCount THEN "parts.json"
                           ELSE "part"
  <2> HIDE DEF n
  <2>1. CASE i <= n
    <3>1. order[i] = <<"payload", mode, EntryOrder[i]>>
      BY <1>1, <1>3, <2>1
    <3> QED BY <2>1, <3>1, Names
  <2>2. CASE i = n + 1 \/ i = n + 2 \/ i = n + 3
    BY <1>1, <1>3, <2>2, Names
  <2>3. CASE i > n + 3
    <3>1. CASE i = Len(order)
      <4>1. order[i] = Report
        BY <1>3, <3>1
      <4> QED BY <1>1, <2>3, <3>1, <4>1, Names
    <3>2. CASE i # Len(order)
      <4>1. \/ /\ split /\ i \in n + 4..n + 3 + PartCount
               /\ order[i] = PartFiles[i - (n + 3)]
            \/ split /\ i = n + 4 + PartCount /\ order[i] = PartList
        BY <1>1, <2>3, <3>2
      <4>2. CASE i \in n + 4..n + 3 + PartCount /\ order[i] = PartFiles[i - (n + 3)]
        <5>1. i - (n + 3) \in 1..PartCount
          BY <1>1, <1>2, <4>2
        <5>2. order[i][1] = "part"
          BY <4>2, <5>1, Names
        <5> QED BY <1>1, <1>2, <2>3, <3>2, <4>2, <5>2
      <4>3. CASE i = n + 4 + PartCount /\ order[i] = PartList
        BY <1>1, <1>2, <2>3, <3>2, <4>3, Names
      <4> QED BY <4>1, <4>2, <4>3
    <3> QED BY <3>1, <3>2
  <2> QED BY <1>1, <2>1, <2>2, <2>3
<1>5. ASSUME NEW i \in 1..Len(order), i < k
      PROVE  order[i] \in before
  <2>1. i \in 1..k - 1
    BY <1>1, <1>5
  <2> QED BY <2>1 DEF Earlier
<1>6. ASSUME NEW g \in before
      PROVE  \E i \in 1..Len(order) : i < k /\ g = order[i]
  <2>1. PICK i \in 1..k - 1 : g = order[i]
    BY DEF Earlier
  <2>2. i \in 1..Len(order) /\ i < k
    BY <1>1, <1>2
  <2> QED BY <2>1, <2>2
<1> HIDE DEF before
<1>7. Report \notin before
  <2> SUFFICES ASSUME NEW i \in 1..Len(order), i < k, Report = order[i]
               PROVE  FALSE
    BY <1>6
  <2>1. order[i][1] = "build-report.json"
    BY Names
  <2>2. i # Len(order)
    BY <1>1, <1>2
  <2> HIDE DEF n
  <2> QED BY <1>4, <2>1, <2>2
<1>8. CASE k <= n
  <2>1. k \in 1..n /\ f = <<"payload", mode, EntryOrder[k]>>
    <3>1. k \in 1..n
      BY <1>1, <1>8
    <3> QED BY <1>3, <3>1
  <2>2. EntryOrder[k] \in Entries
    BY <2>1, EntryOrderIsSeq
  <2>3. f \in Files
    BY <2>1, <2>2, NamesAreFiles
  <2>4. InventoryFile \notin before
    <3> SUFFICES ASSUME NEW i \in 1..Len(order), i < k, InventoryFile = order[i]
                 PROVE  FALSE
      BY <1>6
    <3>1. i <= n /\ InventoryFile[1] = "inventory.json"
      BY <1>1, <1>8, Names
    <3> HIDE DEF n
    <3> QED BY <1>4, <3>1
  <2> HIDE DEF f
  <2> QED BY <1>7, <2>1, <2>2, <2>3, <2>4 DEF InTurn
<1>9. CASE k > n
  <2>1. \A e \in Entries : <<"payload", mode, e>> \in before
    <3> SUFFICES ASSUME NEW e \in Entries
                 PROVE  <<"payload", mode, e>> \in before
      OBVIOUS
    <3>1. PICK i \in 1..n : EntryOrder[i] = e
      BY EntryOrderIsSeq
    <3>2. i \in 1..Len(order) /\ i < k
      BY <1>1, <1>9
    <3> QED BY <1>3, <1>5, <3>1, <3>2
  <2>2. /\ k > n + 1 => InventoryFile \in before
        /\ k > n + 2 => ChecksumFile \in before
        /\ k > n + 3 => Blob \in before
    <3>1. n + 1 \in 1..Len(order) /\ n + 2 \in 1..Len(order)
          /\ n + 3 \in 1..Len(order)
      BY <1>1
    <3> HIDE DEF n
    <3> QED BY <1>3, <1>5, <3>1
  <2>3. \/ k = n + 1 /\ f = InventoryFile
        \/ k = n + 2 /\ f = ChecksumFile
        \/ k = n + 3 /\ f = Blob
        \/ /\ split /\ k \in n + 4..n + 3 + PartCount
           /\ f = PartFiles[k - (n + 3)]
        \/ split /\ k = n + 4 + PartCount /\ f = PartList
        \/ k = Len(order) /\ f = Report
    <3> HIDE DEF n
    <3> QED BY <1>1, <1>2, <1>9
  <2>4. CASE k = n + 1 /\ f = InventoryFile
    <3>1. InventoryFile \notin before
      <4> SUFFICES ASSUME NEW i \in 1..Len(order), i < k, InventoryFile = order[i]
                   PROVE  FALSE
        BY <1>6
      <4>1. i <= n /\ InventoryFile[1] = "inventory.json"
        BY <1>1, <2>4, Names
      <4> HIDE DEF n
      <4> QED BY <1>4, <4>1
    <3>2. f = InventoryFile /\ f \in Files /\ f \notin before
      BY <2>4, <3>1, NamesAreFiles
    <3> HIDE DEF f
    <3> QED BY <1>7, <2>1, <3>2 DEF InTurn
  <2>5. CASE k = n + 2 /\ f = ChecksumFile
    <3>1. InventoryFile \in before
      BY <1>1, <2>2, <2>5
    <3>2. f = ChecksumFile /\ f \in Files
      BY <2>5, NamesAreFiles
    <3> HIDE DEF f
    <3> QED BY <1>7, <3>1, <3>2 DEF InTurn
  <2>6. CASE k = n + 3 /\ f = Blob
    <3>1. Blob \notin before
      <4> SUFFICES ASSUME NEW i \in 1..Len(order), i < k, Blob = order[i]
                   PROVE  FALSE
        BY <1>6
      <4>1. (i <= n \/ i = n + 1 \/ i = n + 2) /\ Blob[1] = "bundle.blob"
        BY <1>1, <2>6, Names
      <4>2. order[i][1] \in {"payload", "inventory.json", "checksums.sha256"}
        <5> HIDE DEF n
        <5> QED BY <1>1, <1>4, <4>1
      <4> QED BY <4>1, <4>2
    <3>2. ChecksumFile \in before
      BY <1>1, <2>2, <2>6
    <3>3. f = Blob /\ f \in Files /\ f \notin before
      BY <2>6, <3>1, NamesAreFiles
    <3> HIDE DEF f
    <3> QED BY <1>7, <3>2, <3>3 DEF InTurn
  <2>7. CASE /\ split /\ k \in n + 4..n + 3 + PartCount
             /\ f = PartFiles[k - (n + 3)]
    <3>1. k - (n + 3) \in 1..PartCount /\ k > n + 3
      BY <1>1, <1>2, <2>7
    <3>2. PartList \notin before
      <4> SUFFICES ASSUME NEW i \in 1..Len(order), i < k, PartList = order[i]
                   PROVE  FALSE
        BY <1>6
      <4>1. i < n + 4 + PartCount /\ PartList[1] = "parts.json"
        BY <1>1, <1>2, <2>7, Names
      <4> HIDE DEF n
      <4> QED BY <1>1, <1>2, <1>4, <4>1
    <3>3. PICK j \in 1..PartCount : f = PartFiles[j]
      BY <2>7, <3>1
    <3>4. f \in Files /\ Blob \in before
      BY <2>2, <3>1, <3>3, PartFileIsFile
    <3> HIDE DEF f
    <3> QED BY <1>7, <3>2, <3>3, <3>4 DEF InTurn
  <2>8. CASE split /\ k = n + 4 + PartCount /\ f = PartList
    <3>1. ASSUME NEW j \in 1..PartCount
          PROVE  PartFiles[j] \in before
      <4>1. n + 3 + j \in 1..Len(order) /\ n + 3 + j < k
        BY <1>1, <1>2, <2>8
      <4>2. order[n + 3 + j] = PartFiles[j]
        BY <1>3, <2>8
      <4> HIDE DEF n
      <4> QED BY <1>5, <4>1, <4>2
    <3>2. Blob \in before
      BY <1>1, <1>2, <2>2, <2>8
    <3>3. f = PartList /\ f \in Files
      BY <2>8, NamesAreFiles
    <3> HIDE DEF f
    <3> QED BY <1>7, <3>1, <3>2, <3>3 DEF InTurn
  <2>9. CASE k = Len(order) /\ f = Report
    <3>1. ChecksumFile \in before
      BY <1>1, <2>2, <2>9
    <3>2. f = Report /\ f \in Files
      BY <2>9, NamesAreFiles
    <3> HIDE DEF f
    <3> QED BY <1>7, <3>1, <3>2 DEF InTurn
  <2> QED BY <2>3, <2>4, <2>5, <2>6, <2>7, <2>8, <2>9
<1>10. k <= n \/ k > n
  BY <1>1
<1> QED BY <1>8, <1>9, <1>10

-----------------------------------------------------------------------------
(* A build, file by file.                                                   *)

\* What may be fetched or described for an artifact of a valid lock.
LEMMA PayloadsOf ==
  ASSUME NEW lock \in ValidLocks, NEW e \in Entries, NEW mode \in Modes
  PROVE  PayloadsFor(lock[e], mode) \subseteq PayloadDocs
<1>1. lock \in [Entries -> LockEntries]
  BY LockAssumption DEF ValidLocks, LockAssumption
<1>2. lock[e] \in LockEntries
  BY <1>1
<1>3. /\ lock[e].sha256 \in Hashes \cup {Missing}
      /\ lock[e].source \in Hashes \cup {Missing}
  BY <1>2 DEF LockEntries
<1>4. Fetched(lock[e]) \subseteq Hashes
  BY <1>3 DEF Fetched, Pinned
<1>5. mode = "fetch" \/ mode = "descriptor"
  BY BundleAssumption DEF BundleAssumption
<1> QED BY <1>2, <1>4, <1>5 DEF PayloadsFor, Payload, PayloadDocs

\* The files that a running build made have contents of their kinds.
LEMMA HeldTypes ==
  ASSUME NEW files, NEW lock \in ValidLocks, NEW mode \in Modes,
         Coherent(files, lock, mode)
  PROVE  /\ AllPayloads(files, mode) => Payloads(files, mode) \in BlobDocs
         /\ files[InventoryFile] # Missing =>
              AllPayloads(files, mode) /\ files[InventoryFile] \in Contents(InventoryDocs)
         /\ files[ChecksumFile] # Missing =>
              files[InventoryFile] # Missing /\ files[ChecksumFile] \in Contents(ChecksumDocs)
         /\ files[Blob] # Missing =>
              files[ChecksumFile] # Missing /\ files[Blob] \in Contents(BlobDocs)
         /\ \A i \in 1..PartCount : files[PartFiles[i]] # Missing =>
              files[Blob] # Missing /\ files[PartFiles[i]] \in Contents(PartDocs)
         /\ files[PartList] # Missing =>
              files[Blob] # Missing /\ files[PartList] \in Contents(PartListDocs)
<1>0. \A docs : \A doc \in docs : Says(doc) \in Contents(docs)
  BY DEF Says, Contents
<1>1. ASSUME AllPayloads(files, mode)
      PROVE  Payloads(files, mode) \in BlobDocs
  <2>1. \A e \in Entries : files[<<"payload", mode, e>>] \in Contents(PayloadDocs)
    BY <1>1 DEF AllPayloads, Coherent, PayloadsHeld
  <2> QED BY <2>1 DEF Payloads, BlobDocs
<1>2. ASSUME files[InventoryFile] # Missing
      PROVE  /\ AllPayloads(files, mode)
             /\ files[InventoryFile] \in Contents(InventoryDocs)
  <2>1. /\ AllPayloads(files, mode)
        /\ files[InventoryFile] = Says(Inventory(lock, mode, files))
    BY <1>2 DEF Coherent, InventoryHeld
  <2>2. Inventory(lock, mode, files) \in InventoryDocs
    <3>1. Payloads(files, mode) \in BlobDocs
      BY <1>1, <2>1
    <3> QED BY <3>1 DEF Inventory, InventoryDocs
  <2> QED BY <1>0, <2>1, <2>2
<1>3. ASSUME files[ChecksumFile] # Missing
      PROVE  /\ files[InventoryFile] # Missing
             /\ files[ChecksumFile] \in Contents(ChecksumDocs)
  <2>1. /\ files[InventoryFile] # Missing
        /\ files[ChecksumFile] = Says(Checksums(files, mode))
    BY <1>3 DEF Coherent, ChecksumsHeld
  <2>2. Checksums(files, mode) \in ChecksumDocs
    <3>1. /\ Payloads(files, mode) \in BlobDocs
          /\ files[InventoryFile] \in Contents(InventoryDocs)
      BY <1>1, <1>2, <2>1
    <3> QED BY <3>1 DEF Checksums, ChecksumDocs
  <2> QED BY <1>0, <2>1, <2>2
<1>4. ASSUME files[Blob] # Missing
      PROVE  /\ files[ChecksumFile] # Missing
             /\ files[Blob] \in Contents(BlobDocs)
  <2>1. /\ files[ChecksumFile] # Missing
        /\ files[Blob] = Says(Payloads(files, mode))
    BY <1>4 DEF Coherent, BlobHeld
  <2>2. Payloads(files, mode) \in BlobDocs
    BY <1>1, <1>2, <1>3, <2>1
  <2> QED BY <1>0, <2>1, <2>2
<1>5. ASSUME NEW i \in 1..PartCount, files[PartFiles[i]] # Missing
      PROVE  /\ files[Blob] # Missing
             /\ files[PartFiles[i]] \in Contents(PartDocs)
  <2>1. /\ files[Blob] # Missing
        /\ files[PartFiles[i]] = Says(<<i, files[Blob]>>)
    BY <1>5 DEF Coherent, PartsHeld
  <2>2. <<i, files[Blob]>> \in PartDocs
    <3>1. files[Blob] \in Contents(BlobDocs)
      BY <1>4, <2>1
    <3> QED BY <3>1 DEF PartDocs
  <2> QED BY <1>0, <2>1, <2>2
<1>6. ASSUME files[PartList] # Missing
      PROVE  /\ files[Blob] # Missing
             /\ files[PartList] \in Contents(PartListDocs)
  <2>1. /\ files[Blob] # Missing
        /\ \A i \in 1..PartCount : files[PartFiles[i]] # Missing
        /\ files[PartList] = Says(Parts(files))
    BY <1>6 DEF Coherent, PartListHeld
  <2>2. Parts(files) \in PartListDocs
    <3>1. /\ files[Blob] \in Contents(BlobDocs)
          /\ \A i \in 1..PartCount : files[PartFiles[i]] \in Contents(PartDocs)
      BY <1>4, <1>5, <2>1
    <3> QED BY <3>1 DEF Parts, PartListDocs
  <2> QED BY <1>0, <2>1, <2>2
<1> QED BY <1>1, <1>2, <1>3, <1>4, <1>5, <1>6

\* What build_bundle writes in turn is of the kind of the file.
LEMMA FitsKind ==
  ASSUME NEW lock \in ValidLocks, NEW mode \in Modes,
         build.lock = lock, build.mode = mode,
         Coherent(dist, lock, mode),
         NEW f, InTurn(f, There(dist), mode), NEW doc \in DocsFor(f)
  PROVE  doc \in Docs(f)
<1>1. \A g : g \in There(dist) => dist[g] # Missing
  BY DEF There
<1>2. CASE \E e \in Entries : f = <<"payload", mode, e>>
  <2>1. PICK e \in Entries : f = <<"payload", mode, e>>
    BY <1>2
  <2>2. f[1] = "payload" /\ f[3] = e
    BY <2>1, Names
  <2>3. doc \in PayloadsFor(lock[e], mode)
    <3>1. f # InventoryFile /\ f # ChecksumFile /\ f # Blob /\ f # PartList
          /\ f # Report /\ f[1] # "part"
      BY <2>2, Names
    <3> QED BY <2>2, <3>1 DEF DocsFor
  <2>5. doc \in PayloadDocs
    BY <2>3, PayloadsOf
  <2> QED BY <2>1, <2>5, DocsOf
<1>3. CASE f = InventoryFile /\ \A e \in Entries : <<"payload", mode, e>> \in There(dist)
  <2>1. doc = Inventory(lock, mode, dist)
    BY <1>3, Names DEF DocsFor
  <2>2. Payloads(dist, mode) \in BlobDocs
    BY <1>1, <1>3, HeldTypes DEF AllPayloads
  <2>3. doc \in InventoryDocs
    BY <2>1, <2>2 DEF Inventory, InventoryDocs
  <2> QED BY <1>3, <2>3, DocsOf
<1>4. CASE f = ChecksumFile /\ InventoryFile \in There(dist)
  <2>1. doc = Checksums(dist, mode)
    BY <1>4, Names DEF DocsFor
  <2>2. /\ Payloads(dist, mode) \in BlobDocs
        /\ dist[InventoryFile] \in Contents(InventoryDocs)
    BY <1>1, <1>4, HeldTypes
  <2>3. doc \in ChecksumDocs
    BY <2>1, <2>2 DEF Checksums, ChecksumDocs
  <2> QED BY <1>4, <2>3, DocsOf
<1>5. CASE f = Blob /\ ChecksumFile \in There(dist)
  <2>1. doc = Payloads(dist, mode)
    BY <1>5, Names DEF DocsFor
  <2>2. Payloads(dist, mode) \in BlobDocs
    BY <1>1, <1>5, HeldTypes
  <2> QED BY <1>5, <2>1, <2>2, DocsOf
<1>6. CASE Blob \in There(dist) /\ \E i \in 1..PartCount : f = PartFiles[i]
  <2>1. PICK i \in 1..PartCount : f = PartFiles[i]
    BY <1>6
  <2>2. f = <<"part", i>> /\ f[1] = "part" /\ f[2] = i
    BY <2>1 DEF PartFiles
  <2>3. doc = <<i, dist[Blob]>>
    <3>1. f # InventoryFile /\ f # ChecksumFile /\ f # Blob /\ f # PartList
          /\ f # Report /\ f[1] # "payload"
      BY <2>2, Names
    <3> HIDE DEF Blob
    <3> QED BY <2>2, <3>1 DEF DocsFor
  <2>4. dist[Blob] \in Contents(BlobDocs)
    BY <1>1, <1>6, HeldTypes
  <2>5. doc \in PartDocs
    BY <2>3, <2>4 DEF PartDocs
  <2> QED BY <2>1, <2>5, DocsOf
<1>7. CASE /\ f = PartList /\ Blob \in There(dist)
           /\ \A i \in 1..PartCount : PartFiles[i] \in There(dist)
  <2>1. doc = Parts(dist)
    BY <1>7, Names DEF DocsFor
  <2>2. /\ dist[Blob] \in Contents(BlobDocs)
        /\ \A i \in 1..PartCount : dist[PartFiles[i]] \in Contents(PartDocs)
    BY <1>1, <1>7, HeldTypes
  <2>3. doc \in PartListDocs
    BY <2>1, <2>2 DEF Parts, PartListDocs
  <2> QED BY <1>7, <2>3, DocsOf
<1>8. CASE f = Report
  <2>1. doc = "built"
    BY <1>8, Names DEF DocsFor
  <2> QED BY <1>8, <2>1, DocsOf
<1> QED BY <1>2, <1>3, <1>4, <1>5, <1>6, <1>7, <1>8 DEF InTurn

\* After a file in turn, the running build has still made everything that is
\* there.
LEMMA WritesInTurn ==
  ASSUME NEW lock \in ValidLocks, NEW mode \in Modes,
         build.lock = lock, build.mode = mode,
         DOMAIN dist = Files, Coherent(dist, lock, mode),
         NEW f, InTurn(f, There(dist), mode), NEW doc \in DocsFor(f),
         dist' = [dist EXCEPT ![f] = Says(doc)]
  PROVE  /\ There(dist') = There(dist) \cup {f}
         /\ Coherent(dist', lock, mode)
<1>1. f \in Files /\ doc \in Docs(f)
  BY FitsKind DEF InTurn
<1>2. Says(doc) # Missing /\ Says(doc) \in Contents(Docs(f))
  BY <1>1, NotMissing
<1>3. /\ dist'[f] = Says(doc)
      /\ \A g \in Files : g # f => dist'[g] = dist[g]
  BY <1>1
<1>4. There(dist') = There(dist) \cup {f}
  BY <1>1, <1>2, <1>3 DEF There
<1>5. /\ InventoryFile \in Files /\ ChecksumFile \in Files /\ Blob \in Files
      /\ PartList \in Files /\ \A i \in 1..PartCount : PartFiles[i] \in Files
      /\ \A e \in Entries : <<"payload", mode, e>> \in Files
  BY NamesAreFiles, PartFileIsFile
<1>6. /\ PayloadsHeld(dist, mode) /\ InventoryHeld(dist, lock, mode)
      /\ ChecksumsHeld(dist, mode) /\ BlobHeld(dist, mode)
      /\ PartsHeld(dist) /\ PartListHeld(dist)
  BY DEF Coherent
<1>7. \A g \in Files : g \in There(dist) <=> dist[g] # Missing
  BY DEF There
<1>8. ASSUME \A e \in Entries : f # <<"payload", mode, e>>
      PROVE  /\ Payloads(dist', mode) = Payloads(dist, mode)
             /\ AllPayloads(dist', mode) <=> AllPayloads(dist, mode)
             /\ PayloadsHeld(dist', mode)
             /\ Inventory(lock, mode, dist') = Inventory(lock, mode, dist)
  <2>1. \A e \in Entries : dist'[<<"payload", mode, e>>] = dist[<<"payload", mode, e>>]
    BY <1>3, <1>5, <1>8
  <2>2. Payloads(dist', mode) = Payloads(dist, mode)
    BY <2>1 DEF Payloads
  <2> QED BY <1>6, <2>1, <2>2 DEF AllPayloads, PayloadsHeld, Inventory
<1>9. ASSUME f # Blob, \A i \in 1..PartCount : f # PartFiles[i]
      PROVE  PartsHeld(dist') /\ Parts(dist') = Parts(dist)
  <2>1. /\ dist'[Blob] = dist[Blob]
        /\ \A i \in 1..PartCount : dist'[PartFiles[i]] = dist[PartFiles[i]]
    BY <1>3, <1>5, <1>9
  <2> QED BY <1>6, <2>1 DEF Parts, PartsHeld
<1>10. ASSUME f # InventoryFile, \A e \in Entries : f # <<"payload", mode, e>>
       PROVE  /\ dist'[InventoryFile] = dist[InventoryFile]
              /\ InventoryHeld(dist', lock, mode)
              /\ Checksums(dist', mode) = Checksums(dist, mode)
  <2>1. dist'[InventoryFile] = dist[InventoryFile]
    BY <1>3, <1>5, <1>10
  <2> QED BY <1>6, <1>8, <1>10, <2>1 DEF InventoryHeld, Checksums
<1>11. CASE \E e \in Entries : f = <<"payload", mode, e>> /\ InventoryFile \notin There(dist)
  <2>1. PICK e \in Entries : f = <<"payload", mode, e>> /\ InventoryFile \notin There(dist)
    BY <1>11
  <2>2. /\ f # InventoryFile /\ f # ChecksumFile /\ f # Blob /\ f # PartList
        /\ \A i \in 1..PartCount : f # PartFiles[i]
    BY <2>1, Names
  <2>3. /\ dist[InventoryFile] = Missing /\ dist[ChecksumFile] = Missing
        /\ dist[Blob] = Missing /\ dist[PartList] = Missing
        /\ \A i \in 1..PartCount : dist[PartFiles[i]] = Missing
    BY <1>5, <1>6, <1>7, <2>1
       DEF ChecksumsHeld, BlobHeld, PartsHeld, PartListHeld
  <2>4. /\ dist'[InventoryFile] = Missing /\ dist'[ChecksumFile] = Missing
        /\ dist'[Blob] = Missing /\ dist'[PartList] = Missing
        /\ \A i \in 1..PartCount : dist'[PartFiles[i]] = Missing
    BY <1>3, <1>5, <2>2, <2>3
  <2>5. PayloadsHeld(dist', mode)
    <3> SUFFICES ASSUME NEW d \in Entries, dist'[<<"payload", mode, d>>] # Missing
                 PROVE  dist'[<<"payload", mode, d>>] \in Contents(PayloadDocs)
      BY DEF PayloadsHeld
    <3>1. CASE <<"payload", mode, d>> = f
      BY <1>2, <1>3, <2>1, <3>1, DocsOf
    <3>2. CASE <<"payload", mode, d>> # f
      <4>1. dist'[<<"payload", mode, d>>] = dist[<<"payload", mode, d>>]
        BY <1>3, <1>5, <3>2
      <4> QED BY <1>6, <4>1 DEF PayloadsHeld
    <3> QED BY <3>1, <3>2
  <2> QED BY <1>4, <2>4, <2>5
          DEF Coherent, InventoryHeld, ChecksumsHeld, BlobHeld, PartsHeld,
              PartListHeld
<1>12. CASE /\ f = InventoryFile /\ f \notin There(dist)
            /\ \A e \in Entries : <<"payload", mode, e>> \in There(dist)
  <2>1. /\ \A e \in Entries : f # <<"payload", mode, e>>
        /\ f # ChecksumFile /\ f # Blob /\ f # PartList
        /\ \A i \in 1..PartCount : f # PartFiles[i]
    BY <1>12, Names
  <2>2. /\ dist[ChecksumFile] = Missing
        /\ dist[Blob] = Missing /\ dist[PartList] = Missing
        /\ \A i \in 1..PartCount : dist[PartFiles[i]] = Missing
    BY <1>5, <1>6, <1>7, <1>12
       DEF ChecksumsHeld, BlobHeld, PartsHeld, PartListHeld
  <2>3. /\ dist'[ChecksumFile] = Missing
        /\ dist'[Blob] = Missing /\ dist'[PartList] = Missing
        /\ \A i \in 1..PartCount : dist'[PartFiles[i]] = Missing
    BY <1>3, <1>5, <2>1, <2>2
  <2>4. doc = Inventory(lock, mode, dist)
    BY <1>12, Names DEF DocsFor
  <2>5. InventoryHeld(dist', lock, mode)
    <3>1. AllPayloads(dist, mode)
      BY <1>7, <1>12 DEF AllPayloads, There
    <3> QED BY <1>3, <1>8, <1>12, <2>1, <2>4, <3>1 DEF InventoryHeld
  <2>6. PayloadsHeld(dist', mode)
    BY <1>8, <2>1
  <2> QED BY <1>4, <2>3, <2>5, <2>6
          DEF Coherent, ChecksumsHeld, BlobHeld, PartsHeld, PartListHeld
<1>13. CASE f = ChecksumFile /\ InventoryFile \in There(dist)
  <2>1. /\ \A e \in Entries : f # <<"payload", mode, e>>
        /\ f # InventoryFile /\ f # Blob /\ f # PartList
        /\ \A i \in 1..PartCount : f # PartFiles[i]
    BY <1>13, Names
  <2>2. doc = Checksums(dist, mode)
    BY <1>13, Names DEF DocsFor
  <2>3. /\ dist'[Blob] = dist[Blob] /\ dist'[PartList] = dist[PartList]
        /\ \A i \in 1..PartCount : dist'[PartFiles[i]] = dist[PartFiles[i]]
    BY <1>3, <1>5, <2>1
  <2>4. ChecksumsHeld(dist', mode)
    BY <1>3, <1>5, <1>7, <1>10, <1>13, <2>1, <2>2 DEF ChecksumsHeld
  <2>5. BlobHeld(dist', mode)
    BY <1>2, <1>3, <1>6, <1>8, <1>13, <2>1, <2>3 DEF BlobHeld
  <2>6. PartsHeld(dist') /\ PartListHeld(dist')
    BY <1>6, <1>9, <2>1, <2>3 DEF PartListHeld
  <2> QED BY <1>4, <1>8, <1>10, <2>1, <2>4, <2>5, <2>6 DEF Coherent
<1>14. CASE f = Blob /\ f \notin There(dist) /\ ChecksumFile \in There(dist)
  <2>1. /\ \A e \in Entries : f # <<"payload", mode, e>>
        /\ f # InventoryFile /\ f # ChecksumFile /\ f # PartList
        /\ \A i \in 1..PartCount : f # PartFiles[i]
    BY <1>14, Names
  <2>2. doc = Payloads(dist, mode)
    BY <1>14, Names DEF DocsFor
  <2>3. /\ dist'[ChecksumFile] = dist[ChecksumFile] /\ dist'[PartList] = dist[PartList]
        /\ \A i \in 1..PartCount : dist'[PartFiles[i]] = dist[PartFiles[i]]
    BY <1>3, <1>5, <2>1
  <2>4. /\ dist[PartList] = Missing /\ dist[ChecksumFile] # Missing
        /\ \A i \in 1..PartCount : dist[PartFiles[i]] = Missing
    BY <1>5, <1>6, <1>7, <1>14 DEF PartsHeld, PartListHeld
  <2>5. BlobHeld(dist', mode)
    BY <1>3, <1>8, <1>14, <2>1, <2>2, <2>3, <2>4 DEF BlobHeld
  <2>6. ChecksumsHeld(dist', mode)
    BY <1>6, <1>10, <2>1, <2>3 DEF ChecksumsHeld
  <2>7. PartsHeld(dist') /\ PartListHeld(dist')
    BY <2>3, <2>4 DEF PartsHeld, PartListHeld
  <2> QED BY <1>4, <1>8, <1>10, <2>1, <2>5, <2>6, <2>7 DEF Coherent
<1>15. CASE /\ \E i \in 1..PartCount : f = PartFiles[i]
            /\ Blob \in There(dist) /\ PartList \notin There(dist)
  <2>0. PICK i \in 1..PartCount : f = PartFiles[i]
    BY <1>15
  <2>1. /\ \A e \in Entries : f # <<"payload", mode, e>>
        /\ f # InventoryFile /\ f # ChecksumFile /\ f # PartList /\ f # Blob
        /\ f # Report /\ f[1] = "part"
    BY <2>0, Names
  <2>2. doc = <<f[2], dist[Blob]>>
    <3>1. f[1] # "payload"
      BY <2>1
    <3> QED BY <2>1, <3>1 DEF DocsFor
  <2>3. /\ dist'[ChecksumFile] = dist[ChecksumFile] /\ dist'[PartList] = dist[PartList]
        /\ dist'[Blob] = dist[Blob]
    BY <1>3, <1>5, <2>1
  <2>4. BlobHeld(dist', mode) /\ ChecksumsHeld(dist', mode)
    BY <1>6, <1>8, <1>10, <2>1, <2>3 DEF BlobHeld, ChecksumsHeld
  <2>5. PartListHeld(dist')
    BY <1>5, <1>7, <1>15, <2>3 DEF PartListHeld
  <2>6. PartsHeld(dist')
    <3> SUFFICES ASSUME NEW j \in 1..PartCount, dist'[PartFiles[j]] # Missing
                 PROVE  /\ dist'[Blob] # Missing
                        /\ dist'[PartFiles[j]] = Says(<<j, dist'[Blob]>>)
      BY DEF PartsHeld
    <3>1. CASE PartFiles[j] = f
      <4>1. PartFiles[j] = <<"part", j>>
        BY DEF PartFiles
      <4>2. PartFiles[j][2] = j
        BY <4>1
      <4>3. f[2] = j
        BY <3>1, <4>2
      <4> QED BY <1>3, <1>5, <1>7, <1>15, <2>2, <2>3, <3>1, <4>3
    <3>2. CASE PartFiles[j] # f
      <4>1. dist'[PartFiles[j]] = dist[PartFiles[j]]
        BY <1>3, <1>5, <3>2
      <4> QED BY <1>6, <2>3, <4>1 DEF PartsHeld
    <3> QED BY <3>1, <3>2
  <2> QED BY <1>4, <1>8, <1>10, <2>1, <2>4, <2>5, <2>6 DEF Coherent
<1>16. CASE /\ f = PartList /\ Blob \in There(dist)
            /\ \A i \in 1..PartCount : PartFiles[i] \in There(dist)
  <2>1. /\ \A e \in Entries : f # <<"payload", mode, e>>
        /\ f # InventoryFile /\ f # ChecksumFile /\ f # Blob
        /\ \A i \in 1..PartCount : f # PartFiles[i]
    BY <1>16, Names
  <2>2. doc = Parts(dist)
    BY <1>16, Names DEF DocsFor
  <2>3. /\ dist'[ChecksumFile] = dist[ChecksumFile] /\ dist'[Blob] = dist[Blob]
        /\ \A i \in 1..PartCount : dist'[PartFiles[i]] = dist[PartFiles[i]]
    BY <1>3, <1>5, <2>1
  <2>4. BlobHeld(dist', mode) /\ ChecksumsHeld(dist', mode)
    BY <1>6, <1>8, <1>10, <2>1, <2>3 DEF BlobHeld, ChecksumsHeld
  <2>5. PartsHeld(dist') /\ Parts(dist') = Parts(dist)
    BY <1>9, <2>1
  <2>6. PartListHeld(dist')
    <3>1. dist[Blob] # Missing /\ \A i \in 1..PartCount : dist[PartFiles[i]] # Missing
      BY <1>5, <1>7, <1>16
    <3> QED BY <1>3, <1>16, <2>2, <2>3, <2>5, <3>1 DEF PartListHeld
  <2> QED BY <1>4, <1>8, <1>10, <2>1, <2>4, <2>5, <2>6 DEF Coherent
<1>17. CASE f = Report
  <2>1. /\ \A e \in Entries : f # <<"payload", mode, e>>
        /\ f # InventoryFile /\ f # ChecksumFile /\ f # Blob /\ f # PartList
        /\ \A i \in 1..PartCount : f # PartFiles[i]
    BY <1>17, Names
  <2>2. /\ dist'[ChecksumFile] = dist[ChecksumFile] /\ dist'[Blob] = dist[Blob]
        /\ dist'[PartList] = dist[PartList]
        /\ \A i \in 1..PartCount : dist'[PartFiles[i]] = dist[PartFiles[i]]
    BY <1>3, <1>5, <2>1
  <2>3. BlobHeld(dist', mode) /\ ChecksumsHeld(dist', mode)
    BY <1>6, <1>8, <1>10, <2>1, <2>2 DEF BlobHeld, ChecksumsHeld
  <2>4. PartsHeld(dist') /\ PartListHeld(dist')
    BY <1>6, <1>9, <2>1, <2>2 DEF PartListHeld
  <2> QED BY <1>4, <1>8, <1>10, <2>1, <2>3, <2>4 DEF Coherent
<1> QED BY <1>11, <1>12, <1>13, <1>14, <1>15, <1>16, <1>17 DEF InTurn

\* What a running build made passes verify_bundle as soon as its checksums are
\* written.
LEMMA CoherentVerifies ==
  ASSUME NEW files, NEW lock \in ValidLocks, NEW mode \in Modes,
         Coherent(files, lock, mode), files[ChecksumFile] # Missing
  PROVE  /\ files[InventoryFile] # Missing
         /\ Verifies(files, files[InventoryFile].doc.lock)
<1>1. /\ files[InventoryFile] # Missing
      /\ files[ChecksumFile] = Says(Checksums(files, mode))
  BY DEF Coherent, ChecksumsHeld
<1>2. /\ AllPayloads(files, mode)
      /\ files[InventoryFile] = Says(Inventory(lock, mode, files))
      /\ files[InventoryFile] \in Contents(InventoryDocs)
  BY <1>1, HeldTypes DEF Coherent, InventoryHeld
<1> DEFINE doc == files[InventoryFile].doc
<1>3. doc = Inventory(lock, mode, files) /\ doc \in InventoryDocs
  BY <1>2 DEF Says, Contents
<1>4. doc.lock = lock /\ doc.mode = mode /\ doc.sums = Payloads(files, mode)
  BY <1>3 DEF Inventory
<1>5. doc # Missing
  BY <1>3, NotMissing, DocsOf, NamesAreFiles
<1>6. InventoryMatches(files, lock)
  BY <1>1, <1>4, <1>5 DEF InventoryMatches
<1>7. PayloadsMatch(files)
  <2>1. \A e \in Entries : Payloads(files, mode)[e] = files[<<"payload", mode, e>>]
    BY DEF Payloads
  <2> QED BY <1>2, <1>4, <2>1 DEF PayloadsMatch, AllPayloads
<1>8. ChecksumsMatch(files)
  BY <1>1, <1>4 DEF ChecksumsMatch
<1>9. PartsMatch(files)
  <2> SUFFICES ASSUME files[PartList] # Missing
               PROVE  PartsIntact(files) /\ files[Blob] = files[PartList].doc.complete
    BY DEF PartsMatch
  <2>1. /\ \A i \in 1..PartCount : files[PartFiles[i]] # Missing
        /\ files[PartList] = Says(Parts(files))
        /\ files[PartList] \in Contents(PartListDocs)
    BY HeldTypes DEF Coherent, PartListHeld
  <2>2. files[PartList].doc = Parts(files) /\ files[PartList].doc \in PartListDocs
    BY <2>1 DEF Says, Contents
  <2>3. files[PartList].doc # Missing
    BY <2>2, NotMissing, DocsOf, NamesAreFiles
  <2>4. /\ Parts(files).complete = files[Blob]
        /\ \A i \in 1..PartCount : Parts(files).parts[i] = files[PartFiles[i]]
    BY DEF Parts
  <2> QED BY <2>1, <2>2, <2>3, <2>4 DEF PartsIntact
<1> QED BY <1>1, <1>4, <1>6, <1>7, <1>8, <1>9 DEF Verifies

\* What is left to be written is never nothing, and its files are files.
LEMMA RestOfOrder ==
  ASSUME NEW mode \in Modes, NEW split \in BOOLEAN,
         NEW k \in 1..Len(WriteOrder(mode, split)), NEW rest,
         rest = SubSeq(WriteOrder(mode, split), k, Len(WriteOrder(mode, split)))
  PROVE  /\ rest # <<>> /\ InSeq(rest) \subseteq Files
         /\ Head(rest) = WriteOrder(mode, split)[k]
         /\ Tail(rest) = SubSeq(WriteOrder(mode, split), k + 1,
                                Len(WriteOrder(mode, split)))
         /\ Tail(rest) # <<>> => k + 1 \in 1..Len(WriteOrder(mode, split))
<1> DEFINE order == WriteOrder(mode, split)
           S == InSeq(PayloadFiles(mode)) \cup InSeq(PartFiles)
                \cup {InventoryFile, ChecksumFile, Blob, PartList, Report}
<1>1. order \in Seq(S)
  BY OrderOfFiles
<1>2. S \subseteq Files
  BY NamesAreFiles DEF Files
<1>3. \A i \in 1..Len(order) : order[i] \in Files
  <2> HIDE DEF order, S
  <2> QED BY <1>1, <1>2
<1> HIDE DEF order, S
<1>4. /\ k \in 1..Len(order) /\ Len(order) \in Nat
      /\ rest = SubSeq(order, k, Len(order))
  BY <1>1 DEF order
<1>5. Len(order) \in k..Len(order)
  BY <1>4
<1>6. Head(rest) = order[k] /\ Tail(rest) = SubSeq(order, k + 1, Len(order))
  BY <1>1, <1>4, <1>5, HeadTailOfSubSeq
<1>7. /\ DOMAIN rest = 1..Len(order) - k + 1
      /\ Len(rest) = Len(order) - k + 1
      /\ \A i \in 1..Len(order) - k + 1 : rest[i] = order[k + i - 1]
  BY <1>1, <1>4, <1>5, SubSeqProperties
<1>8. InSeq(rest) \subseteq Files
  <2> SUFFICES ASSUME NEW i \in DOMAIN rest PROVE rest[i] \in Files
    BY DEF InSeq
  <2>1. k + i - 1 \in 1..Len(order) /\ rest[i] = order[k + i - 1]
    BY <1>4, <1>7
  <2> QED BY <1>3, <2>1
<1>9. rest # <<>>
  <2>1. Len(rest) # 0
    BY <1>4, <1>7
  <2>2. Len(<<>>) = 0
    OBVIOUS
  <2> QED BY <2>1, <2>2
<1>10. Tail(rest) # <<>> => k + 1 \in 1..Len(order)
  <2> SUFFICES ASSUME k = Len(order) PROVE Tail(rest) = <<>>
    BY <1>4
  <2> QED BY <1>1, <1>4, <1>6, SubSeqEmpty
<1> QED BY <1>6, <1>8, <1>9, <1>10 DEF order

LEMMA EarlierFiles ==
  ASSUME NEW order, NEW k \in Nat \ {0}
  PROVE  /\ Earlier(order, 1) = {}
         /\ Earlier(order, k + 1) = Earlier(order, k) \cup {order[k]}
<1>1. 1..1 - 1 = {} /\ 1..(k + 1) - 1 = (1..k - 1) \cup {k}
  OBVIOUS
<1> QED BY <1>1 DEF Earlier

LEMMA NoReport ==
  ASSUME NEW files, Report \notin There(files)
  PROVE  files[Report] # Says("built")
BY NotMissing, DocsOf, NamesAreFiles DEF There

\* Without any file there is nothing to make.
LEMMA NothingMade ==
  ASSUME NEW files, There(files) = {}, NEW lock, NEW mode \in Modes
  PROVE  Coherent(files, lock, mode)
<1>1. \A f \in Files : files[f] = Missing
  BY DEF There
<1>2. /\ files[InventoryFile] = Missing /\ files[ChecksumFile] = Missing
      /\ files[Blob] = Missing /\ files[PartList] = Missing
      /\ \A i \in 1..PartCount : files[PartFiles[i]] = Missing
      /\ \A e \in Entries : files[<<"payload", mode, e>>] = Missing
  BY <1>1, NamesAreFiles, PartFileIsFile
<1> QED BY <1>2
        DEF Coherent, PayloadsHeld, InventoryHeld, ChecksumsHeld, BlobHeld,
            PartsHeld, PartListHeld

\* A bundle still verifies without its blob.
LEMMA VerifiesWithoutBlob ==
  ASSUME DOMAIN dist = Files, dist' = [dist EXCEPT ![Blob] = Missing],
         NEW lock, Verifies(dist, lock)
  PROVE  Verifies(dist', lock) /\ dist'[InventoryFile] = dist[InventoryFile]
<1>1. \A f \in Files : f # Blob => dist'[f] = dist[f]
  OBVIOUS
<1>2. /\ dist'[InventoryFile] = dist[InventoryFile]
      /\ dist'[ChecksumFile] = dist[ChecksumFile]
      /\ dist'[PartList] = dist[PartList]
      /\ \A i \in 1..PartCount : dist'[PartFiles[i]] = dist[PartFiles[i]]
      /\ dist'[Blob] = Missing
  BY <1>1, Names, NamesAreFiles, PartFileIsFile
<1> DEFINE mode == dist[InventoryFile].doc.mode
<1>3. ASSUME NEW e
      PROVE  dist'[<<"payload", mode, e>>] = dist[<<"payload", mode, e>>]
  <2>1. <<"payload", mode, e>> # Blob
    BY Names
  <2> QED BY <2>1
<1>4. Payloads(dist', mode) = Payloads(dist, mode)
  BY <1>3 DEF Payloads
<1>5. InventoryMatches(dist', lock)
  BY <1>2 DEF Verifies, InventoryMatches
<1>6. PayloadsMatch(dist')
  BY <1>2, <1>3 DEF Verifies, PayloadsMatch
<1>7. ChecksumsMatch(dist')
  BY <1>2, <1>4 DEF Verifies, ChecksumsMatch, Checksums
<1>8. PartsMatch(dist')
  BY <1>2 DEF Verifies, PartsMatch, PartsIntact
<1> QED BY <1>2, <1>5, <1>6, <1>7, <1>8 DEF Verifies

-----------------------------------------------------------------------------
(* Every step keeps the types and the meaning of the report.                *)

\* The part of the types that a build can change.
DistOK == /\ DOMAIN dist = Files
          /\ \A f \in Files : dist[f] \in Contents(Docs(f)) \cup {Missing, Torn}

BuildOK == build # None =>
             /\ build.lock \in ValidLocks /\ build.mode \in Modes
             /\ build.clear \subseteq Files /\ InSeq(build.write) \subseteq Files
             /\ build.write # <<>>

ArrivedOK == /\ DOMAIN arrived = Files
             /\ \A f \in Files : arrived[f] \in Carried(f) \cup {Missing}

RestOK == /\ InSeq(copying) \subseteq Files
          /\ verdict \in ValidLocks \cup {None}
          /\ restored \in [ok: BOOLEAN,
                           content: Contents(BlobDocs) \cup {Missing, Torn}]

LEMMA TypeParts == BundleTypeOK <=> DistOK /\ BuildOK /\ ArrivedOK /\ RestOK
BY DEF BundleTypeOK, DistOK, BuildOK, ArrivedOK, RestOK

LEMMA BuildsTyped ==
  ASSUME BundleInv, Progress(build, dist) \/ build = None,
         StartBuild \/ ClearFile \/ WriteFile \/ StopBuild
  PROVE  BundleInv'
<1>1. UNCHANGED <<arrived, copying, verdict, restored>>
  BY DEF StartBuild, ClearFile, WriteFile, StopBuild, ConnectedOnly
<1>2. DistOK /\ BuildOK /\ ArrivedOK /\ RestOK
  BY TypeParts DEF BundleInv
<1>3. ArrivedOK' /\ RestOK'
  BY <1>1, <1>2 DEF ArrivedOK, RestOK
<1>4. BundleTypeOK' <=> DistOK' /\ BuildOK' /\ ArrivedOK' /\ RestOK'
  BY DEF BundleTypeOK, DistOK, BuildOK, ArrivedOK, RestOK
<1> SUFFICES /\ DistOK' /\ BuildOK'
             /\ ReportMeansWhole'
             /\ build' # None => Underway(build', dist')
  BY <1>3, <1>4 DEF BundleInv
<1>5. CASE StartBuild
  <2>1. PICK lock \in ValidLocks, mode \in Modes, split \in BOOLEAN :
          build' = [lock |-> lock, mode |-> mode,
                    clear |-> {f \in Files : dist[f] # Missing},
                    write |-> WriteOrder(mode, split)]
    BY <1>5 DEF StartBuild
  <2>2. UNCHANGED dist
    BY <1>5 DEF StartBuild
  <2> DEFINE order == WriteOrder(mode, split)
             c == There(dist)
  <2>3. /\ build'.lock = lock /\ build'.mode = mode /\ build'.write = order
        /\ build'.clear = c
    <3>1. build' = [lock |-> lock, mode |-> mode, clear |-> c, write |-> order]
      BY <2>1 DEF There
    <3> HIDE DEF c, order
    <3> QED BY <3>1
  <2>4. 1 \in 1..Len(order) /\ order = SubSeq(order, 1, Len(order))
    <3> DEFINE S == InSeq(PayloadFiles(mode)) \cup InSeq(PartFiles)
                    \cup {InventoryFile, ChecksumFile, Blob, PartList, Report}
    <3>1. order \in Seq(S) /\ Len(EntryOrder) + 4 \in 1..Len(order)
      BY OrderOfFiles
    <3> HIDE DEF order, S
    <3>2. Len(order) \in Nat /\ 1 <= Len(order)
      BY <3>1, EntryOrderIsSeq
    <3> QED BY <3>1, <3>2, SubSeqFull
  <2>5. order # <<>> /\ InSeq(order) \subseteq Files
    BY <2>4, RestOfOrder
  <2>6. c \subseteq Files
    BY DEF There
  <2>7. DistOK'
    BY <1>2, <2>2 DEF DistOK
  <2>8. BuildOK'
    <3> HIDE DEF c, order
    <3> QED BY <2>3, <2>5, <2>6 DEF BuildOK
  <2>9. ReportMeansWhole'
    BY <2>2 DEF BundleInv, ReportMeansWhole
  <2>10. Underway(build', dist)
    <3>1. CASE c # {}
      <4>1. There(dist) \subseteq build'.clear /\ build'.clear # {}
        BY <2>3, <3>1
      <4> HIDE DEF order, c
      <4> QED BY <2>3, <2>4, <4>1 DEF Underway, order
    <3>2. CASE c = {}
      <4>1. Earlier(order, 1) = {} /\ Coherent(dist, lock, mode)
        BY <3>2, EarlierFiles, NothingMade
      <4>2. There(dist) = {} /\ build'.clear = {}
        BY <2>3, <3>2
      <4> HIDE DEF order, c
      <4> QED BY <2>3, <2>4, <4>1, <4>2 DEF Underway, order
    <3> QED BY <3>1, <3>2
  <2> QED BY <2>2, <2>7, <2>8, <2>9, <2>10
<1>6. CASE ClearFile
  <2>1. PICK f \in build.clear :
          /\ build # None
          /\ \A g \in build.clear : ClearRank(f) <= ClearRank(g)
          /\ dist' = [dist EXCEPT ![f] = Missing]
          /\ build' = [build EXCEPT !.clear = build.clear \ {f}]
    BY <1>6 DEF ClearFile
  <2>2. Progress(build, dist) /\ Underway(build, dist)
    BY <2>1 DEF BundleInv
  <2>3. /\ build'.lock = build.lock /\ build'.mode = build.mode
        /\ build'.write = build.write /\ build'.clear = build.clear \ {f}
    BY <2>1, <2>2 DEF Progress
  <2>4. f \in Files /\ build.clear \subseteq Files /\ build.mode \in Modes
        /\ build.lock \in ValidLocks
    BY <1>2, <2>1 DEF BuildOK
  <2>5. /\ DOMAIN dist' = Files /\ dist'[f] = Missing
        /\ \A g \in Files : g # f => dist'[g] = dist[g]
    BY <1>2, <2>1, <2>4 DEF DistOK
  <2>6. DistOK'
    BY <1>2, <2>5 DEF DistOK
  <2>7. BuildOK'
    BY <1>2, <2>1, <2>3, <2>4 DEF BuildOK
  <2>8. PICK split \in BOOLEAN :
          /\ 1 \in 1..Len(WriteOrder(build.mode, split))
          /\ build.write = SubSeq(WriteOrder(build.mode, split), 1,
                                  Len(WriteOrder(build.mode, split)))
          /\ There(dist) \subseteq build.clear
    BY <2>1, <2>2 DEF Underway
  <2>9. There(dist') \subseteq build.clear \ {f}
    BY <2>5, <2>8 DEF There
  <2>10. Underway(build', dist')
    <3>1. CASE build.clear \ {f} # {}
      BY <2>3, <2>8, <2>9, <3>1 DEF Underway
    <3>2. CASE build.clear \ {f} = {}
      <4>1. There(dist') = {}
        BY <2>9, <3>2
      <4>2. Coherent(dist', build.lock, build.mode)
        BY <2>4, <4>1, NothingMade
      <4>3. Earlier(WriteOrder(build.mode, split), 1) = {}
        <5>1. 1 \in Nat \ {0}
          OBVIOUS
        <5> QED BY <5>1, EarlierFiles
      <4> QED BY <2>3, <2>8, <3>2, <4>1, <4>2, <4>3 DEF Underway
    <3> QED BY <3>1, <3>2
  <2>11. ReportMeansWhole'
    <3> SUFFICES ASSUME dist'[Report] = Says("built")
                 PROVE  /\ dist'[InventoryFile] # Missing
                        /\ Verifies(dist', dist'[InventoryFile].doc.lock)
      BY DEF ReportMeansWhole
    <3>1. Report \in There(dist')
      BY NoReport
    <3>2. Report # f /\ Report \in build.clear /\ Report \in Files
      BY <2>9, <3>1 DEF There
    <3>3. dist[Report] = Says("built")
      BY <2>5, <3>2
    <3>4. f = Blob
      <4>1. ClearRank(f) <= 2
        <5>1. ClearRank(Report) = 2
          BY Names DEF ClearRank
        <5> QED BY <2>1, <3>2, <5>1
      <4>2. f # Blob => ClearRank(f) \in {3, 4, 5, 6}
        <5> SUFFICES ASSUME f # Blob PROVE ClearRank(f) \in {3, 4, 5, 6}
          OBVIOUS
        <5> QED BY <3>2 DEF ClearRank
      <4> QED BY <4>1, <4>2
    <3>5. /\ dist[InventoryFile] # Missing
          /\ Verifies(dist, dist[InventoryFile].doc.lock)
      BY <3>3 DEF BundleInv, ReportMeansWhole
    <3>6. DOMAIN dist = Files /\ dist' = [dist EXCEPT ![Blob] = Missing]
      BY <1>2, <2>1, <3>4 DEF DistOK
    <3> QED BY <3>5, <3>6, VerifiesWithoutBlob
  <2> QED BY <2>6, <2>7, <2>10, <2>11
<1>7. CASE WriteFile
  <2>1. /\ build # None /\ build.clear = {}
        /\ \E doc \in DocsFor(Head(build.write)) :
             dist' = [dist EXCEPT ![Head(build.write)] = Says(doc)]
        /\ build' = IF Tail(build.write) = <<>>
                    THEN None ELSE [build EXCEPT !.write = Tail(@)]
    BY <1>7 DEF WriteFile, Writing
  <2>2. Progress(build, dist) /\ Underway(build, dist)
    BY <2>1 DEF BundleInv
  <2> DEFINE mode == build.mode
             lock == build.lock
  <2>3. lock \in ValidLocks /\ mode \in Modes
    BY <1>2, <2>1 DEF BuildOK
  <2>4. PICK split \in BOOLEAN : \E k \in 1..Len(WriteOrder(mode, split)) :
          /\ build.write = SubSeq(WriteOrder(mode, split), k,
                                  Len(WriteOrder(mode, split)))
          /\ There(dist) = Earlier(WriteOrder(mode, split), k)
          /\ Coherent(dist, lock, mode)
    BY <2>1, <2>2 DEF Underway
  <2> DEFINE order == WriteOrder(mode, split)
  <2>5. PICK k \in 1..Len(order) :
          /\ build.write = SubSeq(order, k, Len(order))
          /\ There(dist) = Earlier(order, k)
          /\ Coherent(dist, lock, mode)
    BY <2>4
  <2>6. /\ Head(build.write) = order[k]
        /\ Tail(build.write) = SubSeq(order, k + 1, Len(order))
        /\ Tail(build.write) # <<>> => k + 1 \in 1..Len(order)
    BY <2>3, <2>5, RestOfOrder
  <2>7. InTurn(order[k], There(dist), mode)
    BY <2>3, <2>5, Turns
  <2>0. build.lock = lock /\ build.mode = mode
    OBVIOUS
  <2>20. Len(order) \in Nat
    BY <2>3, Places
  <2> HIDE DEF order, mode, lock
  <2>8. PICK doc \in DocsFor(order[k]) : dist' = [dist EXCEPT ![order[k]] = Says(doc)]
    BY <2>1, <2>6
  <2>9. order[k] \in Files /\ DOMAIN dist = Files
    BY <1>2, <2>7 DEF InTurn, DistOK
  <2>10. doc \in Docs(order[k])
    BY <2>0, <2>3, <2>5, <2>7, FitsKind
  <2>11. /\ There(dist') = There(dist) \cup {order[k]}
         /\ Coherent(dist', lock, mode)
    BY <2>0, <2>3, <2>5, <2>7, <2>8, <2>9, WritesInTurn
  <2>12. There(dist') = Earlier(order, k + 1)
    <3>1. k \in Nat \ {0}
      BY <2>20
    <3> QED BY <2>5, <2>11, <3>1, EarlierFiles
  <2>13. DistOK'
    <3>1. Says(doc) \in Contents(Docs(order[k]))
      BY <2>9, <2>10, NotMissing
    <3>2. \A g \in Files : dist'[g] = IF g = order[k] THEN Says(doc) ELSE dist[g]
      BY <2>8, <2>9
    <3>3. DOMAIN dist' = Files
      BY <2>8, <2>9
    <3> QED BY <1>2, <3>1, <3>2, <3>3 DEF DistOK
  <2>14. ASSUME build' # None
         PROVE  /\ build'.lock = lock /\ build'.mode = mode /\ build'.clear = {}
                /\ build'.write = SubSeq(order, k + 1, Len(order))
                /\ k + 1 \in 1..Len(order)
    <3>1. Tail(build.write) # <<>> /\ build' = [build EXCEPT !.write = Tail(@)]
      BY <2>1, <2>14
    <3> QED BY <2>0, <2>1, <2>2, <2>6, <3>1 DEF Progress
  <2>15. BuildOK'
    <3> SUFFICES ASSUME build' # None
                 PROVE  /\ build'.lock \in ValidLocks /\ build'.mode \in Modes
                        /\ build'.clear \subseteq Files
                        /\ InSeq(build'.write) \subseteq Files
                        /\ build'.write # <<>>
      BY DEF BuildOK
    <3>1. build'.write # <<>> /\ InSeq(build'.write) \subseteq Files
      BY <2>3, <2>14, RestOfOrder DEF order
    <3> QED BY <2>3, <2>14, <3>1
  <2>16. build' # None => Underway(build', dist')
    BY <2>11, <2>12, <2>14 DEF Underway, order
  <2>17. ReportMeansWhole'
    <3> SUFFICES ASSUME dist'[Report] = Says("built")
                 PROVE  /\ dist'[InventoryFile] # Missing
                        /\ Verifies(dist', dist'[InventoryFile].doc.lock)
      BY DEF ReportMeansWhole
    <3>1. Report \in There(dist') /\ Report \notin There(dist)
      BY <2>7, NoReport DEF InTurn
    <3>2. order[k] = Report
      BY <2>11, <3>1
    <3>3. ChecksumFile \in There(dist)
      BY <2>7, <3>2, Names DEF InTurn
    <3>4. dist'[ChecksumFile] # Missing
      BY <2>11, <3>3 DEF There
    <3> QED BY <2>3, <2>11, <3>4, CoherentVerifies
  <2> QED BY <2>13, <2>15, <2>16, <2>17
<1>8. CASE StopBuild
  <2>1. /\ build # None /\ build' = None
        /\ \/ UNCHANGED dist
           \/ build.clear = {} /\ dist' = [dist EXCEPT ![Head(build.write)] = Torn]
    BY <1>8 DEF StopBuild, Writing
  <2>2. CASE UNCHANGED dist
    BY <1>2, <2>1, <2>2 DEF DistOK, BuildOK, BundleInv, ReportMeansWhole
  <2>3. CASE build.clear = {} /\ dist' = [dist EXCEPT ![Head(build.write)] = Torn]
    <3> DEFINE f == Head(build.write)
    <3>1. DOMAIN dist' = Files /\ DOMAIN dist = Files
          /\ \A g \in Files : dist'[g] = IF g = f THEN Torn ELSE dist[g]
      BY <1>2, <2>3 DEF DistOK
    <3>2. DistOK' /\ BuildOK'
      BY <1>2, <2>1, <3>1 DEF DistOK, BuildOK
    <3>3. Report \notin There(dist)
      <4>1. Underway(build, dist) /\ build.mode \in Modes
        BY <1>2, <2>1 DEF BundleInv, BuildOK
      <4>2. PICK split \in BOOLEAN : \E k \in 1..Len(WriteOrder(build.mode, split)) :
              There(dist) = Earlier(WriteOrder(build.mode, split), k)
        BY <2>3, <4>1 DEF Underway
      <4>3. PICK k \in 1..Len(WriteOrder(build.mode, split)) :
              There(dist) = Earlier(WriteOrder(build.mode, split), k)
        BY <4>2
      <4> QED BY <4>1, <4>3, Turns DEF InTurn
    <3>4. dist'[Report] # Says("built")
      <4>1. dist[Report] # Says("built") /\ Report \in Files
        BY <3>3, NoReport, NamesAreFiles
      <4>2. Torn.rev = 1 /\ Says("built").rev = 0
        BY DEF Torn, Says
      <4> QED BY <3>1, <4>1, <4>2
    <3> QED BY <2>1, <3>2, <3>4 DEF ReportMeansWhole
  <2> QED BY <2>1, <2>2, <2>3
<1> QED BY <1>5, <1>6, <1>7, <1>8

\* A copy carries what is there, and damage leaves a file of the same kind.
LEMMA TransfersTyped ==
  ASSUME BundleInv, StartCopy \/ CopyFile \/ LoseFiles
  PROVE  BundleInv'
<1>1. UNCHANGED <<dist, build, restored>>
  BY DEF StartCopy, CopyFile, LoseFiles, TransferOnly
<1>2. DistOK /\ BuildOK /\ ArrivedOK /\ RestOK
  BY TypeParts DEF BundleInv
<1>3. /\ DistOK' /\ BuildOK' /\ ReportMeansWhole'
      /\ build' # None => Underway(build', dist')
  BY <1>1, <1>2 DEF BundleInv, DistOK, BuildOK, ReportMeansWhole
<1>4. BundleTypeOK' <=> DistOK' /\ BuildOK' /\ ArrivedOK' /\ RestOK'
  BY DEF BundleTypeOK, DistOK, BuildOK, ArrivedOK, RestOK
<1> SUFFICES ArrivedOK' /\ RestOK'
  BY <1>3, <1>4 DEF BundleInv
<1>0. \A f \in Files : dist[f] \in Carried(f) \cup {Missing}
  BY <1>2 DEF DistOK, Contents, Carried, Torn
<1>5. CASE StartCopy
  <2>1. PICK order \in CopyOrders :
          copying' = Restrict(order, {i \in DOMAIN order : dist[order[i]] # Missing})
    BY <1>5 DEF StartCopy
  <2>2. order \in Seq(Files)
    BY BundleAssumption DEF BundleAssumption
  <2>3. \A i \in DOMAIN order : order[i] \in Files
    BY <2>2
  <2>4. InSeq(copying') \subseteq Files
    BY <2>1, <2>3 DEF InSeq, Restrict
  <2>5. UNCHANGED <<arrived, verdict>>
    BY <1>5 DEF StartCopy
  <2> QED BY <1>1, <1>2, <2>4, <2>5 DEF ArrivedOK, RestOK
<1>6. CASE CopyFile
  <2>1. PICK next \in {Min(DOMAIN copying)} :
          /\ arrived' = IF dist[copying[next]] = Missing THEN arrived
                        ELSE [arrived EXCEPT ![copying[next]] = dist[copying[next]]]
          /\ copying' = Restrict(copying, DOMAIN copying \ {next})
    BY <1>6 DEF CopyFile
  <2>2. verdict' = None
    BY <1>6 DEF CopyFile
  <2>3. DOMAIN arrived' = Files
        /\ \A f \in Files : arrived'[f] \in {arrived[f], dist[f]}
    BY <1>2, <2>1 DEF ArrivedOK
  <2>4. ArrivedOK'
    BY <1>0, <1>2, <2>3 DEF ArrivedOK
  <2>5. InSeq(copying') \subseteq InSeq(copying)
    BY <2>1 DEF InSeq, Restrict
  <2> QED BY <1>1, <1>2, <2>2, <2>4, <2>5 DEF RestOK
<1>7. CASE LoseFiles
  <2>1. /\ verdict' = None
        /\ \/ copying' = <<>> /\ UNCHANGED arrived
           \/ /\ UNCHANGED copying
              /\ \E f \in Files :
                   /\ arrived[f] # Missing
                   /\ arrived' \in {[arrived EXCEPT ![f].rev = 1],
                                    [arrived EXCEPT ![f] = Missing]}
    BY <1>7 DEF LoseFiles
  <2>2. InSeq(copying') \subseteq InSeq(copying)
    <3>1. InSeq(<<>>) = {}
      BY DEF InSeq
    <3> QED BY <2>1, <3>1
  <2>3. ArrivedOK'
    <3>1. CASE UNCHANGED arrived
      BY <1>2, <3>1 DEF ArrivedOK
    <3>2. ASSUME NEW f \in Files, arrived[f] # Missing,
                 arrived' = [arrived EXCEPT ![f].rev = 1]
          PROVE  ArrivedOK'
      <4>1. arrived[f] \in Carried(f)
        BY <1>2, <3>2 DEF ArrivedOK
      <4>2. [arrived[f] EXCEPT !.rev = 1] \in Carried(f)
        BY <4>1 DEF Carried
      <4>3. DOMAIN arrived' = Files /\ arrived'[f] \in Carried(f)
            /\ \A g \in Files : g # f => arrived'[g] = arrived[g]
        BY <1>2, <3>2, <4>2 DEF ArrivedOK
      <4> QED BY <1>2, <4>3 DEF ArrivedOK
    <3>3. ASSUME NEW f \in Files, arrived' = [arrived EXCEPT ![f] = Missing]
          PROVE  ArrivedOK'
      BY <1>2, <3>3 DEF ArrivedOK
    <3> QED BY <2>1, <3>1, <3>2, <3>3
  <2> QED BY <1>1, <1>2, <2>1, <2>2, <2>3 DEF RestOK
<1> QED BY <1>5, <1>6, <1>7

\* The lock of a verdict was accepted, and what is restored is a blob.
LEMMA DisconnectedTyped ==
  ASSUME BundleInv, Verify \/ Reassemble
  PROVE  BundleInv'
<1>1. UNCHANGED <<dist, arrived, build, copying>>
  BY DEF Verify, Reassemble
<1>2. DistOK /\ BuildOK /\ ArrivedOK /\ RestOK
  BY TypeParts DEF BundleInv
<1>3. /\ DistOK' /\ BuildOK' /\ ArrivedOK' /\ ReportMeansWhole'
      /\ build' # None => Underway(build', dist')
  BY <1>1, <1>2 DEF BundleInv, DistOK, BuildOK, ArrivedOK, ReportMeansWhole
<1>4. BundleTypeOK' <=> DistOK' /\ BuildOK' /\ ArrivedOK' /\ RestOK'
  BY DEF BundleTypeOK, DistOK, BuildOK, ArrivedOK, RestOK
<1> SUFFICES RestOK'
  BY <1>3, <1>4 DEF BundleInv
<1>5. CASE Verify
  <2>1. verdict' \in ValidLocks \cup {None} /\ UNCHANGED restored
    BY <1>5 DEF Verify, Verifies
  <2> QED BY <1>1, <1>2, <2>1 DEF RestOK
<1>6. CASE Reassemble
  <2>1. /\ arrived[PartList] # Missing /\ UNCHANGED verdict
        /\ restored' = Reassembled(arrived)
    BY <1>6 DEF Reassemble
  <2> DEFINE Restored == [ok: BOOLEAN,
                          content: Contents(BlobDocs) \cup {Missing, Torn}]
  <2>2. restored' \in Restored
    <3>1. CASE arrived[PartList].doc = Missing
      BY <1>2, <2>1, <3>1 DEF Reassembled, RestOK
    <3>2. CASE arrived[PartList].doc # Missing
      <4>1. arrived[PartList] \in Carried(PartList)
        BY <1>2, <2>1, NamesAreFiles DEF ArrivedOK
      <4>2. arrived[PartList].doc \in PartListDocs
        BY <3>2, <4>1, DocsOf DEF Carried
      <4>3. arrived[PartList].doc.complete \in Contents(BlobDocs)
        BY <4>2 DEF PartListDocs
      <4>4. Joined(arrived) \in Contents(BlobDocs) \cup {Torn}
        BY <4>3 DEF Joined
      <4> DEFINE matches == PartsIntact(arrived) /\ Joined(arrived) # Torn
                 content == IF matches THEN Joined(arrived) ELSE Torn
      <4>5. restored' = [ok |-> matches, content |-> content]
        BY <2>1, <3>2 DEF Reassembled
      <4>6. matches \in BOOLEAN /\ content \in Contents(BlobDocs) \cup {Torn}
        BY <4>4
      <4> HIDE DEF matches, content
      <4> QED BY <4>5, <4>6
    <3> QED BY <3>1, <3>2
  <2> QED BY <1>1, <1>2, <2>1, <2>2 DEF RestOK
<1> QED BY <1>5, <1>6

LEMMA InitTyped == Init => BundleInv /\ LeftOK /\ PromotionTypeOK /\ PushOK
<1> SUFFICES ASSUME Init PROVE BundleInv /\ LeftOK /\ PromotionTypeOK /\ PushOK
  OBVIOUS
<1>1. LeftOK
  BY LockAssumption DEF Init, LeftOK, LockAssumption
<1>2. PromotionTypeOK /\ PushOK
  BY DEF Init, PromotionInit, PromotionTypeOK, PushOK
<1>3. /\ dist = [f \in Files |-> Missing] /\ arrived = dist /\ build = None
      /\ copying = <<>> /\ verdict = None
      /\ restored = [ok |-> FALSE, content |-> Missing]
  BY DEF Init, BundleInit
<1>4. InSeq(copying) = {}
  BY <1>3 DEF InSeq
<1>5. BundleTypeOK
  BY <1>3, <1>4 DEF BundleTypeOK
<1>6. ReportMeansWhole
  <2>1. dist[Report] = Missing
    BY <1>3, NamesAreFiles
  <2>2. Report \notin There(dist)
    BY <2>1 DEF There
  <2> QED BY <2>2, NoReport DEF ReportMeansWhole
<1> QED BY <1>1, <1>2, <1>3, <1>5, <1>6 DEF BundleInv

LEMMA SpendsTyped ==
  ASSUME LeftOK, [Next]_vars
  PROVE  LeftOK'
<1>1. ASSUME NEW event, Spend(event)
      PROVE  LeftOK'
  BY <1>1 DEF LeftOK, Spend
<1>2. left' = left \/ \E event : Spend(event)
  BY DEF Next, vars, BundleNext, PromotionNext, StartBuild, ClearFile,
         WriteFile, StopBuild, StartCopy, CopyFile, LoseFiles, Verify,
         Reassemble, PlanPromotion, StartPush, CheckExisting, CopyImage,
         FailCopy, FinishPush, VerifyManifests, EditOverlay
<1> QED BY <1>1, <1>2 DEF LeftOK

\* Plans bring images under digests, from valid locks.
LEMMA PlansTyped ==
  ASSUME NEW lock \in ValidLocks, NEW tool \in Tools, NEW check \in BOOLEAN
  PROVE  PlanOK([actions |-> PlannedActions(lock), tool |-> tool, check |-> check])
<1> DEFINE p == [actions |-> PlannedActions(lock), tool |-> tool, check |-> check]
<1>1. ASSUME NEW r \in InPlan(p)
      PROVE  r[2] \in Hashes
  <2>1. PICK i \in DOMAIN EntryOrder :
          lock[EntryOrder[i]].image /\ r = Destination(lock[EntryOrder[i]])
    BY DEF InPlan, PlannedActions
  <2>2. EntryOrder[i] \in Entries
    BY DEF Entries
  <2>3. lock \in [Entries -> LockEntries] /\ ValidEntry(lock[EntryOrder[i]])
    BY <2>2, LockAssumption DEF LockAssumption, ValidLocks, ValidLock
  <2>4. lock[EntryOrder[i]].target \in Hashes
    BY <2>1, <2>2, <2>3 DEF LockEntries, ValidEntry
  <2> QED BY <2>1, <2>4 DEF Destination
<1> QED BY <1>1 DEF PlanOK

LEMMA PromotionTyped ==
  ASSUME PromotionInv, PromotionTypeOK, PushOK, [Next]_vars
  PROVE  PromotionTypeOK' /\ PushOK'
<1>1. /\ plan # None => PlanOK(plan)
      /\ report # None => PlanOK(report)
      /\ push # None => /\ PlanOK(push.plan)
                        /\ push.rest \subseteq DOMAIN push.plan.actions
                        /\ DOMAIN push = {"plan", "rest", "absent"}
      /\ proven \in ValidLocks \cup {None}
  BY DEF PromotionTypeOK, PushOK, PlanOK, PromotionInv, PushedSoFar
<1> SUFFICES /\ plan' # None => PlanOK(plan')
             /\ report' # None => PlanOK(report')
             /\ push' # None => /\ PlanOK(push'.plan)
                                /\ push'.rest \subseteq DOMAIN push'.plan.actions
             /\ proven' \in ValidLocks \cup {None}
  BY DEF PromotionTypeOK, PushOK, PlanOK
<1>2. CASE PlanPromotion
  BY <1>1, <1>2, PlansTyped DEF PlanPromotion
<1>3. CASE StartPush
  BY <1>1, <1>3 DEF StartPush
<1>4. ASSUME Advance, push # None
      PROVE  push' # None => /\ PlanOK(push'.plan)
                             /\ push'.rest \subseteq DOMAIN push'.plan.actions
  BY <1>1, <1>4 DEF Advance
<1>5. CASE CheckExisting
  BY <1>1, <1>4, <1>5 DEF CheckExisting, Pushing
<1>6. CASE CopyImage
  BY <1>1, <1>4, <1>6 DEF CopyImage, Pushing
<1>7. CASE FailCopy
  BY <1>1, <1>7 DEF FailCopy, AfterFailure
<1>8. CASE FinishPush
  BY <1>1, <1>8 DEF FinishPush
<1>9. CASE VerifyManifests
  BY <1>1, <1>9 DEF VerifyManifests, ValidLocks
<1>10. CASE EditOverlay
  BY <1>1, <1>10 DEF EditOverlay
<1>11. CASE UNCHANGED promotionVars
  BY <1>1, <1>11 DEF promotionVars
<1> QED BY <1>2, <1>3, <1>5, <1>6, <1>7, <1>8, <1>9, <1>10, <1>11
        DEF Next, PromotionNext, vars

LEMMA BundleTyped ==
  ASSUME IInv, BundleInv, [Next]_vars
  PROVE  BundleInv'
<1>1. build # None => Progress(build, dist)
  BY DEF IInv
<1>2. CASE BundleNext
  BY <1>1, <1>2, BuildsTyped, TransfersTyped, DisconnectedTyped DEF BundleNext
<1>3. CASE UNCHANGED bundleVars
  BY <1>3 DEF bundleVars, BundleInv, BundleTypeOK, ReportMeansWhole
<1> QED BY <1>2, <1>3 DEF Next, vars

LEMMA TypeInvariance == Spec => []TypeInv
<1>1. Init => TypeInv
  BY InitTyped DEF TypeInv
<1>2. IInv /\ PromotionInv /\ TypeInv /\ [Next]_vars => TypeInv'
  BY SpendsTyped, BundleTyped, PromotionTyped DEF TypeInv
<1> QED BY <1>1, <1>2, Invariance, PromotionInvariance, PTL DEF Spec

\* Every part of the state has its type: whatever builds, copies, losses and
\* pushes came before, the files of both sides have contents of their own kind
\* (or are torn or missing), and plans name images by digests (build_bundle,
\* verify_bundle, build_registry_promotion_plan).
THEOREM TypeCorrect == Spec => []TypeOK
<1>1. TypeInv => TypeOK
  BY DEF TypeInv, LeftOK, BundleInv, TypeOK
<1> QED BY <1>1, TypeInvariance, PTL

\* Where a build report is, the bundle beside it is one that verify_bundle
\* accepts under the lock that it was built from, also while it is cleared,
\* built again or left by a build that was stopped (build_bundle,
\* _clear_previous_bundle_files).
THEOREM ReportIsWhole == Spec => []ReportMeansWhole
<1>1. TypeInv => ReportMeansWhole
  BY DEF TypeInv, BundleInv
<1> QED BY <1>1, TypeInvariance, PTL

=============================================================================
