-------------------------- MODULE LifecycleProofs --------------------------
(***************************************************************************)
(* Theorems about Lifecycle, for any models, consumers, file names, source  *)
(* trees that a checkout can hold, commands and budgets.                    *)
(***************************************************************************)
EXTENDS Lifecycle, WellFoundedInduction, TLAPS

ConsumersFile == <<"config", "consumers">>
Limits        == <<"ratelimit", "configmaps">>
Contracts     == <<"backends", "contracts">>
ChatBackends  == <<"backends", "agentgateway">>
PolicyList    == <<"policies", "kustomization">>
RouteList     == <<"routes", "kustomization">>

-----------------------------------------------------------------------------
(* The files and the order in which they are written.                       *)

LEMMA FilesArePairs ==
  ASSUME NEW f \in Files
  PROVE  /\ f = <<f[1], f[2]>>
         /\ f[1] \in {"config", "models", "backends", "policies", "ratelimit",
                      "routes"}
         /\ DirectoryRank[f[1]] \in Nat
         /\ NameRank[f[2]] \in Nat
<1>1. /\ f = <<f[1], f[2]>>
      /\ f[1] \in {"config", "models", "backends", "policies", "ratelimit",
                   "routes"}
  BY DEF Files
<1>2. DirectoryRank[f[1]] \in Nat
  BY <1>1, TreeAssumption DEF TreeAssumption, DirectoryRank
<1>3. NameRank[f[2]] \in Nat
  BY TreeAssumption DEF TreeAssumption
<1> QED BY <1>1, <1>2, <1>3

LEMMA NamedFiles ==
  /\ {ConsumersFile, Limits} \cup Growing \subseteq Files
  /\ Growing = {Limits, Contracts, ChatBackends, PolicyList, RouteList}
  /\ \A m \in Models : {<<"models", m>>, <<"policies", m>>, <<"routes", m>>}
                         \subseteq Files
  /\ \A m \in Models : m # "kustomization"
BY TreeAssumption
   DEF TreeAssumption, Files, Growing, ModelFiles, ConsumersFile, Limits,
       Contracts, ChatBackends, PolicyList, RouteList

LEMMA LeastNumber ==
  ASSUME NEW S, S \subseteq Nat, S # {}
  PROVE  \E n \in S : \A k \in S : n <= k
<1> DEFINE R == OpToRel(<, Nat)
<1>1. \A a, b \in Nat : <<a, b>> \in R <=> a < b
  BY DEF OpToRel
<1>2. IsWellFoundedOn(R, Nat)
  BY NatLessThanWellFounded
<1> HIDE DEF R
<1>3. PICK n \in S : \A k \in S : <<k, n>> \notin R
  BY <1>2, WFMin
<1>4. ASSUME NEW k \in S
      PROVE  n <= k
  <2>1. k \in Nat /\ n \in Nat /\ <<k, n>> \notin R
    BY <1>3
  <2>2. ~(k < n)
    BY <1>1, <2>1
  <2> QED BY <2>1, <2>2
<1> QED BY <1>4

\* There is a first file, and it precedes the others.
LEMMA FirstIsFirst ==
  ASSUME NEW pending, pending \subseteq Files, pending # {}
  PROVE  /\ First(pending) \in pending
         /\ \A g \in pending \ {First(pending)} : Precedes(First(pending), g)
<1> DEFINE D == {DirectoryRank[f[1]] : f \in pending}
<1>1. D \subseteq Nat /\ D # {}
  BY FilesArePairs
<1>2. PICK d \in D : \A e \in D : d <= e
  BY <1>1, LeastNumber
<1> DEFINE front == {f \in pending : DirectoryRank[f[1]] = d}
           N == {NameRank[f[2]] : f \in front}
<1>3. N \subseteq Nat /\ N # {}
  BY FilesArePairs
<1>4. PICK n \in N : \A k \in N : n <= k
  <2> HIDE DEF N
  <2> QED BY <1>3, LeastNumber
<1>5. PICK f \in front : NameRank[f[2]] = n
  OBVIOUS
<1>6. ASSUME NEW g \in pending \ {f}
      PROVE  Precedes(f, g)
  <2>1. /\ DirectoryRank[f[1]] = d /\ DirectoryRank[g[1]] \in Nat /\ d \in Nat
        /\ d <= DirectoryRank[g[1]]
        /\ f \in Files /\ g \in Files /\ f \in pending
    BY <1>1, <1>2, <1>5, <1>6, FilesArePairs
  <2>2. CASE DirectoryRank[g[1]] # d
    BY <2>1, <2>2 DEF Precedes
  <2>3. CASE DirectoryRank[g[1]] = d
    <3>1. f[1] = g[1]
      BY <2>1, <2>3, FilesArePairs, TreeAssumption
         DEF TreeAssumption, DirectoryRank
    <3>2. f[2] # g[2]
      BY <1>6, <2>1, <3>1, FilesArePairs
    <3>3. NameRank[f[2]] # NameRank[g[2]]
      BY <2>1, <3>2, TreeAssumption DEF TreeAssumption, IsInjective
    <3>4. NameRank[g[2]] \in N
      BY <2>3, <1>6
    <3>5. NameRank[f[2]] <= NameRank[g[2]]
      BY <1>4, <1>5, <3>4
    <3> QED BY <2>1, <3>1, <3>3, <3>5, FilesArePairs DEF Precedes
  <2> QED BY <2>2, <2>3
<1>7. f \in pending
  OBVIOUS
<1> QED BY <1>6, <1>7 DEF First

\* The first file precedes the others, so what precedes it is not pending: the
\* generated bases precede the routes, and so does a configuration that is
\* written first.
LEMMA RoutesComeLast ==
  ASSUME NEW f \in Files, NEW g \in Files, f[1] # "routes", g[1] = "routes",
         f[1] \in {"config", "models"} => ConfigFirst
  PROVE  ~Precedes(g, f)
BY FilesArePairs, TreeAssumption
   DEF TreeAssumption, Precedes, DirectoryRank, ConfigFirst

LEMMA DocsOf ==
  /\ Docs(ConsumersFile) = SUBSET ConsumerConfigs(Consumers, Models)
  /\ Docs(Limits) = SUBSET (Consumers \X Models)
  /\ Docs(Contracts) = SUBSET ServiceContracts
  /\ Docs(ChatBackends) = SUBSET Models
  /\ Docs(PolicyList) = SUBSET Models
  /\ Docs(RouteList) = SUBSET Models
  /\ \A m \in Models : /\ Docs(<<"models", m>>) = SUBSET ModelConfigs(Models)
                       /\ Docs(<<"routes", m>>) = Routes
                       /\ Docs(<<"policies", m>>) = Policies
<1>1. /\ Docs(ConsumersFile) = SUBSET ConsumerConfigs(Consumers, Models)
      /\ Docs(Limits) = SUBSET (Consumers \X Models)
      /\ Docs(Contracts) = SUBSET ServiceContracts
  BY DEF Docs, ConsumersFile, Limits, Contracts
<1>2. /\ Docs(ChatBackends) = SUBSET Models
      /\ Docs(PolicyList) = SUBSET Models
      /\ Docs(RouteList) = SUBSET Models
  BY DEF Docs, ChatBackends, PolicyList, RouteList
<1>3. ASSUME NEW m \in Models
      PROVE  /\ Docs(<<"models", m>>) = SUBSET ModelConfigs(Models)
             /\ Docs(<<"routes", m>>) = Routes
             /\ Docs(<<"policies", m>>) = Policies
  <2>1. m # "kustomization"
    BY NamedFiles
  <2> QED BY <2>1 DEF Docs
<1> QED BY <1>1, <1>2, <1>3

-----------------------------------------------------------------------------
(* What the plans say.                                                      *)

\* The access that consumer records give.
Access(records) == UNION {{r.key} \X r.models : r \in records}

Gained(change) == Access(change.after.doc) \ Access(change.before.doc)

\* A plan grants what was asked for, with its rate limits.
GrantsSound(request, changes) ==
  ConsumersFile \in DOMAIN changes =>
    /\ Gained(changes[ConsumersFile]) \subseteq Granted(request)
    /\ Gained(changes[ConsumersFile]) # {} =>
         /\ Limits \in DOMAIN changes
         /\ Gained(changes[ConsumersFile]) \subseteq changes[Limits].after.doc

\* A plan brings all that the route of m needs.
Prepared(changes, m) ==
  /\ {<<"models", m>>, <<"policies", m>>, PolicyList, Contracts}
       \subseteq DOMAIN changes
  /\ m \in changes[PolicyList].after.doc
  /\ \E s \in changes[Contracts].after.doc : s.name = Requested[m].service
  /\ Requested[m].kind = "chat" => /\ ChatBackends \in DOMAIN changes
                                   /\ m \in changes[ChatBackends].after.doc

\* Lists grow, the other files are those of the model they are named after,
\* and a route is listed with all it needs.
FilesSound(changes) ==
  /\ \A f \in DOMAIN changes \cap Growing :
       changes[f].before.doc \subseteq changes[f].after.doc
  /\ \A f \in DOMAIN changes : f[1] = "models" => f[2] \in Models
  /\ \A m \in Models :
       /\ <<"models", m>> \in DOMAIN changes =>
            changes[<<"models", m>>].after.doc = {Requested[m]}
       /\ <<"routes", m>> \in DOMAIN changes =>
            changes[<<"routes", m>>].after.doc = RouteManifest(Requested[m])
       /\ <<"policies", m>> \in DOMAIN changes =>
            changes[<<"policies", m>>].after.doc = PolicyManifest(Requested[m])
  /\ RouteList \in DOMAIN changes =>
       \E m \in Models :
         /\ changes[RouteList].after.doc
              \subseteq changes[RouteList].before.doc \cup {m}
         /\ Prepared(changes, m)

Sound(request, changes) == /\ IsChanges(changes)
                           /\ GrantsSound(request, changes)
                           /\ FilesSound(changes)

\* The generated files and the consumers are there, and a route's file is that
\* of the model it is named after.
Standing(files) ==
  /\ \A f \in Growing \cup {ConsumersFile} : files[f] # Missing
  /\ \A m \in Models : files[<<"routes", m>>] # Missing =>
                         files[<<"routes", m>>].doc = RouteManifest(Requested[m])

LEMMA ContentOf ==
  ASSUME IsTree(tree), NEW f \in Files, tree[f] # Missing
  PROVE  tree[f].doc \in Docs(f) /\ DOMAIN tree[f] = {"doc", "rev"}
BY DEF IsTree, Contents

LEMMA StandingDocs ==
  ASSUME IsTree(tree), Standing(tree)
  PROVE  /\ ConsumersOf(tree) \in SUBSET ConsumerConfigs(Consumers, Models)
         /\ Descriptors(tree) \in SUBSET (Consumers \X Models)
         /\ tree[Contracts].doc \in SUBSET ServiceContracts
         /\ tree[ChatBackends].doc \in SUBSET Models
         /\ tree[PolicyList].doc \in SUBSET Models
         /\ tree[RouteList].doc \in SUBSET Models
<1>1. \A f \in Growing \cup {ConsumersFile} : tree[f].doc \in Docs(f)
  BY NamedFiles, ContentOf DEF Standing
<1>2. {ConsumersFile, Limits, Contracts, ChatBackends, PolicyList, RouteList}
        \subseteq Growing \cup {ConsumersFile}
  BY NamedFiles
<1>3. tree[ConsumersFile].doc = ConsumersOf(tree)
      /\ tree[Limits].doc = Descriptors(tree)
  BY DEF ConsumersOf, Descriptors, ConsumersFile, Limits
<1> HIDE DEF ConsumersFile, Limits, Contracts, ChatBackends, PolicyList,
             RouteList
<1> QED BY <1>1, <1>2, <1>3, DocsOf

\* Texts of different files, which they can hold.
Wellformed(texts) ==
  /\ \A t \in texts : t[1] \in Files /\ t[2] \in Docs(t[1])
  /\ \A t, u \in texts : t[1] = u[1] => t = u

\* The changes of a plan turn the present tree into those texts.
LEMMA ChangesOf ==
  ASSUME IsTree(tree), NEW texts, Wellformed(texts)
  PROVE  /\ DOMAIN Changes(texts) = {t[1] : t \in texts}
         /\ \A t \in texts : /\ Changes(texts)[t[1]].before = tree[t[1]]
                             /\ Changes(texts)[t[1]].after.doc = t[2]
         /\ IsChanges(Changes(texts))
<1> DEFINE c == Changes(texts)
<1>1. DOMAIN c = {t[1] : t \in texts}
  BY DEF Changes
<1>2. ASSUME NEW t \in texts
      PROVE  c[t[1]].before = tree[t[1]] /\ c[t[1]].after = Says(t[2])
  <2>1. (CHOOSE u \in texts : u[1] = t[1]) = t
    BY <1>2 DEF Wellformed
  <2>2. c[t[1]] = [before |-> tree[t[1]], after |-> Says(t[2])]
    BY <1>2, <2>1 DEF Changes
  <2> HIDE DEF c
  <2> QED BY <2>2
<1> HIDE DEF c
<1>3. ASSUME NEW t \in texts
      PROVE  /\ c[t[1]].before = tree[t[1]] /\ c[t[1]].after.doc = t[2]
             /\ t[1] \in Files
             /\ c[t[1]].before \in Contents(Docs(t[1])) \cup {Missing}
             /\ c[t[1]].after \in Contents(Docs(t[1]))
  <2>1. t[1] \in Files /\ t[2] \in Docs(t[1])
    BY DEF Wellformed
  <2>2. Says(t[2]) \in Contents(Docs(t[1])) /\ Says(t[2]).doc = t[2]
    BY <2>1 DEF Says, Contents
  <2>3. c[t[1]].before = tree[t[1]] /\ c[t[1]].after = Says(t[2])
    BY <1>2
  <2>4. tree[t[1]] \in Contents(Docs(t[1])) \cup {Missing}
    BY <2>1 DEF IsTree
  <2> QED BY <2>1, <2>2, <2>3, <2>4
<1> QED BY <1>1, <1>3 DEF IsChanges, c

\* The names of the files differ.
LEMMA Distinct ==
  /\ Limits # ConsumersFile /\ Limits # Contracts /\ Limits # ChatBackends
  /\ Limits # PolicyList /\ Limits # RouteList
  /\ ConsumersFile # Contracts /\ ConsumersFile # ChatBackends
  /\ ConsumersFile # PolicyList /\ ConsumersFile # RouteList
  /\ Contracts # ChatBackends /\ Contracts # PolicyList /\ Contracts # RouteList
  /\ ChatBackends # PolicyList /\ ChatBackends # RouteList
  /\ PolicyList # RouteList
  /\ \A m, k : /\ <<"models", m>> # <<"policies", k>>
               /\ <<"models", m>> # <<"routes", k>>
               /\ <<"policies", m>> # <<"routes", k>>
               /\ <<"models", m>> = <<"models", k>> => m = k
               /\ <<"policies", m>> = <<"policies", k>> => m = k
               /\ <<"routes", m>> = <<"routes", k>> => m = k
  /\ \A m : <<"models", m>> \notin Growing \cup {ConsumersFile}
  /\ \A m \in Models : /\ <<"policies", m>> \notin Growing \cup {ConsumersFile}
                       /\ <<"routes", m>> \notin Growing \cup {ConsumersFile}
BY NamedFiles
   DEF ConsumersFile, Limits, Contracts, ChatBackends, PolicyList, RouteList

-----------------------------------------------------------------------------
(* The plans are sound.                                                     *)

LEMMA NothingIsSound ==
  ASSUME IsTree(tree), NEW request
  PROVE  Sound(request, Changes({}))
<1>1. Wellformed({})
  BY DEF Wellformed
<1>2. DOMAIN Changes({}) = {t[1] : t \in {}} /\ IsChanges(Changes({}))
  BY <1>1, ChangesOf
<1>3. DOMAIN Changes({}) = {}
  BY <1>2
<1> QED BY <1>2, <1>3 DEF Sound, GrantsSound, FilesSound

\* The records of a consumer whose models are replaced.
LEMMA ReplacedAccess ==
  ASSUME IsTree(tree), Standing(tree), NEW c \in KnownConsumers(tree),
         NEW models \in SUBSET Models,
         NEW placeholder \in {"initial", "rotated", "revoked"}
  PROVE  /\ c \in Consumers
         /\ Consumer(tree, c).models \in SUBSET Models
         /\ Consumer(tree, c).placeholder \in {"initial", "rotated", "revoked"}
         /\ Replaced(c, models, placeholder)
              \in SUBSET ConsumerConfigs(Consumers, Models)
         /\ Access(Replaced(c, models, placeholder)) \ Access(ConsumersOf(tree))
              \subseteq {c} \X (models \ Consumer(tree, c).models)
<1> DEFINE r == Consumer(tree, c)
           new == [r EXCEPT !.models = models, !.placeholder = placeholder]
<1>1. ConsumersOf(tree) \in SUBSET ConsumerConfigs(Consumers, Models)
  BY StandingDocs
<1>2. r \in ConsumersOf(tree) /\ r.key = c
  BY DEF KnownConsumers, Consumer
<1>3. r \in ConsumerConfigs(Consumers, Models)
  BY <1>1, <1>2
<1>4. /\ c \in Consumers /\ r.models \in SUBSET Models
      /\ r.placeholder \in {"initial", "rotated", "revoked"}
  BY <1>2, <1>3 DEF ConsumerConfigs
<1>5. /\ new \in ConsumerConfigs(Consumers, Models)
      /\ new.key = c /\ new.models = models
  BY <1>2, <1>3, <1>4 DEF ConsumerConfigs
<1>6. Replaced(c, models, placeholder) = (ConsumersOf(tree) \ {r}) \cup {new}
  BY DEF Replaced
<1> HIDE DEF r, new
<1>7. Replaced(c, models, placeholder)
        \in SUBSET ConsumerConfigs(Consumers, Models)
  BY <1>1, <1>5, <1>6
<1>8. ASSUME NEW x \in Access(Replaced(c, models, placeholder)),
             x \notin Access(ConsumersOf(tree))
      PROVE  x \in {c} \X (models \ r.models)
  <2>1. PICK s \in Replaced(c, models, placeholder) : x \in {s.key} \X s.models
    BY DEF Access
  <2>2. s \notin ConsumersOf(tree)
    BY <1>8, <2>1 DEF Access
  <2>3. s = new
    BY <1>6, <2>2
  <2>4. x \in {c} \X models
    BY <1>5, <2>1, <2>3
  <2>5. x \notin {c} \X r.models
    BY <1>2, <1>8 DEF Access
  <2> QED BY <2>4, <2>5
<1> QED BY <1>4, <1>7, <1>8 DEF r

\* Consumer records alone, which grant nothing.
LEMMA RecordsSound ==
  ASSUME IsTree(tree), Standing(tree), NEW request,
         NEW records \in SUBSET ConsumerConfigs(Consumers, Models),
         Access(records) \subseteq Access(ConsumersOf(tree))
  PROVE  Sound(request, Changes(ConsumersChange(records)))
<1> DEFINE texts == ConsumersChange(records)
           changes == Changes(texts)
<1>1. texts = {<<ConsumersFile, records>>}
  BY DEF ConsumersChange, ConsumersFile
<1>2. tree[ConsumersFile].doc = ConsumersOf(tree)
  BY DEF ConsumersOf, ConsumersFile
<1> HIDE DEF texts
<1>3. Wellformed(texts)
  BY <1>1, NamedFiles, DocsOf DEF Wellformed
<1>4. /\ DOMAIN changes = {t[1] : t \in texts}
      /\ \A t \in texts : /\ changes[t[1]].before = tree[t[1]]
                          /\ changes[t[1]].after.doc = t[2]
      /\ IsChanges(changes)
  BY <1>3, ChangesOf
<1> HIDE DEF changes
<1>5. /\ DOMAIN changes = {ConsumersFile}
      /\ changes[ConsumersFile].before.doc = ConsumersOf(tree)
      /\ changes[ConsumersFile].after.doc = records
  BY <1>1, <1>2, <1>4
<1>6. GrantsSound(request, changes)
  BY <1>5 DEF GrantsSound, Gained
<1>7. FilesSound(changes)
  <2>1. ConsumersFile[1] # "models"
    BY DEF ConsumersFile
  <2> QED BY <1>5, <2>1, Distinct, NamedFiles DEF FilesSound
<1> QED BY <1>4, <1>6, <1>7 DEF Sound, texts, changes

\* Consumer records that grant access, with the rate limits.
LEMMA GrantSound ==
  ASSUME IsTree(tree), Standing(tree), NEW request,
         NEW records \in SUBSET ConsumerConfigs(Consumers, Models),
         NEW c \in Consumers, NEW models \in SUBSET Models,
         Access(records) \ Access(ConsumersOf(tree)) \subseteq {c} \X models,
         {c} \X models \subseteq Granted(request)
  PROVE  LET texts == ConsumersChange(records) \cup RateLimitChange(c, models)
         IN  /\ Sound(request, Changes(texts))
             /\ Wellformed(texts)
             /\ \A t \in texts : t[1] \in {ConsumersFile, Limits}
<1> DEFINE texts == ConsumersChange(records) \cup RateLimitChange(c, models)
           changes == Changes(texts)
           limits == Descriptors(tree) \cup ({c} \X models)
<1>1. texts = {<<ConsumersFile, records>>, <<Limits, limits>>}
  BY DEF ConsumersChange, RateLimitChange, ConsumersFile, Limits
<1>2. /\ tree[ConsumersFile].doc = ConsumersOf(tree)
      /\ tree[Limits].doc = Descriptors(tree)
  BY DEF ConsumersOf, Descriptors, ConsumersFile, Limits
<1>3. limits \in SUBSET (Consumers \X Models)
  BY StandingDocs
<1> HIDE DEF texts
<1>4. Wellformed(texts)
  <2>1. /\ ConsumersFile \in Files /\ Limits \in Files
        /\ records \in Docs(ConsumersFile) /\ limits \in Docs(Limits)
        /\ Limits # ConsumersFile
    BY <1>3, NamedFiles, DocsOf, Distinct
  <2> HIDE DEF limits
  <2> QED BY <1>1, <2>1 DEF Wellformed
<1>5. /\ DOMAIN changes = {t[1] : t \in texts}
      /\ \A t \in texts : /\ changes[t[1]].before = tree[t[1]]
                          /\ changes[t[1]].after.doc = t[2]
      /\ IsChanges(changes)
  BY <1>4, ChangesOf
<1> HIDE DEF changes
<1>6. /\ DOMAIN changes = {ConsumersFile, Limits}
      /\ changes[ConsumersFile].before.doc = ConsumersOf(tree)
      /\ changes[ConsumersFile].after.doc = records
      /\ changes[Limits].before.doc = Descriptors(tree)
      /\ changes[Limits].after.doc = limits
  BY <1>1, <1>2, <1>5
<1>7. GrantsSound(request, changes)
  BY <1>6 DEF GrantsSound, Gained
<1>8. FilesSound(changes)
  <2>1. ConsumersFile[1] # "models" /\ Limits[1] # "models"
    BY DEF ConsumersFile, Limits
  <2> QED BY <1>6, <2>1, Distinct, NamedFiles DEF FilesSound
<1>9. \A t \in texts : t[1] \in {ConsumersFile, Limits}
  BY <1>1
<1> QED BY <1>4, <1>5, <1>7, <1>8, <1>9 DEF Sound, texts, changes

\* The texts of the files of a new model.
ModelTexts(k) ==
  {<<<<"models", k>>, {Requested[k]}>>} \cup ManifestChanges(Requested[k])

LEMMA ModelTextsAre ==
  ASSUME NEW k \in Models
  PROVE  LET m == Requested[k] IN
         ModelTexts(k) =
           {<<<<"models", k>>, {m}>>,
            <<<<"routes", k>>, RouteManifest(m)>>,
            <<<<"policies", k>>, PolicyManifest(m)>>,
            <<RouteList, tree[RouteList].doc \cup {k}>>,
            <<PolicyList, tree[PolicyList].doc \cup {k}>>,
            <<Contracts, WithContract(tree[Contracts].doc, m)>>}
           \cup IF m.kind = "chat"
                THEN {<<ChatBackends, tree[ChatBackends].doc \cup {k}>>} ELSE {}
<1>1. Requested[k].key = k
  BY TreeAssumption DEF TreeAssumption
<1> QED BY <1>1 DEF ModelTexts, ManifestChanges, RouteList, PolicyList,
                    Contracts, ChatBackends

LEMMA ModelTextsWellformed ==
  ASSUME IsTree(tree), Standing(tree), NEW k \in Models
  PROVE  /\ Wellformed(ModelTexts(k))
         /\ \A t \in ModelTexts(k) : t[1] \notin {ConsumersFile, Limits}
<1> DEFINE m == Requested[k]
<1>1. m \in ModelConfigs(Models)
  BY TreeAssumption DEF TreeAssumption
<1>2. RouteManifest(m) \in Routes /\ PolicyManifest(m) \in Policies
      /\ m.service \in STRING /\ FirstPort(m) \in Nat
  <2>1. /\ m.host \in STRING /\ m.path \in STRING /\ m.namespace \in STRING
        /\ m.service \in STRING /\ m.key \in Models /\ m.permission \in STRING
        /\ m.kind \in Kinds /\ m.ports \in SUBSET ServicePorts /\ m.ports # {}
    BY <1>1, TreeAssumption DEF TreeAssumption, ModelConfigs
  <2> HIDE DEF m
  <2>2. FirstPort(m) \in Nat
    <3>1. (CHOOSE p \in m.ports : TRUE) \in ServicePorts
      BY <2>1
    <3> QED BY <3>1 DEF FirstPort, ServicePorts
  <2>3. BackendRef(m) \in BackendRefs
    BY <2>1, <2>2 DEF BackendRef, BackendRefs
  <2> QED BY <2>1, <2>2, <2>3 DEF RouteManifest, PolicyManifest, Routes, Policies
<1>3. /\ tree[Contracts].doc \in SUBSET ServiceContracts
      /\ tree[ChatBackends].doc \in SUBSET Models
      /\ tree[PolicyList].doc \in SUBSET Models
      /\ tree[RouteList].doc \in SUBSET Models
  BY StandingDocs
<1> HIDE DEF m
<1> DEFINE r == RouteManifest(m)
           p == PolicyManifest(m)
           rl == tree[RouteList].doc \cup {k}
           pl == tree[PolicyList].doc \cup {k}
           ct == WithContract(tree[Contracts].doc, m)
           cb == tree[ChatBackends].doc \cup {k}
<1>4. ModelTexts(k) \subseteq
        {<<<<"models", k>>, {m}>>, <<<<"routes", k>>, r>>,
         <<<<"policies", k>>, p>>, <<RouteList, rl>>, <<PolicyList, pl>>,
         <<Contracts, ct>>, <<ChatBackends, cb>>}
  BY ModelTextsAre DEF m
<1>5. /\ {m} \in Docs(<<"models", k>>) /\ r \in Docs(<<"routes", k>>)
      /\ p \in Docs(<<"policies", k>>)
  BY <1>1, <1>2, DocsOf
<1>6. /\ rl \in Docs(RouteList) /\ pl \in Docs(PolicyList)
      /\ ct \in Docs(Contracts) /\ cb \in Docs(ChatBackends)
  <2>1. ct \in SUBSET ServiceContracts
    BY <1>2, <1>3 DEF WithContract, ServiceContracts
  <2> HIDE DEF ct
  <2> QED BY <1>2, <1>3, <2>1, DocsOf
<1>7. {<<"models", k>>, <<"routes", k>>, <<"policies", k>>, RouteList,
       PolicyList, Contracts, ChatBackends} \subseteq Files
  BY NamedFiles
<1> HIDE DEF r, p, rl, pl, ct, cb
<1>8. \A t \in ModelTexts(k) : t[1] \in Files /\ t[2] \in Docs(t[1])
  BY <1>4, <1>5, <1>6, <1>7
<1> DEFINE mf == <<"models", k>>
           rf == <<"routes", k>>
           pf == <<"policies", k>>
<1>9. /\ mf # rf /\ mf # pf /\ rf # pf
      /\ \A f \in {mf, rf, pf} :
           /\ f # RouteList /\ f # PolicyList /\ f # Contracts
           /\ f # ChatBackends /\ f # ConsumersFile /\ f # Limits
  BY Distinct, NamedFiles
<1>10. /\ RouteList # PolicyList /\ RouteList # Contracts
       /\ RouteList # ChatBackends /\ PolicyList # Contracts
       /\ PolicyList # ChatBackends /\ Contracts # ChatBackends
       /\ \A f \in {RouteList, PolicyList, Contracts, ChatBackends} :
            f # ConsumersFile /\ f # Limits
  BY Distinct
<1>11. ModelTexts(k) \subseteq
         {<<mf, {m}>>, <<rf, r>>, <<pf, p>>, <<RouteList, rl>>,
          <<PolicyList, pl>>, <<Contracts, ct>>, <<ChatBackends, cb>>}
  BY <1>4
<1> HIDE DEF mf, rf, pf
<1>12. \A t \in ModelTexts(k) : t[1] \notin {ConsumersFile, Limits}
  BY <1>9, <1>10, <1>11
<1>13. ASSUME NEW t \in ModelTexts(k), NEW u \in ModelTexts(k), t[1] = u[1]
       PROVE  t = u
  <2>0. /\ mf # rf /\ mf # pf /\ mf # RouteList /\ mf # PolicyList
        /\ mf # Contracts /\ mf # ChatBackends
        /\ rf # pf /\ rf # RouteList /\ rf # PolicyList
        /\ rf # Contracts /\ rf # ChatBackends
        /\ pf # RouteList /\ pf # PolicyList
        /\ pf # Contracts /\ pf # ChatBackends
    BY <1>9
  <2>1. \A v \in ModelTexts(k) : v[1] = mf => v = <<mf, {m}>>
    BY <1>11, <2>0
  <2>2. \A v \in ModelTexts(k) : v[1] = rf => v = <<rf, r>>
    BY <1>11, <2>0
  <2>3. \A v \in ModelTexts(k) : v[1] = pf => v = <<pf, p>>
    BY <1>11, <2>0
  <2>4. CASE t[1] \in {RouteList, PolicyList, Contracts, ChatBackends}
    BY <1>9, <1>10, <1>11, <1>13, <2>4
  <2>5. t[1] \in {mf, rf, pf, RouteList, PolicyList, Contracts, ChatBackends}
    BY <1>11
  <2> QED BY <1>13, <2>1, <2>2, <2>3, <2>4, <2>5
<1> QED BY <1>8, <1>12, <1>13 DEF Wellformed

\* A new model, with or without a grant.
LEMMA ModelSound ==
  ASSUME IsTree(tree), Standing(tree), NEW request, NEW k \in Models, NEW grant,
         Wellformed(grant), \A t \in grant : t[1] \in {ConsumersFile, Limits},
         Sound(request, Changes(grant))
  PROVE  Sound(request, Changes(ModelTexts(k) \cup grant))
<1> DEFINE texts == ModelTexts(k) \cup grant
           changes == Changes(texts)
           given == Changes(grant)
           m == Requested[k]
<1>1. Wellformed(texts)
  BY ModelTextsWellformed DEF Wellformed
<1> HIDE DEF texts
<1>2. /\ DOMAIN changes = {t[1] : t \in texts}
      /\ \A t \in texts : /\ changes[t[1]].before = tree[t[1]]
                          /\ changes[t[1]].after.doc = t[2]
      /\ IsChanges(changes)
  BY <1>1, ChangesOf
<1>3. /\ DOMAIN given = {t[1] : t \in grant}
      /\ \A t \in grant : /\ given[t[1]].before = tree[t[1]]
                          /\ given[t[1]].after.doc = t[2]
  BY ChangesOf
<1>4. GrantsSound(request, given) /\ FilesSound(given)
  BY DEF Sound
<1> HIDE DEF changes, given, m
<1>5. /\ \A f \in {ConsumersFile, Limits} :
           f \in DOMAIN changes <=> f \in DOMAIN given
      /\ \A f \in DOMAIN given : /\ f \in DOMAIN changes
                                 /\ f \in {ConsumersFile, Limits}
                                 /\ changes[f].before = given[f].before
                                 /\ changes[f].after.doc = given[f].after.doc
  BY <1>2, <1>3, ModelTextsWellformed DEF texts
<1>6. GrantsSound(request, changes)
  BY <1>4, <1>5 DEF GrantsSound, Gained
<1>7. /\ {<<"models", k>>, <<"routes", k>>, <<"policies", k>>, RouteList,
           PolicyList, Contracts} \subseteq DOMAIN changes
      /\ changes[<<"models", k>>].after.doc = {m}
      /\ changes[<<"routes", k>>].after.doc = RouteManifest(m)
      /\ changes[<<"policies", k>>].after.doc = PolicyManifest(m)
      /\ changes[RouteList].after.doc = tree[RouteList].doc \cup {k}
      /\ changes[PolicyList].after.doc = tree[PolicyList].doc \cup {k}
      /\ changes[Contracts].after.doc = WithContract(tree[Contracts].doc, m)
  <2>1. {<<<<"models", k>>, {m}>>, <<<<"policies", k>>, PolicyManifest(m)>>,
         <<<<"routes", k>>, RouteManifest(m)>>,
         <<RouteList, tree[RouteList].doc \cup {k}>>,
         <<PolicyList, tree[PolicyList].doc \cup {k}>>,
         <<Contracts, WithContract(tree[Contracts].doc, m)>>} \subseteq texts
    BY ModelTextsAre DEF texts, m
  <2>2. \A f, d : <<f, d>> \in texts =>
          f \in DOMAIN changes /\ changes[f].after.doc = d
    BY <1>2
  <2> QED BY <2>1, <2>2
<1>8. m.kind = "chat" =>
        /\ ChatBackends \in DOMAIN changes
        /\ changes[ChatBackends].after.doc = tree[ChatBackends].doc \cup {k}
  <2>1. m.kind = "chat" =>
          <<ChatBackends, tree[ChatBackends].doc \cup {k}>> \in texts
    BY ModelTextsAre DEF texts, m
  <2>2. \A f, d : <<f, d>> \in texts =>
          f \in DOMAIN changes /\ changes[f].after.doc = d
    BY <1>2
  <2> QED BY <2>1, <2>2
<1>9. \A f \in DOMAIN changes :
        \/ f \in DOMAIN given
        \/ f \in {<<"models", k>>, <<"routes", k>>, <<"policies", k>>, RouteList,
                  PolicyList, Contracts}
        \/ f = ChatBackends /\ m.kind = "chat"
  BY <1>2, <1>3, ModelTextsAre DEF texts, m
<1>10. \A f \in DOMAIN changes : changes[f].before = tree[f]
  BY <1>2
<1>11. ASSUME NEW f \in DOMAIN changes \cap Growing
       PROVE  changes[f].before.doc \subseteq changes[f].after.doc
  <2>1. CASE f \in DOMAIN given
    BY <1>4, <1>5, <1>11, <2>1 DEF FilesSound
  <2>2. CASE f \in {RouteList, PolicyList, Contracts, ChatBackends}
    <3>1. f \notin DOMAIN given /\ f \notin {<<"models", k>>, <<"routes", k>>,
                                            <<"policies", k>>}
      BY <1>5, <1>11, <2>2, Distinct
    <3>2. f = ChatBackends => m.kind = "chat"
      BY <1>9, <1>11, <2>2, <3>1, Distinct
    <3>3. changes[f].before = tree[f]
      BY <1>10, <1>11
    <3>4. changes[f].after.doc
            \in {tree[f].doc \cup {k}, WithContract(tree[f].doc, m)}
      BY <1>7, <1>8, <2>2, <3>2
    <3>5. tree[f].doc \subseteq WithContract(tree[f].doc, m)
      BY DEF WithContract
    <3> QED BY <3>3, <3>4, <3>5
  <2>3. f \notin {<<"models", k>>, <<"routes", k>>, <<"policies", k>>}
    BY <1>11, Distinct
  <2> QED BY <1>9, <2>1, <2>2, <2>3
<1>12. ASSUME NEW n \in Models
       PROVE  /\ <<"models", n>> \in DOMAIN changes =>
                   changes[<<"models", n>>].after.doc = {Requested[n]}
              /\ <<"routes", n>> \in DOMAIN changes =>
                   changes[<<"routes", n>>].after.doc
                     = RouteManifest(Requested[n])
              /\ <<"policies", n>> \in DOMAIN changes =>
                   changes[<<"policies", n>>].after.doc
                     = PolicyManifest(Requested[n])
  <2>1. {<<"models", n>>, <<"routes", n>>, <<"policies", n>>}
          \cap {ConsumersFile, Limits, RouteList, PolicyList, Contracts,
                ChatBackends} = {}
    BY Distinct, NamedFiles
  <2>2. /\ <<"models", n>> # <<"routes", k>> /\ <<"models", n>> # <<"policies", k>>
        /\ <<"policies", n>> # <<"models", k>>
        /\ <<"policies", n>> # <<"routes", k>>
        /\ <<"routes", n>> # <<"models", k>> /\ <<"routes", n>> # <<"policies", k>>
        /\ <<"routes", n>> = <<"routes", k>> => n = k
        /\ <<"models", n>> = <<"models", k>> => n = k
        /\ <<"policies", n>> = <<"policies", k>> => n = k
    BY Distinct
  <2> QED BY <1>5, <1>7, <1>9, <2>1, <2>2 DEF m
<1>13. Prepared(changes, k)
  <2>1. \E s \in WithContract(tree[Contracts].doc, m) : s.name = m.service
    <3> DEFINE contract == [name |-> m.service, port |-> FirstPort(m)]
    <3>1. contract.name = m.service
      OBVIOUS
    <3> HIDE DEF contract
    <3> QED BY <3>1 DEF WithContract, contract
  <2> QED BY <1>7, <1>8, <2>1 DEF Prepared, m
<1>14. \A f \in DOMAIN changes : f[1] = "models" => f[2] \in Models
  <2>1. \A f \in {ConsumersFile, Limits, RouteList, PolicyList, Contracts,
                 ChatBackends, <<"routes", k>>, <<"policies", k>>} :
          f[1] # "models"
    BY DEF ConsumersFile, Limits, RouteList, PolicyList, Contracts, ChatBackends
  <2> QED BY <1>5, <1>9, <2>1
<1>15. FilesSound(changes)
  BY <1>7, <1>10, <1>11, <1>12, <1>13, <1>14 DEF FilesSound
<1> QED BY <1>2, <1>6, <1>15 DEF Sound, changes, texts

-----------------------------------------------------------------------------
(* The inductive invariant.                                                 *)

ListedServed(files) == \A m \in Listed(files, "routes") : Served(files, m)

Keys(files) == KeysOf(ModelsOf(files))

\* The models that a plan brings.
Brought(changes) == {m \in Models : <<"models", m>> \in DOMAIN changes}

\* The models that an apply which has started to write has yet to complete.
Promised == IF Running /\ job.pending # DOMAIN job.plan.changes
            THEN Brought(job.plan.changes) ELSE {}

\* A listed model is configured, or will be when the running apply is done,
\* unless the file of another has replaced its own.
ListedConfigured ==
  ConfigFirst \/ ~halted =>
    Listed(tree, "routes") \subseteq
      Keys(tree) \cup displaced \cup IF ConfigFirst THEN {} ELSE Promised

\* The identifier of a plan is that of the plan that was made, which is sound;
\* the changes may have been tampered with.
Reviewed(p) == /\ DOMAIN p = {"request", "changes", "id", "seen"}
               /\ p.id = Identifier(p.request, p.id[2])
               /\ Sound(p.request, p.id[2])

\* What a running apply is done with says what the plan says.
Written ==
  \A f \in DOMAIN job.plan.changes \ job.pending :
    tree[f] # Missing /\ tree[f].doc = job.plan.changes[f].after.doc

Applying == Running => /\ DOMAIN job = {"plan", "pending"}
                          /\ Sound(job.plan.request, job.plan.changes)
                          /\ Written

\* Access whose rate limit is still to be written by the running apply.
Unlimited ==
  IF /\ Running
     /\ ConsumersFile \in DOMAIN job.plan.changes \ job.pending
     /\ Limits \in job.pending
  THEN Gained(job.plan.changes[ConsumersFile]) ELSE {}

LimitsFollow ==
  ~halted => Entitlements(tree) \subseteq Descriptors(tree) \cup Unlimited

IInv == /\ TypeOK
        /\ Standing(tree)
        /\ ListedServed(tree)
        /\ ListedConfigured
        /\ \A p \in plans : Reviewed(p)
        /\ Applying
        /\ LimitsFollow

LEMMA EntitlementsAre ==
  ASSUME NEW files
  PROVE  /\ Entitlements(files) = Access(files[ConsumersFile].doc)
         /\ Descriptors(files) = files[Limits].doc
         /\ Listed(files, "routes") = files[RouteList].doc
         /\ Listed(files, "policies") = files[PolicyList].doc
BY DEF Entitlements, Descriptors, Listed, Access, ConsumersOf, ConsumersFile,
       Limits, RouteList, PolicyList

LEMMA InitInvariant == Init => IInv
<1> SUFFICES ASSUME Init PROVE IInv
  OBVIOUS
<1>1. tree \in Trees
  BY DEF Init
<1>2. TypeOK
  BY <1>1, LifecycleAssumption DEF LifecycleAssumption, Init, TypeOK, Running
<1>3. Standing(tree) /\ ListedServed(tree) /\ ListedConfigured
  BY <1>1, CheckoutAssumption
     DEF CheckoutAssumption, Standing, ListedServed, ListedConfigured, Keys,
         ConsumersFile
<1>4. LimitsFollow
  BY <1>1, CheckoutAssumption DEF CheckoutAssumption, LimitsFollow
<1> QED BY <1>2, <1>3, <1>4 DEF Init, IInv, Applying, Running

-----------------------------------------------------------------------------
(* Planning.                                                                *)

LEMMA Spends ==
  ASSUME NEW event \in Events, left \in [Events -> Nat], Spend(event)
  PROVE  left' \in [Events -> Nat]
<1>1. left[event] \in Nat /\ left[event] > 0
  BY DEF Spend
<1>2. left[event] - 1 \in Nat
  BY <1>1
<1> QED BY <1>2 DEF Spend

LEMMA Puts ==
  ASSUME IInv, ~Running, Spend("plan"), NEW request \in Requests, NEW texts,
         Sound(request, Changes(texts)), Put(request, texts)
  PROVE  IInv'
<1> DEFINE c == Changes(texts)
           p == Plan(request, c)
<1>1. /\ plans' = plans \cup {p}
      /\ UNCHANGED <<tree, job, report, withdrawn, displaced, halted>>
  BY DEF Put
<1>2. IsChanges(c) /\ Sound(request, c)
  BY DEF Sound
<1> HIDE DEF c
<1>3. /\ DOMAIN p = {"request", "changes", "id", "seen"}
      /\ p.request = request /\ p.changes = c /\ p.seen = withdrawn
      /\ p.id = Identifier(request, c) /\ p.id[2] = c
  BY DEF Plan, Identifier
<1> HIDE DEF p
<1>4. IsPlan(p)
  BY <1>2, <1>3 DEF IInv, TypeOK, IsPlan
<1>5. Reviewed(p)
  BY <1>2, <1>3 DEF Reviewed
<1>6. left' \in [Events -> Nat]
  BY Spends DEF Events, IInv, TypeOK
<1>7. TypeOK'
  BY <1>1, <1>4, <1>6 DEF IInv, TypeOK, Running
<1>8. ~Running'
  BY <1>1 DEF Running
<1>9. Applying' /\ LimitsFollow' /\ ListedConfigured'
  BY <1>1, <1>8 DEF IInv, Applying, LimitsFollow, Unlimited, ListedConfigured,
                    Promised, Running
<1> QED BY <1>1, <1>5, <1>7, <1>9 DEF IInv

LEMMA Plans ==
  ASSUME IInv,
         PlanModelAdd \/ PlanConsumerAdd \/ PlanConsumerRotate \/ PlanConsumerRevoke
  PROVE  IInv'
<1>1. IsTree(tree) /\ Standing(tree)
  BY DEF IInv, TypeOK
<1>2. CASE PlanModelAdd
  <2>1. /\ ~Running /\ Spend("plan") /\ "model add" \in Commands
    BY <1>2 DEF PlanModelAdd, Planning
  <2>2. PICK m \in Models, c \in Consumers \cup {None} :
          LET request == [action |-> "model add", model |-> m, consumer |-> c,
                          models |-> {m}]
          IN \/ Put(request, {})
             \/ /\ c \in KnownConsumers(tree) \cup {None}
                /\ Put(request, ModelTexts(m) \cup GrantChanges(c, m))
    BY <1>2 DEF PlanModelAdd, ModelTexts
  <2> DEFINE request == [action |-> "model add", model |-> m, consumer |-> c,
                         models |-> {m}]
             grant == GrantChanges(c, m)
  <2>3. /\ request \in Requests
        /\ Granted(request) = {c} \X {m}
    BY <2>1 DEF Requests, Granted
  <2> HIDE DEF request
  <2>4. CASE Put(request, {})
    BY <1>1, <2>1, <2>3, <2>4, NothingIsSound, Puts
  <2>5. CASE /\ c \in KnownConsumers(tree) \cup {None}
             /\ Put(request, ModelTexts(m) \cup grant)
    <3>1. /\ Sound(request, Changes(grant)) /\ Wellformed(grant)
          /\ \A t \in grant : t[1] \in {ConsumersFile, Limits}
      <4>1. CASE c = None
        <5>1. grant = {}
          BY <4>1 DEF GrantChanges
        <5> QED BY <1>1, <5>1, NothingIsSound DEF Wellformed
      <4>2. CASE c # None
        <5>1. c \in KnownConsumers(tree)
          BY <2>5, <4>2
        <5> DEFINE models == Consumer(tree, c).models \cup {m}
                   placeholder == Consumer(tree, c).placeholder
                   records == Replaced(c, models, placeholder)
        <5>2. /\ c \in Consumers /\ Consumer(tree, c).models \in SUBSET Models
              /\ placeholder \in {"initial", "rotated", "revoked"}
          BY <1>1, <5>1, ReplacedAccess
        <5>3. models \in SUBSET Models
          BY <5>2
        <5>4. grant = ConsumersChange(records) \cup RateLimitChange(c, {m})
          BY <4>2 DEF GrantChanges
        <5> HIDE DEF placeholder
        <5>5. /\ records \in SUBSET ConsumerConfigs(Consumers, Models)
              /\ Access(records) \ Access(ConsumersOf(tree))
                   \subseteq {c} \X (models \ Consumer(tree, c).models)
          <6> HIDE DEF models
          <6> QED BY <1>1, <5>1, <5>2, <5>3, ReplacedAccess
        <5>6. Access(records) \ Access(ConsumersOf(tree)) \subseteq {c} \X {m}
          BY <5>5
        <5> HIDE DEF records, models, grant
        <5>7. {m} \in SUBSET Models /\ {c} \X {m} \subseteq Granted(request)
          BY <2>3
        <5> QED BY <1>1, <5>2, <5>4, <5>5, <5>6, <5>7, GrantSound
      <4> QED BY <4>1, <4>2
    <3> HIDE DEF grant
    <3>2. Sound(request, Changes(ModelTexts(m) \cup grant))
      BY <1>1, <3>1, ModelSound
    <3> QED BY <2>1, <2>3, <2>5, <3>2, Puts
  <2> QED BY <2>2, <2>4, <2>5 DEF request, grant
<1>3. CASE PlanConsumerAdd
  <2>1. ~Running /\ Spend("plan") /\ "consumer add" \in Commands
    BY <1>3 DEF PlanConsumerAdd, Planning
  <2>2. PICK c \in Consumers, models \in SUBSET Models :
          LET record == [key |-> c, models |-> models, limited |-> TRUE,
                         placeholder |-> "initial"]
              request == [action |-> "consumer add", model |-> None,
                          consumer |-> c, models |-> models]
              records == ConsumersOf(tree) \cup {record}
          IN \/ Put(request, {})
             \/ Put(request, ConsumersChange(records)
                             \cup IF models = {} THEN {}
                                  ELSE RateLimitChange(c, models))
    <3>1. \A record : [ConfigOf(tree) EXCEPT !.consumers = @ \cup {record}].consumers
                        = ConsumersOf(tree) \cup {record}
      BY DEF ConfigOf
    <3> QED BY <1>3, <3>1 DEF PlanConsumerAdd
  <2> DEFINE record == [key |-> c, models |-> models, limited |-> TRUE,
                        placeholder |-> "initial"]
             request == [action |-> "consumer add", model |-> None,
                         consumer |-> c, models |-> models]
             records == ConsumersOf(tree) \cup {record}
  <2>3. /\ request \in Requests
        /\ Granted(request) = {c} \X models
    BY <2>1 DEF Requests, Granted
  <2>4. record \in ConsumerConfigs(Consumers, Models)
        /\ record.key = c /\ record.models = models
    BY DEF ConsumerConfigs
  <2> HIDE DEF request, record
  <2>5. /\ records \in SUBSET ConsumerConfigs(Consumers, Models)
        /\ Access(records) \ Access(ConsumersOf(tree)) \subseteq {c} \X models
    <3>1. records \in SUBSET ConsumerConfigs(Consumers, Models)
      BY <1>1, <2>4, StandingDocs
    <3>2. ASSUME NEW x \in Access(records), x \notin Access(ConsumersOf(tree))
          PROVE  x \in {c} \X models
      <4>1. PICK s \in records : x \in {s.key} \X s.models
        BY DEF Access
      <4>2. s \notin ConsumersOf(tree)
        BY <3>2, <4>1 DEF Access
      <4> QED BY <2>4, <4>1, <4>2
    <3> QED BY <3>1, <3>2
  <2> HIDE DEF records
  <2>6. CASE Put(request, {})
    BY <1>1, <2>1, <2>3, <2>6, NothingIsSound, Puts
  <2>7. CASE models = {} /\ Put(request, ConsumersChange(records))
    <3>1. Access(records) \subseteq Access(ConsumersOf(tree))
      BY <2>5, <2>7
    <3> QED BY <1>1, <2>1, <2>3, <2>5, <2>7, <3>1, RecordsSound, Puts
  <2>8. CASE Put(request, ConsumersChange(records) \cup RateLimitChange(c, models))
    <3>1. Sound(request,
                Changes(ConsumersChange(records) \cup RateLimitChange(c, models)))
      BY <1>1, <2>3, <2>5, GrantSound
    <3> QED BY <2>1, <2>3, <2>8, <3>1, Puts
  <2> DEFINE limits == RateLimitChange(c, models)
  <2>9. \/ Put(request, {})
        \/ Put(request, ConsumersChange(records)
                        \cup IF models = {} THEN {} ELSE limits)
    BY <2>2 DEF request, records, record
  <2>10. ConsumersChange(records) \cup {} = ConsumersChange(records)
    OBVIOUS
  <2> QED BY <2>6, <2>7, <2>8, <2>9, <2>10
<1>4. ASSUME NEW command \in {"consumer rotate", "consumer revoke"},
             NEW placeholder \in {"rotated", "revoked"}, NEW kept,
             PlanConsumerChange(command, placeholder, kept)
      PROVE  IInv'
  <2>1. ~Running /\ Spend("plan") /\ command \in Commands
    BY <1>4 DEF PlanConsumerChange, Planning
  <2>2. PICK c \in KnownConsumers(tree) :
          Put([action |-> command, model |-> None, consumer |-> c, models |-> {}],
              ConsumersChange(Replaced(c, Consumer(tree, c).models \cap kept,
                                       placeholder)))
    BY <1>4 DEF PlanConsumerChange
  <2> DEFINE models == Consumer(tree, c).models \cap kept
             records == Replaced(c, models, placeholder)
             request == [action |-> command, model |-> None, consumer |-> c,
                         models |-> {}]
  <2>3. c \in Consumers /\ Consumer(tree, c).models \in SUBSET Models
    BY <1>1, ReplacedAccess
  <2>4. request \in Requests
    BY <2>1, <2>3 DEF Requests
  <2>5. models \in SUBSET Models /\ models \ Consumer(tree, c).models = {}
    BY <2>3
  <2>6. /\ records \in SUBSET ConsumerConfigs(Consumers, Models)
        /\ Access(records) \ Access(ConsumersOf(tree))
             \subseteq {c} \X (models \ Consumer(tree, c).models)
    <3> HIDE DEF models
    <3> QED BY <1>1, <2>5, ReplacedAccess
  <2>7. Access(records) \subseteq Access(ConsumersOf(tree))
    BY <2>5, <2>6
  <2> HIDE DEF request, records, models
  <2> QED BY <1>1, <2>1, <2>2, <2>4, <2>6, <2>7, RecordsSound, Puts
          DEF request, records, models
<1> QED BY <1>2, <1>3, <1>4 DEF PlanConsumerRotate, PlanConsumerRevoke

LEMMA Tampers ==
  ASSUME IInv, TamperPlan
  PROVE  IInv'
<1>1. PICK p \in plans, f \in Files :
        /\ f \in DOMAIN p.changes
        /\ plans' = (plans \ {p})
             \cup {[p EXCEPT !.changes = Restrict(@, DOMAIN @ \ {f})]}
  BY DEF TamperPlan
<1>2. Spend("edit") /\ UNCHANGED <<tree, job, report, withdrawn, displaced, halted>>
  BY DEF TamperPlan
<1> DEFINE q == [p EXCEPT !.changes = Restrict(@, DOMAIN @ \ {f})]
<1>3. Reviewed(p) /\ IsPlan(p)
  BY DEF IInv, TypeOK
<1>4. /\ DOMAIN q = DOMAIN p /\ q.request = p.request /\ q.id = p.id
      /\ q.seen = p.seen
      /\ q.changes = Restrict(p.changes, DOMAIN p.changes \ {f})
  BY <1>3 DEF Reviewed
<1>5. plans' \subseteq plans \cup {q}
  BY <1>1
<1> HIDE DEF q
<1>6. IsChanges(q.changes)
  BY <1>3, <1>4 DEF IsPlan, IsChanges, Restrict
<1>7. IsPlan(q) /\ Reviewed(q)
  BY <1>3, <1>4, <1>6 DEF IsPlan, Reviewed
<1>8. left' \in [Events -> Nat]
  BY <1>2, Spends DEF Events, IInv, TypeOK
<1>9. TypeOK'
  BY <1>2, <1>5, <1>7, <1>8 DEF IInv, TypeOK, Running
<1>10. \A x \in plans' : Reviewed(x)
  BY <1>5, <1>7 DEF IInv
<1>11. Applying' /\ LimitsFollow' /\ ListedConfigured'
  BY <1>2 DEF IInv, Applying, Written, LimitsFollow, Unlimited, Running,
              ListedConfigured, Promised
<1> QED BY <1>2, <1>9, <1>10, <1>11 DEF IInv

-----------------------------------------------------------------------------
(* Applying.                                                                *)

LEMMA Applies ==
  ASSUME IInv, NEW p \in plans, Apply(p)
  PROVE  IInv'
<1>1. /\ ~Running /\ Spend("apply") /\ p.id = Identifier(p.request, p.changes)
      /\ job' = [plan |-> p, pending |-> DOMAIN p.changes]
      /\ report' = "running"
      /\ UNCHANGED <<tree, plans, withdrawn, displaced, halted>>
  BY DEF Apply
<1>2. Reviewed(p) /\ IsPlan(p)
  BY DEF IInv, TypeOK
<1>3. p.id[2] = p.changes
  BY <1>1 DEF Identifier
<1>4. /\ DOMAIN job' = {"plan", "pending"}
      /\ job'.plan = p /\ job'.pending = DOMAIN p.changes
  BY <1>1
<1>5. Sound(p.request, p.changes)
  BY <1>2, <1>3 DEF Reviewed
<1>6. left' \in [Events -> Nat]
  BY <1>1, Spends DEF Events, IInv, TypeOK
<1>7. TypeOK'
  BY <1>1, <1>2, <1>4, <1>6 DEF IInv, TypeOK, Running
<1>8. Applying'
  BY <1>4, <1>5 DEF Applying, Written
<1>9. LimitsFollow'
  <2>1. Unlimited = {}
    BY <1>1 DEF Unlimited
  <2> QED BY <1>1, <2>1 DEF IInv, LimitsFollow
<1>10. ListedConfigured'
  <2>1. Promised = {} /\ Promised' = {}
    BY <1>1, <1>4 DEF Promised
  <2> QED BY <1>1, <2>1 DEF IInv, ListedConfigured
<1> QED BY <1>1, <1>7, <1>8, <1>9, <1>10 DEF IInv

\* Files that are replaced by files that say as much keep a model served.
LEMMA StaysServed ==
  ASSUME IsTree(tree), Standing(tree), NEW after, NEW m, Served(tree, m),
         \A f \in Files : tree[f] # Missing => after[f] # Missing,
         \A f \in Growing : tree[f].doc \subseteq after[f].doc,
         \A k \in Models :
           /\ tree[<<"policies", k>>] # Missing
           /\ tree[<<"policies", k>>].doc = PolicyManifest(Requested[k])
           => after[<<"policies", k>>].doc = PolicyManifest(Requested[k])
  PROVE  Served(after, m)
<1>1. /\ m \in tree[PolicyList].doc /\ tree[<<"policies", m>>] # Missing
      /\ tree[<<"policies", m>>].doc = PolicyManifest(Requested[m])
  BY EntitlementsAre DEF Served, Rendered
<1>2. m \in Models
  BY <1>1, StandingDocs
<1>3. m \in Rendered(after, "policies")
  <2>1. <<"policies", m>> \in Files /\ PolicyList \in Growing
    BY <1>2, NamedFiles
  <2> QED BY <1>1, <2>1, EntitlementsAre DEF Rendered
<1>4. after[<<"policies", m>>].doc = PolicyManifest(Requested[m])
  BY <1>1, <1>2
<1>5. /\ \E s \in after[Contracts].doc : s.name = Requested[m].service
      /\ Requested[m].kind = "chat" => m \in after[ChatBackends].doc
  <2>1. Contracts \in Growing /\ ChatBackends \in Growing
    BY NamedFiles
  <2> QED BY <2>1 DEF Served, Contracts, ChatBackends
<1> QED BY <1>3, <1>4, <1>5 DEF Served, Contracts, ChatBackends

\* A pair of ModelsOf is a file that is there and a model in it.
LEMMA ModelsAre ==
  ASSUME NEW files
  PROVE  /\ \A e \in ModelsOf(files) :
              /\ e = <<e[1], e[2]>> /\ e[1] \in ModelFiles
              /\ files[<<"models", e[1]>>] # Missing
              /\ e[2] \in files[<<"models", e[1]>>].doc
         /\ \A g \in ModelFiles : \A x \in files[<<"models", g>>].doc :
              files[<<"models", g>>] # Missing => <<g, x>> \in ModelsOf(files)
<1> DEFINE there == {g \in ModelFiles : files[<<"models", g>>] # Missing}
<1>1. ModelsOf(files) =
        UNION {{<<f, m>> : m \in files[<<"models", f>>].doc} : f \in there}
  BY DEF ModelsOf
<1>2. ASSUME NEW e \in ModelsOf(files)
      PROVE  /\ e = <<e[1], e[2]>> /\ e[1] \in there
             /\ e[2] \in files[<<"models", e[1]>>].doc
  <2>1. PICK f \in there : e \in {<<f, m>> : m \in files[<<"models", f>>].doc}
    BY <1>1
  <2>2. PICK m \in files[<<"models", f>>].doc : e = <<f, m>>
    BY <2>1
  <2>3. e[1] = f /\ e[2] = m
    BY <2>2
  <2> QED BY <2>2, <2>3
<1>3. ASSUME NEW g \in there, NEW x \in files[<<"models", g>>].doc
      PROVE  <<g, x>> \in ModelsOf(files)
  BY <1>1
<1> QED BY <1>2, <1>3

LEMMA KeysAreModels ==
  ASSUME IsTree(tree)
  PROVE  Keys(tree) \subseteq Models
<1> SUFFICES ASSUME NEW e \in ModelsOf(tree)
             PROVE  e[2].key \in Models
  BY DEF Keys, KeysOf
<1>1. /\ e[1] \in ModelFiles /\ tree[<<"models", e[1]>>] # Missing
      /\ e[2] \in tree[<<"models", e[1]>>].doc
  BY ModelsAre
<1>2. <<"models", e[1]>> \in Files
  BY <1>1 DEF Files
<1>3. tree[<<"models", e[1]>>].doc \in Docs(<<"models", e[1]>>)
  BY <1>1, <1>2, ContentOf
<1>4. Docs(<<"models", e[1]>>) = SUBSET ModelConfigs(Models)
  BY DEF Docs
<1> QED BY <1>1, <1>3, <1>4 DEF ModelConfigs

\* Files that say what other files say configure the same models.
LEMMA SameModels ==
  ASSUME NEW before, NEW after,
         \A f \in Files : /\ after[f] # Missing <=> before[f] # Missing
                          /\ after[f].doc = before[f].doc
  PROVE  ModelsOf(after) = ModelsOf(before)
<1>1. \A g \in ModelFiles : <<"models", g>> \in Files
  BY DEF Files
<1>2. \A g \in ModelFiles :
        /\ after[<<"models", g>>] # Missing <=> before[<<"models", g>>] # Missing
        /\ after[<<"models", g>>].doc = before[<<"models", g>>].doc
  BY <1>1
<1>3. ASSUME NEW e \in ModelsOf(after)
      PROVE  e \in ModelsOf(before)
  <2>1. /\ e = <<e[1], e[2]>> /\ e[1] \in ModelFiles
        /\ before[<<"models", e[1]>>] # Missing
        /\ e[2] \in before[<<"models", e[1]>>].doc
    BY <1>2, ModelsAre
  <2>2. <<e[1], e[2]>> \in ModelsOf(before)
    BY <2>1, ModelsAre
  <2> QED BY <2>1, <2>2
<1>4. ASSUME NEW e \in ModelsOf(before)
      PROVE  e \in ModelsOf(after)
  <2>1. /\ e = <<e[1], e[2]>> /\ e[1] \in ModelFiles
        /\ after[<<"models", e[1]>>] # Missing
        /\ e[2] \in after[<<"models", e[1]>>].doc
    BY <1>2, ModelsAre
  <2>2. <<e[1], e[2]>> \in ModelsOf(after)
    BY <2>1, ModelsAre
  <2> QED BY <2>1, <2>2
<1> QED BY <1>3, <1>4

\* A retouched file says the same.
LEMMA Retouches ==
  ASSUME IInv, Retouch
  PROVE  IInv' /\ Entitlements(tree') = Entitlements(tree)
<1>1. PICK f \in Files : tree[f] # Missing /\ tree' = [tree EXCEPT ![f].rev = 1]
  BY DEF Retouch
<1>2. Spend("edit") /\ UNCHANGED <<plans, job, report, withdrawn, displaced, halted>>
  BY DEF Retouch
<1>3. IsTree(tree) /\ Standing(tree)
  BY DEF IInv, TypeOK
<1>4. /\ tree[f] \in Contents(Docs(f))
      /\ DOMAIN tree[f] = {"doc", "rev"}
  BY <1>1, <1>3 DEF IsTree, Contents
<1>5. /\ DOMAIN tree' = Files
      /\ \A g \in Files : g # f => tree'[g] = tree[g]
      /\ tree'[f] = [tree[f] EXCEPT !.rev = 1]
  BY <1>1, <1>3 DEF IsTree
<1>6. tree'[f].doc = tree[f].doc /\ tree'[f] \in Contents(Docs(f))
  BY <1>4, <1>5 DEF Contents
<1>7. tree'[f] # Missing
  BY <1>6, TreeAssumption DEF TreeAssumption
<1>8. \A g \in Files : /\ tree'[g] # Missing <=> tree[g] # Missing
                       /\ tree'[g].doc = tree[g].doc
  BY <1>1, <1>5, <1>6, <1>7
<1>9. IsTree(tree')
  BY <1>3, <1>5, <1>6 DEF IsTree
<1>10. /\ Entitlements(tree') = Entitlements(tree)
       /\ Descriptors(tree') = Descriptors(tree)
       /\ Listed(tree', "routes") = Listed(tree, "routes")
  BY <1>8, EntitlementsAre, NamedFiles
<1>11. Standing(tree')
  BY <1>3, <1>8, NamedFiles DEF Standing
<1>12. ListedServed(tree')
  <2> SUFFICES ASSUME NEW m \in Listed(tree, "routes")
               PROVE  Served(tree', m)
    BY <1>10 DEF ListedServed
  <2>1. Served(tree, m)
    BY DEF IInv, ListedServed
  <2> QED BY <1>3, <1>8, <2>1, NamedFiles, StaysServed
<1>13. left' \in [Events -> Nat]
  BY <1>2, Spends DEF Events, IInv, TypeOK
<1>14. TypeOK'
  BY <1>2, <1>9, <1>13 DEF IInv, TypeOK, Running
<1>15. Applying'
  <2>1. Running => DOMAIN job.plan.changes \subseteq Files
    BY DEF IInv, Applying, Sound, IsChanges
  <2> QED BY <1>2, <1>8, <2>1 DEF IInv, Applying, Written, Running
<1>16. LimitsFollow'
  BY <1>2, <1>10 DEF IInv, LimitsFollow, Unlimited, Running
<1>17. ListedConfigured'
  <2>1. Keys(tree') = Keys(tree)
    BY <1>8, SameModels DEF Keys
  <2>2. Promised' = Promised
    BY <1>2 DEF Promised, Running
  <2> QED BY <1>2, <1>10, <2>1, <2>2 DEF IInv, ListedConfigured
<1> QED BY <1>2, <1>10, <1>11, <1>12, <1>14, <1>15, <1>16, <1>17 DEF IInv

\* An apply that is done has configured what it promised, and one that stopped
\* before its first file has promised nothing.
LEMMA PromisesKept ==
  ASSUME IInv, Refuse \/ Kill \/ Finish, ~halted'
  PROVE  Promised \subseteq Keys(tree)
<1>1. CASE Refuse \/ Kill
  <2>1. Promised = {}
    BY <1>1 DEF Refuse, Kill, Promised
  <2> QED BY <2>1
<1>2. CASE Finish
  <2> DEFINE changes == job.plan.changes
  <2>1. Running /\ job.pending = {} /\ FilesSound(changes)
    BY <1>2 DEF Finish, IInv, Applying, Sound
  <2>2. \A f \in DOMAIN changes :
          tree[f] # Missing /\ tree[f].doc = changes[f].after.doc
    BY <2>1 DEF IInv, Applying, Written
  <2> HIDE DEF changes
  <2>3. ASSUME NEW m \in Brought(changes)
        PROVE  m \in Keys(tree)
    <3>1. /\ m \in Models /\ tree[<<"models", m>>] # Missing
          /\ tree[<<"models", m>>].doc = {Requested[m]}
      BY <2>1, <2>2 DEF Brought, FilesSound
    <3>2. <<m, Requested[m]>> \in ModelsOf(tree)
      BY <3>1, ModelsAre DEF ModelFiles
    <3>3. <<m, Requested[m]>>[2].key = m
      BY <3>1, TreeAssumption DEF TreeAssumption
    <3> QED BY <3>2, <3>3 DEF Keys, KeysOf
  <2> QED BY <2>3 DEF Promised, changes
<1> QED BY <1>1, <1>2

LEMMA Stops ==
  ASSUME IInv, Refuse \/ Kill \/ Finish
  PROVE  IInv'
<1>1. /\ Running /\ ~Running'
      /\ report' \in {"refused", "killed", "applied"}
      /\ UNCHANGED <<tree, plans, withdrawn, displaced>>
      /\ halted' \in BOOLEAN /\ left' \in [Events -> Nat]
      /\ halted => halted'
  BY Spends DEF Refuse, Kill, Finish, Stop, IInv, TypeOK, Events, Running
<1>2. TypeOK'
  BY <1>1 DEF IInv, TypeOK
<1>3. ~halted' => Unlimited = {}
  BY DEF Refuse, Kill, Finish, Unlimited
<1>4. LimitsFollow'
  BY <1>1, <1>3 DEF IInv, LimitsFollow
<1>5. ListedConfigured'
  <2>1. ~halted' => Promised \subseteq Keys(tree)
    BY PromisesKept
  <2> QED BY <1>1, <2>1 DEF IInv, ListedConfigured
<1> QED BY <1>1, <1>2, <1>4, <1>5 DEF IInv, Applying

\* The routes are written last, so a route is listed when all that the plan
\* brings for it has been written.
LEMMA Writes ==
  ASSUME IInv, WriteNext
  PROVE  /\ IInv'
         /\ Entitlements(tree') \ Entitlements(tree)
              \subseteq Granted(job.plan.request)
<1> DEFINE f == First(job.pending)
           changes == job.plan.changes
<1>1. /\ Running /\ job.pending # {}
      /\ tree[f] = changes[f].before
      /\ tree' = [tree EXCEPT ![f] = changes[f].after]
      /\ job' = [job EXCEPT !.pending = @ \ {f}]
      /\ UNCHANGED <<plans, report, halted, left>>
      /\ withdrawn' = [c \in Consumers |->
                         IF c \in Losers(tree, tree') THEN withdrawn[c] + 1
                                                      ELSE withdrawn[c]]
      /\ displaced' = displaced \cup Vanished(tree, tree')
  BY DEF WriteNext
<1>2. /\ DOMAIN job = {"plan", "pending"}
      /\ Sound(job.plan.request, changes) /\ Written
      /\ job.pending \subseteq DOMAIN changes /\ IsPlan(job.plan)
      /\ IsTree(tree) /\ Standing(tree)
  BY <1>1 DEF IInv, Applying, TypeOK
<1>3. /\ IsChanges(changes) /\ GrantsSound(job.plan.request, changes)
      /\ FilesSound(changes)
  BY <1>2 DEF Sound
<1>4. job.pending \subseteq Files
  BY <1>2, <1>3 DEF IsChanges
<1>5. f \in job.pending /\ \A g \in job.pending \ {f} : Precedes(f, g)
  BY <1>1, <1>4, FirstIsFirst
<1> HIDE DEF f
<1>6. /\ f \in DOMAIN changes /\ f \in Files
      /\ changes[f].after \in Contents(Docs(f))
      /\ changes[f].after # Missing
  BY <1>2, <1>3, <1>4, <1>5, TreeAssumption DEF IsChanges, TreeAssumption
<1>7. /\ job'.plan = job.plan /\ job'.pending = job.pending \ {f}
      /\ DOMAIN job' = {"plan", "pending"} /\ Running'
  BY <1>1, <1>2 DEF Running
<1>8. /\ DOMAIN tree' = Files
      /\ \A g \in Files : g # f => tree'[g] = tree[g]
      /\ tree'[f] = changes[f].after
  BY <1>1, <1>2, <1>6 DEF IsTree
<1>0. tree[f] = changes[f].before
  BY <1>1
<1> HIDE DEF changes
<1>9. IsTree(tree')
  BY <1>2, <1>6, <1>8 DEF IsTree
<1>10. \A g \in Files : tree[g] # Missing => tree'[g] # Missing
  BY <1>6, <1>8
<1>11. \A g \in Growing : tree[g].doc \subseteq tree'[g].doc
  <2> SUFFICES ASSUME NEW g \in Growing
               PROVE  tree[g].doc \subseteq tree'[g].doc
    OBVIOUS
  <2>1. CASE g = f
    BY <1>1, <1>3, <1>6, <1>8, <2>1 DEF FilesSound, changes
  <2> QED BY <1>8, <2>1, NamedFiles
<1>13. \A k \in Models :
         /\ tree[<<"policies", k>>] # Missing
         /\ tree[<<"policies", k>>].doc = PolicyManifest(Requested[k])
         => tree'[<<"policies", k>>].doc = PolicyManifest(Requested[k])
  BY <1>3, <1>6, <1>8, NamedFiles DEF FilesSound
<1>14. \A m : Served(tree, m) => Served(tree', m)
  BY <1>2, <1>10, <1>11, <1>13, StaysServed
<1>15. Standing(tree')
  <2>1. \A g \in Growing \cup {ConsumersFile} : tree'[g] # Missing
    BY <1>2, <1>10, NamedFiles DEF Standing
  <2>2. \A m \in Models : tree'[<<"routes", m>>] # Missing =>
               tree'[<<"routes", m>>].doc = RouteManifest(Requested[m])
    BY <1>2, <1>3, <1>6, <1>8, NamedFiles DEF Standing, FilesSound
  <2> QED BY <2>1, <2>2 DEF Standing
<1>16. Written'
  <2> SUFFICES ASSUME NEW g \in DOMAIN changes \ job'.pending
               PROVE  /\ tree'[g] # Missing
                      /\ tree'[g].doc = changes[g].after.doc
    BY <1>7 DEF Written, changes
  <2>1. CASE g = f
    BY <1>6, <1>8, <2>1
  <2>2. CASE g # f
    <3>1. g \in DOMAIN changes \ job.pending /\ g \in Files
      BY <1>3, <1>7, <2>2 DEF IsChanges
    <3> QED BY <1>2, <1>8, <2>2, <3>1 DEF Written, changes
  <2> QED BY <2>1, <2>2
<1>12. \A g \in DOMAIN changes :
         /\ f = RouteList /\ g[1] # "routes"
         /\ g[1] \in {"config", "models"} => ConfigFirst
         => tree'[g] # Missing /\ tree'[g].doc = changes[g].after.doc
  <2> SUFFICES ASSUME NEW g \in DOMAIN changes, f = RouteList, g[1] # "routes",
                      g[1] \in {"config", "models"} => ConfigFirst
               PROVE  g \notin job'.pending
    BY <1>7, <1>16 DEF Written, changes
  <2>1. RouteList[1] = "routes" /\ g \in Files
    BY <1>3 DEF RouteList, IsChanges
  <2>2. ~Precedes(f, g)
    BY <1>6, <2>1, RoutesComeLast
  <2> QED BY <1>5, <1>7, <2>2
<1>17. ASSUME f = RouteList
       PROVE  \E m \in Models : /\ Prepared(changes, m) /\ Served(tree', m)
                                /\ Listed(tree', "routes")
                                     \subseteq Listed(tree, "routes") \cup {m}
  <2>1. PICK m \in Models :
          /\ changes[RouteList].after.doc
               \subseteq changes[RouteList].before.doc \cup {m}
          /\ Prepared(changes, m)
    BY <1>3, <1>6, <1>17 DEF FilesSound
  <2>2. Listed(tree', "routes") \subseteq Listed(tree, "routes") \cup {m}
    <3>1. /\ tree[RouteList].doc = changes[RouteList].before.doc
          /\ tree'[RouteList].doc = changes[RouteList].after.doc
      BY <1>0, <1>8, <1>17
    <3> QED BY <2>1, <3>1, EntitlementsAre
  <2>3. /\ <<"policies", m>>[1] = "policies" /\ PolicyList[1] = "policies"
        /\ Contracts[1] = "backends" /\ ChatBackends[1] = "backends"
    BY DEF PolicyList, Contracts, ChatBackends
  <2>4. \A g \in DOMAIN changes \cap {<<"policies", m>>, PolicyList, Contracts,
                                      ChatBackends} :
          tree'[g] # Missing /\ tree'[g].doc = changes[g].after.doc
    BY <1>12, <1>17, <2>3
  <2>5. m \in Rendered(tree', "policies")
    BY <2>1, <2>4, EntitlementsAre DEF Prepared, Rendered
  <2>6. tree'[<<"policies", m>>].doc = PolicyManifest(Requested[m])
    BY <1>3, <2>1, <2>4 DEF Prepared, FilesSound
  <2>7. /\ \E s \in tree'[Contracts].doc : s.name = Requested[m].service
        /\ Requested[m].kind = "chat" => m \in tree'[ChatBackends].doc
    BY <2>1, <2>4 DEF Prepared
  <2>8. Served(tree', m)
    BY <2>5, <2>6, <2>7 DEF Served, Contracts, ChatBackends
  <2> QED BY <2>1, <2>2, <2>8
<1>22. f # RouteList => Listed(tree', "routes") = Listed(tree, "routes")
  BY <1>8, NamedFiles, EntitlementsAre
<1>23. ListedServed(tree')
  BY <1>14, <1>17, <1>22 DEF IInv, ListedServed
<1>24. ListedConfigured'
  <2> DEFINE coming == IF ConfigFirst THEN {} ELSE Promised
  <2>1. Keys(tree) \subseteq Keys(tree') \cup displaced' /\ displaced \subseteq displaced'
    BY <1>1 DEF Vanished, Keys
  <2>2. Promised' = Brought(changes) /\ Promised \subseteq Brought(changes)
    BY <1>2, <1>6, <1>7 DEF Promised, changes
  <2>3. coming \subseteq coming'
    BY <2>2
  <2>4. ASSUME ConfigFirst \/ ~halted, f = RouteList
        PROVE  Listed(tree', "routes") \subseteq Keys(tree') \cup displaced' \cup coming'
    <3>1. PICK m \in Models : /\ Prepared(changes, m)
                              /\ Listed(tree', "routes")
                                   \subseteq Listed(tree, "routes") \cup {m}
      BY <1>17, <2>4
    <3>2. <<"models", m>> \in DOMAIN changes
      BY <3>1 DEF Prepared
    <3>3. CASE ConfigFirst
      <4>1. /\ tree'[<<"models", m>>] # Missing
            /\ tree'[<<"models", m>>].doc = {Requested[m]}
        BY <1>3, <1>12, <2>4, <3>2, <3>3 DEF FilesSound
      <4>2. <<m, Requested[m]>> \in ModelsOf(tree')
        BY <4>1, ModelsAre DEF ModelFiles
      <4>3. <<m, Requested[m]>>[2].key = m
        BY TreeAssumption DEF TreeAssumption
      <4>4. m \in Keys(tree')
        BY <4>2, <4>3 DEF Keys, KeysOf
      <4> QED BY <2>1, <2>4, <3>1, <3>3, <4>4 DEF IInv, ListedConfigured
    <3>4. CASE ~ConfigFirst
      <4>1. m \in Promised'
        BY <2>2, <3>2 DEF Brought
      <4>2. Listed(tree, "routes") \subseteq Keys(tree) \cup displaced \cup Promised
        BY <2>4, <3>4 DEF IInv, ListedConfigured
      <4> QED BY <2>1, <2>2, <3>1, <3>4, <4>1, <4>2
    <3> QED BY <3>3, <3>4
  <2> HIDE DEF coming
  <2>5. ASSUME ConfigFirst \/ ~halted, f # RouteList
        PROVE  Listed(tree', "routes") \subseteq Keys(tree') \cup displaced' \cup coming'
    <3>1. Listed(tree, "routes") \subseteq Keys(tree) \cup displaced \cup coming
      BY <2>5 DEF IInv, ListedConfigured, coming
    <3> QED BY <1>22, <2>1, <2>3, <2>5, <3>1
  <2> QED BY <1>1, <2>4, <2>5 DEF ListedConfigured, coming, Keys
<1> DEFINE gained == Gained(changes[ConsumersFile])
<1>18. ASSUME f = ConsumersFile
       PROVE  /\ LimitsFollow'
              /\ Entitlements(tree') \ Entitlements(tree)
                   \subseteq Granted(job.plan.request)
  <2>1. /\ gained \subseteq Granted(job.plan.request)
        /\ gained # {} => Limits \in DOMAIN changes
                          /\ gained \subseteq changes[Limits].after.doc
    BY <1>3, <1>6, <1>18 DEF GrantsSound
  <2>2. Entitlements(tree') \subseteq Entitlements(tree) \cup gained
    <3>1. /\ Entitlements(tree) = Access(changes[ConsumersFile].before.doc)
          /\ Entitlements(tree') = Access(changes[ConsumersFile].after.doc)
      BY <1>0, <1>8, <1>18, EntitlementsAre
    <3> QED BY <3>1 DEF Gained
  <2>3. Descriptors(tree') = Descriptors(tree)
    BY <1>8, <1>18, NamedFiles, Distinct, EntitlementsAre
  <2>4. Unlimited = {}
    BY <1>5, <1>18 DEF Unlimited
  <2>5. gained \subseteq Descriptors(tree') \cup Unlimited'
    <3>1. CASE gained = {}
      BY <3>1
    <3>2. CASE gained # {} /\ Limits \in job'.pending
      <4>1. ConsumersFile \in DOMAIN changes \ job'.pending
        BY <1>6, <1>7, <1>18
      <4>2. Unlimited' = gained
        BY <1>7, <3>2, <4>1 DEF Unlimited, changes
      <4> QED BY <4>2
    <3>3. CASE gained # {} /\ Limits \notin job'.pending
      BY <1>7, <1>16, <2>1, <3>3, EntitlementsAre DEF Written, changes
    <3> QED BY <3>1, <3>2, <3>3
  <2>6. LimitsFollow'
    BY <1>1, <2>2, <2>3, <2>4, <2>5 DEF IInv, LimitsFollow
  <2>7. Entitlements(tree') \ Entitlements(tree) \subseteq Granted(job.plan.request)
    BY <2>1, <2>2
  <2> QED BY <2>6, <2>7
<1>19. ASSUME f # ConsumersFile
       PROVE  /\ LimitsFollow'
              /\ Entitlements(tree') \ Entitlements(tree)
                   \subseteq Granted(job.plan.request)
  <2>1. Entitlements(tree') = Entitlements(tree)
    BY <1>8, <1>19, NamedFiles, EntitlementsAre
  <2>2. Descriptors(tree) \subseteq Descriptors(tree')
    BY <1>11, NamedFiles, EntitlementsAre
  <2>3. /\ job'.plan.changes = changes
        /\ ConsumersFile \in DOMAIN changes \ job'.pending
             <=> ConsumersFile \in DOMAIN changes \ job.pending
    BY <1>7, <1>19 DEF changes
  <2>4. Unlimited \subseteq Descriptors(tree') \cup Unlimited'
    <3>1. CASE Unlimited = {}
      BY <3>1
    <3>2. CASE Unlimited # {}
      <4>1. /\ ConsumersFile \in DOMAIN changes \ job.pending
            /\ Limits \in job.pending /\ Unlimited = gained
        BY <3>2 DEF Unlimited, changes
      <4>2. CASE Limits \in job'.pending
        <5>1. Unlimited' = gained
          BY <1>7, <2>3, <4>1, <4>2 DEF Unlimited
        <5> QED BY <4>1, <5>1
      <4>3. CASE Limits \notin job'.pending
        <5>1. f = Limits
          BY <1>7, <4>1, <4>3
        <5>2. Descriptors(tree') = changes[Limits].after.doc
          BY <1>8, <5>1, EntitlementsAre
        <5>3. gained # {} => gained \subseteq changes[Limits].after.doc
          BY <1>3, <4>1 DEF GrantsSound
        <5> QED BY <4>1, <5>2, <5>3
      <4> QED BY <4>2, <4>3
    <3> QED BY <3>1, <3>2
  <2>5. LimitsFollow'
    BY <1>1, <2>1, <2>2, <2>4 DEF IInv, LimitsFollow
  <2> QED BY <2>1, <2>5
<1>20. TypeOK'
  <2>1. withdrawn' \in [Consumers -> Nat]
    BY <1>1 DEF IInv, TypeOK
  <2>2. /\ plans' = plans /\ report' = report /\ halted' = halted /\ left' = left
    BY <1>1
  <2>3. job'.pending \subseteq DOMAIN job'.plan.changes
    BY <1>2, <1>7 DEF changes
  <2>4. displaced' \subseteq Models
    BY <1>1, <1>2, KeysAreModels DEF IInv, TypeOK, Vanished, Keys
  <2> QED BY <1>2, <1>7, <1>9, <2>1, <2>2, <2>3, <2>4 DEF IInv, TypeOK
<1>21. Applying'
  BY <1>2, <1>7, <1>16 DEF Applying, changes
<1> QED BY <1>1, <1>15, <1>18, <1>19, <1>20, <1>21, <1>23, <1>24 DEF IInv

-----------------------------------------------------------------------------
(* The invariant and what follows from it.                                  *)

LEMMA StepInvariant == IInv /\ [Next]_vars => IInv'
<1> SUFFICES ASSUME IInv, [Next]_vars PROVE IInv'
  OBVIOUS
<1>1. CASE Next
  BY <1>1, Plans, Tampers, Applies, Writes, Stops, Retouches DEF Next
<1>2. CASE UNCHANGED vars
  BY <1>2 DEF vars, IInv, TypeOK, Applying, Written, LimitsFollow, Unlimited,
              Running, ListedConfigured, Promised
<1> QED BY <1>1, <1>2

THEOREM Invariance == Spec => []IInv
BY InitInvariant, StepInvariant, PTL DEF Spec

\* Files, plans and the running apply keep their types: in particular, no plan
\* names a file that is not in the tree (SourceChange).
THEOREM TypeCorrect == Spec => []TypeOK
<1>1. IInv => TypeOK
  BY DEF IInv
<1> QED BY <1>1, Invariance, PTL

\* A route that is rendered has its policy, its contract and its backend,
\* which it finds in the namespace of the gateway, and its model is configured
\* unless another's file has replaced its own or the configuration comes last,
\* wherever applies have stopped (apply_lifecycle_plan, _dedupe_changes).
THEOREM CompleteRoutes == Spec => []RouteIsComplete
<1>1. IInv => RouteIsComplete
  <2> SUFFICES ASSUME IInv, NEW m \in Rendered(tree, "routes")
               PROVE  /\ Served(tree, m)
                      /\ Found(tree, tree[<<"routes", m>>].doc.backend)
                      /\ ConfigFirst \/ (~Running /\ ~halted) =>
                           m \in KeysOf(ModelsOf(tree)) \cup displaced
    BY DEF RouteIsComplete
  <2>1. /\ m \in Listed(tree, "routes") /\ tree[<<"routes", m>>] # Missing
        /\ Served(tree, m)
    BY DEF Rendered, IInv, ListedServed
  <2>2. m \in Models
    BY <2>1, StandingDocs, EntitlementsAre DEF IInv, TypeOK
  <2>3. tree[<<"routes", m>>].doc.backend = BackendRef(Requested[m])
    <3>1. \A x : RouteManifest(x).backend = BackendRef(x)
      BY DEF RouteManifest
    <3> QED BY <2>1, <2>2, <3>1 DEF IInv, Standing
  <2>4. /\ Requested[m].key = m
        /\ Requested[m].kind = "chat" =>
             /\ BackendRef(Requested[m]).kind = "chat"
             /\ BackendRef(Requested[m]).name = m
        /\ Requested[m].kind # "chat" =>
             /\ BackendRef(Requested[m]).kind # "chat"
             /\ BackendRef(Requested[m]).name = Requested[m].service
    BY <2>2, TreeAssumption DEF TreeAssumption, BackendRef
  <2>5. Found(tree, BackendRef(Requested[m]))
    BY <2>1, <2>4 DEF Found, Served
  <2>6. ConfigFirst \/ (~Running /\ ~halted) =>
          m \in KeysOf(ModelsOf(tree)) \cup displaced
    BY <2>1 DEF IInv, ListedConfigured, Promised, Keys
  <2> QED BY <2>1, <2>3, <2>5, <2>6
<1> QED BY <1>1, Invariance, PTL

\* Every grant has its rate limits, as long as no apply has stopped in the
\* middle (_updated_ratelimit_change).
THEOREM LimitedGrants == Spec => []QuotaFollowsGrant
<1>1. IInv => QuotaFollowsGrant
  BY DEF IInv, LimitsFollow, Unlimited, QuotaFollowsGrant
<1> QED BY <1>1, Invariance, PTL

\* Nobody gains access but by an apply of a plan that was asked to give it
\* (apply_lifecycle_plan, and the check of the plan's identifier).
THEOREM RequestedGrants == Spec => GrantsAreRequested
<1> DEFINE AskedFor ==
      Entitlements(tree') \ Entitlements(tree) # {} =>
        /\ Running
        /\ Entitlements(tree') \ Entitlements(tree)
             \subseteq Granted(job.plan.request)
<1>1. IInv /\ [Next]_vars => [AskedFor]_vars
  <2> SUFFICES ASSUME IInv, [Next]_vars, tree' # tree
               PROVE  AskedFor
    OBVIOUS
  <2>1. CASE WriteNext
    BY <2>1, Writes DEF WriteNext
  <2>2. CASE Retouch
    BY <2>2, Retouches
  <2>3. WriteNext \/ Retouch
    BY DEF Next, vars, PlanModelAdd, PlanConsumerAdd, PlanConsumerRotate,
           PlanConsumerRevoke, PlanConsumerChange, Put, TamperPlan, Apply,
           Refuse, Kill, Finish, Stop
  <2> QED BY <2>1, <2>2, <2>3
<1> QED BY <1>1, Invariance, PTL DEF Spec, GrantsAreRequested

=============================================================================
