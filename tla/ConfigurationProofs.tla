------------------------ MODULE ConfigurationProofs ------------------------
(***************************************************************************)
(* Theorems about what the lifecycle commands leave configured, for any     *)
(* models, consumers, file names, source trees that a checkout can hold,    *)
(* commands and budgets.  No apply validates what it leaves, so the rules    *)
(* of validate_config are carried from the moment a plan is made, in what    *)
(* the plan will write, to the moment its last file is written.              *)
(***************************************************************************)
EXTENDS LifecycleProofs

-----------------------------------------------------------------------------
(* The inductive invariant.                                                 *)

\* The models in files that are not named after them: no command puts one there.
FirstKeys(files) ==
  {e[2].key : e \in {d \in ModelsOf(files) : d[1] # d[2].key}}

\* The models that plans are not validated against: those whose files have been
\* replaced, or any, once an apply has stopped before a configuration that is
\* written last.
Exempt == IF ConfigFirst \/ ~halted THEN displaced ELSE Models

\* The rules about a model alone.
Accepted(m) == /\ PortUnambiguous(m)
               /\ Reachable(m, Platform)
               /\ BackendMatchesKind(m)

\* The rules about the platform alone.
PlatformAccepted == /\ ImagesPromoted(Platform)
                    /\ Platform.expectedContext
                    /\ Platform.confirmationToken

\* The models of these keys can be configured together.
Unambiguous(keys) ==
  \A m, n \in keys : m # n =>
    /\ Requested[m].host # Requested[n].host
    /\ Requested[m].permission # Requested[n].permission

\* The rules about consumers that do not depend on the models.
RecordsAccepted(records) == /\ IsInjective([c \in records |-> c.key])
                            /\ RateLimitsServed(Platform, records)

Used(records) == UNION {r.models : r \in records}

\* Whatever an apply has written so far, and wherever it stopped.
SourcesAccepted(files, exempt) ==
  /\ PlatformAccepted
  /\ \A e \in ModelsOf(files) : e[2] = Requested[e[2].key] /\ Accepted(e[2])
  /\ \A d, e \in ModelsOf(files) : d[2].key = e[2].key => d = e
  /\ Unambiguous((Listed(files, "routes") \cup FirstKeys(files)) \ exempt)
  /\ RecordsAccepted(ConsumersOf(files))

\* What the validation of a plan leaves in it.
ChangesAccepted(files, exempt, changes) ==
  /\ \A m \in Brought(changes) : /\ Accepted(Requested[m])
                                 /\ m \notin FirstKeys(files)
                                 /\ RouteList \in DOMAIN changes
                                 /\ m \in changes[RouteList].after.doc
  /\ RouteList \in DOMAIN changes =>
       Unambiguous((changes[RouteList].after.doc \cup FirstKeys(files)) \ exempt)
  /\ ConsumersFile \in DOMAIN changes =>
       /\ RecordsAccepted(changes[ConsumersFile].after.doc)
       /\ Used(changes[ConsumersFile].after.doc)
            \subseteq Keys(files) \cup Brought(changes) \cup exempt

\* Consumers use models that are configured, unless another's file replaced
\* theirs, and models that are configured are routed, or will be when the
\* running apply is done.
Following ==
  ~halted =>
    /\ Used(ConsumersOf(tree)) \subseteq Keys(tree) \cup Promised \cup displaced
    /\ Keys(tree) \subseteq Listed(tree, "routes") \cup FirstKeys(tree)
                             \cup Promised

CInv == /\ SourcesAccepted(tree, Exempt)
        /\ \A p \in plans : ChangesAccepted(tree, Exempt, p.id[2])
        /\ Running => ChangesAccepted(tree, Exempt, job.plan.changes)
        /\ Following

\* Models that are accepted together are unambiguous by their keys.
LEMMA KeysUnambiguous ==
  ASSUME NEW models, ModelsUnambiguous(models),
         \A e \in models : e[2] = Requested[e[2].key]
  PROVE  Unambiguous(KeysOf(models))
<1> SUFFICES ASSUME NEW d \in models, NEW e \in models, d[2].key # e[2].key
             PROVE  /\ Requested[d[2].key].host # Requested[e[2].key].host
                    /\ Requested[d[2].key].permission
                         # Requested[e[2].key].permission
  BY DEF Unambiguous, KeysOf
<1>1. d[2].host # e[2].host /\ d[2].permission # e[2].permission
  BY DEF ModelsUnambiguous, IsInjective
<1> QED BY <1>1

\* Conversely.
LEMMA UnambiguousModels ==
  ASSUME NEW models, NEW keys, KeysOf(models) \subseteq keys, Unambiguous(keys),
         \A e \in models : e[2] = Requested[e[2].key],
         \A d, e \in models : d[2].key = e[2].key => d = e
  PROVE  ModelsUnambiguous(models)
<1>1. ASSUME NEW d \in models, NEW e \in models, d # e
      PROVE  /\ d[2].key # e[2].key /\ d[2].host # e[2].host
             /\ d[2].permission # e[2].permission
  <2>1. d[2].key \in keys /\ e[2].key \in keys /\ d[2].key # e[2].key
    BY <1>1 DEF KeysOf
  <2> QED BY <2>1 DEF Unambiguous
<1> QED BY <1>1 DEF ModelsUnambiguous, IsInjective

LEMMA FirstKeysAreKeys == \A files : FirstKeys(files) \subseteq Keys(files)
BY DEF FirstKeys, Keys, KeysOf

LEMMA ListedAreKeys ==
  ASSUME IInv, ~Running
  PROVE  Listed(tree, "routes") \subseteq Keys(tree) \cup Exempt
<1>1. CASE ConfigFirst \/ ~halted
  BY <1>1 DEF IInv, ListedConfigured, Promised, Exempt
<1>2. CASE ~(ConfigFirst \/ ~halted)
  BY <1>2, StandingDocs, EntitlementsAre DEF IInv, TypeOK, Exempt
<1> QED BY <1>1, <1>2

\* What a plan was validated for stays valid while models are added and files
\* of models replaced.
LEMMA StaysAccepted ==
  ASSUME NEW before, NEW after, NEW old, NEW new, NEW changes,
         ChangesAccepted(before, old, changes), old \subseteq new,
         FirstKeys(after) \subseteq FirstKeys(before),
         Keys(before) \subseteq Keys(after) \cup new
  PROVE  ChangesAccepted(after, new, changes)
<1>1. \A m \in Brought(changes) : m \notin FirstKeys(after)
  BY DEF ChangesAccepted
<1>2. ASSUME RouteList \in DOMAIN changes
      PROVE  Unambiguous((changes[RouteList].after.doc \cup FirstKeys(after)) \ new)
  <2>1. Unambiguous((changes[RouteList].after.doc \cup FirstKeys(before)) \ old)
    BY <1>2 DEF ChangesAccepted
  <2> QED BY <2>1 DEF Unambiguous
<1>3. ConsumersFile \in DOMAIN changes =>
        Used(changes[ConsumersFile].after.doc)
          \subseteq Keys(after) \cup Brought(changes) \cup new
  BY DEF ChangesAccepted
<1> QED BY <1>1, <1>2, <1>3 DEF ChangesAccepted

LEMMA ExemptGrows ==
  ASSUME IInv, displaced \subseteq displaced', displaced' \subseteq Models,
         halted => halted'
  PROVE  Exempt \subseteq Exempt'
BY DEF IInv, TypeOK, Exempt

\* Sources that no apply is changing, or has left half changed, are accepted.
LEMMA QuietSources ==
  ASSUME IInv, CInv, ~Running, ~halted, displaced = {}
  PROVE  Loads(tree)
<1> DEFINE models == ModelsOf(tree)
           keys == Listed(tree, "routes") \cup FirstKeys(tree)
<1>1. SourcesAccepted(tree, {})
  BY DEF CInv, Exempt
<1>2. /\ Used(ConsumersOf(tree)) \subseteq KeysOf(models)
      /\ KeysOf(models) \subseteq keys
  BY DEF CInv, Following, Promised, Keys
<1>3. ModelsUnambiguous(models)
  <2>1. keys \ {} = keys
    OBVIOUS
  <2> HIDE DEF keys, models
  <2>2. Unambiguous(keys)
    BY <1>1, <2>1 DEF SourcesAccepted, keys
  <2> QED BY <1>1, <1>2, <2>2, UnambiguousModels DEF SourcesAccepted, models
<1>4. ConsumersKnown(models, ConsumersOf(tree))
  BY <1>1, <1>2 DEF SourcesAccepted, RecordsAccepted, ConsumersKnown, Used
<1>5. \A e \in models : /\ PortUnambiguous(e[2])
                        /\ Reachable(e[2], Platform)
                        /\ BackendMatchesKind(e[2])
  BY <1>1 DEF SourcesAccepted, Accepted
<1>6. /\ RateLimitsServed(Platform, ConsumersOf(tree))
      /\ ImagesPromoted(Platform) /\ Platform.expectedContext
      /\ Platform.confirmationToken
  BY <1>1 DEF SourcesAccepted, RecordsAccepted, PlatformAccepted
<1>7. tree[<<"config", "consumers">>] # Missing
  BY DEF IInv, Standing, ConsumersFile
<1>8. /\ ConfigOf(tree).platform = Platform /\ ConfigOf(tree).models = models
      /\ ConfigOf(tree).consumers = ConsumersOf(tree)
  BY DEF ConfigOf
<1> HIDE DEF models
<1> QED BY <1>3, <1>4, <1>5, <1>6, <1>7, <1>8 DEF Loads, Valid

\* What a command finds when the configuration loads.
LEMMA LoadedSources ==
  ASSUME NEW files, Loads(files)
  PROVE  /\ ModelsUnambiguous(ModelsOf(files))
         /\ Used(ConsumersOf(files)) \subseteq Keys(files)
         /\ \A e \in ModelsOf(files) : Accepted(e[2])
         /\ RecordsAccepted(ConsumersOf(files))
         /\ PlatformAccepted
<1>1. /\ ConfigOf(files).platform = Platform
      /\ ConfigOf(files).models = ModelsOf(files)
      /\ ConfigOf(files).consumers = ConsumersOf(files)
  BY DEF ConfigOf
<1>2. Valid(ConfigOf(files))
  BY DEF Loads
<1>3. /\ ModelsUnambiguous(ModelsOf(files))
      /\ ConsumersKnown(ModelsOf(files), ConsumersOf(files))
      /\ \A e \in ModelsOf(files) : Accepted(e[2])
      /\ RateLimitsServed(Platform, ConsumersOf(files))
      /\ PlatformAccepted
  BY <1>1, <1>2 DEF Valid, Accepted, PlatformAccepted
<1> QED BY <1>3 DEF ConsumersKnown, Used, Keys, RecordsAccepted

LEMMA InitAccepted == Init => CInv
<1> SUFFICES ASSUME Init PROVE CInv
  OBVIOUS
<1>1. IInv /\ tree \in Trees /\ plans = {} /\ ~Running /\ ~halted
  BY InitInvariant DEF Init, Running
<1>2. /\ Loads(tree)
      /\ \A e \in ModelsOf(tree) : e[2] = Requested[e[2].key]
      /\ \A e \in ModelsOf(tree) : e[1] = e[2].key => e[1] \in Listed(tree, "routes")
  BY <1>1, ConfiguredAssumption DEF ConfiguredAssumption
<1>3. /\ ModelsUnambiguous(ModelsOf(tree))
      /\ Used(ConsumersOf(tree)) \subseteq Keys(tree)
      /\ \A e \in ModelsOf(tree) : Accepted(e[2])
      /\ RecordsAccepted(ConsumersOf(tree)) /\ PlatformAccepted
  BY <1>2, LoadedSources
<1>4. Unambiguous((Listed(tree, "routes") \cup FirstKeys(tree)) \ Exempt)
  <2>1. Unambiguous(Keys(tree))
    BY <1>2, <1>3, KeysUnambiguous DEF Keys
  <2> QED BY <1>1, <2>1, ListedAreKeys, FirstKeysAreKeys DEF Unambiguous
<1>5. \A d, e \in ModelsOf(tree) : d[2].key = e[2].key => d = e
  BY <1>3 DEF ModelsUnambiguous, IsInjective
<1>6. SourcesAccepted(tree, Exempt)
  BY <1>2, <1>3, <1>4, <1>5 DEF SourcesAccepted
<1>7. Keys(tree) \subseteq Listed(tree, "routes") \cup FirstKeys(tree)
  BY <1>2 DEF Keys, KeysOf, FirstKeys
<1>8. Following
  BY <1>3, <1>7 DEF Following
<1> QED BY <1>1, <1>6, <1>8 DEF CInv

-----------------------------------------------------------------------------
(* Planning.                                                                *)

\* Records stay acceptable when those of a consumer are replaced.
LEMMA ReplacedAccepted ==
  ASSUME IsTree(tree), Standing(tree), RecordsAccepted(ConsumersOf(tree)),
         NEW c \in KnownConsumers(tree), NEW models \in SUBSET Models,
         NEW placeholder \in {"initial", "rotated", "revoked"}
  PROVE  /\ RecordsAccepted(Replaced(c, models, placeholder))
         /\ Used(Replaced(c, models, placeholder))
              \subseteq Used(ConsumersOf(tree)) \cup models
<1> DEFINE r == Consumer(tree, c)
           new == [r EXCEPT !.models = models, !.placeholder = placeholder]
           records == Replaced(c, models, placeholder)
<1>1. r \in ConsumersOf(tree) /\ r.key = c
  BY DEF KnownConsumers, Consumer
<1>2. r \in ConsumerConfigs(Consumers, Models)
  BY <1>1, StandingDocs
<1>3. new.key = c /\ new.limited = r.limited /\ new.models = models
  BY <1>1, <1>2 DEF ConsumerConfigs
<1>4. records = (ConsumersOf(tree) \ {r}) \cup {new}
  BY DEF Replaced
<1> HIDE DEF r, new, records
<1>5. \A a, b \in ConsumersOf(tree) : a.key = b.key => a = b
  BY DEF RecordsAccepted, IsInjective
<1>6. \A a, b \in records : a.key = b.key => a = b
  BY <1>1, <1>3, <1>4, <1>5
<1>7. \A a \in records : a.limited => \E b \in ConsumersOf(tree) : b.limited
  BY <1>1, <1>3, <1>4
<1>8. RateLimitsServed(Platform, records)
  BY <1>7 DEF RecordsAccepted, RateLimitsServed
<1>9. RecordsAccepted(records)
  BY <1>6, <1>8 DEF RecordsAccepted, IsInjective
<1>10. Used(records) \subseteq Used(ConsumersOf(tree)) \cup models
  BY <1>3, <1>4 DEF Used
<1> QED BY <1>9, <1>10 DEF records

LEMMA NothingAccepted ==
  ASSUME IsTree(tree)
  PROVE  ChangesAccepted(tree, Exempt, Changes({}))
<1>1. Wellformed({})
  BY DEF Wellformed
<1>2. DOMAIN Changes({}) = {t[1] : t \in {}}
  BY <1>1, ChangesOf
<1>3. DOMAIN Changes({}) = {}
  BY <1>2
<1> QED BY <1>3 DEF ChangesAccepted, Brought

\* The records that a plan writes are acceptable, next to these models.
RecordTexts(texts, keys) ==
  \A t \in texts : t[1] = ConsumersFile => /\ RecordsAccepted(t[2])
                                           /\ Used(t[2]) \subseteq keys

\* A plan that writes records and their limits.
LEMMA RecordsPlanAccepted ==
  ASSUME IsTree(tree), NEW texts, Wellformed(texts),
         \A t \in texts : t[1] \in {ConsumersFile, Limits},
         RecordTexts(texts, Keys(tree))
  PROVE  ChangesAccepted(tree, Exempt, Changes(texts))
<1> DEFINE changes == Changes(texts)
<1>1. /\ DOMAIN changes = {t[1] : t \in texts}
      /\ \A t \in texts : changes[t[1]].after.doc = t[2]
  BY ChangesOf
<1> HIDE DEF changes
<1>2. DOMAIN changes \subseteq {ConsumersFile, Limits}
  BY <1>1
<1>3. Brought(changes) = {} /\ RouteList \notin DOMAIN changes
  <2>1. \A m \in Models : <<"models", m>> \notin {ConsumersFile, Limits}
    BY Distinct, NamedFiles
  <2>2. RouteList \notin {ConsumersFile, Limits}
    BY Distinct
  <2> QED BY <1>2, <2>1, <2>2 DEF Brought
<1>4. ConsumersFile \in DOMAIN changes =>
        /\ RecordsAccepted(changes[ConsumersFile].after.doc)
        /\ Used(changes[ConsumersFile].after.doc) \subseteq Keys(tree)
  BY <1>1 DEF RecordTexts
<1>5. ChangesAccepted(tree, Exempt, changes)
  BY <1>3, <1>4 DEF ChangesAccepted
<1> QED BY <1>5 DEF changes

\* A plan that adds a model which is accepted together with the others.
LEMMA ModelPlanAccepted ==
  ASSUME IInv, ~Running, SourcesAccepted(tree, Exempt), NEW k \in Models,
         k \notin Keys(tree),
         ModelsUnambiguous(ModelsOf(tree) \cup {<<k, Requested[k]>>}),
         Accepted(Requested[k]),
         NEW grant, Wellformed(grant),
         \A t \in grant : t[1] \in {ConsumersFile, Limits},
         RecordTexts(grant, Keys(tree) \cup {k})
  PROVE  ChangesAccepted(tree, Exempt, Changes(ModelTexts(k) \cup grant))
<1> DEFINE texts == ModelTexts(k) \cup grant
           changes == Changes(texts)
           rl == tree[RouteList].doc \cup {k}
<1>0. IsTree(tree) /\ Standing(tree)
  BY DEF IInv, TypeOK
<1>1. Wellformed(texts)
  BY <1>0, ModelTextsWellformed DEF Wellformed
<1>2. \A t \in texts : t[1] = ConsumersFile => t \in grant
  BY <1>0, ModelTextsWellformed
<1> HIDE DEF texts
<1>3. /\ DOMAIN changes = {t[1] : t \in texts}
      /\ \A t \in texts : changes[t[1]].after.doc = t[2]
  BY <1>0, <1>1, ChangesOf
<1> HIDE DEF changes
<1>4. \A f, d : <<f, d>> \in texts =>
        f \in DOMAIN changes /\ changes[f].after.doc = d
  BY <1>3
<1>5. /\ RouteList \in DOMAIN changes /\ changes[RouteList].after.doc = rl
      /\ <<"models", k>> \in DOMAIN changes
  <2>1. {<<RouteList, rl>>, <<<<"models", k>>, {Requested[k]}>>} \subseteq texts
    BY ModelTextsAre DEF texts
  <2> HIDE DEF rl
  <2> QED BY <1>4, <2>1
<1>6. ASSUME NEW m \in Models, <<"models", m>> \in DOMAIN changes
      PROVE  m = k
  <2>1. DOMAIN changes \subseteq
          {<<"models", k>>, <<"routes", k>>, <<"policies", k>>, RouteList,
           PolicyList, Contracts, ChatBackends, ConsumersFile, Limits}
    BY <1>3, ModelTextsAre DEF texts
  <2>2. <<"models", m>> \notin {RouteList, PolicyList, Contracts, ChatBackends,
                               ConsumersFile, Limits}
    BY Distinct, NamedFiles
  <2>3. <<"models", m>> \in {<<"models", k>>, <<"routes", k>>, <<"policies", k>>}
          => m = k
    OBVIOUS
  <2> QED BY <1>6, <2>1, <2>2, <2>3
<1>7. Brought(changes) = {k}
  BY <1>5, <1>6 DEF Brought
<1>8. k \notin FirstKeys(tree) /\ k \in rl
  BY FirstKeysAreKeys
<1>9. Unambiguous((rl \cup FirstKeys(tree)) \ Exempt)
  <2> DEFINE models == ModelsOf(tree) \cup {<<k, Requested[k]>>}
  <2>1. Requested[k].key = k
    BY TreeAssumption DEF TreeAssumption
  <2>2. \A e \in models : e[2] = Requested[e[2].key]
    <3>1. <<k, Requested[k]>>[2] = Requested[k]
      OBVIOUS
    <3> QED BY <2>1, <3>1 DEF SourcesAccepted
  <2>3. KeysOf(models) = Keys(tree) \cup {k}
    <3>1. <<k, Requested[k]>>[2].key = k
      BY <2>1
    <3> QED BY <3>1 DEF KeysOf, Keys
  <2> HIDE DEF models
  <2>4. Unambiguous(Keys(tree) \cup {k})
    <3>1. Unambiguous(KeysOf(models))
      BY <2>2, KeysUnambiguous DEF models
    <3> QED BY <2>3, <3>1
  <2>5. (rl \cup FirstKeys(tree)) \ Exempt \subseteq Keys(tree) \cup {k}
    BY ListedAreKeys, FirstKeysAreKeys, EntitlementsAre
  <2> HIDE DEF rl
  <2> QED BY <2>4, <2>5 DEF Unambiguous
<1>10. ConsumersFile \in DOMAIN changes =>
         /\ RecordsAccepted(changes[ConsumersFile].after.doc)
         /\ Used(changes[ConsumersFile].after.doc) \subseteq Keys(tree) \cup {k}
  BY <1>2, <1>3 DEF RecordTexts
<1> HIDE DEF rl
<1>11. ChangesAccepted(tree, Exempt, changes)
  BY <1>5, <1>7, <1>8, <1>9, <1>10 DEF ChangesAccepted
<1> QED BY <1>11 DEF changes, texts

\* Steps that change no source and no apply.
LEMMA SourcesStay ==
  ASSUME CInv, UNCHANGED <<tree, job, report, displaced, halted>>,
         \A p \in plans' : ChangesAccepted(tree, Exempt, p.id[2])
  PROVE  CInv'
<1>1. Running' = Running /\ Promised' = Promised /\ Exempt' = Exempt
  BY DEF Running, Promised, Exempt
<1>2. Following'
  BY <1>1 DEF CInv, Following
<1> QED BY <1>1, <1>2 DEF CInv

LEMMA PutsAccepted ==
  ASSUME CInv, NEW request, NEW texts, ChangesAccepted(tree, Exempt, Changes(texts)),
         Put(request, texts)
  PROVE  CInv'
<1> DEFINE p == Plan(request, Changes(texts))
<1>1. plans' = plans \cup {p} /\ UNCHANGED <<tree, job, report, displaced, halted>>
  BY DEF Put
<1>2. p.id[2] = Changes(texts)
  BY DEF Plan, Identifier
<1> HIDE DEF p
<1>3. \A q \in plans' : ChangesAccepted(tree, Exempt, q.id[2])
  BY <1>1, <1>2 DEF CInv
<1> QED BY <1>1, <1>3, SourcesStay

LEMMA PlansAccepted ==
  ASSUME IInv, CInv,
         PlanModelAdd \/ PlanConsumerAdd \/ PlanConsumerRotate \/ PlanConsumerRevoke
  PROVE  CInv'
<1>1. IsTree(tree) /\ Standing(tree) /\ SourcesAccepted(tree, Exempt)
  BY DEF IInv, TypeOK, CInv
<1>2. Loads(tree) /\ ~Running
  BY DEF PlanModelAdd, PlanConsumerAdd, PlanConsumerRotate, PlanConsumerRevoke,
         PlanConsumerChange, Planning
<1>3. RecordsAccepted(ConsumersOf(tree)) /\ Used(ConsumersOf(tree)) \subseteq Keys(tree)
  BY <1>2, LoadedSources
<1>4. CASE PlanModelAdd
  <2>1. PICK k \in Models, c \in Consumers \cup {None} :
          LET candidate == [ConfigOf(tree) EXCEPT
                              !.models = @ \cup {<<k, Requested[k]>>}]
              request == [action |-> "model add", model |-> k, consumer |-> c,
                          models |-> {k}]
          IN \/ Put(request, {})
             \/ /\ k \notin Keys(tree) /\ Valid(candidate)
                /\ c \in KnownConsumers(tree) \cup {None}
                /\ Put(request, ModelTexts(k) \cup GrantChanges(c, k))
    BY <1>4 DEF PlanModelAdd, ModelTexts, Keys
  <2> DEFINE request == [action |-> "model add", model |-> k, consumer |-> c,
                         models |-> {k}]
             grant == GrantChanges(c, k)
             models == ModelsOf(tree) \cup {<<k, Requested[k]>>}
             candidate == [ConfigOf(tree) EXCEPT
                             !.models = @ \cup {<<k, Requested[k]>>}]
  <2>2. candidate.models = models /\ candidate.platform = Platform
    BY DEF ConfigOf
  <2> HIDE DEF request, candidate
  <2>3. CASE Put(request, {})
    BY <1>1, <2>3, NothingAccepted, PutsAccepted
  <2>4. CASE /\ k \notin Keys(tree) /\ Valid(candidate)
             /\ c \in KnownConsumers(tree) \cup {None}
             /\ Put(request, ModelTexts(k) \cup grant)
    <3>1. ModelsUnambiguous(models) /\ \A e \in models : Accepted(e[2])
      BY <2>2, <2>4 DEF Valid, Accepted
    <3>2. Accepted(Requested[k])
      <4>1. <<k, Requested[k]>> \in models /\ <<k, Requested[k]>>[2] = Requested[k]
        OBVIOUS
      <4> QED BY <3>1, <4>1
    <3>3. /\ Wellformed(grant)
          /\ \A t \in grant : t[1] \in {ConsumersFile, Limits}
          /\ RecordTexts(grant, Keys(tree) \cup {k})
      <4>1. CASE c = None
        <5>1. grant = {}
          BY <4>1 DEF GrantChanges
        <5> QED BY <5>1 DEF Wellformed, RecordTexts
      <4>2. CASE c # None
        <5>1. c \in KnownConsumers(tree)
          BY <2>4, <4>2
        <5> DEFINE given == Consumer(tree, c).models \cup {k}
                   placeholder == Consumer(tree, c).placeholder
                   records == Replaced(c, given, placeholder)
                   limits == Descriptors(tree) \cup ({c} \X {k})
        <5>2. /\ c \in Consumers /\ Consumer(tree, c).models \in SUBSET Models
              /\ placeholder \in {"initial", "rotated", "revoked"}
          BY <1>1, <5>1, ReplacedAccess
        <5>3. given \in SUBSET Models
          BY <5>2
        <5>4. Consumer(tree, c).models \subseteq Keys(tree)
          <6>1. Consumer(tree, c) \in ConsumersOf(tree)
            BY <5>1 DEF KnownConsumers, Consumer
          <6> QED BY <1>3, <6>1 DEF Used
        <5>5. grant = {<<ConsumersFile, records>>, <<Limits, limits>>}
          BY <4>2 DEF GrantChanges, ConsumersChange, RateLimitChange,
                      ConsumersFile, Limits
        <5> HIDE DEF placeholder
        <5>6. /\ records \in SUBSET ConsumerConfigs(Consumers, Models)
              /\ RecordsAccepted(records)
              /\ Used(records) \subseteq Used(ConsumersOf(tree)) \cup given
          <6> HIDE DEF given
          <6> QED BY <1>1, <1>3, <5>1, <5>2, <5>3, ReplacedAccess,
                     ReplacedAccepted
        <5>7. Used(records) \subseteq Keys(tree) \cup {k}
          BY <1>3, <5>4, <5>6
        <5>8. limits \in SUBSET (Consumers \X Models)
          BY <1>1, <5>2, StandingDocs
        <5> HIDE DEF records, given, limits, grant
        <5>9. /\ ConsumersFile \in Files /\ Limits \in Files
              /\ records \in Docs(ConsumersFile) /\ limits \in Docs(Limits)
              /\ Limits # ConsumersFile
          BY <5>6, <5>8, NamedFiles, DocsOf, Distinct
        <5>10. Wellformed(grant)
          BY <5>5, <5>9 DEF Wellformed
        <5>11. \A t \in grant : t[1] \in {ConsumersFile, Limits}
          BY <5>5
        <5>12. RecordTexts(grant, Keys(tree) \cup {k})
          BY <5>5, <5>6, <5>7, <5>9 DEF RecordTexts
        <5> QED BY <5>10, <5>11, <5>12
      <4> QED BY <4>1, <4>2
    <3> HIDE DEF grant
    <3>4. ChangesAccepted(tree, Exempt, Changes(ModelTexts(k) \cup grant))
      BY <1>1, <1>2, <2>4, <3>1, <3>2, <3>3, ModelPlanAccepted
    <3> QED BY <2>4, <3>4, PutsAccepted
  <2> QED BY <2>1, <2>3, <2>4 DEF request, candidate
<1>5. CASE PlanConsumerAdd
  <2>1. PICK c \in Consumers, models \in SUBSET Models :
          LET record == [key |-> c, models |-> models, limited |-> TRUE,
                         placeholder |-> "initial"]
              candidate == [ConfigOf(tree) EXCEPT !.consumers = @ \cup {record}]
              request == [action |-> "consumer add", model |-> None,
                          consumer |-> c, models |-> models]
          IN \/ Put(request, {})
             \/ /\ Valid(candidate)
                /\ Put(request, ConsumersChange(candidate.consumers)
                                \cup IF models = {} THEN {}
                                     ELSE RateLimitChange(c, models))
    BY <1>5 DEF PlanConsumerAdd
  <2> DEFINE record == [key |-> c, models |-> models, limited |-> TRUE,
                        placeholder |-> "initial"]
             candidate == [ConfigOf(tree) EXCEPT !.consumers = @ \cup {record}]
             request == [action |-> "consumer add", model |-> None,
                         consumer |-> c, models |-> models]
             records == ConsumersOf(tree) \cup {record}
             limits == Descriptors(tree) \cup ({c} \X models)
             texts == ConsumersChange(records)
                      \cup IF models = {} THEN {} ELSE RateLimitChange(c, models)
  <2>2. /\ candidate.consumers = records /\ candidate.models = ModelsOf(tree)
        /\ candidate.platform = Platform
    BY DEF ConfigOf
  <2>3. record \in ConsumerConfigs(Consumers, Models)
    BY DEF ConsumerConfigs
  <2> HIDE DEF request, record, candidate
  <2>4. CASE Put(request, {})
    BY <1>1, <2>4, NothingAccepted, PutsAccepted
  <2>5. CASE Valid(candidate) /\ Put(request, texts)
    <3>1. /\ ConsumersKnown(ModelsOf(tree), records)
          /\ RateLimitsServed(Platform, records)
      BY <2>2, <2>5 DEF Valid
    <3>2. RecordsAccepted(records) /\ Used(records) \subseteq Keys(tree)
      BY <3>1 DEF ConsumersKnown, RecordsAccepted, Used, Keys
    <3>3. /\ records \in SUBSET ConsumerConfigs(Consumers, Models)
          /\ limits \in SUBSET (Consumers \X Models)
      BY <1>1, <2>3, StandingDocs
    <3>4. texts \subseteq {<<ConsumersFile, records>>, <<Limits, limits>>}
      BY DEF ConsumersChange, RateLimitChange, ConsumersFile, Limits
    <3> HIDE DEF records, limits, texts
    <3>5. /\ ConsumersFile \in Files /\ Limits \in Files
          /\ records \in Docs(ConsumersFile) /\ limits \in Docs(Limits)
          /\ Limits # ConsumersFile
      BY <3>3, NamedFiles, DocsOf, Distinct
    <3>6. Wellformed(texts)
      BY <3>4, <3>5 DEF Wellformed
    <3>7. \A t \in texts : t[1] \in {ConsumersFile, Limits}
      BY <3>4
    <3>8. RecordTexts(texts, Keys(tree))
      BY <3>2, <3>4, <3>5 DEF RecordTexts
    <3>9. ChangesAccepted(tree, Exempt, Changes(texts))
      BY <1>1, <3>6, <3>7, <3>8, RecordsPlanAccepted
    <3> QED BY <2>5, <3>9, PutsAccepted
  <2>6. \/ Put(request, {})
        \/ /\ Valid(candidate)
           /\ Put(request, ConsumersChange(candidate.consumers)
                           \cup IF models = {} THEN {}
                                ELSE RateLimitChange(c, models))
    BY <2>1 DEF request, candidate, record
  <2> HIDE DEF records
  <2> QED BY <2>2, <2>4, <2>5, <2>6
<1>6. ASSUME NEW command, NEW placeholder \in {"rotated", "revoked"}, NEW kept,
             PlanConsumerChange(command, placeholder, kept)
      PROVE  CInv'
  <2>1. PICK c \in KnownConsumers(tree) :
          Put([action |-> command, model |-> None, consumer |-> c, models |-> {}],
              ConsumersChange(Replaced(c, Consumer(tree, c).models \cap kept,
                                       placeholder)))
    BY <1>6 DEF PlanConsumerChange
  <2> DEFINE models == Consumer(tree, c).models \cap kept
             records == Replaced(c, models, placeholder)
             request == [action |-> command, model |-> None, consumer |-> c,
                         models |-> {}]
             texts == ConsumersChange(records)
  <2>2. Consumer(tree, c).models \in SUBSET Models
    BY <1>1, ReplacedAccess
  <2>3. models \in SUBSET Models /\ models \subseteq Keys(tree)
    <3>1. Consumer(tree, c) \in ConsumersOf(tree)
      BY DEF KnownConsumers, Consumer
    <3> QED BY <1>3, <2>2, <3>1 DEF Used
  <2>4. /\ records \in SUBSET ConsumerConfigs(Consumers, Models)
        /\ RecordsAccepted(records)
        /\ Used(records) \subseteq Used(ConsumersOf(tree)) \cup models
    <3> HIDE DEF models
    <3> QED BY <1>1, <1>3, <2>3, ReplacedAccess, ReplacedAccepted
  <2>5. Used(records) \subseteq Keys(tree)
    BY <1>3, <2>3, <2>4
  <2>6. texts = {<<ConsumersFile, records>>}
    BY DEF ConsumersChange, ConsumersFile
  <2>7. Put(request, texts)
    BY <2>1
  <2> HIDE DEF records, request, models, texts
  <2>8. Wellformed(texts)
    BY <2>4, <2>6, NamedFiles, DocsOf DEF Wellformed
  <2>9. \A t \in texts : t[1] \in {ConsumersFile, Limits}
    BY <2>6
  <2>10. RecordTexts(texts, Keys(tree))
    BY <2>4, <2>5, <2>6 DEF RecordTexts
  <2>11. ChangesAccepted(tree, Exempt, Changes(texts))
    BY <1>1, <2>8, <2>9, <2>10, RecordsPlanAccepted
  <2> QED BY <2>7, <2>11, PutsAccepted
<1> QED BY <1>4, <1>5, <1>6 DEF PlanConsumerRotate, PlanConsumerRevoke

LEMMA TampersAccepted ==
  ASSUME IInv, CInv, TamperPlan
  PROVE  CInv'
<1>1. UNCHANGED <<tree, job, report, displaced, halted>>
  BY DEF TamperPlan
<1>2. PICK p \in plans, f \in Files :
        plans' = (plans \ {p})
          \cup {[p EXCEPT !.changes = Restrict(@, DOMAIN @ \ {f})]}
  BY DEF TamperPlan
<1> DEFINE q == [p EXCEPT !.changes = Restrict(@, DOMAIN @ \ {f})]
<1>3. q.id = p.id
  BY DEF IInv, Reviewed
<1> HIDE DEF q
<1>4. \A x \in plans' : ChangesAccepted(tree, Exempt, x.id[2])
  BY <1>2, <1>3 DEF CInv, q
<1> QED BY <1>1, <1>4, SourcesStay

-----------------------------------------------------------------------------
(* Applying.                                                                *)

LEMMA AppliesAccepted ==
  ASSUME IInv, CInv, NEW p \in plans, Apply(p)
  PROVE  CInv'
<1>1. /\ ~Running /\ p.id = Identifier(p.request, p.changes)
      /\ job' = [plan |-> p, pending |-> DOMAIN p.changes]
      /\ UNCHANGED <<tree, plans, displaced, halted>>
  BY DEF Apply
<1>2. /\ p.id[2] = p.changes
      /\ job'.plan = p /\ job'.pending = DOMAIN p.changes
  BY <1>1 DEF Identifier
<1>3. Promised = {} /\ Promised' = {} /\ Exempt' = Exempt
  BY <1>1, <1>2 DEF Promised, Exempt
<1>4. Following'
  BY <1>1, <1>3 DEF CInv, Following
<1>5. ChangesAccepted(tree, Exempt, job'.plan.changes)
  BY <1>2 DEF CInv
<1> QED BY <1>1, <1>3, <1>4, <1>5 DEF CInv

\* What has been written of a plan is there, so nothing is promised any more
\* when everything has been written.
LEMMA StopsAccepted ==
  ASSUME IInv, CInv, Refuse \/ Kill \/ Finish
  PROVE  CInv'
<1>1. Running /\ ~Running' /\ UNCHANGED <<tree, plans, displaced>>
      /\ (halted => halted')
  BY DEF Refuse, Kill, Finish, Stop, Running, IInv, TypeOK
<1>2. ASSUME ~halted'
      PROVE  Promised \subseteq Keys(tree) \cap Listed(tree, "routes")
  <2>1. Promised \subseteq Keys(tree)
    BY <1>2, PromisesKept
  <2>2. CASE Refuse \/ Kill
    <3>1. Promised = {}
      BY <1>2, <2>2 DEF Refuse, Kill, Promised
    <3> QED BY <3>1
  <2>3. CASE Finish
    <3> DEFINE changes == job.plan.changes
    <3>1. job.pending = {} /\ ChangesAccepted(tree, Exempt, changes)
      BY <1>1, <2>3 DEF Finish, CInv
    <3>2. \A f \in DOMAIN changes : tree[f].doc = changes[f].after.doc
      BY <1>1, <3>1 DEF IInv, Applying, Written
    <3> HIDE DEF changes
    <3>3. \A m \in Brought(changes) : m \in Listed(tree, "routes")
      BY <3>1, <3>2, EntitlementsAre DEF ChangesAccepted
    <3> QED BY <2>1, <3>3 DEF Promised, changes
  <2> QED BY <2>2, <2>3
<1>3. Promised' = {}
  BY <1>1 DEF Promised
<1>4. Following'
  BY <1>1, <1>2, <1>3 DEF CInv, Following
<1>5. Exempt \subseteq Exempt'
  BY <1>1, ExemptGrows DEF IInv, TypeOK
<1>6. \A changes : ChangesAccepted(tree, Exempt, changes) =>
                     ChangesAccepted(tree', Exempt', changes)
  BY <1>1, <1>5, StaysAccepted
<1>7. SourcesAccepted(tree', Exempt')
  <2>1. SourcesAccepted(tree, Exempt)
    BY DEF CInv
  <2>2. Unambiguous((Listed(tree, "routes") \cup FirstKeys(tree)) \ Exempt')
    BY <1>5, <2>1 DEF SourcesAccepted, Unambiguous
  <2> QED BY <1>1, <2>1, <2>2 DEF SourcesAccepted
<1> QED BY <1>1, <1>4, <1>6, <1>7 DEF CInv

\* Files that say what other files say are as acceptable.
LEMMA SameSources ==
  ASSUME NEW before, NEW after, NEW exempt, SourcesAccepted(before, exempt),
         \A f \in Files : /\ after[f] # Missing <=> before[f] # Missing
                          /\ after[f].doc = before[f].doc
  PROVE  /\ SourcesAccepted(after, exempt)
         /\ ModelsOf(after) = ModelsOf(before)
         /\ ConsumersOf(after) = ConsumersOf(before)
         /\ Listed(after, "routes") = Listed(before, "routes")
<1>1. ModelsOf(after) = ModelsOf(before)
  BY SameModels
<1>2. /\ ConsumersOf(after) = ConsumersOf(before)
      /\ Listed(after, "routes") = Listed(before, "routes")
  BY NamedFiles, EntitlementsAre DEF ConsumersOf, ConsumersFile
<1>3. SourcesAccepted(after, exempt)
  BY <1>1, <1>2 DEF SourcesAccepted, FirstKeys
<1> QED BY <1>1, <1>2, <1>3

\* A retouched file says the same.
LEMMA RetouchesAccepted ==
  ASSUME IInv, CInv, Retouch
  PROVE  CInv'
<1>1. PICK f \in Files : tree[f] # Missing /\ tree' = [tree EXCEPT ![f].rev = 1]
  BY DEF Retouch
<1>2. UNCHANGED <<plans, job, report, displaced, halted>>
  BY DEF Retouch
<1>3. IsTree(tree)
  BY DEF IInv, TypeOK
<1>4. tree[f] \in Contents(Docs(f)) /\ DOMAIN tree[f] = {"doc", "rev"}
  BY <1>1, <1>3 DEF IsTree, Contents
<1>5. /\ \A g \in Files : g # f => tree'[g] = tree[g]
      /\ tree'[f] = [tree[f] EXCEPT !.rev = 1]
  BY <1>1, <1>3 DEF IsTree
<1>6. tree'[f].doc = tree[f].doc /\ tree'[f] \in Contents(Docs(f))
  BY <1>4, <1>5 DEF Contents
<1>7. tree'[f] # Missing
  BY <1>6, TreeAssumption DEF TreeAssumption
<1>8. \A g \in Files : /\ tree'[g] # Missing <=> tree[g] # Missing
                       /\ tree'[g].doc = tree[g].doc
  BY <1>1, <1>5, <1>6, <1>7
<1>9. /\ SourcesAccepted(tree', Exempt) /\ ModelsOf(tree') = ModelsOf(tree)
      /\ ConsumersOf(tree') = ConsumersOf(tree)
      /\ Listed(tree', "routes") = Listed(tree, "routes")
  BY <1>8, SameSources DEF CInv
<1>10. Keys(tree') = Keys(tree) /\ FirstKeys(tree') = FirstKeys(tree)
  BY <1>9 DEF Keys, FirstKeys
<1>11. Running' = Running /\ Promised' = Promised /\ Exempt' = Exempt
  BY <1>2 DEF Running, Promised, Exempt
<1>12. Following'
  BY <1>2, <1>9, <1>10, <1>11 DEF CInv, Following
<1>13. \A changes : ChangesAccepted(tree, Exempt, changes) =>
                      ChangesAccepted(tree', Exempt, changes)
  BY <1>10, StaysAccepted
<1> QED BY <1>2, <1>9, <1>11, <1>12, <1>13 DEF CInv

\* Each file that a running apply writes was validated with the rest of its
\* plan, and what the sources have gained since then is only what the plan
\* does not touch.
LEMMA WritesAccepted ==
  ASSUME IInv, CInv, WriteNext
  PROVE  CInv'
<1> DEFINE f == First(job.pending)
           changes == job.plan.changes
<1>1. /\ Running /\ job.pending # {}
      /\ tree' = [tree EXCEPT ![f] = changes[f].after]
      /\ job' = [job EXCEPT !.pending = @ \ {f}]
      /\ UNCHANGED <<plans, report, halted>>
      /\ displaced' = displaced \cup Vanished(tree, tree')
  BY DEF WriteNext
<1>2. /\ DOMAIN job = {"plan", "pending"} /\ IsChanges(changes)
      /\ FilesSound(changes) /\ job.pending \subseteq DOMAIN changes
      /\ IsTree(tree) /\ Standing(tree) /\ tree[f] = changes[f].before
  BY <1>1 DEF IInv, Applying, Sound, TypeOK, WriteNext
<1>3. f \in job.pending /\ f \in DOMAIN changes /\ f \in Files
      /\ changes[f].after # Missing
  <2>1. job.pending \subseteq Files
    BY <1>2 DEF IsChanges
  <2>2. f \in job.pending
    BY <1>1, <2>1, FirstIsFirst
  <2> QED BY <1>2, <2>1, <2>2, TreeAssumption DEF IsChanges, TreeAssumption
<1>4. ChangesAccepted(tree, Exempt, changes) /\ SourcesAccepted(tree, Exempt)
  BY <1>1 DEF CInv
<1> HIDE DEF f
<1>5. /\ \A g \in Files : g # f => tree'[g] = tree[g]
      /\ tree'[f] = changes[f].after
  BY <1>1, <1>2, <1>3 DEF IsTree
<1>6. job'.plan = job.plan /\ job'.pending = job.pending \ {f} /\ Running'
  BY <1>1, <1>2 DEF Running
<1>7. /\ Promised' = Brought(changes)
      /\ Promised \subseteq Brought(changes)
  BY <1>2, <1>3, <1>6 DEF Promised
<1>8. /\ IInv' /\ IsTree(tree') /\ displaced' \subseteq Models
  BY Writes DEF IInv, TypeOK
<1>9. Listed(tree, "routes") \subseteq Listed(tree', "routes")
  <2>1. CASE f = RouteList
    <3>1. changes[f].before.doc \subseteq changes[f].after.doc
      BY <1>2, <1>3, <2>1, NamedFiles DEF FilesSound
    <3> QED BY <1>2, <1>5, <2>1, <3>1, EntitlementsAre
  <2>2. CASE f # RouteList
    BY <1>5, <2>2, EntitlementsAre, NamedFiles
  <2> QED BY <2>1, <2>2
<1> HIDE DEF changes
<1>10. \A e \in ModelsOf(tree') \ ModelsOf(tree) :
         /\ f = <<"models", e[1]>> /\ e[1] \in Brought(changes)
         /\ e[2] = Requested[e[1]] /\ changes[f].after.doc = {Requested[e[1]]}
  <2> SUFFICES ASSUME NEW e \in ModelsOf(tree'), e \notin ModelsOf(tree)
               PROVE  /\ f = <<"models", e[1]>> /\ e[1] \in Brought(changes)
                      /\ e[2] = Requested[e[1]]
                      /\ changes[f].after.doc = {Requested[e[1]]}
    OBVIOUS
  <2>1. /\ e = <<e[1], e[2]>> /\ e[1] \in ModelFiles
        /\ tree'[<<"models", e[1]>>] # Missing
        /\ e[2] \in tree'[<<"models", e[1]>>].doc
    BY ModelsAre
  <2>2. f = <<"models", e[1]>>
    <3> SUFFICES ASSUME f # <<"models", e[1]>>
                 PROVE  FALSE
      OBVIOUS
    <3>1. <<"models", e[1]>> \in Files
      BY <2>1 DEF Files
    <3>2. /\ tree[<<"models", e[1]>>] # Missing
          /\ e[2] \in tree[<<"models", e[1]>>].doc
      BY <1>5, <2>1, <3>1
    <3>3. <<e[1], e[2]>> \in ModelsOf(tree)
      BY <2>1, <3>2, ModelsAre
    <3> QED BY <2>1, <3>3
  <2>3. f[1] = "models" /\ f[2] = e[1]
    BY <2>2
  <2>4. e[1] \in Models
    BY <1>2, <1>3, <2>3 DEF FilesSound, changes
  <2>5. changes[f].after.doc = {Requested[e[1]]}
    BY <1>2, <1>3, <2>2, <2>4 DEF FilesSound, changes
  <2> QED BY <1>3, <1>5, <2>1, <2>2, <2>4, <2>5 DEF Brought
<1>11. \A e \in ModelsOf(tree') \ ModelsOf(tree) :
         /\ e[2].key = e[1] /\ e[1] \in Models
         /\ e[2] = Requested[e[2].key] /\ Accepted(e[2])
         /\ e[2].key \notin FirstKeys(tree)
  <2>1. \A m \in Models : Requested[m].key = m
    BY TreeAssumption DEF TreeAssumption
  <2> QED BY <1>4, <1>10, <2>1 DEF ChangesAccepted, Brought
<1>12. FirstKeys(tree') \subseteq FirstKeys(tree)
  BY <1>11 DEF FirstKeys
<1>13. /\ Keys(tree) \subseteq Keys(tree') \cup displaced'
       /\ Keys(tree') \subseteq Keys(tree) \cup Brought(changes)
  <2>1. displaced' = displaced \cup (Keys(tree) \ Keys(tree'))
    BY <1>1 DEF Keys, Vanished
  <2>2. ASSUME NEW e \in ModelsOf(tree')
        PROVE  e[2].key \in Keys(tree) \cup Brought(changes)
    BY <1>10, <1>11 DEF Keys, KeysOf
  <2> QED BY <2>1, <2>2 DEF Keys, KeysOf
<1>24. Exempt \subseteq Exempt' /\ Keys(tree) \subseteq Keys(tree') \cup Exempt'
  <2>1. Exempt \subseteq Exempt'
    BY <1>1, <1>8, ExemptGrows
  <2>2. Keys(tree) \subseteq Models
    BY <1>2, KeysAreModels
  <2> QED BY <1>13, <2>1, <2>2 DEF Exempt
<1>14. \A c : ChangesAccepted(tree, Exempt, c) => ChangesAccepted(tree', Exempt', c)
  BY <1>12, <1>24, StaysAccepted
<1>15. \A d, e \in ModelsOf(tree') : d[2].key = e[2].key => d = e
  <2>1. ASSUME NEW d \in ModelsOf(tree'), NEW e \in ModelsOf(tree'),
               e \notin ModelsOf(tree), d[2].key = e[2].key
        PROVE  d = e
    <3>1. d = <<d[1], d[2]>> /\ e = <<e[1], e[2]>> /\ d[1] \in ModelFiles
          /\ d[2] \in tree'[<<"models", d[1]>>].doc
      BY ModelsAre
    <3>2. /\ f = <<"models", e[1]>> /\ e[2] = Requested[e[1]]
          /\ e[2].key = e[1] /\ tree'[<<"models", e[1]>>].doc = {Requested[e[1]]}
      BY <1>5, <1>10, <1>11, <2>1
    <3>3. d[1] = e[1]
      <4>1. CASE d \in ModelsOf(tree)
        <5>1. d[2].key \notin FirstKeys(tree)
          BY <1>11, <2>1
        <5> QED BY <2>1, <3>2, <4>1, <5>1 DEF FirstKeys
      <4>2. CASE d \notin ModelsOf(tree)
        BY <1>11, <2>1, <3>2, <4>2
      <4> QED BY <4>1, <4>2
    <3>4. d[2] = e[2]
      BY <3>1, <3>2, <3>3
    <3> QED BY <3>1, <3>3, <3>4
  <2>2. \A d, e \in ModelsOf(tree) : d[2].key = e[2].key => d = e
    BY <1>4 DEF SourcesAccepted
  <2>3. ASSUME NEW d \in ModelsOf(tree'), NEW e \in ModelsOf(tree'),
               d[2].key = e[2].key
        PROVE  d = e
    <3>1. CASE e \notin ModelsOf(tree)
      BY <2>1, <2>3, <3>1
    <3>2. CASE d \notin ModelsOf(tree)
      BY <2>1, <2>3, <3>2
    <3> QED BY <2>2, <2>3, <3>1, <3>2
  <2> QED BY <2>3
<1>17. Unambiguous((Listed(tree', "routes") \cup FirstKeys(tree')) \ Exempt')
  <2>1. CASE f = RouteList
    <3>1. Unambiguous((changes[f].after.doc \cup FirstKeys(tree)) \ Exempt)
      BY <1>3, <1>4, <2>1 DEF ChangesAccepted
    <3>2. Listed(tree', "routes") = changes[f].after.doc
      BY <1>5, <2>1, EntitlementsAre
    <3> QED BY <1>12, <1>24, <3>1, <3>2 DEF Unambiguous
  <2>2. CASE f # RouteList
    <3>1. Listed(tree', "routes") = Listed(tree, "routes")
      BY <1>5, <2>2, EntitlementsAre, NamedFiles
    <3>2. Unambiguous((Listed(tree, "routes") \cup FirstKeys(tree)) \ Exempt)
      BY <1>4 DEF SourcesAccepted
    <3> QED BY <1>12, <1>24, <3>1, <3>2 DEF Unambiguous
  <2> QED BY <2>1, <2>2
<1>18. /\ \A files : ConsumersOf(files) = files[ConsumersFile].doc
       /\ f # ConsumersFile => tree'[ConsumersFile] = tree[ConsumersFile]
  BY <1>5, NamedFiles DEF ConsumersOf, ConsumersFile
<1>19. RecordsAccepted(ConsumersOf(tree'))
  <2>1. CASE f = ConsumersFile
    BY <1>3, <1>4, <1>5, <1>18, <2>1 DEF ChangesAccepted
  <2>2. CASE f # ConsumersFile
    BY <1>4, <1>18, <2>2 DEF SourcesAccepted
  <2> QED BY <2>1, <2>2
<1>20. \A e \in ModelsOf(tree') : e[2] = Requested[e[2].key] /\ Accepted(e[2])
  BY <1>4, <1>11 DEF SourcesAccepted
<1>21. SourcesAccepted(tree', Exempt')
  BY <1>4, <1>15, <1>17, <1>19, <1>20 DEF SourcesAccepted
<1>22. Following'
  <2> SUFFICES ASSUME ~halted
               PROVE  /\ Used(ConsumersOf(tree'))
                           \subseteq Keys(tree') \cup Brought(changes)
                                       \cup displaced'
                      /\ Keys(tree') \subseteq
                           Listed(tree', "routes") \cup FirstKeys(tree')
                           \cup Brought(changes)
    BY <1>1, <1>7 DEF Following
  <2>0. Exempt = displaced /\ displaced \subseteq displaced'
    BY <1>1 DEF Exempt
  <2>1. /\ Used(ConsumersOf(tree)) \subseteq Keys(tree) \cup Brought(changes)
                                                \cup displaced
        /\ Keys(tree) \subseteq Listed(tree, "routes") \cup FirstKeys(tree)
                                 \cup Brought(changes)
    BY <1>7 DEF CInv, Following
  <2>2. Used(ConsumersOf(tree')) \subseteq Keys(tree') \cup Brought(changes)
                                              \cup displaced'
    <3>1. CASE f = ConsumersFile
      BY <1>3, <1>4, <1>5, <1>13, <1>18, <2>0, <3>1 DEF ChangesAccepted
    <3>2. CASE f # ConsumersFile
      BY <1>13, <1>18, <2>0, <2>1, <3>2
    <3> QED BY <3>1, <3>2
  <2>3. ASSUME NEW e \in ModelsOf(tree'), e[2].key \in FirstKeys(tree),
               e[2].key \notin Brought(changes)
        PROVE  e[2].key \in FirstKeys(tree')
    <3>1. e \in ModelsOf(tree)
      BY <1>10, <1>11, <2>3
    <3>2. PICK d \in ModelsOf(tree) : d[1] # d[2].key /\ d[2].key = e[2].key
      BY <2>3 DEF FirstKeys
    <3>3. d = e
      BY <1>4, <3>1, <3>2 DEF SourcesAccepted
    <3> QED BY <3>2, <3>3 DEF FirstKeys
  <2>4. Keys(tree') \subseteq Listed(tree', "routes") \cup FirstKeys(tree')
                               \cup Brought(changes)
    <3> SUFFICES ASSUME NEW e \in ModelsOf(tree'), e[2].key \notin Brought(changes)
                 PROVE  e[2].key \in Listed(tree', "routes") \cup FirstKeys(tree')
      BY DEF Keys, KeysOf
    <3>1. e[2].key \in Keys(tree)
      BY <1>10, <1>11 DEF Keys, KeysOf
    <3> QED BY <1>9, <2>1, <2>3, <3>1
  <2> QED BY <2>2, <2>4
<1>23. ChangesAccepted(tree', Exempt', job'.plan.changes)
  BY <1>4, <1>6, <1>14 DEF changes
<1>25. \A p \in plans' : ChangesAccepted(tree', Exempt', p.id[2])
  BY <1>1, <1>14 DEF CInv
<1> QED BY <1>21, <1>22, <1>23, <1>25 DEF CInv

-----------------------------------------------------------------------------
(* The invariant and what follows from it.                                  *)

LEMMA StepAccepted == IInv /\ CInv /\ [Next]_vars => CInv'
<1> SUFFICES ASSUME IInv, CInv, [Next]_vars PROVE CInv'
  OBVIOUS
<1>1. CASE Next
  BY <1>1, PlansAccepted, TampersAccepted, AppliesAccepted, WritesAccepted,
     StopsAccepted, RetouchesAccepted DEF Next
<1>2. CASE UNCHANGED vars
  <2>1. \A p \in plans' : ChangesAccepted(tree, Exempt, p.id[2])
    BY <1>2 DEF vars, CInv
  <2> QED BY <1>2, <2>1, SourcesStay DEF vars
<1> QED BY <1>1, <1>2

THEOREM AcceptedInvariance == Spec => []CInv
BY InitAccepted, StepAccepted, Invariance, PTL DEF Spec

\* Two rendered routes never share a host, nor two of their policies a
\* permission, wherever applies have stopped and whatever plans they were of
\* (build_model_add_plan validates the new model with the configured ones;
\* two plans that contradict each other meet in the list of the routes).  No
\* plan is validated against a model that the file of a new one replaced.
THEOREM UnambiguousRoutes == Spec => []RoutesUnambiguous
<1>1. IInv /\ CInv => RoutesUnambiguous
  <2> SUFFICES ASSUME IInv, CInv, ConfigFirst \/ ~halted,
                      NEW m \in Rendered(tree, "routes") \ displaced,
                      NEW n \in Rendered(tree, "routes") \ displaced, m # n
               PROVE  /\ tree[<<"routes", m>>].doc.host
                           # tree[<<"routes", n>>].doc.host
                      /\ tree[<<"policies", m>>].doc # tree[<<"policies", n>>].doc
    BY DEF RoutesUnambiguous
  <2>1. \A k \in Rendered(tree, "routes") :
          /\ k \in Listed(tree, "routes") /\ k \in Models
          /\ tree[<<"routes", k>>] # Missing
    BY StandingDocs, EntitlementsAre DEF Rendered, IInv, TypeOK
  <2>2. /\ Requested[m].host # Requested[n].host
        /\ Requested[m].permission # Requested[n].permission
    <3>1. Exempt = displaced
      BY DEF Exempt
    <3> QED BY <2>1, <3>1 DEF CInv, SourcesAccepted, Unambiguous
  <2>3. \A k \in Rendered(tree, "routes") :
          /\ tree[<<"routes", k>>].doc = RouteManifest(Requested[k])
          /\ tree[<<"policies", k>>].doc = PolicyManifest(Requested[k])
    BY <2>1 DEF IInv, Standing, ListedServed, Served
  <2>4. /\ tree[<<"routes", m>>].doc.host = Requested[m].host
        /\ tree[<<"routes", n>>].doc.host = Requested[n].host
    <3>1. \A x : RouteManifest(x).host = x.host
      BY DEF RouteManifest
    <3> QED BY <2>3, <3>1
  <2>5. /\ tree[<<"policies", m>>].doc.permission = Requested[m].permission
        /\ tree[<<"policies", n>>].doc.permission = Requested[n].permission
    <3>1. \A x : PolicyManifest(x).permission = x.permission
      BY DEF PolicyManifest
    <3> QED BY <2>3, <3>1
  <2>6. tree[<<"policies", m>>].doc # tree[<<"policies", n>>].doc
    BY <2>2, <2>5
  <2> QED BY <2>2, <2>4, <2>6
<1> QED BY <1>1, Invariance, AcceptedInvariance, PTL

\* Sources that no apply is changing are accepted by every command, as long as
\* no apply has stopped between two files and no model has been added under the
\* name of a file that configured others (load_config, validate_config).
THEOREM QuietSourcesLoad ==
  Spec => [](~Running /\ ~halted /\ displaced = {} => Loads(tree))
<1>1. IInv /\ CInv => (~Running /\ ~halted /\ displaced = {} => Loads(tree))
  BY QuietSources
<1> QED BY <1>1, Invariance, AcceptedInvariance, PTL

\* An apply that reports success leaves sources that every command accepts,
\* unless an earlier apply stopped between two files or the file of a new model
\* has replaced that of others (apply_lifecycle_plan).
THEOREM AppliedIsValid == Spec => []AppliedLeavesValidConfig
<1>1. (~Running /\ ~halted /\ displaced = {} => Loads(tree))
        => AppliedLeavesValidConfig
  BY DEF AppliedLeavesValidConfig, Running
<1> QED BY <1>1, QuietSourcesLoad, PTL

=============================================================================
