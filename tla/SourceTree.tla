-------------------------- MODULE SourceTree --------------------------
(***************************************************************************)
(* The repository files that the lifecycle commands write (lifecycle.py):   *)
(* the configuration directory and the Kustomize bases generated from it.   *)
(* A file is <<directory, name>>.  Its content is [doc, rev]: what it says, *)
(* and whether its text was retouched by hand without changing what it      *)
(* says, which is enough to change its hash.                               *)
(***************************************************************************)
EXTENDS Configuration

CONSTANTS
  Models,       \* model keys
  Consumers,    \* consumer keys
  Requested,    \* Requested[m]: the configuration of m, in force or asked for
  FirstModels,  \* names of the files of models that are there from the start;
                \* "model add" names the file of a model by its key
  NameRank,     \* position of a file name in the order of paths
  ConfigAfter,  \* how many of the generated directories have paths that come
                \* before those of the configuration directory (--config)
  Platform,     \* platform.yaml, which no lifecycle command writes
  Missing       \* "there is no such file"

ModelFiles == Models \cup FirstModels

Files ==
  {<<"config", "consumers">>, <<"backends", "agentgateway">>,
   <<"backends", "contracts">>, <<"ratelimit", "configmaps">>}
  \cup {"models"} \X ModelFiles
  \cup {"policies", "routes"} \X (Models \cup {"kustomization"})

\* A slip: the order in which build_model_add_plan puts the changes together.
DirectoryRankAsBuilt ==
  [models |-> 1, routes |-> 2, policies |-> 3, backends |-> 4, config |-> 5,
   ratelimit |-> 6]

\* The directories in the order of their paths.  The generated ones are those
\* of manifests/baseline-v1.3.1/bases; examples/config comes before them all.
DirectoryRank ==
  [backends |-> 3, policies |-> 6, ratelimit |-> 9, routes |-> 12,
   config |-> 3 * ConfigAfter + 1, models |-> 3 * ConfigAfter + 2]

\* The configuration is written before the routes.
ConfigFirst == ConfigAfter < 4

Precedes(f, g) ==
  \/ DirectoryRank[f[1]] < DirectoryRank[g[1]]
  \/ f[1] = g[1] /\ NameRank[f[2]] < NameRank[g[2]]

Contents(docs) == [doc: docs, rev: {0, 1}]
Says(doc) == [doc |-> doc, rev |-> 0]

BackendRefs == [kind: Kinds, name: STRING \cup Models, namespace: STRING,
                port: Nat \cup {Unset}]
Routes == [host: STRING, path: STRING, backend: BackendRefs]
Policies == [permission: STRING]

\* The Services of the contracts, all in the gateway's own namespace.
ServiceContracts == [name: STRING, port: Nat]

\* What a file of each directory can say.
Docs(f) ==
  CASE f[1] = "config"    -> SUBSET ConsumerConfigs(Consumers, Models)
    [] f[1] = "models"    -> SUBSET ModelConfigs(Models)
    [] f[1] = "ratelimit" -> SUBSET (Consumers \X Models)
    [] f = <<"backends", "contracts">> -> SUBSET ServiceContracts
    [] f[1] = "routes" /\ f[2] # "kustomization"   -> Routes
    [] f[1] = "policies" /\ f[2] # "kustomization" -> Policies
    [] OTHER              -> SUBSET Models

ASSUME TreeAssumption ==
  /\ Requested \in [Models -> ModelConfigs(Models)]
  /\ \A m \in Models : Requested[m].key = m /\ Requested[m].ports # {}
  /\ NameRank \in [{f[2] : f \in Files} -> Nat]
  /\ IsInjective(NameRank)
  /\ ConfigAfter \in 0 .. 4
  /\ "kustomization" \notin Models
  /\ \A f \in Files : Missing \notin Contents(Docs(f))

IsTree(tree) ==
  /\ DOMAIN tree = Files
  /\ \A f \in Files : tree[f] \in Contents(Docs(f)) \cup {Missing}

-----------------------------------------------------------------------------
(* Reading the tree.                                                        *)

ConsumersOf(tree) == tree[<<"config", "consumers">>].doc

ModelsOf(tree) ==
  UNION {{<<f, m>> : m \in tree[<<"models", f>>].doc} :
         f \in {g \in ModelFiles : tree[<<"models", g>>] # Missing}}

ConfigOf(tree) == [platform |-> Platform, models |-> ModelsOf(tree),
                   consumers |-> ConsumersOf(tree)]

\* load_config: the parts must be there and the whole must be accepted.
Loads(tree) == /\ tree[<<"config", "consumers">>] # Missing
               /\ Valid(ConfigOf(tree))

Consumer(tree, c) == CHOOSE r \in ConsumersOf(tree) : r.key = c
KnownConsumers(tree) == {r.key : r \in ConsumersOf(tree)}

Listed(tree, dir) == tree[<<dir, "kustomization">>].doc

\* The entries of a base that Kustomize renders.
Rendered(tree, dir) ==
  {m \in Listed(tree, dir) : tree[<<dir, m>>] # Missing}

Entitlements(tree) ==
  UNION {{r.key} \X r.models : r \in ConsumersOf(tree)}

Descriptors(tree) == tree[<<"ratelimit", "configmaps">>].doc

-----------------------------------------------------------------------------
(* The generated manifests, reduced to what connects them.                  *)

FirstPort(m) == (CHOOSE p \in m.ports : TRUE).number

\* The route looks for its backend in the namespace of the model's service.
BackendRef(m) ==
  IF m.kind = "chat"
  THEN [kind |-> m.kind, name |-> m.key, namespace |-> m.namespace,
        port |-> Unset]
  ELSE [kind |-> m.kind, name |-> m.service, namespace |-> m.namespace,
        port |-> FirstPort(m)]

RouteManifest(m) == [host |-> m.host, path |-> m.path, backend |-> BackendRef(m)]

PolicyManifest(m) == [permission |-> m.permission]

\* The generated backends and Services are in this namespace, whatever that of
\* the model's service is.
GatewayNamespace == "ai-gateway"

\* A Service that is there by name is left as it is, with the port it has.
WithContract(contracts, m) ==
  IF \E s \in contracts : s.name = m.service THEN contracts
  ELSE contracts \cup {[name |-> m.service, port |-> FirstPort(m)]}

=============================================================================
