------------------------- MODULE MCLifecycle -------------------------
(* A repository with one embedding model q, and two models to add: a chat    *)
(* model a of the gateway's namespace and an embedding model z that asks for *)
(* the host of a and for the Service of q.  The names of a and z sort on     *)
(* either side of "kustomization".  q is configured in a file of a name that *)
(* no model has, or in one that the file of a replaces.                      *)
EXTENDS Lifecycle

MCModels == {"a", "q", "z"}
MCConsumers == {"c", "d"}
MCFirstModels == {"a", "embedding"}

MCNameRank ==
  [n \in {"a", "agentgateway", "configmaps", "consumers", "contracts",
          "embedding", "kustomization", "q", "z"} |->
     CASE n = "a" -> 1 [] n = "agentgateway" -> 2 [] n = "configmaps" -> 3
       [] n = "consumers" -> 4 [] n = "contracts" -> 5 [] n = "embedding" -> 6
       [] n = "kustomization" -> 7 [] n = "q" -> 8 [] n = "z" -> 9]

Model(key, kind, host, permission, service, namespace, port) ==
  [key |-> key, kind |-> kind, host |-> host, path |-> "/v1",
   permission |-> permission,
   backend |-> IF kind = "chat" THEN "agentgateway-backend"
                                ELSE "kubernetes-service",
   service |-> service, namespace |-> namespace,
   ports |-> {[name |-> "http", number |-> port]},
   targetName |-> "http", targetNumber |-> Unset]

MCRequested ==
  [m \in MCModels |->
     CASE m = "a" -> Model("a", "chat", "host-a", "use-a", "a", "ai-gateway", 8000)
       [] m = "q" -> Model("q", "embedding", "host-q", "use-q", "q", "ai-gateway", 8000)
       [] m = "z" -> Model("z", "embedding", "host-a", "use-z", "q", "models", 9000)]

MCPlatform ==
  [namespace |-> "ai-gateway", referenceGrants |-> "explicit",
   rateLimit |-> TRUE, rateLimitBackend |-> TRUE, strictAirgap |-> TRUE,
   images |-> {[private |-> TRUE, pinned |-> TRUE, mutableTag |-> FALSE]},
   expectedContext |-> TRUE, confirmationToken |-> TRUE]

Start(file, models, placeholder) ==
  [f \in Files |->
     CASE f = <<"config", "consumers">> ->
            Says({[key |-> "c", models |-> models, limited |-> TRUE,
                   placeholder |-> placeholder]})
       [] f = <<"models", file>>   -> Says({MCRequested["q"]})
       [] f = <<"backends", "contracts">> -> Says({[name |-> "q", port |-> 8000]})
       [] f = <<"backends", "agentgateway">>  -> Says({})
       [] f = <<"ratelimit", "configmaps">>   -> Says({<<"c", "q">>})
       [] f = <<"routes", "q">>   -> Says(RouteManifest(MCRequested["q"]))
       [] f = <<"policies", "q">> -> Says(PolicyManifest(MCRequested["q"]))
       [] f[2] = "kustomization"  -> Says({"q"})
       [] OTHER -> Missing]

EntitledTrees == {Start(file, {"q"}, "initial") : file \in MCFirstModels}
RotatedTree == {Start("embedding", {}, "rotated")}

AllCommands == {"model add", "consumer add", "consumer rotate", "consumer revoke"}
LifecycleBudget ==
  [e \in Events |-> CASE e \in {"plan", "apply"} -> 2 [] OTHER -> 1]

RevokeCommands == {"model add", "consumer rotate", "consumer revoke"}
RevokeBudget ==
  [e \in Events |-> CASE e = "plan" -> 3 [] e = "apply" -> 4 [] OTHER -> 0]
=============================================================================
