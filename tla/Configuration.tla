------------------------ MODULE Configuration ------------------------
(***************************************************************************)
(* The gateway configuration (configuration.py, models.py): what the files  *)
(* of a configuration directory describe and which descriptions are         *)
(* accepted.  Every command of the CLI loads the configuration first and    *)
(* refuses to go on when it is not accepted.                                *)
(*                                                                         *)
(* A configuration is [platform, models, consumers].  Files may repeat      *)
(* themselves, so models is a set of pairs <<file, model>> and the rules    *)
(* about duplicates compare pairs.                                          *)
(***************************************************************************)
EXTENDS FiniteSets, Naturals, Functions

CONSTANT Unset  \* an optional field that is left out

Kinds == {"chat", "embedding"}
Backends == {"agentgateway-backend", "kubernetes-service"}

PlatformConfigs(Namespaces, Images) ==
  [namespace: Namespaces, referenceGrants: {"explicit", "none"},
   rateLimit: BOOLEAN, rateLimitBackend: BOOLEAN,
   strictAirgap: BOOLEAN, images: SUBSET Images,
   expectedContext: BOOLEAN, confirmationToken: BOOLEAN]

ServicePorts == [name: STRING \cup {Unset}, number: Nat]

ModelConfigs(Keys) ==
  [key: Keys, kind: Kinds, host: STRING, path: STRING, permission: STRING,
   backend: Backends, service: STRING, namespace: STRING,
   ports: SUBSET ServicePorts, targetName: STRING \cup {Unset},
   targetNumber: Nat \cup {Unset}]

ConsumerConfigs(Consumers, Keys) ==
  [key: Consumers, models: SUBSET Keys, limited: BOOLEAN,
   placeholder: {"initial", "rotated", "revoked"}]

-----------------------------------------------------------------------------
(* The rules of validate_config, one operator per group.                     *)

ModelsUnambiguous(models) ==
  /\ IsInjective([e \in models |-> e[2].key])
  /\ IsInjective([e \in models |-> e[2].host])
  /\ IsInjective([e \in models |-> <<e[2].host, e[2].path>>])
  /\ IsInjective([e \in models |-> e[2].permission])

KeysOf(models) == {e[2].key : e \in models}

ConsumersKnown(models, consumers) ==
  /\ IsInjective([c \in consumers |-> c.key])
  /\ \A c \in consumers : c.models \subseteq KeysOf(models)

\* The Service port a route goes to is the only one, or the one that is named.
PortUnambiguous(m) ==
  /\ m.ports # {}
  /\ m.targetName = Unset \/ m.targetNumber = Unset
  /\ Cardinality(m.ports) > 1 => m.targetName # Unset \/ m.targetNumber # Unset
  /\ m.targetName # Unset => \E p \in m.ports : p.name = m.targetName
  /\ m.targetNumber # Unset => \E p \in m.ports : p.number = m.targetNumber

BackendMatchesKind(m) ==
  m.backend = IF m.kind = "chat" THEN "agentgateway-backend"
                                 ELSE "kubernetes-service"

Reachable(m, platform) ==
  m.namespace = platform.namespace \/ platform.referenceGrants = "explicit"

RateLimitsServed(platform, consumers) ==
  /\ platform.rateLimit => platform.rateLimitBackend
  /\ platform.rateLimitBackend \/ \A c \in consumers : ~c.limited

\* Images are records here: where they point, and how.
ImagesPromoted(platform) ==
  platform.strictAirgap =>
    \A i \in platform.images : i.private /\ i.pinned /\ ~i.mutableTag

Valid(c) ==
  /\ ModelsUnambiguous(c.models)
  /\ ConsumersKnown(c.models, c.consumers)
  /\ \A e \in c.models : /\ PortUnambiguous(e[2])
                         /\ Reachable(e[2], c.platform)
                         /\ BackendMatchesKind(e[2])
  /\ RateLimitsServed(c.platform, c.consumers)
  /\ ImagesPromoted(c.platform)
  /\ c.platform.expectedContext
  /\ c.platform.confirmationToken

=============================================================================
