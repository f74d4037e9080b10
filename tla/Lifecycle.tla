--------------------------- MODULE Lifecycle ---------------------------
(***************************************************************************)
(* The model and consumer lifecycle commands (lifecycle.py, and their       *)
(* handlers in cli.py).  A plan command reads the source tree and records,  *)
(* for every file it intends to write, the content before and after.  An    *)
(* apply command, possibly much later, writes the files one by one in the   *)
(* order of their paths, comparing each with its recorded content just      *)
(* before, and stops at the first that differs.                             *)
(*                                                                         *)
(* One command runs at a time.  Between two files of an apply a maintainer  *)
(* may retouch a file, and the apply may be killed.  A refused command      *)
(* changes nothing, so refusals before the first file are the states in     *)
(* which PlanX or Apply is disabled.  withdrawn, displaced, halted and the  *)
(* plan field "seen" are history: no guard reads them.                      *)
(***************************************************************************)
EXTENDS SourceTree

CONSTANTS
  Trees,     \* the source trees to start from
  Commands,  \* the lifecycle commands that are used
  Budget,    \* Budget[e]: how often the event e may happen
  None       \* no consumer, no running apply

Events == {"plan", "apply", "kill", "edit"}

ASSUME LifecycleAssumption ==
  /\ \A tree \in Trees : IsTree(tree)
  /\ Commands \subseteq {"model add", "consumer add", "consumer rotate",
                         "consumer revoke"}
  /\ Budget \in [Events -> Nat]
  /\ None \notin Consumers

\* What a model must have before its route is rendered, but for its entry in
\* the configuration.
Served(tree, m) ==
  /\ m \in Rendered(tree, "policies")
  /\ tree[<<"policies", m>>].doc = PolicyManifest(Requested[m])
  /\ \E s \in tree[<<"backends", "contracts">>].doc : s.name = Requested[m].service
  /\ Requested[m].kind = "chat" =>
       m \in tree[<<"backends", "agentgateway">>].doc

\* A reference into the namespace of the generated objects finds one of that
\* kind and name.
Found(tree, ref) ==
  ref.namespace = GatewayNamespace =>
    IF ref.kind = "chat"
    THEN ref.name \in tree[<<"backends", "agentgateway">>].doc
    ELSE \E s \in tree[<<"backends", "contracts">>].doc : s.name = ref.name

\* The files that are replaced by longer ones.
Growing ==
  {<<"ratelimit", "configmaps">>, <<"backends", "contracts">>,
   <<"backends", "agentgateway">>, <<"policies", "kustomization">>,
   <<"routes", "kustomization">>}

\* What the checkouts hold to start with: the generated bases, with all that
\* the listed routes and the consumers need, where a route file is the one of
\* the model it is named after.
ASSUME CheckoutAssumption ==
  \A tree \in Trees :
    /\ \A f \in Growing \cup {<<"config", "consumers">>} : tree[f] # Missing
    /\ \A m \in Models : tree[<<"routes", m>>] # Missing =>
                           tree[<<"routes", m>>].doc = RouteManifest(Requested[m])
    /\ Entitlements(tree) \subseteq Descriptors(tree)
    /\ \A m \in Listed(tree, "routes") : /\ Served(tree, m)
                                          /\ m \in KeysOf(ModelsOf(tree))

\* The configuration of the checkouts is accepted: nothing runs in any other.
\* A model that is configured is the one that "model add" would be asked for,
\* and a model in the file named after it, where "model add" puts it, has its
\* route listed.
ASSUME ConfiguredAssumption ==
  \A tree \in Trees :
    /\ Loads(tree)
    /\ \A e \in ModelsOf(tree) :
         /\ e[2] = Requested[e[2].key]
         /\ e[1] = e[2].key => e[1] \in Listed(tree, "routes")

VARIABLES
  tree,       \* the source files
  plans,      \* the plan files
  job,        \* the apply that is running
  report,     \* how the last apply ended
  withdrawn,  \* history: how often each consumer lost an entitlement
  displaced,  \* history: models whose file the file of a new model replaced
  halted,     \* history: some apply stopped between two files
  left        \* what is left of Budget

vars == <<tree, plans, job, report, withdrawn, displaced, halted, left>>

Spend(event) == /\ left[event] > 0
                /\ left' = [left EXCEPT ![event] = @ - 1]

Running == report = "running"

-----------------------------------------------------------------------------
(* Plans.  A request names what the plan was asked for.                     *)

Requests == [action: Commands, model: Models \cup {None},
             consumer: Consumers \cup {None}, models: SUBSET Models]

\* Changes(texts): SourceChange.from_content in the present tree, for every
\* pair of a file and what it shall say.
Changes(texts) ==
  [f \in {t[1] : t \in texts} |->
     [before |-> tree[f], after |-> Says((CHOOSE t \in texts : t[1] = f)[2])]]

\* The identifier is a hash of the contents: here, the contents.
Identifier(request, changes) == <<request, changes>>

Plan(request, changes) ==
  [request |-> request, changes |-> changes,
   id |-> Identifier(request, changes), seen |-> withdrawn]

\* A slip: the policy is written over the route.
ManifestChangesSwapped(m) ==
  {<<<<"routes", m.key>>, PolicyManifest(m)>>,
   <<<<"policies", m.key>>, RouteManifest(m)>>}

\* _manifest_changes_for_model.
ManifestChanges(m) ==
  LET policies == <<"policies", "kustomization">>
      routes == <<"routes", "kustomization">>
      contracts == <<"backends", "contracts">>
      backends == <<"backends", "agentgateway">>
  IN {<<<<"routes", m.key>>, RouteManifest(m)>>,
      <<<<"policies", m.key>>, PolicyManifest(m)>>,
      <<routes, tree[routes].doc \cup {m.key}>>,
      <<policies, tree[policies].doc \cup {m.key}>>,
      <<contracts, WithContract(tree[contracts].doc, m)>>}
     \cup IF m.kind = "chat"
          THEN {<<backends, tree[backends].doc \cup {m.key}>>} ELSE {}

ConsumersChange(records) == {<<<<"config", "consumers">>, records>>}

Replaced(c, models, placeholder) ==
  (ConsumersOf(tree) \ {Consumer(tree, c)})
  \cup {[Consumer(tree, c) EXCEPT !.models = models, !.placeholder = placeholder]}

\* _updated_ratelimit_change: descriptors are added, never removed.
RateLimitChange(c, models) ==
  {<<<<"ratelimit", "configmaps">>, Descriptors(tree) \cup ({c} \X models)>>}

\* A slip: the grant comes without its rate limit.
GrantChangesUnlimited(c, m) ==
  IF c = None THEN {}
  ELSE ConsumersChange(Replaced(c, Consumer(tree, c).models \cup {m},
                                Consumer(tree, c).placeholder))

GrantChanges(c, m) ==
  IF c = None THEN {}
  ELSE ConsumersChange(Replaced(c, Consumer(tree, c).models \cup {m},
                                Consumer(tree, c).placeholder))
       \cup RateLimitChange(c, {m})

Put(request, texts) ==
  /\ plans' = plans \cup {Plan(request, Changes(texts))}
  /\ UNCHANGED <<tree, job, report, withdrawn, displaced, halted>>

Planning(command) == /\ ~Running
                     /\ command \in Commands
                     /\ Spend("plan")
                     /\ Loads(tree)

\* A slip: the new model is not validated together with the others.
PlanModelAddUnvalidated ==
  /\ Planning("model add")
  /\ \E m \in Models \ KeysOf(ModelsOf(tree)) :
       Put([action |-> "model add", model |-> m, consumer |-> None,
            models |-> {m}],
           {<<<<"models", m>>, {Requested[m]}>>} \cup ManifestChanges(Requested[m]))

\* build_model_add_plan; a key that is configured already gives a plan that
\* says so and changes nothing.
PlanModelAdd ==
  /\ Planning("model add")
  /\ \E m \in Models, c \in Consumers \cup {None} :
       LET candidate == [ConfigOf(tree) EXCEPT
                           !.models = @ \cup {<<m, Requested[m]>>}]
           request == [action |-> "model add", model |-> m, consumer |-> c,
                       models |-> {m}]
       IN IF m \in KeysOf(ModelsOf(tree))
          THEN Put(request, {})
          ELSE /\ Valid(candidate)
               /\ c \in KnownConsumers(tree) \cup {None}
               /\ Put(request, {<<<<"models", m>>, {Requested[m]}>>}
                               \cup ManifestChanges(Requested[m])
                               \cup GrantChanges(c, m))

\* A slip: a new consumer may be given models that nobody configured.
PlanConsumerAddUnvalidated ==
  /\ Planning("consumer add")
  /\ \E c \in Consumers \ KnownConsumers(tree), models \in SUBSET Models :
       Put([action |-> "consumer add", model |-> None, consumer |-> c,
            models |-> models],
           ConsumersChange(ConsumersOf(tree) \cup
                           {[key |-> c, models |-> models, limited |-> TRUE,
                             placeholder |-> "initial"]})
           \cup RateLimitChange(c, models))

\* build_consumer_plan, action "consumer add".
PlanConsumerAdd ==
  /\ Planning("consumer add")
  /\ \E c \in Consumers, models \in SUBSET Models :
       LET record == [key |-> c, models |-> models, limited |-> TRUE,
                      placeholder |-> "initial"]
           candidate == [ConfigOf(tree) EXCEPT !.consumers = @ \cup {record}]
           request == [action |-> "consumer add", model |-> None,
                       consumer |-> c, models |-> models]
       IN IF c \in KnownConsumers(tree)
          THEN Put(request, {})
          ELSE /\ Valid(candidate)
               /\ Put(request, ConsumersChange(candidate.consumers)
                               \cup IF models = {} THEN {}
                                    ELSE RateLimitChange(c, models))

\* build_consumer_plan, actions "consumer rotate" and "consumer revoke", which
\* keep some of the consumer's models: the rate-limit descriptors stay.
PlanConsumerChange(command, placeholder, kept) ==
  /\ Planning(command)
  /\ \E c \in KnownConsumers(tree) :
       Put([action |-> command, model |-> None, consumer |-> c, models |-> {}],
           ConsumersChange(Replaced(c, Consumer(tree, c).models \cap kept,
                                placeholder)))

PlanConsumerRotate ==
  PlanConsumerChange("consumer rotate", "rotated", Models)

PlanConsumerRevoke ==
  PlanConsumerChange("consumer revoke", "revoked", {})

\* Somebody drops a file from a plan after its review; the identifier stays.
TamperPlan ==
  /\ Spend("edit")
  /\ \E p \in plans, f \in Files :
       /\ f \in DOMAIN p.changes
       /\ plans' = (plans \ {p})
                   \cup {[p EXCEPT !.changes = Restrict(@, DOMAIN @ \ {f})]}
  /\ UNCHANGED <<tree, job, report, withdrawn, displaced, halted>>

-----------------------------------------------------------------------------
(* Applying.                                                                *)

\* _handle_lifecycle_apply and the checks before the first file; the operator
\* confirms, and runs the command the plan was made for.
Apply(p) ==
  /\ ~Running
  /\ Loads(tree)
  /\ Spend("apply")
  /\ p.id = Identifier(p.request, p.changes)
  /\ job' = [plan |-> p, pending |-> DOMAIN p.changes]
  /\ report' = "running"
  /\ UNCHANGED <<tree, plans, withdrawn, displaced, halted>>

\* The changes of a plan are sorted by path.
First(pending) ==
  CHOOSE f \in pending : \A g \in pending \ {f} : Precedes(f, g)

Losers(old, new) ==
  {c \in Consumers : \E m \in Models : /\ <<c, m>> \in Entitlements(old)
                                       /\ <<c, m>> \notin Entitlements(new)}

\* Writing the file of a model replaces what a file of that name configured.
Vanished(old, new) == KeysOf(ModelsOf(old)) \ KeysOf(ModelsOf(new))

\* A slip: files are written without looking at what they hold.
WriteNextUnchecked ==
  /\ Running
  /\ job.pending # {}
  /\ LET f == First(job.pending)
     IN /\ tree' = [tree EXCEPT ![f] = job.plan.changes[f].after]
        /\ job' = [job EXCEPT !.pending = @ \ {f}]
  /\ UNCHANGED <<plans, report, withdrawn, displaced, halted, left>>

\* One turn of the loop of apply_lifecycle_plan.
WriteNext ==
  /\ Running
  /\ job.pending # {}
  /\ LET f == First(job.pending)
     IN /\ tree[f] = job.plan.changes[f].before
        /\ tree' = [tree EXCEPT ![f] = job.plan.changes[f].after]
        /\ job' = [job EXCEPT !.pending = @ \ {f}]
  /\ withdrawn' = [c \in Consumers |->
                     IF c \in Losers(tree, tree') THEN withdrawn[c] + 1
                                                  ELSE withdrawn[c]]
  /\ displaced' = displaced \cup Vanished(tree, tree')
  /\ UNCHANGED <<plans, report, halted, left>>

Stop(outcome) ==
  /\ job' = None
  /\ report' = outcome
  /\ UNCHANGED <<tree, plans, withdrawn, displaced>>

\* "source changed after plan review": what was written stays.
Refuse ==
  /\ Running
  /\ job.pending # {}
  /\ LET f == First(job.pending) IN tree[f] # job.plan.changes[f].before
  /\ halted' = (halted \/ job.pending # DOMAIN job.plan.changes)
  /\ Stop("refused")
  /\ UNCHANGED left

Kill ==
  /\ Running
  /\ Spend("kill")
  /\ halted' = TRUE
  /\ Stop("killed")

Finish ==
  /\ Running
  /\ job.pending = {}
  /\ Stop("applied")
  /\ UNCHANGED <<halted, left>>

\* A maintainer retouches a file that some plan will write, without changing
\* what it says.
Retouch ==
  /\ Spend("edit")
  /\ \E p \in plans, f \in Files :
       /\ f \in DOMAIN p.changes
       /\ tree[f] # Missing
       /\ tree[f].rev = 0
       /\ tree' = [tree EXCEPT ![f].rev = 1]
  /\ UNCHANGED <<plans, job, report, withdrawn, displaced, halted>>

Init ==
  /\ tree \in Trees
  /\ plans = {}
  /\ job = None
  /\ report = "none"
  /\ withdrawn = [c \in Consumers |-> 0]
  /\ displaced = {}
  /\ halted = FALSE
  /\ left = Budget

Next ==
  \/ PlanModelAdd \/ PlanConsumerAdd \/ PlanConsumerRotate \/ PlanConsumerRevoke
  \/ TamperPlan
  \/ \E p \in plans : Apply(p)
  \/ WriteNext \/ Refuse \/ Kill \/ Finish
  \/ Retouch

Spec == Init /\ [][Next]_vars

-----------------------------------------------------------------------------
IsChanges(changes) ==
  /\ DOMAIN changes \subseteq Files
  /\ \A f \in DOMAIN changes :
       /\ changes[f].before \in Contents(Docs(f)) \cup {Missing}
       /\ changes[f].after \in Contents(Docs(f))

IsPlan(p) == /\ p.request \in Requests
             /\ IsChanges(p.changes)
             /\ p.seen \in [Consumers -> Nat]

\* The tree holds what its files can say, plans name files of the tree, and a
\* running apply has written a part of its plan (apply_lifecycle_plan).
TypeOK ==
  /\ IsTree(tree)
  /\ \A p \in plans : IsPlan(p)
  /\ Running => /\ IsPlan(job.plan)
                 /\ job.pending \subseteq DOMAIN job.plan.changes
  /\ report \in {"none", "running", "applied", "refused", "killed"}
  /\ withdrawn \in [Consumers -> Nat]
  /\ displaced \subseteq Models
  /\ halted \in BOOLEAN
  /\ left \in [Events -> Nat]

\* Whatever an apply has written so far, and wherever it stopped, a model
\* whose route Kustomize renders has its authorization policy rendered with
\* the permission it was asked to have, its backend and its Service contract,
\* which the route finds if it looks for them in the namespace they are in.
\* And it is configured, unless the file of a new model replaced its own, or a
\* configuration that is written after the routes has been left half written.
\* Rests on the order in which apply_lifecycle_plan writes (_dedupe_changes):
\* nothing else keeps a route from going first.
RouteIsComplete ==
  \A m \in Rendered(tree, "routes") :
    /\ Served(tree, m)
    /\ Found(tree, tree[<<"routes", m>>].doc.backend)
    /\ ConfigFirst \/ (~Running /\ ~halted) =>
         m \in KeysOf(ModelsOf(tree)) \cup displaced

\* Two rendered routes never share a host, nor two of their policies a
\* permission.  A plan is validated against the sources it is made from and
\* not when it is applied (build_model_add_plan), so two plans may contradict
\* each other; and a model whose apply stopped early is configured unseen.
\* What no plan is validated against is left out: models whose file the file
\* of a new model replaced, and, where the configuration is written after the
\* routes, what an apply that stopped has left.
RoutesUnambiguous ==
  ConfigFirst \/ ~halted =>
    \A m, n \in Rendered(tree, "routes") \ displaced :
      m # n =>
        /\ tree[<<"routes", m>>].doc.host # tree[<<"routes", n>>].doc.host
        /\ tree[<<"policies", m>>].doc # tree[<<"policies", n>>].doc

\* An apply that reports success leaves sources that every command accepts,
\* although it never validates them: unless an earlier apply stopped after its
\* first files, plans that contradict each other meet in a file they both hash.
\* The exception is a model whose key names a file of models that is there:
\* its own file replaces that one (build_model_add_plan), and consumers may go
\* on naming what it configured.
AppliedLeavesValidConfig ==
  report = "applied" /\ ~halted /\ displaced = {} => Loads(tree)

\* As long as no apply has stopped between two files, every consumer has a
\* rate limit for every model it may use (_updated_ratelimit_change).
QuotaFollowsGrant ==
  ~Running /\ ~halted => Entitlements(tree) \subseteq Descriptors(tree)

Granted(request) == {request.consumer} \X request.models

\* A consumer gains access to a model only through an apply of a plan that was
\* asked to give that access: the consumers file is replaced as a whole, so a
\* plan made from older sources would bring back what has changed since.
GrantsAreRequested ==
  [][Entitlements(tree') \ Entitlements(tree) # {} =>
       /\ Running
       /\ Entitlements(tree') \ Entitlements(tree)
            \subseteq Granted(job.plan.request)]_vars

\* README.md:297-300: "`apply` refuses to proceed if any of those files changed
\* after the plan was reviewed."  What it has written before it meets the
\* changed file stays (apply_lifecycle_plan): a plan made before a consumer
\* was revoked must not give that consumer access again.
RevocationOutlivesPlans ==
  [][\A c \in Consumers, m \in Models :
       <<c, m>> \in Entitlements(tree') \ Entitlements(tree) =>
         job.plan.seen[c] = withdrawn[c]]_vars

=============================================================================
