------------------------- MODULE RuntimeVerification -------------------------
(***************************************************************************)
(* verify runtime (verification.py, with the polling of conditions.py): one *)
(* pass over the conditions of the gateway's resources, read with kubectl,  *)
(* and over the answers of the gateway to HTTP probes.  Meanwhile the       *)
(* operator may switch the kubectl context, a rollout may change the        *)
(* cluster, clients use the gateway, and minutes of the rate limit end.     *)
(* The cluster and the gateway are external.                                *)
(***************************************************************************)
EXTENDS Naturals, Sequences, FiniteSets, SequencesExt

CONSTANTS
  ModelOrder,     \* the models of the configuration, in its order
  Embedding,      \* the models of kind EMBEDDING
  ConsumerOrder,  \* the consumers of the configuration, in its order
  Granted,        \* Granted[c]: allowed_models of the consumer c
  LowLimit,       \* --low-limit-consumer
  LowModel,       \* the first of its allowed_models
  CredentialSets, \* the consumers whose credential may be passed
  Contexts,       \* kubectl contexts, each with a cluster of its own
  Target,         \* the expected context, which is also the configured one
  Clusters,       \* the states a cluster can be in
  Beginnings,     \* the states the clusters of all contexts begin in
  Attempts,       \* attempts of a poll (5)
  RateAttempts,   \* rate_limit_attempts (20)
  Budgets,        \* how often the surroundings may do something, by scenario
  None

Models == ToSet(ModelOrder)
Consumers == ToSet(ConsumerOrder)

Objects == {<<"gateway">>} \cup ({"route", "policy"} \X Models)
           \cup ({"deployment"} \X {"envoy-ratelimit", "redis"})

\* Requests that nobody should get through with: without a key, with an
\* unknown one (both 401), and for a host that no listener has (404).
Uninvited == {"missing key", "unknown key", "wrong host"}

\* ready: objects whose conditions are as polled; grants, limits: what the
\* policies and the rate limit service enforce; shut: the uninvited requests
\* that are answered as they should be; backend: what models answer.
ClusterStates ==
  [ready: SUBSET Objects, grants: [Consumers -> SUBSET Models],
   limit: [Consumers -> Nat], shut: SUBSET Uninvited,
   backend: [Models -> {"ok", "empty", "down"}]]

\* What is bounded: verifications, faults of a command, and the surroundings.
\* unread: kubectl cannot tell its current context.
Events == {"run", "unread", "error", "garbled", "timeout", "hang", "interrupt",
           "switch", "rollout", "traffic", "minute"}

ASSUME VerificationAssumption ==
  /\ ModelOrder \in Seq(Models) /\ ModelOrder # <<>>
  /\ IsInjective(ModelOrder)
  /\ Granted \in [Consumers -> SUBSET Models]
  /\ LowLimit \in Consumers => Granted[LowLimit] = {} \/ LowModel \in Granted[LowLimit]
  /\ CredentialSets \subseteq SUBSET Consumers
  /\ Clusters \subseteq ClusterStates
  /\ Beginnings \subseteq [Contexts -> Clusters]
  /\ Target \in Contexts
  /\ Attempts \in Nat \ {0} /\ RateAttempts \in Nat \ {0}
  /\ Budgets \subseteq [Events -> Nat]

\* A verification: what it was given, its results so far, and of the check at
\* hand whether its context was verified and how often it was tried; it is
\* stuck when a command does not return.  calm and fresh are history: since it
\* began nothing moved, and nothing failed that is never tried again; and it
\* began undisturbed.
Runs == [credentials: CredentialSets, results: Seq(BOOLEAN), seen: BOOLEAN,
         tries: Nat, stuck: BOOLEAN, calm: BOOLEAN, fresh: BOOLEAN]
Reports == [passed: BOOLEAN, run: Runs]

ASSUME NoneAssumption == None \notin Runs \cup Reports \cup Consumers

VARIABLES
  current,  \* the current context of the kubeconfig
  live,     \* the state of every cluster
  used,     \* requests counted in this minute, by consumer and model
  run,      \* the verification that is running, or None
  report,   \* the last report, or None
  left      \* what is left of the scenario's budget

vars == <<current, live, used, run, report, left>>

Spend(event) == left[event] > 0 /\ left' = [left EXCEPT ![event] = @ - 1]

-----------------------------------------------------------------------------
(* The list of checks.                                                      *)

\* _consumer_for_model: the first consumer that is allowed, or denied.
ConsumerFor(m, allowed) ==
  LET fits == SelectSeq(ConsumerOrder, LAMBDA c : (m \in Granted[c]) = allowed)
  IN  IF fits = <<>> THEN None ELSE Head(fits)

\* The probes of a model, without those whose credential was not passed.
ModelProbes(m, credentials) ==
  (IF ConsumerFor(m, TRUE) \in credentials THEN <<<<"allowed", m>>>> ELSE <<>>)
  \o (IF ConsumerFor(m, FALSE) \in credentials THEN <<<<"denied", m>>>> ELSE <<>>)

\* The limit is tested of a consumer that has a credential and a model.
LimitChecked(credentials) ==
  LowLimit \in credentials \cap Consumers /\ Granted[LowLimit] # {}

\* The order of run_runtime_verification.
Checks == [credentials \in CredentialSets |->
  <<<<"gateway">>>>
  \o FlattenSeq([i \in DOMAIN ModelOrder |->
       <<<<"route", ModelOrder[i]>>, <<"policy", ModelOrder[i]>>>>])
  \o <<<<"deployment", "envoy-ratelimit">>, <<"deployment", "redis">>,
       <<"missing key">>, <<"unknown key">>>>
  \o FlattenSeq([i \in DOMAIN ModelOrder |->
       ModelProbes(ModelOrder[i], credentials)])
  \o <<<<"wrong host">>>>
  \o IF LimitChecked(credentials) THEN <<<<"low limit">>>> ELSE <<>>]

-----------------------------------------------------------------------------
(* The gateway: a key is known, then granted, then within its limit; only   *)
(* requests that are let through are counted, by consumer and model.        *)

Gateway == live[Target]

Refuses(c, m) == used[<<c, m>>] >= Gateway.limit[c]

Answer(c, m) ==
  CASE m \notin Gateway.grants[c] -> 403
    [] m \in Gateway.grants[c] /\ Refuses(c, m) -> 429
    [] OTHER -> IF Gateway.backend[m] = "down" THEN 503 ELSE 200

Counted(c, m) ==
  IF Answer(c, m) \in {200, 503} THEN [used EXCEPT ![<<c, m>>] = @ + 1] ELSE used

-----------------------------------------------------------------------------
(* The verification.                                                        *)

Start ==
  /\ run = None
  /\ Spend("run")
  /\ \E credentials \in CredentialSets :
       run' = [credentials |-> credentials, results |-> <<>>,
               seen |-> FALSE, tries |-> 0, stuck |-> FALSE, calm |-> TRUE,
               fresh |-> /\ current = Target
                         /\ \A key \in DOMAIN used : used[key] = 0]
  /\ report' = None
  /\ UNCHANGED <<current, live, used>>

Done == Len(run.results) = Len(Checks[run.credentials])

\* The check at hand.
Check == Checks[run.credentials][Len(run.results) + 1]

At(kinds) == run # None /\ ~Done /\ Check[1] \in kinds

Model == Check[2]

\* run with the result of the check at hand.
Result(passed) ==
  [run EXCEPT !.results = Append(@, passed), !.seen = FALSE, !.tries = 0]

Polls == {"gateway", "route", "policy", "deployment"}

\* What the check at hand gets by a fault that is never tried again.
Fault == [Result(FALSE) EXCEPT !.calm = FALSE]

\* ContextVerifyingRunner, before every kubectl command.  Its refusal, of
\* another context or of one it cannot read, is an exception that leaves the
\* loop of the attempts and that _record turns into a failed check.
VerifyContext ==
  /\ At(Polls) /\ ~run.seen
  /\ \/ /\ run' = IF current = Target THEN [run EXCEPT !.seen = TRUE]
                                       ELSE Result(FALSE)
        /\ UNCHANGED left
     \/ Spend("unread") /\ run' = Fault
  /\ UNCHANGED <<current, live, used, report>>

\* A slip: an object that is not ready is waited for.
AgainForever == run' = [run EXCEPT !.seen = FALSE]

\* Slips: the attempts are counted from the wrong end.
AgainOnceMore ==
  run' = IF run.tries + 1 > Attempts THEN Result(FALSE)
         ELSE [run EXCEPT !.tries = @ + 1, !.seen = FALSE]
AgainOnceLess ==
  run' = IF run.tries + 2 >= Attempts THEN Result(FALSE)
         ELSE [run EXCEPT !.tries = @ + 1, !.seen = FALSE]

\* An attempt that found nothing is one of those that a poll has.
Again ==
  run' = IF run.tries + 1 >= Attempts THEN Result(FALSE)
         ELSE [run EXCEPT !.tries = @ + 1, !.seen = FALSE]

\* kubectl get, in the context of now; it may fail, or print no JSON, which
\* is not tried again.
Poll ==
  /\ At(Polls) /\ run.seen
  /\ \/ /\ IF Check \in live[current].ready THEN run' = Result(TRUE) ELSE Again
        /\ UNCHANGED left
     \/ Spend("error") /\ Again
     \/ Spend("garbled") /\ run' = Fault
  /\ UNCHANGED <<current, live, used, report>>

\* A slip: an answer that is not about the key proves the grant.
AllowedIfKnown(status) == status # 401

\* What an allowed probe has to answer.
Allowed(status) == status = 200

\* verify_embedding_response looks at the vector, for embedding models only.
EmptyVector(m) == m \in Embedding /\ Gateway.backend[m] = "empty"

ProbeAllowed ==
  /\ At({"allowed"})
  /\ LET c == ConsumerFor(Model, TRUE) IN
       /\ run' = Result(Allowed(Answer(c, Model)) /\ ~EmptyVector(Model))
       /\ used' = Counted(c, Model)
  /\ UNCHANGED <<current, live, report, left>>

\* What a denied probe has to answer.
Denied(status) == status = 403

ProbeDenied ==
  /\ At({"denied"})
  /\ LET c == ConsumerFor(Model, FALSE) IN
       /\ run' = Result(Denied(Answer(c, Model)))
       /\ used' = Counted(c, Model)
  /\ UNCHANGED <<current, live, report, left>>

\* The uninvited requests.  What is let through is not counted of a consumer.
ProbeClosed ==
  /\ At(Uninvited)
  /\ run' = Result(Check[1] \in Gateway.shut)
  /\ UNCHANGED <<current, live, used, report, left>>

\* The loop ends with the first 429.
Limited == Answer(LowLimit, LowModel) = 429

\* One of the repeated requests of the low-limit consumer.
ProbeLimit ==
  /\ At({"low limit"})
  /\ run' = IF Limited THEN Result(TRUE)
            ELSE IF run.tries + 1 >= RateAttempts THEN Result(FALSE)
            ELSE [run EXCEPT !.tries = @ + 1]
  /\ used' = Counted(LowLimit, LowModel)
  /\ UNCHANGED <<current, live, report, left>>

\* A probe gets no answer: the allowed one has failed, any other ends the
\* verification without a report.
LoseProbe ==
  /\ run # None /\ ~Done /\ ~At(Polls)
  /\ Spend("timeout")
  /\ run' = IF At({"allowed"}) THEN Fault ELSE None
  /\ UNCHANGED <<current, live, used, report>>

\* A command that does not return: kubectl runs without a timeout, and that of
\* a probe is one for every read, not for the answer.
Hang ==
  /\ run # None /\ ~Done /\ (At(Polls) => run.seen)
  /\ Spend("hang")
  /\ run' = [run EXCEPT !.stuck = TRUE]
  /\ UNCHANGED <<current, live, used, report>>

AllPassed(results) == \A i \in DOMAIN results : results[i]

Finish ==
  /\ run # None /\ Done
  /\ report' = [passed |-> AllPassed(run.results), run |-> run]
  /\ run' = None
  /\ UNCHANGED <<current, live, used, left>>

Step == /\ run # None /\ ~run.stuck
        /\ \/ VerifyContext \/ Poll
           \/ ProbeAllowed \/ ProbeDenied \/ ProbeClosed \/ ProbeLimit \/ LoseProbe
           \/ Hang \/ Finish

\* The operator ends the program; there is no report.
Interrupt ==
  /\ run # None
  /\ Spend("interrupt")
  /\ run' = None
  /\ UNCHANGED <<current, live, used, report>>

-----------------------------------------------------------------------------
(* The surroundings.  A verification during which they moved is not calm.   *)

Disturb == run' = IF run = None THEN None ELSE [run EXCEPT !.calm = FALSE]

SwitchContext ==
  /\ Spend("switch")
  /\ current' \in Contexts \ {current}
  /\ Disturb
  /\ UNCHANGED <<live, used, report>>

Rollout ==
  /\ Spend("rollout")
  /\ \E cluster \in Clusters \ {Gateway} :
       live' = [live EXCEPT ![Target] = cluster]
  /\ Disturb
  /\ report' = None
  /\ UNCHANGED <<current, used>>

Traffic ==
  /\ Spend("traffic")
  /\ \E c \in Consumers, m \in Models : /\ Answer(c, m) = 200
                                        /\ used' = Counted(c, m)
  /\ Disturb
  /\ UNCHANGED <<current, live, report>>

MinuteEnds ==
  /\ Spend("minute")
  /\ used' = [key \in DOMAIN used |-> 0]
  /\ Disturb
  /\ UNCHANGED <<current, live, report>>

-----------------------------------------------------------------------------
Init ==
  /\ current \in Contexts
  /\ live \in Beginnings
  /\ used = [key \in Consumers \X Models |-> 0]
  /\ run = None /\ report = None
  /\ left \in Budgets

Next == \/ Start \/ Step \/ Interrupt
        \/ SwitchContext \/ Rollout \/ Traffic \/ MinuteEnds

\* The program goes on as long as its commands return; none of them has to.
Spec == Init /\ [][Next]_vars /\ WF_vars(Step)

-----------------------------------------------------------------------------
(* Properties.                                                              *)

\* The results are those of the list of checks, one each and in its order;
\* the counters of the gateway and of the loops stay within their bounds.
TypeOK ==
  /\ current \in Contexts /\ live \in [Contexts -> Clusters]
  /\ used \in [Consumers \X Models -> Nat]
  /\ run \in Runs \cup {None} /\ report \in Reports \cup {None}
  /\ run # None =>
       /\ run.tries < IF At({"low limit"}) THEN RateAttempts ELSE Attempts
       /\ Len(run.results) <= Len(Checks[run.credentials])
  /\ report # None =>
       Len(report.run.results) = Len(Checks[report.run.credentials])

\* What a verification looks at is as the configuration says.
Sound(credentials) ==
  /\ Gateway.ready = Objects /\ Gateway.shut = Uninvited
  /\ \A m \in Models :
       /\ ConsumerFor(m, TRUE) \in credentials =>
            /\ m \in Gateway.grants[ConsumerFor(m, TRUE)]
            /\ Gateway.backend[m] # "down" /\ ~EmptyVector(m)
       /\ ConsumerFor(m, FALSE) \in credentials =>
            m \notin Gateway.grants[ConsumerFor(m, FALSE)]
  /\ LimitChecked(credentials) => LowModel \in Gateway.grants[LowLimit]

\* The low-limit consumer meets its limit within the requests of a check,
\* and its limits leave room for the probes that are to be let through.
LimitFits ==
  /\ LowLimit \in Consumers => Gateway.limit[LowLimit] < RateAttempts
  /\ \A c \in Consumers : Gateway.limit[c] > 0

\* A report that passed, of a verification during which nothing moved, is
\* true of the expected cluster until a rollout changes it: everything it
\* looks at is ready, uninvited requests are turned away, and every grant it
\* was given credentials for is as configured, also after errors and attempts
\* that were repeated.
PassedIsTrue ==
  (report # None /\ report.passed /\ report.run.calm) =>
    Sound(report.run.credentials)

\* A report that failed, of a verification during which nothing moved and
\* that began in the expected context and with no request counted, has a
\* reason in the cluster: a kubectl get that fails while its poll has attempts
\* left, and the requests that the verification itself makes, do not fail it.
\* What is never tried again does, and such a verification is not calm: a
\* context that cannot be read, output that is no JSON, a probe unanswered.
FailureHasReason ==
  ( /\ report # None /\ ~report.passed
    /\ report.run.calm /\ report.run.fresh
    /\ LimitFits
    /\ \A budget \in Budgets : budget["error"] < Attempts )
  => ~Sound(report.run.credentials)

\* A verification ends, with a report or without, or waits for a command
\* that does not return; its polls and its loop of requests always end.
Ends == run # None ~> (run = None \/ run.stuck)

=============================================================================
