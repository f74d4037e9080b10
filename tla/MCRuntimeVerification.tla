------------------------ MODULE MCRuntimeVerification ------------------------
(* Two models, one of them for embeddings, two consumers of which one has     *)
(* the low limit, and clusters that differ from the sound one in one respect. *)
EXTENDS RuntimeVerification

MCModels == <<"chat", "embedding">>
MCConsumers == <<"app", "testing-client">>
MCGranted == [c \in {"app", "testing-client"} |->
                IF c = "app" THEN {"chat"} ELSE {"embedding"}]
MCCredentials == {{}, {"app", "testing-client"}}

MCSound == [ready |-> Objects, grants |-> MCGranted,
            limit |-> [c \in {"app", "testing-client"} |-> 2],
            shut |-> Uninvited,
            backend |-> [m \in {"chat", "embedding"} |-> "ok"]]
MCClusters ==
  {MCSound,
   [MCSound EXCEPT !.ready = @ \ {<<"route", "chat">>}],
   [MCSound EXCEPT !.grants["app"] = {"chat", "embedding"}],
   [MCSound EXCEPT !.grants["testing-client"] = {}],
   [MCSound EXCEPT !.limit["testing-client"] = 9],
   [MCSound EXCEPT !.shut = @ \ {"unknown key"}],
   [MCSound EXCEPT !.shut = @ \ {"wrong host"}],
   [MCSound EXCEPT !.backend["embedding"] = "empty"],
   [MCSound EXCEPT !.backend["chat"] = "down"]}

\* The cluster of the other context is sound or lacks a route.
MCBeginnings ==
  {[c \in {"production", "staging"} |-> IF c = "staging" THEN here ELSE there] :
     here \in MCClusters,
     there \in {MCSound, [MCSound EXCEPT !.ready = @ \ {<<"route", "chat">>}]}}

Nothing == [run |-> 1, unread |-> 0, error |-> 0, garbled |-> 0, timeout |-> 0,
            hang |-> 0, interrupt |-> 0,
            switch |-> 0, rollout |-> 0, traffic |-> 0, minute |-> 0]
Faults == [Nothing EXCEPT !.unread = 1, !.error = 1, !.garbled = 1,
                           !.timeout = 1, !.hang = 1, !.interrupt = 1]
Moves == [Nothing EXCEPT !.switch = 1, !.rollout = 1]
Repeated == [Nothing EXCEPT !.run = 2, !.traffic = 1, !.minute = 1]
MCBudgets == {Faults, Moves, Repeated}
=============================================================================
