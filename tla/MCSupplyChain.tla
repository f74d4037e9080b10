-------------------------- MODULE MCSupplyChain --------------------------
(* Two images, a chart and three locks: the chart has a sha256 in the first *)
(* and only an OCI digest in the second, where the ociDigest of one image is *)
(* not what its source pins, and source and destination of the other pin     *)
(* different digests; an image of the third has no pins.  One scenario for   *)
(* the bundle, one for interrupted builds, one for the promotion.            *)
EXTENDS SupplyChain

MCOrder == <<"agentgateway", "chart", "redis">>

Image(name, digest) ==
  [image |-> TRUE, sha256 |-> Missing, digest |-> digest,
   source |-> digest, target |-> digest, inside |-> TRUE, destination |-> name]
Chart(sha, digest) ==
  [image |-> FALSE, sha256 |-> sha, digest |-> digest,
   source |-> Missing, target |-> Missing, inside |-> TRUE, destination |-> "chart"]
LockOf(agentgateway, chart, redis) ==
  [e \in {"agentgateway", "chart", "redis"} |->
     CASE e = "agentgateway" -> agentgateway
       [] e = "chart" -> chart
       [] e = "redis" -> redis]

MCLocks ==
  {LockOf(Image("agw", "a"), Chart("b", Missing), Image("redis", "a")),
   LockOf([Image("agw", "b") EXCEPT !.digest = "a"], Chart(Missing, "b"),
          [Image("redis", "a") EXCEPT !.source = "b"]),
   LockOf([Image("agw", Missing) EXCEPT !.sha256 = "a"], Chart("b", Missing),
          Image("redis", "a"))}

Nothing == [build |-> 0, stop |-> 0, copy |-> 0, overlap |-> 0, damage |-> 0,
            reassemble |-> 0, plan |-> 0, push |-> 0, failure |-> 0,
            overlay |-> 0]
Overtaken == [Nothing EXCEPT !.build = 2, !.copy = 1, !.overlap = 1]
Layered == [Nothing EXCEPT !.build = 2, !.copy = 2, !.damage = 1, !.reassemble = 1]
Stopped == [Nothing EXCEPT !.build = 2, !.stop = 1, !.copy = 1]
Promotion == [Nothing EXCEPT !.plan = 2, !.push = 2, !.failure = 1,
                             !.overlay = 1]
MCBudgets == {Overtaken, Layered, Stopped, Promotion}

\* By name, as cp and rsync do, and the other way round, with the parts in
\* place of the blob; without the report, which nobody reads on the
\* disconnected side.
MCCopyOrders ==
  {<<Blob, ChecksumFile, InventoryFile>> \o PayloadFiles("fetch"),
   Reverse(PayloadFiles("fetch")) \o <<PartList>> \o Reverse(PartFiles)
     \o <<InventoryFile, ChecksumFile>>}

MCFirstOverlay == {<<"agw", "a">>, <<"redis", "a">>}
MCOverlays == {MCFirstOverlay, {<<"agw", "b">>, <<"redis", "a">>}}
=============================================================================
