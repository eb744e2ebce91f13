--------------------------- MODULE MCLowMemKiller ---------------------------
(* Instances of LowMemKiller: three tasks, two of them with one oom_adj.   *)
EXTENDS LowMemKiller, TLC

CONSTANTS k1, k2, init, app1, app2

MCTasklist == <<init, app1, app2>>
MCOomAdj == (init :> 0) @@ (app1 :> 2) @@ (app2 :> 2)
MCRss == (init :> 1) @@ (app1 :> 2) @@ (app2 :> 1)
MCAdj == <<0, 2>>
MCMinfree == <<2, 4>>
=============================================================================
