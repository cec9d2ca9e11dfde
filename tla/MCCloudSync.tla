---------------------------- MODULE MCCloudSync -----------------------------
(***************************************************************************)
(* CloudSync for TLC.  The two layers of a Diff share no variable but the  *)
(* stage of the loop, so that each behaviour is of one of them: the cloud  *)
(* publishes threats, or the tenant edits the whitelist.                   *)
(***************************************************************************)
EXTENDS CloudSync

VARIABLE layer

vars == <<layer, syncVars>>

Init == layer \in {"global", "tenant"} /\ SyncInit

Next ==
    /\ UNCHANGED layer
    /\ SyncNext
    /\ layer = "global" => UNCHANGED edits /\ \A l \in Loop : ~loop'[l].res.full
    /\ layer = "tenant" => UNCHANGED lastIncr

FairSpec == Init /\ [][Next]_vars /\ SyncFairness
=============================================================================
