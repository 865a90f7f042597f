--------------------------- MODULE HaxallReadback ---------------------------
(***************************************************************************)
(* Haxall between the provisioning script and the Haystack bridge: the     *)
(* script adds and tags records, ingestion tasks commit values, and the    *)
(* bridge polls what has been tagged, all at the same time.                *)
(***************************************************************************)
EXTENDS ProvisionHaxall, HaystackBridge, Functions

readbackVars == <<provisionVars, pollerVars>>

(* Haxall is empty, or has a writable point without dis of someone else's. *)
ReadbackInit ==
    /\ recs \in {<<>>, <<[NewRec("point", NoDis, 0) EXCEPT !.writable = TRUE]>>}
    /\ ProvisionInit /\ BridgeInit

ReadbackOK == FolioOK /\ ProvisionOK /\ BridgeOK

Ingest ==
    /\ TaskRuns
    /\ UNCHANGED <<libs, script, late, runs, done, landed, pollerVars>>

ReadbackNext ==
    \/ (ProvisionNext /\ UNCHANGED pollerVars)
    \/ (PollerNext /\ UNCHANGED provisionVars)
    \/ Ingest

ReadbackSpec == ReadbackInit /\ [][ReadbackNext]_readbackVars

(* The bridge's thread runs, and its evals and publications end.           *)
FairReadbackSpec == ReadbackSpec /\ WF_readbackVars(ReadMode /\ UNCHANGED provisionVars)

-----------------------------------------------------------------------------
(* Properties *)

(* "Safe to rerun - every step checks-before-commit"                       *)
(* (provision_haxall.py:6): however often the script fails, loses an       *)
(* answer and is run again, it makes nothing twice, as long as no commit   *)
(* it had given up is done late: that may be after the next run looked.    *)
NoDuplicates ==
    landed = 0 =>
        \A i, j \in DOMAIN recs :
            (recs[i].what = recs[j].what /\ recs[i].dis = recs[j].dis) => i = j

Tagged(rec) == rec.marked /\ rec.ref # 0 /\ recs[rec.ref].what = "equip"

(* When a run has come to its end ("done."), everything it is there for is *)
(* in Haxall and whole, whatever earlier runs left behind; each task feeds *)
(* a point of its name, except one made while its point was missing, which *)
(* no later run repairs.                                                   *)
DoneMeansProvisioned ==
    done =>
        /\ libs = NumLibs
        /\ \A what \in {"point", "task", "site", "equip"} : \A d \in Planned(what) :
              Matching(what, d) # {}
        /\ \A k \in DOMAIN Tagging :
              \E i \in Matching("point", Tagging[k].name.dis) : Tagged(recs[i])
        /\ \A i \in DOMAIN recs :
              recs[i].what = "task" =>
                  \/ recs[i].ref \in Matching("point", recs[i].dis)
                  \/ recs[i].ref = 0 /\ \E k \in DOMAIN Fed : Fed[k] = recs[i].dis

(* The bridge takes a point for tagged when it has an equipRef, and sends  *)
(* its tags once: so the script must never show it an equipRef without the *)
(* markers.                                                                *)
BridgedTagsWhole ==
    \A d \in Dis :
        (tags[d] # NoTags /\ d # Fixture) => tags[d].marked /\ tags[d].ref # 0

(* After the first cycle, the equip a point's published tags refer to is   *)
(* published too, although script and bridge run at the same time: the     *)
(* bridge reads the equips last (haystack_bridge.py:128-129 has it that    *)
(* the order "doesn't matter").                                            *)
EquipRefResolves ==
    tagsSent =>
        \A d \in Dis :
            (tags[d] # NoTags /\ tags[d].ref # 0) => tags[d].ref \in equipTags \cup errors

(* A value that stays in Haxall is what the broker ends up with, if the    *)
(* bridge goes on and can publish the point, and no other record has the   *)
(* same name.                                                              *)
ReadbackFollows ==
    \A d \in {p.name.dis : p \in Range(Tagging)}, v \in Value :
        <>[](\E i \in DOMAIN recs :
                 /\ Bridged(recs[i]) /\ recs[i].dis = d /\ recs[i].curVal = v
                 /\ i \notin errors
                 /\ Matching("point", d) = {i})
            => <>[](phase = "down" \/ shown[d] = v)
=============================================================================
