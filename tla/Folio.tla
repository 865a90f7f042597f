-------------------------------- MODULE Folio --------------------------------
(***************************************************************************)
(* Haxall's database, as far as fbf's scripts use it through eval_axon     *)
(* (fbf/haxall_client.py): records are added and changed, each commit at   *)
(* once and as a whole, and never removed.  A record's id is its index; 0  *)
(* stands for the id that is None in Python, and reads as @None in axon.   *)
(***************************************************************************)
EXTENDS Naturals, Sequences

CONSTANTS
    Dis,                \* display names
    NoDis,              \* stands for a record without one
    Value               \* values a point's curVal may take; 0 for none

ASSUME FolioAssumption == NoDis \notin Dis /\ Value \subseteq Nat \ {0}

VARIABLE recs

(* `ref' is a point's equipRef, an equip's siteRef or the point in a       *)
(* task's taskExpr; `marked' tells whether the markers of the tagging      *)
(* model are there.                                                        *)
Rec == [what : {"conn", "point", "site", "equip", "task"}, dis : Dis \cup {NoDis},
        writable : BOOLEAN, marked : BOOLEAN, ref : Nat, curVal : Value \cup {0}]

NewRec(what, dis, ref) ==
    [what |-> what, dis |-> dis, writable |-> FALSE, marked |-> FALSE, ref |-> ref,
     curVal |-> 0]

FolioOK == recs \in Seq(Rec) /\ \A i \in DOMAIN recs : recs[i].ref \in 0..Len(recs)

(* The ids that read(what and dis==...) may return. *)
Matching(what, dis) ==
    {i \in DOMAIN recs : recs[i].what = what /\ recs[i].dis = dis}

Add(rec) == recs' = Append(recs, rec)

(* An ingestion task gets a message and commits its point's curVal; one    *)
(* that was made for @None fails each time.                                *)
TaskRuns ==
    \E i \in DOMAIN recs, v \in Value :
        /\ recs[i].what = "task" /\ recs[i].ref # 0
        /\ recs' = [recs EXCEPT ![recs[i].ref].curVal = v]
=============================================================================
