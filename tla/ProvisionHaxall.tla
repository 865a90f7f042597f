--------------------------- MODULE ProvisionHaxall ---------------------------
(***************************************************************************)
(* fbf/provision_haxall.py: a script that makes the points, tasks, site    *)
(* and equips of the demo, and tags the points, each step looking before   *)
(* it commits; it is run again after a failure.  `step' is its place in    *)
(* main and `at' its place in the step's function.                         *)
(*                                                                         *)
(* Every call of eval_axon may raise: because Haxall refuses it, or since  *)
(* its answer does not come in time, in which case the commit may have     *)
(* been done, or be done later.                                            *)
(***************************************************************************)
EXTENDS Folio, FiniteSets

CONSTANTS
    Conn, Site,         \* names of the mqttConn and the site
    Fed, Unfed,         \* points made by hand: with and without a task made here
    Own,                \* points made here, each with a task
    Equips,             \* equips made here
    EquipOf,            \* the equip of each of these points
    Fixture,            \* the write-demo point
    NumLibs,            \* Len(LIBS)
    MaxRuns,            \* bound: runs of the script
    MaxLate,            \* bound: commits done late
    LateKinds           \* bound: kinds of record whose commit may be late

ASSUME PlanAssumption ==
    /\ Fed \in Seq(Dis) /\ Unfed \in Seq(Dis) /\ Own \in Seq(Dis) /\ Equips \in Seq(Dis)
    /\ {Conn, Site, Fixture} \subseteq Dis
    /\ NumLibs \in Nat /\ MaxRuns \in Nat /\ MaxLate \in Nat
(* Every point that is tagged belongs to an equip made here. *)
ASSUME EquipAssumption ==
    \A i \in DOMAIN (Unfed \o Fed \o Own) :
        \E k \in DOMAIN Equips : EquipOf[(Unfed \o Fed \o Own)[i]] = Equips[k]
(* No point is made both here and by hand. *)
ASSUME HandAssumption ==
    \A i \in DOMAIN (Fed \o Unfed) :
        /\ (Fed \o Unfed)[i] # Fixture
        /\ \A k \in DOMAIN Own : (Fed \o Unfed)[i] # Own[k]

VARIABLES
    libs,               \* how many of LIBS are enabled: they depend on each other
    step, at,           \* place of the script; step 0 when it does not run
    refs,               \* the ids it has found
    missing,            \* what ensure_point_tags has found missing
    late,               \* commits given up by the script and not yet done
    runs,               \* history: runs started
    done,               \* history: a run has come to its end
    landed              \* history: commits done late

script == <<step, at, refs, missing>>
provisionVars == <<recs, libs, script, late, runs, done, landed>>

-----------------------------------------------------------------------------
(* main *)

Key == [what : {"conn", "point", "site", "equip", "task"}, dis : Dis]
Name(what, dis) == [what |-> what, dis |-> dis]
Nobody == Name("conn", Conn)

Steps(op, what, names) ==
    [i \in DOMAIN names |-> [op |-> op, name |-> Name(what, names[i]), of |-> Nobody]]
Fixed(op, what, dis) == [op |-> op, name |-> Name(what, dis), of |-> Nobody]
Tasks == [i \in DOMAIN (Fed \o Own) |->
             [op |-> "ensure", name |-> Name("task", (Fed \o Own)[i]),
              of |-> Name("point", (Fed \o Own)[i])]]
EquipsOf == [i \in DOMAIN Equips |->
             [op |-> "ensure", name |-> Name("equip", Equips[i]), of |-> Name("site", Site)]]
Tagging == [i \in DOMAIN (Unfed \o Fed \o Own) |->
             LET p == (Unfed \o Fed \o Own)[i] IN
             [op |-> "tag", name |-> Name("point", p), of |-> Name("equip", EquipOf[p])]]

(* The calls of main, in their order. *)
Plan ==
    <<Fixed("libs", "conn", Conn), Fixed("require", "conn", Conn)>>
        \o Steps("find", "point", Fed) \o Steps("ensure", "point", Own) \o Tasks
        \o <<Fixed("ensure", "site", Site)>> \o EquipsOf
        \o Steps("find", "point", Unfed) \o Tagging
        \o <<Fixed("ensure", "point", Fixture)>>

Planned(what) == {Plan[i].name.dis : i \in {j \in DOMAIN Plan :
                        Plan[j].op = "ensure" /\ Plan[j].name.what = what}}

Current == Plan[step]
Running(op, place) == step # 0 /\ Current.op = op /\ at = place

ProvisionOK ==
    /\ libs \in 0..NumLibs
    /\ step \in 0..Len(Plan) /\ at \in {"find", "commit", "reread"}
    /\ refs \in [Key -> 0..Len(recs)]
    /\ missing \in [marked : BOOLEAN, ref : BOOLEAN]
    /\ late \subseteq Rec
    /\ runs \in 0..MaxRuns /\ done \in BOOLEAN /\ landed \in 0..MaxLate

NoRefs == [k \in Key |-> 0]
NothingMissing == [marked |-> FALSE, ref |-> FALSE]

ProvisionInit ==
    /\ libs = 0
    /\ step = 0 /\ at = "find" /\ refs = NoRefs /\ missing = NothingMissing
    /\ late = {} /\ runs = 0 /\ done = FALSE /\ landed = 0

(* The script is started, by a person. *)
Run ==
    /\ step = 0 /\ runs < MaxRuns
    /\ step' = 1 /\ runs' = runs + 1
    /\ UNCHANGED <<recs, libs, at, refs, missing, late, done, landed>>

(* The step's function returns, and main keeps the ids r. *)
Return(r) ==
    /\ step' = IF step = Len(Plan) THEN 0 ELSE step + 1
    /\ refs' = IF step = Len(Plan) THEN NoRefs ELSE r
    /\ at' = "find" /\ missing' = NothingMissing
    /\ done' = (done \/ step = Len(Plan))

\* Faulty: records the error in the span, and goes on.
NoteError == Return(refs)
(* The exception leaves main: every step records it and raises it again. *)
Raise ==
    /\ step' = 0 /\ at' = "find" /\ refs' = NoRefs /\ missing' = NothingMissing
    /\ UNCHANGED done

(* An eval that is refused, or a read whose answer does not come. *)
EvalRaises ==
    /\ step # 0
    /\ Raise
    /\ UNCHANGED <<recs, libs, late, runs, landed>>

-----------------------------------------------------------------------------
(* ensure_libs *)

LibAdd ==
    /\ Running("libs", "find") /\ libs < NumLibs
    /\ libs' = libs + 1
    /\ UNCHANGED <<script, done>> \/ Raise
    /\ UNCHANGED <<recs, late, runs, landed>>
LibsLoaded ==
    /\ Running("libs", "find") /\ libs = NumLibs
    /\ Return(refs)
    /\ UNCHANGED <<recs, libs, late, runs, landed>>

-----------------------------------------------------------------------------
(* find_ref and the ensure_* functions *)

Here == Matching(Current.name.what, Current.name.dis)

(* find_ref finds a record, be it there already or just made. *)
FindRef ==
    /\ step # 0 /\ Current.op \in {"require", "find", "ensure"} /\ at \in {"find", "reread"}
    /\ \E i \in Here : Return([refs EXCEPT ![Current.name] = i])
    /\ UNCHANGED <<recs, libs, late, runs, landed>>

(* It finds none: main goes on with None, the step commits, or, without an *)
(* mqttConn, the script ends.                                              *)
FindNone ==
    /\ step # 0 /\ Current.op \in {"require", "find", "ensure"} /\ at = "find"
    /\ Here = {}
    /\ \/ Current.op = "find" /\ Return(refs)
       \/ /\ Current.op = "ensure" /\ at' = "commit"
          /\ UNCHANGED <<step, refs, missing, done>>
       \/ Current.op = "require" /\ Raise
    /\ UNCHANGED <<recs, libs, late, runs, landed>>

(* A task is made for the id found, which may be None; the fixture is the  *)
(* one point that is writable.                                             *)
Made == [NewRec(Current.name.what, Current.name.dis, 0) EXCEPT
            !.ref = IF Current.op = "ensure" /\ Current.name.what \in {"task", "equip"}
                    THEN refs[Current.of] ELSE 0,
            !.writable = (Current.name = Name("point", Fixture))]

Commit ==
    /\ Running("ensure", "commit")
    /\ Add(Made)
    /\ at' = "reread"
    /\ UNCHANGED <<libs, step, refs, missing, late, runs, done, landed>>

\* Faulty: tries once more.
CommitRetried ==
    /\ Running("ensure", "commit")
    /\ Add(Made)
    /\ UNCHANGED <<libs, script, late, runs, done, landed>>
(* The answer of a commit does not come: it was done, or is on its way. *)
CommitRaises ==
    /\ Running("ensure", "commit")
    /\ \/ Add(Made) /\ UNCHANGED late
       \/ /\ Cardinality(late) + landed < MaxLate /\ Made.what \in LateKinds
          /\ late' = late \cup {Made} /\ UNCHANGED recs
    /\ Raise
    /\ UNCHANGED <<libs, runs, landed>>

CommitLands ==
    /\ \E rec \in late : Add(rec) /\ late' = late \ {rec}
    /\ landed' = landed + 1
    /\ UNCHANGED <<libs, script, runs, done>>

-----------------------------------------------------------------------------
(* ensure_point_tags *)

Target == refs[Current.name]

(* It reads the point, which raises for None, and looks what is missing. *)
ReadPoint ==
    /\ Running("tag", "find") /\ Target # 0
    /\ IF recs[Target].marked /\ recs[Target].ref # 0
       THEN Return(refs)
       ELSE /\ missing' = [marked |-> ~recs[Target].marked, ref |-> recs[Target].ref = 0]
            /\ at' = "commit"
            /\ UNCHANGED <<step, refs, done>>
    /\ UNCHANGED <<recs, libs, late, runs, landed>>

Tag == recs' = [recs EXCEPT
                  ![Target].marked = @ \/ missing.marked,
                  ![Target].ref = IF missing.ref THEN refs[Current.of] ELSE @]

\* Faulty: two commits, the equipRef first.
TagPointTwice ==
    /\ Running("tag", "commit")
    /\ IF recs[Target].ref = 0
       THEN /\ recs' = [recs EXCEPT ![Target].ref = refs[Current.of]]
            /\ UNCHANGED <<script, done>>
       ELSE recs' = [recs EXCEPT ![Target].marked = TRUE] /\ Return(refs)
    /\ UNCHANGED <<libs, late, runs, landed>>
(* One commit for the markers and the equipRef that are missing. *)
TagPoint ==
    /\ Running("tag", "commit")
    /\ Tag
    /\ Return(refs)
    /\ UNCHANGED <<libs, late, runs, landed>>
TagRaises ==
    /\ Running("tag", "commit")
    /\ Tag
    /\ Raise
    /\ UNCHANGED <<libs, late, runs, landed>>

-----------------------------------------------------------------------------
(* By hand, as docs/haxall-mqtt-integration.md has it: the mqttConn and    *)
(* the points this script only looks for.                                  *)
ByHand ==
    /\ \/ Matching("conn", Conn) = {} /\ Add(NewRec("conn", Conn, 0))
       \/ \E i \in DOMAIN (Fed \o Unfed) :
             /\ Matching("point", (Fed \o Unfed)[i]) = {}
             /\ Add(NewRec("point", (Fed \o Unfed)[i], 0))
    /\ UNCHANGED <<libs, script, late, runs, done, landed>>

Provision ==
    \/ Run
    \/ EvalRaises
    \/ LibAdd
    \/ LibsLoaded
    \/ FindRef
    \/ FindNone
    \/ Commit
    \/ CommitRaises
    \/ ReadPoint
    \/ TagPoint
    \/ TagRaises

ProvisionNext == Provision \/ CommitLands \/ ByHand
=============================================================================
