------------------------------ MODULE MCHistory ------------------------------
(* The instance of HistoryPipeline that history.cfg checks. *)
EXTENDS HistoryPipeline

CONSTANTS temp, fan,    \* topics
          p1, p2        \* points

Mapping(ref, topic) == [ref |-> ref, fbfCur |-> topic]

(* A point per topic; two points for one topic beside one without. *)
MCGrids == {<<Mapping(p1, temp), Mapping(p2, fan)>>,
            <<Mapping(p2, None), Mapping(p2, temp), Mapping(p1, temp)>>}

MCReading == {[topic |-> temp, kind |-> "number"]}
=============================================================================
