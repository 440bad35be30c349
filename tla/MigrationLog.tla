---------------------------- MODULE MigrationLog ----------------------------
(***************************************************************************)
(* What cmd/migrate promises, without runs or transactions: a file and its *)
(* record take effect together, at one moment, on a schema that the file   *)
(* fits, and no file is applied or rolled back twice.                      *)
(***************************************************************************)
CONSTANTS Version, Needs, DownNeeds, Blocks, Takes, Repeatable

VARIABLES schema, recorded

vars == <<schema, recorded>>

Init == schema = {} /\ recorded = {}

Apply(v) ==
    /\ v \notin recorded
    /\ Needs[v] \subseteq schema
    /\ v \in schema => v \in Repeatable
    /\ schema' = schema \cup {v}
    /\ recorded' = recorded \cup {v}

RollBack(v) ==
    /\ v \in recorded
    /\ DownNeeds[v] \subseteq schema
    /\ Blocks[v] \cap schema = {}
    /\ schema' = schema \ ({v} \cup Takes[v])
    /\ recorded' = recorded \ {v}

Next == \E v \in Version : Apply(v) \/ RollBack(v)

Spec == Init /\ [][Next]_vars
=============================================================================
