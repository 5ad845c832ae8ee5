--------------------------- MODULE QueryPipeline ---------------------------
(***************************************************************************)
(* What the query-context pool of src/interface/ffi promises its callers:  *)
(* a table of independent queries.  A query is begun in a mode, is taken   *)
(* through the five pipeline stages in order, one at a time and each in    *)
(* one indivisible step, and is discarded at any moment.  Its safety level *)
(* is a function of the stage it is in and of its mode.                    *)
(***************************************************************************)
EXTENDS Naturals

CONSTANT Slots   \* the places of the table

VARIABLE query   \* the query in each place, or Free

QueryMode == {"slipstream", "dependent_types", "ultimate_type_safe"}
Stages == {"parsed", "schema_bound", "type_checked", "effect_checked", "compiled"}

\* The stage that follows a stage; a compiled query has none.
Successor ==
    [parsed         |-> "schema_bound",
     schema_bound   |-> "type_checked",
     type_checked   |-> "effect_checked",
     effect_checked |-> "compiled"]

\* The level a query of mode m has at stage s.
LevelAt(m, s) ==
    IF s = "compiled"
    THEN [slipstream |-> 4, dependent_types |-> 7, ultimate_type_safe |-> 9][m]
    ELSE [parsed |-> 0, schema_bound |-> 1, type_checked |-> 4, effect_checked |-> 7][s]

QueryAt(m, s) == [mode |-> m, stage |-> s, level |-> LevelAt(m, s)]
Free == [mode |-> "none", stage |-> "none", level |-> 0]

PipelineInit == query = [i \in Slots |-> Free]

Begin(i, m) ==
    /\ query[i] = Free
    /\ query' = [query EXCEPT ![i] = QueryAt(m, "parsed")]

Advance(i) ==
    /\ query[i].stage \in DOMAIN Successor
    /\ query' = [query EXCEPT ![i] = QueryAt(@.mode, Successor[@.stage])]

Discard(i) ==
    /\ query[i] # Free
    /\ query' = [query EXCEPT ![i] = Free]

PipelineNext ==
    \E i \in Slots :
        \/ \E m \in QueryMode : Begin(i, m)
        \/ Advance(i)
        \/ Discard(i)

PipelineSpec == PipelineInit /\ [][PipelineNext]_query
=============================================================================
