------------------------------ MODULE MCAttest ------------------------------
(***************************************************************************)
(* A few statements and schemas as bytes, every defect of an argument, two *)
(* certifiers.                                                             *)
(***************************************************************************)
EXTENDS Attest, Decider, Trees

\* A statement that asks for a level, of a field that only one schema declares.
Ask(n) ==
    [items |-> {Field("f")}, where |-> {}, having |-> {}, columns |-> {},
     limit |-> FALSE, effect |-> FALSE, version |-> FALSE, linear |-> "none",
     epistemic |-> {}, level |-> n]

Declaring == [f |-> [ty |-> TInt, nullable |-> FALSE]]
Empty == [f \in {} |-> 0]

MCStatements == {Ask(0), Ask(2), Ask(6)}
MCSchemas == {Declaring, Empty}
MCLevelOf(st) == st.level

MCStmtWires == {"parse safe", "type compat", "cardinality", "garbage"}
MCSchemaWires == {"declaring", "empty", "garbage"}

MCStmtOf(w) ==
    CASE w = "parse safe" -> {Ask(0)} [] w = "type compat" -> {Ask(2)}
      [] w = "cardinality" -> {Ask(6)} [] OTHER -> {}

MCSchemaOf(w) ==
    CASE w = "declaring" -> {Declaring} [] w = "empty" -> {Empty} [] OTHER -> {}

A(via, stmt, schema, key) ==
    [via |-> via, stmt |-> stmt, schema |-> schema, key |-> key,
     nulls |-> {}, skLen |-> 32, outCap |-> 65]

Good(via) == A(via, "type compat", "declaring", "k1")

\* One key signs everything that can be signed, the other one thing.  Arguments
\* with one defect, and with a NULL besides both other defects.
MCCalls ==
    {A("shim", stmt, schema, "k1") : stmt \in MCStmtWires, schema \in MCSchemaWires}
    \cup {A("shim", "parse safe", "declaring", "k2")}
    \cup {A("rust", stmt, "declaring", "k1") : stmt \in MCStmtWires}
    \cup UNION {{[Good(via) EXCEPT !.skLen = 31], [Good(via) EXCEPT !.outCap = 64],
                 [Good(via) EXCEPT !.skLen = 31, !.outCap = 64]}
                \cup {[Good(via) EXCEPT !.nulls = {p}, !.skLen = 31, !.outCap = 64] :
                         p \in {"stmt", "schema", "sk", "out"}} : via \in {"shim", "rust"}}

MCClaimedLevels == {0, 2, 10, 11, 255}
=============================================================================
