------------------------------- MODULE Trees -------------------------------
(***************************************************************************)
(* The walks that Decider and Corpus take as parameters: recursive over    *)
(* the trees of ast.rs and over the types of types.rs.                     *)
(***************************************************************************)

\* The subtrees of an expression; a subquery is opaque.
RECURSIVE Subtrees(_)
Subtrees(e) == {e} \cup UNION {Subtrees(e.args[i]) : i \in DOMAIN e.args}

\* No record occurs in a type.
RECURSIVE NoRecord(_)
NoRecord(ty) ==
    ty[1] # "TRecord" /\ (ty[1] = "TNull" => NoRecord(ty[2]))
=============================================================================
