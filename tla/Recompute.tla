----------------------------- MODULE Recompute -----------------------------
(***************************************************************************)
(* vcl_recompute of ffi/rust/recompute-wasm: a consumer decodes the bytes  *)
(* it holds and decides for itself which level they have.  Bytes that do   *)
(* not decode are an empty set, the others the set of what they decode to. *)
(***************************************************************************)
EXTENDS Certifier

VARIABLES
    stmt,     \* what the statement bytes decode to
    schema,   \* what the schema bytes decode to
    null,     \* one of the pointers is NULL
    pc,       \* where the call is
    result    \* what it returns, Unknown until then

vars == <<certifierVars, stmt, schema, null, pc, result>>
args == <<stmt, schema, null>>

AtMostOne(S) == {{}} \cup {{x} : x \in S}

\* The arguments stay what Init makes them.
RecomputeTypeOK ==
    /\ CertifierTypeOK
    /\ pc \in {"called", "certify", "returned"}
    /\ result \in -2..10

Init ==
    /\ CertifierInit
    /\ stmt \in AtMostOne(Statements)
    /\ schema \in AtMostOne(Schemas)
    /\ null \in BOOLEAN
    /\ pc = "called"
    /\ result = Unknown

Return(r) ==
    /\ pc' = "returned"
    /\ result' = r
    /\ UNCHANGED args

\* A NULL pointer, or bytes that do not decode: fail-closed.
Refuse ==
    /\ pc = "called"
    /\ null \/ stmt = {} \/ schema = {}
    /\ Return(Rejected)
    /\ UNCHANGED certifierVars

Decode ==
    /\ pc = "called"
    /\ ~null /\ stmt # {} /\ schema # {}
    /\ pc' = "certify"
    /\ UNCHANGED <<certifierVars, args, result>>

CertifyStep ==
    /\ pc = "certify"
    /\ \E st \in stmt, sc \in schema : Accept(st, sc) \/ Reject(st, sc) \/ Certify(st)
    /\ UNCHANGED <<args, pc, result>>

ReturnVerdict ==
    /\ pc = "certify"
    /\ verdict # Unknown
    /\ Return(verdict)
    /\ UNCHANGED certifierVars

Next == Refuse \/ Decode \/ CertifyStep \/ ReturnVerdict

Spec == Init /\ [][Next]_vars

\* A level is returned only for decoded input all of whose levels up to it
\* pass; a rejection has a reason: a failing level or input that is no input.
NeverFabricated ==
    pc = "returned" =>
        IF null \/ stmt = {} \/ schema = {} THEN result = Rejected
        ELSE \A st \in stmt, sc \in schema : result = CertifiedLevel(st, sc)
=============================================================================
