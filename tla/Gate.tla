------------------------------- MODULE Gate -------------------------------
(***************************************************************************)
(* vclt-gate, src/interface/parse/src/bin/vclt-gate.rs: one process per    *)
(* request, run by VeriSimDB before an operation may touch live state.     *)
(*                                                                         *)
(* run checks the request part by part and answers the first defect with   *)
(* an error; it then parses the statement, certifies a query level by      *)
(* level and, in a second loop over the same levels, builds the report.    *)
(* A transition goes to a certifier of its own.                            *)
(***************************************************************************)
EXTENDS Certifier, Sequences

CONSTANTS
    Transitions,           \* the transitions a request may hold
    TransitionPass(_, _),  \* transition_admissible(transition, schema)
    EmptySchema,           \* the schema of a request that sends none
    Requests               \* the requests submitted

\* What the gate looks at before it parses, in order, and what it may find.
Findings ==
    [read      |-> {"ok", "bad_invocation", "io_error"},
     json      |-> {"ok", "bad_request_json"},
     version   |-> {"ok", "bad_request_json", "unsupported_version"},
     statement |-> {"ok", "bad_request_json"},
     schema    |-> {"ok", "bad_schema"}]

Checks == DOMAIN Findings
CheckRank == [read |-> 1, json |-> 2, version |-> 3, statement |-> 4, schema |-> 5]

\* The text of a request is a query, a transition, or does not parse.
Operations ==
    [kind : {"query"}, query : Statements]
        \cup [kind : {"transition"}, transition : Transitions]
        \cup [kind : {"garbage"}]

\* A request; an omitted schema is an empty set.
RequestType ==
    [check  : {c \in [Checks -> UNION {Findings[k] : k \in Checks}] :
                  \A k \in Checks : c[k] \in Findings[k]},
     op     : Operations,
     schema : SUBSET Schemas]

ASSUME GateAssumption ==
    /\ Requests \subseteq RequestType
    /\ \A tr \in Transitions, sc \in Schemas \cup {EmptySchema} :
           TransitionPass(tr, sc) \in BOOLEAN

VARIABLES
    request,   \* what read_request and the JSON parser make of the input
    pc,        \* where run is
    listed,    \* how many levels build_levels has listed
    failed,    \* those among them with status "fail"
    stdout,    \* the responses printed
    exit       \* the exit code, Running until the process ends

vars == <<lvl, verdict, request, pc, listed, failed, stdout, exit>>

Running == -1

SchemaOf(r) == IF r.schema = {} THEN EmptySchema ELSE CHOOSE sc \in r.schema : TRUE

-----------------------------------------------------------------------------
(* The responses.  One of kind "error" has no verdict, and one of kind     *)
(* "parse" lists level 0 alone.                                            *)

ErrorResponse(k) ==
    [kind |-> "error", error |-> k, admissible |-> FALSE,
     requested |-> 0, certified |-> Rejected, levels |-> {}, failed |-> {}]

ParseResponse ==
    [kind |-> "parse", error |-> "none", admissible |-> FALSE,
     requested |-> 0, certified |-> Rejected, levels |-> {0}, failed |-> {0}]

QueryResponse(k, cert, levels, bad) ==
    [kind |-> "query", error |-> "none", admissible |-> cert # Rejected,
     requested |-> k, certified |-> cert, levels |-> levels, failed |-> bad]

\* certified_transition_level: 4, InjectionProof, or -1.
TransitionResponse(pass) ==
    [kind |-> "transition", error |-> "none", admissible |-> pass,
     requested |-> 4, certified |-> IF pass THEN 4 ELSE Rejected,
     levels |-> {4}, failed |-> IF pass THEN {} ELSE {4}]

Responses ==
    [kind : {"error", "parse", "query", "transition"},
     error : {"none"} \cup UNION {Findings[k] : k \in Checks},
     admissible : BOOLEAN, requested : 0..10, certified : -1..10,
     levels : SUBSET (0..10), failed : SUBSET (0..10)]

-----------------------------------------------------------------------------
GateTypeOK ==
    /\ CertifierTypeOK
    /\ request \in RequestType
    /\ pc \in Checks \cup {"parse", "certify", "report", "transition", "done"}
    /\ listed \in 0..10
    /\ failed \in SUBSET (1..10)
    /\ stdout \in Seq(Responses)
    /\ exit \in {Running, 0, 1, 2}

Init ==
    /\ CertifierInit
    /\ request \in Requests
    /\ pc = "read"
    /\ listed = 0
    /\ failed = {}
    /\ stdout = <<>>
    /\ exit = Running

\* A mistake: the version is looked at last.
AfterCheckVersionLast ==
    [read |-> "json", json |-> "statement", statement |-> "schema",
     schema |-> "version", version |-> "parse"]

\* What follows a check that finds nothing.
AfterCheck ==
    [read |-> "json", json |-> "version", version |-> "statement",
     statement |-> "schema", schema |-> "parse"]

Emit(resp, code) ==
    /\ stdout' = Append(stdout, resp)
    /\ exit' = code
    /\ pc' = "done"
    /\ UNCHANGED request

CheckPasses ==
    /\ pc \in Checks
    /\ request.check[pc] = "ok"
    /\ pc' = AfterCheck[pc]
    /\ UNCHANGED <<certifierVars, request, listed, failed, stdout, exit>>

\* A mistake: a defect of the request ends as a rejection does.
FailAsVerdict ==
    /\ pc \in Checks
    /\ request.check[pc] # "ok"
    /\ Emit(ErrorResponse(request.check[pc]), 1)
    /\ UNCHANGED <<certifierVars, listed, failed>>

\* emit_gate_error, exit 2.
CheckFails ==
    /\ pc \in Checks
    /\ request.check[pc] # "ok"
    /\ Emit(ErrorResponse(request.check[pc]), 2)
    /\ UNCHANGED <<certifierVars, listed, failed>>

\* A mistake: a text that does not parse is an error of the request.
ParseErrs ==
    /\ pc = "parse"
    /\ request.op.kind = "garbage"
    /\ Emit(ErrorResponse("bad_request_json"), 2)
    /\ UNCHANGED <<certifierVars, listed, failed>>

\* A text that does not parse is a verdict at level 0, not an error.
ParseFails ==
    /\ pc = "parse"
    /\ request.op.kind = "garbage"
    /\ Emit(ParseResponse, 1)
    /\ UNCHANGED <<certifierVars, listed, failed>>

ParseRoutes ==
    /\ pc = "parse"
    /\ request.op.kind # "garbage"
    /\ pc' = IF request.op.kind = "query" THEN "certify" ELSE "transition"
    /\ UNCHANGED <<certifierVars, request, listed, failed, stdout, exit>>

\* certified_level, and on to build_levels when it has a verdict.
CertifyStep ==
    LET st == request.op.query
        sc == SchemaOf(request)
    IN
    /\ pc = "certify"
    /\ Accept(st, sc) \/ Reject(st, sc) \/ Certify(st)
    /\ pc' = IF verdict' = Unknown THEN "certify" ELSE "report"
    /\ UNCHANGED <<request, listed, failed, stdout, exit>>

\* build_levels lists the next level.
ListLevel ==
    LET st == request.op.query
        n == listed + 1
    IN
    /\ pc = "report"
    /\ n <= LevelOf(st)
    /\ listed' = n
    /\ failed' = IF LevelPass(n, st, SchemaOf(request)) THEN failed ELSE failed \cup {n}
    /\ UNCHANGED <<certifierVars, request, pc, stdout, exit>>

\* A mistake: the process ends with the certified level for its code.
AnswerWithLevel ==
    /\ pc = "report"
    /\ listed = LevelOf(request.op.query)
    /\ Emit(QueryResponse(listed, verdict, 1..listed, failed), verdict)
    /\ UNCHANGED <<certifierVars, listed, failed>>

AnswerQuery ==
    LET k == LevelOf(request.op.query) IN
    /\ pc = "report"
    /\ listed = k
    /\ Emit(QueryResponse(k, verdict, 1..listed, failed),
             IF verdict # Rejected THEN 0 ELSE 1)
    /\ UNCHANGED <<certifierVars, listed, failed>>

\* run_transition.
AnswerTransition ==
    LET pass == TransitionPass(request.op.transition, SchemaOf(request)) IN
    /\ pc = "transition"
    /\ Emit(TransitionResponse(pass), IF pass THEN 0 ELSE 1)
    /\ UNCHANGED <<certifierVars, listed, failed>>

Next ==
    \/ CheckPasses \/ CheckFails
    \/ ParseFails \/ ParseRoutes
    \/ CertifyStep \/ ListLevel \/ AnswerQuery
    \/ AnswerTransition

Spec == Init /\ [][Next]_vars

-----------------------------------------------------------------------------
(* Properties.                                                             *)

\* The process has ended having been asked a sound request for an operation
\* of this kind.
Judged(k) ==
    /\ exit # Running
    /\ \A c \in Checks : request.check[c] = "ok"
    /\ request.op.kind = k

\* The verdict of certified_level and the report of build_levels, computed by
\* two loops, agree: a query is admitted exactly when no listed level failed,
\* every level up to the requested one is listed, and the exit code says so.
ReportMatchesVerdict ==
    Judged("query") =>
        LET r == stdout[1] IN
        /\ r.admissible <=> r.failed = {}
        /\ r.admissible <=> r.certified = r.requested
        /\ r.levels = 1..r.requested
        /\ exit = 0 <=> r.admissible

\* "The binary MUST reject a version it does not understand with exit code 2
\* and unsupported_version", whatever else is wrong further on.
UnknownVersionRefused ==
    /\ exit # Running
    /\ request.check.read = "ok"
    /\ request.check.json = "ok"
    /\ request.check.version = "unsupported_version"
    => exit = 2 /\ stdout[1].error = "unsupported_version"

-----------------------------------------------------------------------------
(* Refinement: the gate is a function of its request.                      *)

FirstDefect(r) ==
    CHOOSE k \in Checks :
        /\ r.check[k] # "ok"
        /\ \A j \in Checks : CheckRank[j] < CheckRank[k] => r.check[j] = "ok"

Sound(r) == \A k \in Checks : r.check[k] = "ok"

FailedLevels(st, sc) == {n \in 1..LevelOf(st) : ~LevelPass(n, st, sc)}

ResponseTo(r) ==
    IF ~Sound(r) THEN ErrorResponse(r.check[FirstDefect(r)])
    ELSE IF r.op.kind = "garbage" THEN ParseResponse
    ELSE IF r.op.kind = "transition"
         THEN TransitionResponse(TransitionPass(r.op.transition, SchemaOf(r)))
    ELSE QueryResponse(LevelOf(r.op.query),
                       CertifiedLevel(r.op.query, SchemaOf(r)),
                       1..LevelOf(r.op.query),
                       FailedLevels(r.op.query, SchemaOf(r)))

ExitFor(r) ==
    IF ~Sound(r) THEN 2 ELSE IF ResponseTo(r).admissible THEN 0 ELSE 1

Contract == INSTANCE Admission WITH Response <- ResponseTo, ExitCode <- ExitFor

\* One response per request, and it is a function of the request: every check
\* made in its order, every level weighed once by each of the two loops.
ImplementsAdmission == Contract!AdmissionSpec

-----------------------------------------------------------------------------
(* The inductive invariant, by the place where run is.                     *)

Untouched == lvl = 1 /\ verdict = Unknown /\ listed = 0 /\ failed = {}

Checking ==
    pc \in Checks =>
        /\ Untouched
        /\ \A j \in Checks : CheckRank[j] < CheckRank[pc] => request.check[j] = "ok"

Parsing ==
    pc \in {"parse", "transition"} =>
        /\ Untouched
        /\ Sound(request)
        /\ pc = "transition" => request.op.kind = "transition"

Certifying ==
    pc = "certify" =>
        /\ Sound(request)
        /\ request.op.kind = "query"
        /\ LoopInv(request.op.query, SchemaOf(request))
        /\ verdict = Unknown /\ listed = 0 /\ failed = {}

Reporting ==
    pc = "report" =>
        /\ Sound(request)
        /\ request.op.kind = "query"
        /\ verdict = CertifiedLevel(request.op.query, SchemaOf(request))
        /\ listed <= LevelOf(request.op.query)
        /\ failed = {n \in 1..listed : ~LevelPass(n, request.op.query, SchemaOf(request))}

Answering ==
    IF pc = "done" THEN stdout = <<ResponseTo(request)>> /\ exit = ExitFor(request)
    ELSE stdout = <<>> /\ exit = Running

\* Wherever run is, what it has found so far is right, and what it has
\* answered is the answer its request calls for.
GateInv == Checking /\ Parsing /\ Certifying /\ Reporting /\ Answering
=============================================================================
