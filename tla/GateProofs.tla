----------------------------- MODULE GateProofs -----------------------------
(***************************************************************************)
(* The gate, for every set of requests, every schema and every meaning of  *)
(* the levels: its answer is a function of its request (Admission), so the *)
(* two loops over the levels agree and no defect is answered for another.  *)
(*                                                                         *)
(* Then, with the levels of the decider (VettingAssumption, which nothing  *)
(* before that part uses) and for every way of finding the subtrees of an  *)
(* expression: what an operation has been vetted for that is let through.  *)
(***************************************************************************)
EXTENDS Vetting, CertifierProofs, TLAPS

\* The five checks.
LEMMA ChecksAre ==
    Checks = {"read", "json", "version", "statement", "schema"}
BY DEF Checks, Findings

\* A request is a check outcome, an operation and at most some schemas; the
\* schema it is judged by is one of them or the empty one.
LEMMA RequestParts ==
    ASSUME NEW r \in RequestType
    PROVE  /\ \A k \in Checks : r.check[k] \in Findings[k]
           /\ r.op \in Operations
           /\ SchemaOf(r) \in Schemas \cup {EmptySchema}
BY DEF RequestType, SchemaOf

\* Of an operation that is neither garbage nor a query, a transition remains.
LEMMA OperationKinds ==
    ASSUME NEW op \in Operations
    PROVE  /\ op.kind \in {"query", "transition", "garbage"}
           /\ op.kind = "query" => op.query \in Statements
           /\ op.kind = "transition" => op.transition \in Transitions
BY DEF Operations

\* Init establishes both invariants.
LEMMA InitInv == Init => GateTypeOK /\ GateInv
<1> SUFFICES ASSUME Init PROVE GateTypeOK /\ GateInv
    OBVIOUS
<1>1. GateTypeOK
    BY GateAssumption, ChecksAre
    DEF Init, CertifierInit, GateTypeOK, CertifierTypeOK, Unknown, Running
<1>2. \A j \in Checks : CheckRank[j] < CheckRank["read"] => request.check[j] = "ok"
    BY ChecksAre DEF CheckRank
<1>3. GateInv
    BY <1>2, ChecksAre
    DEF Init, CertifierInit, GateInv, Checking, Parsing, Certifying, Reporting,
        Answering, Untouched
<1> QED BY <1>1, <1>3

-----------------------------------------------------------------------------
(* Types.                                                                  *)

\* Whatever is printed is a response.
LEMMA ErrorIsResponse ==
    ASSUME NEW r \in RequestType, NEW k \in Checks
    PROVE  ErrorResponse(r.check[k]) \in Responses
BY RequestParts DEF ErrorResponse, Responses, Rejected

LEMMA ParseIsResponse == ParseResponse \in Responses
BY DEF ParseResponse, Responses, Rejected

LEMMA QueryIsResponse ==
    ASSUME NEW k \in 0..10, NEW cert \in -1..10, NEW n \in 0..10,
           NEW bad \in SUBSET (1..10)
    PROVE  QueryResponse(k, cert, 1..n, bad) \in Responses
<1>1. 1..n \in SUBSET (0..10) /\ bad \in SUBSET (0..10)
    OBVIOUS
<1> QED BY <1>1 DEF QueryResponse, Responses, Rejected

LEMMA TransitionIsResponse ==
    ASSUME NEW pass \in BOOLEAN
    PROVE  TransitionResponse(pass) \in Responses
BY DEF TransitionResponse, Responses, Rejected

\* Every step preserves the type invariant.
LEMMA NextType == GateTypeOK /\ GateInv /\ [Next]_vars => GateTypeOK'
<1> SUFFICES ASSUME GateTypeOK, GateInv, [Next]_vars
             PROVE  GateTypeOK'
    OBVIOUS
<1> USE DEF GateTypeOK, CertifierTypeOK, certifierVars, Emit
<1>1. CASE CheckPasses
    BY <1>1, ChecksAre DEF CheckPasses, AfterCheck
<1>2. CASE CheckFails
    BY <1>2, ErrorIsResponse DEF CheckFails
<1>3. CASE ParseFails
    BY <1>3, ParseIsResponse DEF ParseFails
<1>4. CASE ParseRoutes
    BY <1>4 DEF ParseRoutes
<1>5. CASE CertifyStep
    <2> DEFINE st == request.op.query
    <2>1. st \in Statements /\ LevelOf(st) \in 0..10
        BY <1>5, RequestParts, OperationKinds, CertifierAssumption
        DEF CertifyStep, GateInv, Certifying
    <2>2. lvl' \in 1..11 /\ verdict' \in -2..10
        BY <1>5, <2>1 DEF CertifyStep, Accept, Reject, Certify, Rejected
    <2> QED BY <1>5, <2>2 DEF CertifyStep
<1>6. CASE ListLevel
    <2>1. LevelOf(request.op.query) \in 0..10
        BY <1>6, RequestParts, OperationKinds, CertifierAssumption
        DEF ListLevel, GateInv, Reporting
    <2> QED BY <1>6, <2>1 DEF ListLevel
<1>7. CASE AnswerQuery
    <2>1. LevelOf(request.op.query) \in 0..10
        BY <1>7, RequestParts, OperationKinds, CertifierAssumption
        DEF AnswerQuery, GateInv, Reporting
    <2>2. verdict \in -1..10
        BY <1>7, <2>1 DEF AnswerQuery, GateInv, Reporting, CertifiedLevel, Rejected
    <2> DEFINE resp == QueryResponse(LevelOf(request.op.query), verdict, 1..listed, failed)
    <2>3. resp \in Responses
        BY <1>7, <2>1, <2>2, QueryIsResponse DEF AnswerQuery
    <2> HIDE DEF resp
    <2>4. stdout' = Append(stdout, resp)
        BY <1>7 DEF AnswerQuery, resp
    <2>5. stdout' \in Seq(Responses)
        BY <2>3, <2>4
    <2> QED BY <1>7, <2>5 DEF AnswerQuery
<1>8. CASE AnswerTransition
    <2>1. TransitionPass(request.op.transition, SchemaOf(request)) \in BOOLEAN
        BY <1>8, RequestParts, OperationKinds, GateAssumption
        DEF AnswerTransition, GateInv, Parsing
    <2> QED BY <1>8, <2>1, TransitionIsResponse DEF AnswerTransition
<1>9. CASE UNCHANGED vars
    BY <1>9 DEF vars
<1> QED BY <1>1, <1>2, <1>3, <1>4, <1>5, <1>6, <1>7, <1>8, <1>9 DEF Next

-----------------------------------------------------------------------------
(* The inductive invariant.                                                *)

\* The checks are made in the order of their ranks, and no two share one.
LEMMA RanksInOrder ==
    /\ \A j \in Checks, k \in Checks :
           j = k \/ CheckRank[j] < CheckRank[k] \/ CheckRank[k] < CheckRank[j]
    /\ \A k \in Checks : ~(CheckRank[k] < CheckRank[k])
    /\ \A j \in Checks, k \in Checks :
           AfterCheck[k] = j =>
               \A i \in Checks : CheckRank[i] < CheckRank[j] =>
                   i = k \/ CheckRank[i] < CheckRank[k]
    /\ \A k \in Checks :
           AfterCheck[k] \in Checks \/ (AfterCheck[k] = "parse" /\ k = "schema")
    /\ \A i \in Checks : i = "schema" \/ CheckRank[i] < CheckRank["schema"]
BY ChecksAre DEF CheckRank, AfterCheck

\* The check that fails after all those before it passed is the first defect.
LEMMA FirstDefectFound ==
    ASSUME NEW r, NEW k \in Checks, r.check[k] # "ok",
           \A j \in Checks : CheckRank[j] < CheckRank[k] => r.check[j] = "ok"
    PROVE  FirstDefect(r) = k
<1> DEFINE IsFirst(c) ==
        /\ r.check[c] # "ok"
        /\ \A j \in Checks : CheckRank[j] < CheckRank[c] => r.check[j] = "ok"
<1>1. \A c \in Checks : IsFirst(c) => c = k
    BY RanksInOrder
<1>2. IsFirst(k)
    OBVIOUS
<1>3. FirstDefect(r) = CHOOSE c \in Checks : IsFirst(c)
    BY DEF FirstDefect
<1> QED BY <1>1, <1>2, <1>3

\* The places of run after the checks are no checks.
LEMMA PlacesApart ==
    /\ "parse" \notin Checks /\ "certify" \notin Checks /\ "report" \notin Checks
    /\ "transition" \notin Checks /\ "done" \notin Checks
BY ChecksAre

\* Every step preserves the inductive invariant.
LEMMA NextInv == GateTypeOK /\ GateInv /\ [Next]_vars => GateInv'
<1> SUFFICES ASSUME GateTypeOK, GateInv, [Next]_vars
             PROVE  GateInv'
    OBVIOUS
<1> USE PlacesApart
<1>1. CASE CheckPasses
    <2>1. Untouched' /\ stdout' = <<>> /\ exit' = Running /\ request' = request
        BY <1>1 DEF CheckPasses, GateInv, Checking, Answering, Untouched, certifierVars
    <2>2. ASSUME pc' \in Checks
          PROVE  \A j \in Checks : CheckRank[j] < CheckRank[pc'] => request'.check[j] = "ok"
        BY <1>1, <2>2, RanksInOrder DEF CheckPasses, GateInv, Checking
    <2>3. ASSUME pc' = "parse" PROVE Sound(request')
        <3>1. pc = "schema" /\ request.check[pc] = "ok" /\ request' = request
            BY <1>1, <2>3, RanksInOrder DEF CheckPasses
        <3>2. \A i \in Checks : i = pc \/ CheckRank[i] < CheckRank[pc]
            BY <3>1, RanksInOrder
        <3>3. \A i \in Checks : CheckRank[i] < CheckRank[pc] => request.check[i] = "ok"
            BY <1>1 DEF CheckPasses, GateInv, Checking
        <3> QED BY <3>1, <3>2, <3>3 DEF Sound
    <2>4. pc' \in Checks \cup {"parse"}
        BY <1>1, RanksInOrder DEF CheckPasses
    <2> QED BY <2>1, <2>2, <2>3, <2>4
        DEF GateInv, Checking, Parsing, Certifying, Reporting, Answering, Sound
<1>2. CASE CheckFails
    <2>1. FirstDefect(request) = pc /\ ~Sound(request)
        BY <1>2, FirstDefectFound DEF CheckFails, GateInv, Checking, Sound
    <2>2. ResponseTo(request) = ErrorResponse(request.check[pc]) /\ ExitFor(request) = 2
        BY <2>1 DEF ResponseTo, ExitFor
    <2>3. stdout' = <<ErrorResponse(request.check[pc])>> /\ exit' = 2
        <3>1. stdout = <<>>
            BY <1>2 DEF CheckFails, GateInv, Answering
        <3> QED BY <1>2, <3>1 DEF CheckFails, Emit
    <2> QED BY <1>2, <2>2, <2>3
        DEF CheckFails, Emit, GateInv, Checking, Parsing, Certifying, Reporting, Answering
<1>3. CASE ParseFails
    <2>1. Sound(request) /\ request.op.kind = "garbage"
        BY <1>3 DEF ParseFails, GateInv, Parsing
    <2>2. ResponseTo(request) = ParseResponse /\ ExitFor(request) = 1
        BY <2>1 DEF ResponseTo, ExitFor, ParseResponse
    <2>3. stdout' = <<ParseResponse>> /\ exit' = 1
        BY <1>3 DEF ParseFails, Emit, GateInv, Answering
    <2> QED BY <1>3, <2>2, <2>3
        DEF ParseFails, Emit, GateInv, Checking, Parsing, Certifying, Reporting, Answering
<1>4. CASE ParseRoutes
    <2>1. Sound(request) /\ Untouched
        BY <1>4 DEF ParseRoutes, GateInv, Parsing
    <2>2. request.op.kind \in {"query", "transition"}
        BY <1>4, RequestParts, OperationKinds DEF ParseRoutes, GateTypeOK
    <2>3. ASSUME request.op.kind = "query"
          PROVE  LoopInv(request.op.query, SchemaOf(request))
        <3>1. LevelOf(request.op.query) \in 0..10
            BY <2>3, RequestParts, OperationKinds, CertifierAssumption DEF GateTypeOK
        <3> QED BY <2>1, <3>1 DEF Untouched, LoopInv, PassesUpTo
    <2>4. Untouched' /\ stdout' = <<>> /\ exit' = Running /\ Sound(request)'
          /\ (request.op.kind = "query" => LoopInv(request.op.query, SchemaOf(request))')
        BY <1>4, <2>1, <2>3
        DEF ParseRoutes, GateInv, Answering, Untouched, certifierVars, Sound, LoopInv, PassesUpTo
    <2> QED BY <1>4, <2>1, <2>2, <2>4
        DEF ParseRoutes, GateInv, Checking, Parsing, Certifying, Reporting, Answering, Untouched
<1>5. CASE CertifyStep
    <2> DEFINE st == request.op.query
               sc == SchemaOf(request)
    <2>1. /\ pc = "certify" /\ Sound(request) /\ request.op.kind = "query"
          /\ LoopInv(st, sc) /\ verdict = Unknown
          /\ listed = 0 /\ failed = {} /\ stdout = <<>> /\ exit = Running
        BY <1>5 DEF CertifyStep, GateInv, Certifying, Answering
    <2>2. st \in Statements /\ LevelOf(st) \in 0..10
        BY <2>1, RequestParts, OperationKinds, CertifierAssumption DEF GateTypeOK
    <2>3. /\ LoopInv(st, sc)'
          /\ verdict' # Unknown => verdict' = CertifiedLevel(st, sc)
        BY <1>5, <2>1, <2>2, LoopStep DEF CertifyStep, GateTypeOK, CertifierTypeOK
    <2>4. failed = {n \in 1..listed : ~LevelPass(n, st, sc)} /\ listed <= LevelOf(st)
        BY <2>1, <2>2
    <2>5. request' = request /\ listed' = listed /\ failed' = failed
          /\ stdout' = stdout /\ exit' = exit
          /\ pc' = IF verdict' = Unknown THEN "certify" ELSE "report"
        BY <1>5 DEF CertifyStep
    <2> QED BY <2>1, <2>3, <2>4, <2>5
        DEF GateInv, Checking, Parsing, Certifying, Reporting, Answering, Sound,
            LoopInv, PassesUpTo, CertifiedLevel
<1>6. CASE ListLevel
    <2> DEFINE st == request.op.query
               sc == SchemaOf(request)
               bad(m) == {n \in 1..m : ~LevelPass(n, st, sc)}
    <2>1. /\ pc = "report" /\ Sound(request) /\ request.op.kind = "query"
          /\ verdict = CertifiedLevel(st, sc) /\ failed = bad(listed)
          /\ stdout = <<>> /\ exit = Running
        BY <1>6 DEF ListLevel, GateInv, Reporting, Answering
    <2>2. listed + 1 <= LevelOf(st) /\ listed' = listed + 1
        BY <1>6 DEF ListLevel
    <2>3. failed' = bad(listed')
        <3>1. 1..(listed + 1) = 1..listed \cup {listed + 1}
            BY DEF GateTypeOK
        <3>2. bad(listed + 1) = IF LevelPass(listed + 1, st, sc) THEN bad(listed)
                                ELSE bad(listed) \cup {listed + 1}
            BY <3>1
        <3> QED BY <1>6, <2>1, <2>2, <3>2 DEF ListLevel
    <2>4. UNCHANGED <<lvl, verdict, request, pc, stdout, exit>>
        BY <1>6 DEF ListLevel, certifierVars
    <2> QED BY <2>1, <2>2, <2>3, <2>4
        DEF GateInv, Checking, Parsing, Certifying, Reporting, Answering, Sound,
            CertifiedLevel, PassesUpTo
<1>7. CASE AnswerQuery
    <2> DEFINE st == request.op.query
               sc == SchemaOf(request)
               k == LevelOf(st)
    <2>1. /\ Sound(request) /\ request.op.kind = "query"
          /\ verdict = CertifiedLevel(st, sc) /\ listed = k /\ failed = FailedLevels(st, sc)
          /\ stdout = <<>>
        BY <1>7 DEF AnswerQuery, GateInv, Reporting, Answering, FailedLevels
    <2>2. ResponseTo(request) = QueryResponse(k, verdict, 1..listed, failed)
        BY <2>1 DEF ResponseTo
    <2>3. ExitFor(request) = IF verdict # Rejected THEN 0 ELSE 1
        <3>1. ResponseTo(request).admissible = (verdict # Rejected)
            BY <2>2 DEF QueryResponse
        <3> QED BY <2>1, <3>1 DEF ExitFor
    <2>4. stdout' = <<QueryResponse(k, verdict, 1..listed, failed)>>
          /\ exit' = (IF verdict # Rejected THEN 0 ELSE 1) /\ pc' = "done" /\ request' = request
        BY <1>7, <2>1 DEF AnswerQuery, Emit
    <2> QED BY <2>2, <2>3, <2>4
        DEF GateInv, Checking, Parsing, Certifying, Reporting, Answering
<1>8. CASE AnswerTransition
    <2> DEFINE pass == TransitionPass(request.op.transition, SchemaOf(request))
    <2>1. Sound(request) /\ request.op.kind = "transition" /\ stdout = <<>>
        BY <1>8 DEF AnswerTransition, GateInv, Parsing, Answering
    <2>2. ResponseTo(request) = TransitionResponse(pass)
        BY <2>1 DEF ResponseTo
    <2>3. ExitFor(request) = IF pass THEN 0 ELSE 1
        BY <2>1, <2>2 DEF ExitFor, TransitionResponse
    <2>4. stdout' = <<TransitionResponse(pass)>> /\ exit' = (IF pass THEN 0 ELSE 1)
          /\ pc' = "done" /\ request' = request
        BY <1>8, <2>1 DEF AnswerTransition, Emit
    <2> QED BY <2>2, <2>3, <2>4
        DEF GateInv, Checking, Parsing, Certifying, Reporting, Answering
<1>9. CASE UNCHANGED vars
    BY <1>9 DEF vars, GateInv, Checking, Parsing, Certifying, Reporting, Answering,
        Untouched, Sound, LoopInv, PassesUpTo, CertifiedLevel
<1> QED BY <1>1, <1>2, <1>3, <1>4, <1>5, <1>6, <1>7, <1>8, <1>9 DEF Next

-----------------------------------------------------------------------------
(* The theorems.                                                           *)

\* What run keeps is well typed, and right wherever run is: run of
\* vclt-gate.rs, for any requests and any meaning of the levels.
THEOREM Invariance == Spec => [](GateTypeOK /\ GateInv)
<1>1. GateTypeOK /\ GateInv /\ [Next]_vars => (GateTypeOK /\ GateInv)'
    BY NextType, NextInv
<1> QED BY InitInv, <1>1, PTL DEF Spec

\* The variables of the gate have their types.
THEOREM TypeCorrect == Spec => []GateTypeOK
BY Invariance, PTL

\* The report of a query and its verdict agree although two loops compute
\* them: certified_level and build_levels.
THEOREM ReportAgrees == Spec => []ReportMatchesVerdict
<1>1. GateTypeOK /\ GateInv => ReportMatchesVerdict
    <2> SUFFICES ASSUME GateTypeOK, GateInv, Judged("query")
                 PROVE  LET r == stdout[1] IN
                        /\ r.admissible <=> r.failed = {}
                        /\ r.admissible <=> r.certified = r.requested
                        /\ r.levels = 1..r.requested
                        /\ exit = 0 <=> r.admissible
        BY DEF ReportMatchesVerdict
    <2> DEFINE st == request.op.query
               sc == SchemaOf(request)
               k == LevelOf(st)
               cert == CertifiedLevel(st, sc)
    <2>1. Sound(request) /\ request.op.kind = "query" /\ pc = "done"
        BY DEF Judged, Sound, GateInv, Answering
    <2>2. k \in 0..10
        BY <2>1, RequestParts, OperationKinds, CertifierAssumption DEF GateTypeOK
    <2>3. ResponseTo(request) = QueryResponse(k, cert, 1..k, FailedLevels(st, sc))
        BY <2>1 DEF ResponseTo
    <2>4. stdout[1] = QueryResponse(k, cert, 1..k, FailedLevels(st, sc))
        BY <2>1, <2>3 DEF GateInv, Answering
    <2>5. /\ stdout[1].admissible = (cert # Rejected)
          /\ stdout[1].failed = FailedLevels(st, sc)
          /\ stdout[1].certified = cert
          /\ stdout[1].requested = k
          /\ stdout[1].levels = 1..k
        BY <2>4 DEF QueryResponse
    <2>6. cert # Rejected <=> FailedLevels(st, sc) = {}
        BY <2>2 DEF CertifiedLevel, PassesUpTo, FailedLevels, Rejected
    <2>7. cert # Rejected <=> cert = k
        BY <2>2 DEF CertifiedLevel, Rejected
    <2>8. ResponseTo(request).admissible = (cert # Rejected)
        BY <2>3 DEF QueryResponse
    <2>9. exit = IF cert # Rejected THEN 0 ELSE 1
        BY <2>1, <2>8 DEF ExitFor, GateInv, Answering
    <2>10. exit = 0 <=> cert # Rejected
        BY <2>9
    <2> QED BY <2>5, <2>6, <2>7, <2>10
<1> QED BY <1>1, Invariance, PTL

\* An unknown schema_version is refused as such with exit code 2, whatever the
\* rest of the request is.
THEOREM VersionRefused == Spec => []UnknownVersionRefused
<1>1. GateTypeOK /\ GateInv => UnknownVersionRefused
    <2> SUFFICES ASSUME GateTypeOK, GateInv, exit # Running,
                        request.check.read = "ok", request.check.json = "ok",
                        request.check.version = "unsupported_version"
                 PROVE  exit = 2 /\ stdout[1].error = "unsupported_version"
        BY DEF UnknownVersionRefused
    <2>1. \A j \in Checks : CheckRank[j] < CheckRank["version"] => request.check[j] = "ok"
        BY ChecksAre DEF CheckRank
    <2>2. "version" \in Checks /\ request.check["version"] # "ok"
        BY ChecksAre
    <2>3. FirstDefect(request) = "version" /\ ~Sound(request)
        BY <2>1, <2>2, FirstDefectFound DEF Sound
    <2>4. ResponseTo(request) = ErrorResponse("unsupported_version")
        BY <2>3 DEF ResponseTo
    <2>5. exit = 2 /\ stdout[1] = ErrorResponse("unsupported_version")
        BY <2>3, <2>4 DEF ExitFor, GateInv, Answering
    <2> QED BY <2>5 DEF ErrorResponse
<1> QED BY <1>1, Invariance, PTL

\* The gate implements Admission: it answers once, and its answer and its exit
\* code are functions of the request.
THEOREM GateIsPure == Spec => ImplementsAdmission
<1>1. Init => Contract!AdmissionInit
    BY DEF Init, Contract!AdmissionInit, Running, Contract!Running
<1>2. ASSUME GateTypeOK, GateInv, GateInv', [Next]_vars
      PROVE  [Contract!Answered]_<<request, stdout, exit>>
    <2>1. request' = request
        BY <1>2 DEF Next, CheckPasses, CheckFails, ParseFails, ParseRoutes, CertifyStep,
            ListLevel, AnswerQuery, AnswerTransition, Emit, vars
    <2>2. CASE pc = "done"
        BY <1>2, <2>2, ChecksAre DEF Next, CheckPasses, CheckFails, ParseFails, ParseRoutes,
            CertifyStep, ListLevel, AnswerQuery, AnswerTransition, vars
    <2>3. CASE pc # "done" /\ pc' # "done"
        BY <1>2, <2>1, <2>3 DEF GateInv, Answering
    <2>4. CASE pc # "done" /\ pc' = "done"
        <3>1. exit = Running
            BY <1>2, <2>4 DEF GateInv, Answering
        <3>2. stdout' = <<ResponseTo(request)>> /\ exit' = ExitFor(request)
            BY <1>2, <2>1, <2>4 DEF GateInv, Answering
        <3> QED BY <2>1, <3>1, <3>2 DEF Contract!Answered, Running, Contract!Running
    <2> QED BY <2>2, <2>3, <2>4
<1> QED BY <1>1, <1>2, Invariance, NextInv, PTL
        DEF Spec, ImplementsAdmission, Contract!AdmissionSpec

-----------------------------------------------------------------------------
(* What is let through.                                                    *)

\* An operation let through was sound, and is a query that passes every level
\* up to the one it requests, or a transition that is admissible.
LEMMA LetThrough ==
    ASSUME GateTypeOK, GateInv, exit = 0
    PROVE  /\ request.op.kind \in {"query", "transition"}
           /\ request.op.kind = "query" =>
                  PassesUpTo(LevelOf(request.op.query), request.op.query, SchemaOf(request))
           /\ request.op.kind = "transition" =>
                  TransitionPass(request.op.transition, SchemaOf(request))
<1>1. ExitFor(request) = 0
    BY DEF GateInv, Answering, Running
<1>2. Sound(request) /\ ResponseTo(request).admissible
    BY <1>1 DEF ExitFor
<1>3. request.op.kind \in {"query", "transition", "garbage"}
    BY RequestParts, OperationKinds DEF GateTypeOK
<1>4. request.op.kind # "garbage"
    BY <1>2 DEF ResponseTo, ParseResponse
<1>5. ASSUME request.op.kind = "query"
      PROVE  PassesUpTo(LevelOf(request.op.query), request.op.query, SchemaOf(request))
    <2>1. CertifiedLevel(request.op.query, SchemaOf(request)) # Rejected
        BY <1>2, <1>5 DEF ResponseTo, QueryResponse
    <2> QED BY <2>1 DEF CertifiedLevel
<1>6. ASSUME request.op.kind = "transition"
      PROVE  TransitionPass(request.op.transition, SchemaOf(request))
    BY <1>2, <1>6 DEF ResponseTo, TransitionResponse
<1> QED BY <1>3, <1>4, <1>5, <1>6

\* The levels of the decider that stand behind a level the parser infers: the
\* first one always, the second, third and fourth when there is a predicate.
LEMMA LevelsBehind ==
    ASSUME NEW st \in Statements, NEW sc \in Schemas \cup {EmptySchema},
           PassesUpTo(LevelOf(st), st, sc)
    PROVE  /\ SchemaBound(st, sc)
           /\ st.where \cup st.having # {} =>
                  /\ ComparisonsCompatible(st.where, sc)
                  /\ NullSafe(st, sc)
                  /\ ~HasStringLit(st.where)
<1>1. LevelOf(st) = InferRequestedLevel(st)
    BY VettingAssumption
<1>2. \A n \in 1..LevelOf(st) : LevelPass(n, st, sc)
    BY DEF PassesUpTo
<1>3. 1 \in 1..LevelOf(st)
    BY <1>1 DEF InferRequestedLevel
<1>4. st.where \cup st.having # {} =>
          2 \in 1..LevelOf(st) /\ 3 \in 1..LevelOf(st) /\ 4 \in 1..LevelOf(st)
    BY <1>1 DEF InferRequestedLevel
<1>5. \A n \in 1..4 : LevelPass(n, st, sc) <=> CheckLevel(n, st, sc)
    BY VettingAssumption
<1>6. /\ CheckLevel(1, st, sc) <=> SchemaBound(st, sc)
      /\ CheckLevel(2, st, sc) <=> ComparisonsCompatible(st.where, sc)
      /\ CheckLevel(3, st, sc) <=> NullSafe(st, sc)
      /\ CheckLevel(4, st, sc) <=> ~HasStringLit(st.where)
    BY DEF CheckLevel
<1> QED BY <1>2, <1>3, <1>4, <1>5, <1>6

\* Nothing is found in a clause that is absent.
LEMMA AbsentClause ==
    /\ PartsOf({}) = {} /\ Comparisons({}) = {} /\ FieldRefs({}) = {}
    /\ ~HasStringLit({})
BY DEF PartsOf, Comparisons, FieldRefs, HasStringLit

\* A field of an integer and a field of a string are not compatible, whichever
\* comes first.
LEMMA UnlikeTypes ==
    ASSUME NEW a, NEW b, TypesCompatible(a, b)
    PROVE  {a[1], b[1]} # {"TInt", "TString"}
<1>1. CASE TAny \in {a, b}
    BY <1>1 DEF TAny
<1>2. CASE a = b
    BY <1>2
<1>3. CASE UnderNull(a, b)
    BY <1>3 DEF UnderNull
<1>4. CASE {a, b} = {TInt, TFloat}
    <2>1. a = TFloat \/ b = TFloat
        BY <1>4
    <2> QED BY <2>1 DEF TFloat
<1> QED BY <1>1, <1>2, <1>3, <1>4 DEF TypesCompatible

\* "Unknown fields fail closed": exit code 0 for a query means that the schema
\* declares each field it mentions, in whatever clause or subquery.
THEOREM FieldsDeclared == Spec => []AdmittedFieldsDeclared
<1>1. GateTypeOK /\ GateInv => AdmittedFieldsDeclared
    <2> SUFFICES ASSUME GateTypeOK, GateInv, exit = 0, request.op.kind = "query"
                 PROVE  AdmittedFieldsDeclared
        BY DEF AdmittedFieldsDeclared
    <2> DEFINE q == request.op.query
               sc == SchemaOf(request)
    <2>1. q \in Statements /\ sc \in Schemas \cup {EmptySchema}
        BY RequestParts, OperationKinds DEF GateTypeOK
    <2>2. StatementFieldRefs(q) \subseteq DOMAIN sc
        BY <2>1, LetThrough, LevelsBehind DEF SchemaBound
    <2> QED BY <2>2 DEF AdmittedFieldsDeclared, StatementFieldRefs, FieldRefs
<1> QED BY <1>1, Invariance, PTL

\* No predicate escapes the levels made for it although the level is inferred:
\* no raw string, no integer compared with a string, no field read that may be
\* NULL without a test for it; and a transition has two subjects.
THEOREM PredicatesVetted == Spec => []AdmittedPredicatesVetted
<1>1. GateTypeOK /\ GateInv => AdmittedPredicatesVetted
    <2> SUFFICES ASSUME GateTypeOK, GateInv, exit = 0
                 PROVE  AdmittedPredicatesVetted
        BY DEF AdmittedPredicatesVetted
    <2> DEFINE op == request.op
               sc == SchemaOf(request)
               predicate == IF op.kind = "query" THEN op.query.where ELSE op.transition.evidence
    <2>1. sc \in Schemas \cup {EmptySchema} /\ op.kind \in {"query", "transition"}
        BY LetThrough, RequestParts DEF GateTypeOK
    <2>2. ASSUME op.kind = "query"
          PROVE  /\ ComparisonsCompatible(op.query.where, sc)
                 /\ NullSafe(op.query, sc)
                 /\ ~HasStringLit(op.query.where)
        <3>1. op.query \in Statements /\ PassesUpTo(LevelOf(op.query), op.query, sc)
            BY <2>2, LetThrough, RequestParts, OperationKinds DEF GateTypeOK
        <3>2. CASE op.query.where \cup op.query.having # {}
            BY <2>1, <3>1, <3>2, LevelsBehind
        <3>3. CASE op.query.where \cup op.query.having = {}
            <4>1. op.query.where = {} /\ op.query.having = {}
                BY <3>3
            <4> QED BY <4>1, AbsentClause DEF ComparisonsCompatible, NullSafe
        <3> QED BY <3>2, <3>3
    <2>3. ASSUME op.kind = "transition"
          PROVE  TransitionAdmissible(op.transition, sc)
        BY <2>1, <2>3, LetThrough, RequestParts, OperationKinds, VettingAssumption
        DEF GateTypeOK
    <2>4. StringLit \notin PartsOf(predicate) /\ ComparisonsCompatible(predicate, sc)
        BY <2>1, <2>2, <2>3 DEF TransitionAdmissible, HasStringLit
    <2>5. ASSUME NEW c \in Comparisons(predicate), NEW f \in DOMAIN sc, NEW g \in DOMAIN sc,
                 c.args = <<Field(f), Field(g)>>
          PROVE  {sc[f].ty[1], sc[g].ty[1]} # {"TInt", "TString"}
        <3>1. TypesCompatible(ResolveExprType(c.args[1], sc), ResolveExprType(c.args[2], sc))
            BY <2>4 DEF ComparisonsCompatible
        <3>2. c.args[1] = Field(f) /\ c.args[2] = Field(g)
            BY <2>5
        <3>3. ResolveExprType(Field(f), sc) = sc[f].ty /\ ResolveExprType(Field(g), sc) = sc[g].ty
            BY DEF ResolveExprType, ResolveType, Field, Node
        <3> QED BY <3>1, <3>2, <3>3, UnlikeTypes
    <2>6. ASSUME op.kind = "query", NEW clause \in {op.query.where, op.query.having},
                 NEW f \in FieldRefs(clause), ~TestedForNull(f, clause)
          PROVE  ~sc[f].nullable
        <3>1. f \notin NullGuarded(clause)
            BY <2>6 DEF NullGuarded, TestedForNull, Comparisons
        <3>2. ~IsNullable(f, sc)
            BY <2>2, <2>6, <3>1 DEF NullSafe
        <3> QED BY <3>2 DEF IsNullable
    <2>7. op.kind = "transition" /\ op.transition.verb # "NORMALISE" =>
              op.transition.left # op.transition.right
        BY <2>3 DEF TransitionAdmissible, SubjectsDistinct
    <2> QED BY <2>4, <2>5, <2>6, <2>7 DEF AdmittedPredicatesVetted
<1> QED BY <1>1, Invariance, PTL
=============================================================================
