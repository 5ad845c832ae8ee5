----------------------------- MODULE Admission -----------------------------
(***************************************************************************)
(* What docs/vclt-gate-contract.adoc promises of the gate: "a pure         *)
(* function of its input".  One request in, one response and one exit code *)
(* out, and both are functions of the request alone.                       *)
(***************************************************************************)
EXTENDS Integers

CONSTANTS
    Requests,     \* what a consumer may submit
    Response(_),  \* the response a request calls for
    ExitCode(_)   \* and the exit code

VARIABLES
    request,      \* the request
    stdout,       \* the responses printed
    exit          \* the exit code, Running until the gate ends

Running == -1

AdmissionInit ==
    /\ request \in Requests
    /\ stdout = <<>>
    /\ exit = Running

Answered ==
    /\ exit = Running
    /\ stdout' = <<Response(request)>>
    /\ exit' = ExitCode(request)
    /\ UNCHANGED request

AdmissionSpec == AdmissionInit /\ [][Answered]_<<request, stdout, exit>>
=============================================================================
