------------------------------- MODULE Attest -------------------------------
(***************************************************************************)
(* The attestation tier: the C shim ffi/zig/src/lib.zig over the Rust      *)
(* backend ffi/rust/attest, and a consumer that verifies tokens.           *)
(*                                                                         *)
(* A call answers by four ways at once: its return value, the caller's     *)
(* buffer, the message of vclut_last_error, and the token that outlives    *)
(* it.  The message is threadlocal and everything else of a call is on the *)
(* stack, so one thread of calls is modelled; tokens go anywhere.          *)
(*                                                                         *)
(* SHA-256 is taken to have no collisions, and an Ed25519 signature to be  *)
(* known only to whoever holds the key or was given it.                    *)
(***************************************************************************)
EXTENDS Certifier

CONSTANTS
    StmtWires,      \* byte strings passed as a statement
    SchemaWires,    \* and as a schema
    StmtOf(_),      \* what a statement's bytes decode to: one value or none
    SchemaOf(_),    \* and a schema's
    Keys,           \* key pairs of certifiers
    Calls,          \* the calls of vclut_verify_wire and vclut_rs_verify made
    ClaimedLevels   \* level bytes a consumer may be shown

SeedLen == 32
TokenLen == 65

CallType ==
    [via : {"shim", "rust"}, stmt : StmtWires, schema : SchemaWires, key : Keys,
     nulls : SUBSET {"stmt", "schema", "sk", "out"}, skLen : Nat, outCap : Nat]

ASSUME AttestAssumption ==
    /\ \A w \in StmtWires :
           StmtOf(w) \subseteq Statements /\ \A x, y \in StmtOf(w) : x = y
    /\ \A w \in SchemaWires :
           SchemaOf(w) \subseteq Schemas /\ \A x, y \in SchemaOf(w) : x = y
    /\ Calls \subseteq CallType
    /\ ClaimedLevels \subseteq 0..255

VARIABLES
    pc,      \* where the call is, "idle" between calls
    call,    \* its arguments
    rc,      \* what the last call, or the backend under it, returned
    err,     \* the thread's last error, "none" if it is empty
    out,     \* the caller's buffer: empty, or a token
    before,  \* what it was when the call began
    issued,  \* the signatures made so far
    answer   \* what a consumer last accepted

vars == <<certifierVars, pc, call, rc, err, out, before, issued, answer>>

NoCall == [via |-> "none"]
NoAnswer == [level |-> Rejected]

\* A mistake: the schema is not part of what is signed.
SignedMessageSansSchema(stmt, schema, level) == <<stmt, "schema", level>>

\* signed_message, but for DOMAIN, which is always the same.
SignedMessage(stmt, schema, level) == <<stmt, schema, level>>

Sign(key, message) == [key |-> key, message |-> message]

\* Bytes that are nobody's signature.
Noise == [key |-> "none", message |-> <<>>]

Signatures == [key : Keys, message : StmtWires \X SchemaWires \X (0..10)]

\* verify of the attest crate.
Verify(stmt, schema, token, vk) ==
    IF token.level <= 10 /\ token.sig = Sign(vk, SignedMessage(stmt, schema, token.level))
    THEN token.level ELSE Rejected

\* The preconditions of vclut_verify_wire, in the order they are tested;
\* vclut_rs_verify tests the same ones again.
Defect(c) ==
    IF c.nulls # {} THEN "null"
    ELSE IF c.skLen # SeedLen THEN "seed"
    ELSE IF c.outCap < TokenLen THEN "capacity"
    ELSE "none"

\* levelFromRc, of which null is Rejected here.
LevelFromRc(n) == IF n \in 0..10 THEN n ELSE Rejected

\* A mistake: a rejection is signed like a level.
MintableAny(v) == v # Unknown

\* mint signs only a level that is one.
Mintable(v) == v \in 0..10

Messages == {"none", "null", "seed", "capacity", "rejected", "range", "empty", "no backend"}

AttestTypeOK ==
    /\ CertifierTypeOK
    /\ pc \in {"idle", "checks", "backend", "certify", "return"}
    /\ call \in Calls \cup {NoCall}
    /\ rc \in -1..10
    /\ err \in Messages
    /\ issued \subseteq Signatures
    /\ \A buffer \in {out, before} :
           buffer = <<>> \/ \E s \in issued : buffer = <<[level |-> s.message[3], sig |-> s]>>

Init ==
    /\ CertifierInit
    /\ pc = "idle" /\ call = NoCall
    /\ rc = 0 /\ err = "none"
    /\ out = <<>> /\ before = <<>>
    /\ issued = {} /\ answer = NoAnswer

-----------------------------------------------------------------------------
(* Calls that end at once.                                                 *)

Ends(code, message) ==
    /\ pc' = "idle"
    /\ rc' = code
    /\ err' = message
    /\ UNCHANGED <<certifierVars, out, issued, answer>>

\* vclut_init.
InitSession ==
    /\ pc = "idle"
    /\ call' = NoCall /\ before' = out
    /\ Ends(0, "none")

\* vclut_verify_query: a NULL query, an empty one, or any other.
VerifyQuery ==
    /\ pc = "idle"
    /\ call' = NoCall /\ before' = out
    /\ \E message \in {"null", "empty", "no backend"} : Ends(Rejected, message)

-----------------------------------------------------------------------------
(* vclut_verify_wire and vclut_rs_verify.                                  *)

\* A mistake: the message of an earlier call is not cleared.
BeginUncleared(c) ==
    /\ pc = "idle"
    /\ call' = c /\ before' = out
    /\ pc' = IF c.via = "shim" THEN "checks" ELSE "backend"
    /\ UNCHANGED <<certifierVars, rc, err, out, issued, answer>>

\* The shim clears the message; the backend, called by itself, knows of none.
Begin(c) ==
    /\ pc = "idle"
    /\ call' = c /\ before' = out
    /\ pc' = IF c.via = "shim" THEN "checks" ELSE "backend"
    /\ err' = IF c.via = "shim" THEN "none" ELSE err
    /\ UNCHANGED <<certifierVars, rc, out, issued, answer>>

ShimRefuses ==
    /\ pc = "checks"
    /\ Defect(call) # "none"
    /\ Ends(Rejected, Defect(call))
    /\ UNCHANGED <<call, before>>

ShimCalls ==
    /\ pc = "checks"
    /\ Defect(call) = "none"
    /\ pc' = "backend"
    /\ UNCHANGED <<certifierVars, call, rc, err, out, before, issued, answer>>

Decodes(c) == Defect(c) = "none" /\ StmtOf(c.stmt) # {} /\ SchemaOf(c.schema) # {}

\* What the backend returns, having signed and written or not.  The loop's
\* variables are gone with its frame.
Returns(n, signed, buffer) ==
    /\ pc' = "return"
    /\ rc' = n
    /\ issued' = issued \cup signed
    /\ out' = buffer
    /\ lvl' = 1 /\ verdict' = Unknown
    /\ UNCHANGED <<call, err, before, answer>>

\* An argument that is none, or bytes that do not decode.
BackendRefuses ==
    /\ pc = "backend"
    /\ ~Decodes(call)
    /\ Returns(Rejected, {}, out)

BackendDecodes ==
    /\ pc = "backend"
    /\ Decodes(call)
    /\ pc' = "certify"
    /\ UNCHANGED <<certifierVars, call, rc, err, out, before, issued, answer>>

\* certified_level.
CertifyStep ==
    /\ pc = "certify"
    /\ \E st \in StmtOf(call.stmt), sc \in SchemaOf(call.schema) :
           Accept(st, sc) \/ Reject(st, sc) \/ Certify(st)
    /\ UNCHANGED <<pc, call, rc, err, out, before, issued, answer>>

\* mint, and the token written into the buffer.
Mint ==
    /\ pc = "certify"
    /\ Mintable(verdict)
    /\ LET sig == Sign(call.key, SignedMessage(call.stmt, call.schema, verdict)) IN
           Returns(verdict, {sig}, <<[level |-> verdict, sig |-> sig]>>)

Decline ==
    /\ pc = "certify"
    /\ verdict # Unknown /\ ~Mintable(verdict)
    /\ Returns(Rejected, {}, out)

\* Back in the shim, which has a message for what the backend does not
\* certify and for a level that is none.
ShimReturns ==
    /\ pc = "return" /\ call.via = "shim"
    /\ Ends(LevelFromRc(rc),
            IF rc < 0 THEN "rejected"
            ELSE IF LevelFromRc(rc) = Rejected THEN "range" ELSE err)
    /\ UNCHANGED <<call, before>>

RustReturns ==
    /\ pc = "return" /\ call.via = "rust"
    /\ Ends(rc, err)
    /\ UNCHANGED <<call, before>>

CallStep ==
    \/ ShimRefuses \/ ShimCalls
    \/ BackendRefuses \/ BackendDecodes \/ CertifyStep \/ Mint \/ Decline
    \/ ShimReturns \/ RustReturns

-----------------------------------------------------------------------------
(* A consumer is shown a statement, a schema and a token, any part of      *)
(* which may be another's or no one's, and trusts a key.                   *)

Consume ==
    /\ \E stmt \in StmtWires, schema \in SchemaWires, vk \in Keys,
          level \in ClaimedLevels, sig \in issued \cup {Noise} :
           LET token == [level |-> level, sig |-> sig] IN
               /\ Verify(stmt, schema, token, vk) # Rejected
               /\ answer' = [stmt |-> stmt, schema |-> schema, key |-> vk,
                             level |-> Verify(stmt, schema, token, vk)]
    /\ UNCHANGED <<certifierVars, pc, call, rc, err, out, before, issued>>

Next ==
    \/ InitSession \/ VerifyQuery
    \/ \E c \in Calls : Begin(c)
    \/ CallStep
    \/ Consume

Spec == Init /\ [][Next]_vars

\* A call waits for nothing.  Nobody has to make one, or to verify a token.
FairSpec == Spec /\ WF_vars(CallStep)

-----------------------------------------------------------------------------
(* Properties.                                                             *)

\* The four ways agree (lib.zig:171-177).  A rejection leaves the buffer as
\* it was, whatever token is in it, and has a message; a level comes with
\* the token of this very call, which verifies, and without a message left
\* over from an earlier one.
ChannelsAgree ==
    pc = "idle" =>
        /\ call.via # "rust" => (rc = Rejected <=> err # "none")
        /\ IF call = NoCall \/ rc = Rejected THEN out = before
           ELSE /\ out # <<>>
                /\ rc >= 0
                /\ Verify(call.stmt, call.schema, out[1], call.key) = rc

\* "It cannot be forged, transplanted onto a different query/schema, or have
\* its level escalated" (attest lib.rs:17-18): whatever a consumer accepts,
\* the bytes it holds have that level by certified_level, and the owner of
\* the key it trusts has signed it.
AcceptedIsCertified ==
    answer # NoAnswer =>
        /\ \E st \in StmtOf(answer.stmt), sc \in SchemaOf(answer.schema) :
               answer.level = CertifiedLevel(st, sc)
        /\ Sign(answer.key, SignedMessage(answer.stmt, answer.schema, answer.level)) \in issued

\* Every call returns: the level loop ends, and no refusal is forgotten.
CallReturns == (pc # "idle") ~> (pc = "idle")

-----------------------------------------------------------------------------
(* What makes them hold at every step of a call.                           *)

\* A call under way has arguments, and the level loop runs only in its place.
CallInv ==
    /\ pc # "idle" => call \in Calls
    /\ IF pc = "certify"
       THEN /\ Decodes(call)
            /\ \A st \in StmtOf(call.stmt), sc \in SchemaOf(call.schema) : LoopInv(st, sc)
       ELSE lvl = 1 /\ verdict = Unknown

\* Nothing is signed but a level that certified_level establishes.
Honest ==
    \A s \in issued :
        \E st \in StmtOf(s.message[1]), sc \in SchemaOf(s.message[2]) :
            s.message[3] = CertifiedLevel(st, sc)

\* What the backend has left when it returns n.
Delivered(n) ==
    IF n = Rejected THEN out = before
    ELSE out = <<[level |-> n,
                  sig |-> Sign(call.key, SignedMessage(call.stmt, call.schema, n))]>>

DeliveryInv ==
    /\ pc \in {"checks", "backend", "certify"} => out = before
    /\ pc # "idle" /\ call.via = "shim" => err = "none"
    /\ pc = "return" => Delivered(rc)
    /\ pc = "idle" =>
           /\ IF call = NoCall THEN out = before ELSE Delivered(rc)
           /\ call.via # "rust" => (rc = Rejected <=> err # "none")

AcceptedInv ==
    answer # NoAnswer =>
        Sign(answer.key, SignedMessage(answer.stmt, answer.schema, answer.level)) \in issued

AttestInv == CallInv /\ Honest /\ DeliveryInv /\ AcceptedInv
=============================================================================
