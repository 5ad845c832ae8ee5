---------------------------- MODULE AttestProofs ----------------------------
(***************************************************************************)
(* The attestation tier, for every set of statements, schemas, byte        *)
(* strings, keys and calls and every meaning of the levels: a call answers *)
(* alike in all four ways, and a token is accepted only for what the       *)
(* certifier established.                                                  *)
(***************************************************************************)
EXTENDS Attest, CertifierProofs, TLAPS

\* A call is not the absence of one.
LEMMA CallParts ==
    ASSUME NEW c \in Calls
    PROVE  /\ c # NoCall
           /\ c.via \in {"shim", "rust"}
           /\ c.stmt \in StmtWires /\ c.schema \in SchemaWires /\ c.key \in Keys
<1>1. c \in CallType
    BY AttestAssumption
<1> QED BY <1>1 DEF CallType, NoCall

\* A byte string decodes to one statement or schema, if to any.
LEMMA DecodedOnce ==
    ASSUME NEW c \in Calls, NEW st \in StmtOf(c.stmt), NEW sc \in SchemaOf(c.schema)
    PROVE  /\ st \in Statements
           /\ StmtOf(c.stmt) = {st} /\ SchemaOf(c.schema) = {sc}
BY CallParts, AttestAssumption

\* The step of the level loop is a step of certified_level on what the
\* arguments decode to.
LEMMA LoopOfCall ==
    ASSUME AttestTypeOK, AttestInv, CertifyStep
    PROVE  CertifierTypeOK' /\ CallInv'
<1>1. /\ pc = "certify" /\ call \in Calls /\ Decodes(call)
      /\ UNCHANGED <<pc, call, rc, err, out, before, issued, answer>>
    BY DEF CertifyStep, AttestInv, CallInv
<1>2. PICK st \in StmtOf(call.stmt), sc \in SchemaOf(call.schema) :
          Accept(st, sc) \/ Reject(st, sc) \/ Certify(st)
    BY DEF CertifyStep
<1>3. st \in Statements /\ StmtOf(call.stmt) = {st} /\ SchemaOf(call.schema) = {sc}
    BY <1>1, DecodedOnce
<1>4. LoopInv(st, sc) /\ verdict = Unknown
    BY <1>1, <1>2 DEF AttestInv, CallInv, Accept, Reject, Certify
<1>5. CertifierTypeOK'
    BY <1>2, <1>3, LoopTypes DEF AttestTypeOK
<1>6. LoopInv(st, sc)'
    BY <1>2, <1>3, <1>4, LoopStep DEF AttestTypeOK, CertifierTypeOK
<1>7. \A x \in StmtOf(call.stmt), y \in SchemaOf(call.schema) : LoopInv(x, y)'
    BY <1>3, <1>6
<1>8. pc' = "certify" /\ call' = call /\ Decodes(call)'
    BY <1>1 DEF Decodes, Defect
<1> QED BY <1>1, <1>5, <1>7, <1>8 DEF CallInv

\* Where the loop has ended with a level, that is the level of what was decoded.
LEMMA VerdictOfCall ==
    ASSUME AttestTypeOK, AttestInv, pc = "certify", verdict # Unknown
    PROVE  \E st \in StmtOf(call.stmt), sc \in SchemaOf(call.schema) :
               verdict = CertifiedLevel(st, sc)
<1>1. call \in Calls /\ Decodes(call)
    BY DEF AttestInv, CallInv
<1>2. PICK st \in StmtOf(call.stmt), sc \in SchemaOf(call.schema) : TRUE
    BY <1>1 DEF Decodes
<1>3. LoopInv(st, sc)
    BY <1>2 DEF AttestInv, CallInv
<1> QED BY <1>2, <1>3 DEF LoopInv

\* What mint signs is a signature.
LEMMA SignatureType ==
    ASSUME NEW c \in Calls, NEW n \in 0..10
    PROVE  /\ Sign(c.key, SignedMessage(c.stmt, c.schema, n)) \in Signatures
           /\ Sign(c.key, SignedMessage(c.stmt, c.schema, n)).message[1] = c.stmt
           /\ Sign(c.key, SignedMessage(c.stmt, c.schema, n)).message[2] = c.schema
           /\ Sign(c.key, SignedMessage(c.stmt, c.schema, n)).message[3] = n
BY CallParts DEF Sign, SignedMessage, Signatures

-----------------------------------------------------------------------------
(* Types.                                                                  *)

\* Init establishes both invariants.
LEMMA InitInv == Init => AttestTypeOK /\ AttestInv
<1> SUFFICES ASSUME Init PROVE AttestTypeOK /\ AttestInv
    OBVIOUS
<1>1. AttestTypeOK
    BY DEF Init, CertifierInit, AttestTypeOK, CertifierTypeOK, Unknown, Messages
<1>2. AttestInv
    BY DEF Init, CertifierInit, AttestInv, CallInv, Honest, DeliveryInv, AcceptedInv, Rejected
<1> QED BY <1>1, <1>2

\* A call that ends keeps the types if its code and its message are ones.
LEMMA EndsType ==
    ASSUME AttestTypeOK, NEW code \in -1..10, NEW message \in Messages, Ends(code, message),
           call' \in Calls \cup {NoCall}, before' \in {before, out}
    PROVE  AttestTypeOK'
<1>1. /\ pc' = "idle" /\ rc' = code /\ err' = message
      /\ UNCHANGED <<lvl, verdict, out, issued, answer>>
    BY DEF Ends, certifierVars
<1>2. \A buffer \in {out', before'} :
          buffer = <<>> \/ \E s \in issued' : buffer = <<[level |-> s.message[3], sig |-> s]>>
    BY <1>1 DEF AttestTypeOK
<1> QED BY <1>1, <1>2 DEF AttestTypeOK, CertifierTypeOK

\* A buffer that holds an issued token does so after more have been issued.
LEMMA NextType == AttestTypeOK /\ AttestInv /\ [Next]_vars => AttestTypeOK'
<1> SUFFICES ASSUME AttestTypeOK, AttestInv, [Next]_vars
             PROVE  AttestTypeOK'
    OBVIOUS
<1>1. CASE InitSession
    BY <1>1, EndsType DEF InitSession, Messages
<1>2. CASE VerifyQuery
    <2>2. Rejected \in -1..10
        BY DEF Rejected
    <2>1. PICK message \in {"null", "empty", "no backend"} : Ends(Rejected, message)
        BY <1>2 DEF VerifyQuery
    <2>3. message \in Messages
        BY <2>1 DEF Messages
    <2>4. call' \in Calls \cup {NoCall} /\ before' \in {before, out}
        BY <1>2 DEF VerifyQuery
    <2> QED BY <2>1, <2>2, <2>3, <2>4, EndsType
<1>4. CASE ShimRefuses
    <2>1. Defect(call) \in Messages
        BY DEF Defect, Messages
    <2> QED BY <1>4, <2>1, EndsType DEF ShimRefuses, Rejected, AttestTypeOK
<1>11. CASE ShimReturns
    <2>1. LevelFromRc(rc) \in -1..10
        BY DEF LevelFromRc, Rejected
    <2>2. PICK message \in {"rejected", "range", err} : Ends(LevelFromRc(rc), message)
        BY <1>11 DEF ShimReturns
    <2>3. message \in Messages /\ call' = call /\ before' = before
        BY <1>11 DEF ShimReturns, AttestTypeOK, Messages
    <2> QED BY <2>1, <2>2, <2>3, EndsType DEF AttestTypeOK
<1>12. CASE RustReturns
    BY <1>12, EndsType DEF RustReturns, AttestTypeOK
<1> USE DEF AttestTypeOK, CertifierTypeOK, certifierVars
<1>3. CASE \E c \in Calls : Begin(c)
    BY <1>3 DEF Begin, Messages
<1>5. CASE ShimCalls
    BY <1>5 DEF ShimCalls
<1>6. CASE BackendRefuses
    BY <1>6 DEF BackendRefuses, Returns, Rejected, Unknown
<1>7. CASE BackendDecodes
    BY <1>7 DEF BackendDecodes
<1>8. CASE CertifyStep
    BY <1>8, LoopOfCall DEF CertifyStep
<1>9. CASE Mint
    <2> DEFINE sig == Sign(call.key, SignedMessage(call.stmt, call.schema, verdict))
               token == [level |-> verdict, sig |-> sig]
    <2>1. call \in Calls /\ verdict \in 0..10
        BY <1>9 DEF Mint, Mintable, AttestInv, CallInv
    <2>2. sig \in Signatures /\ sig.message[3] = verdict
        BY <2>1, SignatureType
    <2> HIDE DEF sig
    <2>3. /\ pc' = "return" /\ rc' = verdict /\ issued' = issued \cup {sig}
          /\ out' = <<token>> /\ lvl' = 1 /\ verdict' = Unknown
          /\ UNCHANGED <<call, err, before, answer>>
        BY <1>9 DEF Mint, Returns, sig
    <2>4. token = [level |-> sig.message[3], sig |-> sig]
        BY <2>2
    <2> HIDE DEF token
    <2>5. \E s \in issued' : out' = <<[level |-> s.message[3], sig |-> s]>>
        BY <2>3, <2>4
    <2>6. before' = <<>> \/ \E s \in issued' : before' = <<[level |-> s.message[3], sig |-> s]>>
        BY <2>3
    <2> QED BY <2>1, <2>2, <2>3, <2>5, <2>6 DEF Unknown
<1>10. CASE Decline
    BY <1>10 DEF Decline, Returns, Rejected, Unknown
<1>13. CASE Consume
    BY <1>13 DEF Consume
<1>14. CASE UNCHANGED vars
    BY <1>14 DEF vars
<1> QED
    BY <1>1, <1>2, <1>3, <1>4, <1>5, <1>6, <1>7, <1>8, <1>9, <1>10, <1>11, <1>12, <1>13, <1>14
    DEF Next, CallStep

-----------------------------------------------------------------------------
(* The inductive invariant.                                                *)

\* Only a call in the loop moves it, and only a call under way has one.
LEMMA NextCall == AttestTypeOK /\ AttestInv /\ [Next]_vars => CallInv'
<1> SUFFICES ASSUME AttestTypeOK, AttestInv, [Next]_vars
             PROVE  CallInv'
    OBVIOUS
<1> USE DEF AttestInv, CallInv, certifierVars
<1>1. CASE InitSession
    BY <1>1 DEF InitSession, Ends
<1>2. CASE VerifyQuery
    BY <1>2 DEF VerifyQuery, Ends
<1>3. CASE \E c \in Calls : Begin(c)
    BY <1>3 DEF Begin
<1>4. CASE ShimRefuses
    BY <1>4 DEF ShimRefuses, Ends
<1>5. CASE ShimCalls
    BY <1>5 DEF ShimCalls
<1>6. CASE BackendRefuses
    BY <1>6 DEF BackendRefuses, Returns
<1>7. CASE BackendDecodes
    <2>1. /\ pc' = "certify" /\ lvl' = 1 /\ verdict' = Unknown /\ call' = call
          /\ call \in Calls /\ Decodes(call)
        BY <1>7 DEF BackendDecodes
    <2>2. \A st \in StmtOf(call.stmt), sc \in SchemaOf(call.schema) : LoopInv(st, sc)
        BY <1>7, <2>1, DecodedOnce, LoopBegins DEF BackendDecodes
    <2>3. \A st \in StmtOf(call.stmt), sc \in SchemaOf(call.schema) : LoopInv(st, sc)'
        BY <1>7, <2>2 DEF BackendDecodes, LoopInv
    <2> QED BY <2>1, <2>3 DEF Decodes, Defect
<1>8. CASE CertifyStep
    BY <1>8, LoopOfCall
<1>9. CASE Mint
    BY <1>9 DEF Mint, Returns
<1>10. CASE Decline
    BY <1>10 DEF Decline, Returns
<1>11. CASE ShimReturns
    BY <1>11 DEF ShimReturns, Ends
<1>12. CASE RustReturns
    BY <1>12 DEF RustReturns, Ends
<1>13. CASE UNCHANGED <<certifierVars, pc, call>>
    BY <1>13 DEF Decodes, Defect, LoopInv
<1>14. Consume \/ UNCHANGED vars => UNCHANGED <<certifierVars, pc, call>>
    BY DEF Consume, vars
<1> QED
    BY <1>1, <1>2, <1>3, <1>4, <1>5, <1>6, <1>7, <1>8, <1>9, <1>10, <1>11, <1>12, <1>13, <1>14
    DEF Next, CallStep

\* Mint is the only step that signs, and it signs the verdict.
LEMMA NextHonest == AttestTypeOK /\ AttestInv /\ [Next]_vars => Honest'
<1> SUFFICES ASSUME AttestTypeOK, AttestInv, [Next]_vars
             PROVE  Honest'
    OBVIOUS
<1>1. CASE Mint
    <2> DEFINE sig == Sign(call.key, SignedMessage(call.stmt, call.schema, verdict))
    <2>1. call \in Calls /\ pc = "certify" /\ verdict \in 0..10
        BY <1>1 DEF Mint, Mintable, AttestInv, CallInv
    <2>2. /\ sig.message[1] = call.stmt /\ sig.message[2] = call.schema
          /\ sig.message[3] = verdict
        BY <2>1, SignatureType
    <2>3. \E st \in StmtOf(call.stmt), sc \in SchemaOf(call.schema) :
              verdict = CertifiedLevel(st, sc)
        BY <2>1, VerdictOfCall DEF Unknown
    <2> HIDE DEF sig
    <2>4. issued' = issued \cup {sig}
        BY <1>1 DEF Mint, Returns, sig
    <2> QED BY <2>2, <2>3, <2>4 DEF AttestInv, Honest, CertifiedLevel, PassesUpTo
<1>2. CASE issued' = issued
    BY <1>2 DEF AttestInv, Honest, CertifiedLevel, PassesUpTo
<1>3. Mint \/ issued' = issued
    BY DEF Next, CallStep, InitSession, VerifyQuery, Begin, ShimRefuses, ShimCalls,
        BackendRefuses, BackendDecodes, CertifyStep, Decline, ShimReturns, RustReturns,
        Consume, Ends, Returns, vars
<1> QED BY <1>1, <1>2, <1>3

\* What a consumer accepts was signed, and no signature is ever unmade.
LEMMA NextAccepted == AttestTypeOK /\ AttestInv /\ [Next]_vars => AcceptedInv'
<1> SUFFICES ASSUME AttestTypeOK, AttestInv, [Next]_vars
             PROVE  AcceptedInv'
    OBVIOUS
<1>1. CASE Consume
    <2>1. PICK stmt \in StmtWires, schema \in SchemaWires, vk \in Keys,
               level \in ClaimedLevels, sig \in issued \cup {Noise} :
              LET token == [level |-> level, sig |-> sig] IN
                  /\ Verify(stmt, schema, token, vk) # Rejected
                  /\ answer' = [stmt |-> stmt, schema |-> schema, key |-> vk,
                                level |-> Verify(stmt, schema, token, vk)]
        BY <1>1 DEF Consume
    <2>2. /\ sig = Sign(vk, SignedMessage(stmt, schema, level))
          /\ answer' = [stmt |-> stmt, schema |-> schema, key |-> vk, level |-> level]
        BY <2>1 DEF Verify
    <2>3. sig.message # <<>>
        BY <2>2 DEF Sign, SignedMessage
    <2>4. sig \in issued
        BY <2>3 DEF Noise
    <2>5. issued' = issued
        BY <1>1 DEF Consume
    <2>6. Sign(answer'.key, SignedMessage(answer'.stmt, answer'.schema, answer'.level)) = sig
        BY <2>2 DEF Sign, SignedMessage
    <2> QED BY <2>4, <2>5, <2>6 DEF AcceptedInv, Sign, SignedMessage
<1>2. CASE answer' = answer /\ issued \subseteq issued'
    BY <1>2 DEF AttestInv, AcceptedInv, Sign, SignedMessage
<1>3. Consume \/ (answer' = answer /\ issued \subseteq issued')
    BY DEF Next, CallStep, InitSession, VerifyQuery, Begin, ShimRefuses, ShimCalls,
        BackendRefuses, BackendDecodes, CertifyStep, Mint, Decline, ShimReturns, RustReturns,
        Ends, Returns, vars
<1> QED BY <1>1, <1>2, <1>3

\* A call that has ended answers as its backend did, and the backend writes
\* the buffer only with a level.
LEMMA NextDelivery == AttestTypeOK /\ AttestInv /\ [Next]_vars => DeliveryInv'
<1> SUFFICES ASSUME AttestTypeOK, AttestInv, [Next]_vars
             PROVE  DeliveryInv'
    OBVIOUS
<1> USE DEF AttestInv, DeliveryInv, Delivered
<1>0. /\ pc # "idle" => call # NoCall /\ call.via \in {"shim", "rust"}
      /\ NoCall.via = "none" /\ rc \in -1..10
    BY CallParts DEF CallInv, NoCall, AttestTypeOK
<1>1. CASE InitSession
    BY <1>0, <1>1 DEF InitSession, Ends, Rejected
<1>2. CASE VerifyQuery
    BY <1>0, <1>2 DEF VerifyQuery, Ends, Rejected
<1>3. CASE \E c \in Calls : Begin(c)
    <2>1. PICK c \in Calls : Begin(c)
        BY <1>3
    <2> QED BY <2>1 DEF Begin
<1>4. CASE ShimRefuses
    BY <1>0, <1>4 DEF ShimRefuses, Ends
<1>5. CASE ShimCalls
    BY <1>5 DEF ShimCalls
<1>6. CASE BackendRefuses
    BY <1>6 DEF BackendRefuses, Returns
<1>7. CASE BackendDecodes
    BY <1>7 DEF BackendDecodes
<1>8. CASE CertifyStep
    BY <1>8 DEF CertifyStep
<1>9. CASE Mint
    BY <1>9 DEF Mint, Mintable, Returns, Rejected
<1>10. CASE Decline
    BY <1>10 DEF Decline, Returns
<1>11. CASE ShimReturns
    <2>1. LevelFromRc(rc) = rc
        BY <1>0 DEF LevelFromRc, Rejected
    <2>2. rc < 0 <=> rc = Rejected
        BY <1>0 DEF Rejected
    <2>3. /\ pc = "return" /\ call.via = "shim" /\ err = "none"
          /\ pc' = "idle" /\ rc' = rc /\ call' = call /\ before' = before /\ out' = out
          /\ err' = IF rc = Rejected THEN "rejected" ELSE err
        BY <1>11, <2>1, <2>2 DEF ShimReturns, Ends
    <2> QED BY <1>0, <2>3
<1>12. CASE RustReturns
    BY <1>0, <1>12 DEF RustReturns, Ends
<1>13. CASE UNCHANGED <<pc, call, rc, err, out, before>>
    BY <1>13
<1>14. Consume \/ UNCHANGED vars => UNCHANGED <<pc, call, rc, err, out, before>>
    BY DEF Consume, vars
<1> QED
    BY <1>1, <1>2, <1>3, <1>4, <1>5, <1>6, <1>7, <1>8, <1>9, <1>10, <1>11, <1>12, <1>13, <1>14
    DEF Next, CallStep

-----------------------------------------------------------------------------
(* The theorems.                                                           *)

\* vclut_verify_wire, mint and a consumer keep AttestInv, for any
\* statements, keys and calls.
THEOREM Invariance == Spec => [](AttestTypeOK /\ AttestInv)
<1>1. AttestTypeOK /\ AttestInv /\ [Next]_vars => (AttestTypeOK /\ AttestInv)'
    BY NextType, NextCall, NextHonest, NextAccepted, NextDelivery DEF AttestInv
<1> QED BY InitInv, <1>1, PTL DEF Spec

\* The variables of the shim, the backend and the consumer have their types,
\* and a buffer never holds a token that nobody issued.
THEOREM TypeCorrect == Spec => []AttestTypeOK
BY Invariance, PTL

\* A call of vclut_verify_wire answers alike in all four ways, and a rejection
\* leaves the caller's buffer as it was.
THEOREM ChannelsCorrect == Spec => []ChannelsAgree
<1>1. AttestTypeOK /\ AttestInv => ChannelsAgree
    <2> SUFFICES ASSUME AttestTypeOK, AttestInv, pc = "idle"
                 PROVE  /\ call.via # "rust" => (rc = Rejected <=> err # "none")
                        /\ IF call = NoCall \/ rc = Rejected THEN out = before
                           ELSE /\ out # <<>>
                                /\ rc >= 0
                                /\ Verify(call.stmt, call.schema, out[1], call.key) = rc
        BY DEF ChannelsAgree
    <2>1. /\ IF call = NoCall THEN out = before ELSE Delivered(rc)
          /\ call.via # "rust" => (rc = Rejected <=> err # "none")
        BY DEF AttestInv, DeliveryInv
    <2>2. rc \in -1..10
        BY DEF AttestTypeOK
    <2>3. CASE call # NoCall /\ rc # Rejected
        <3> DEFINE sig == Sign(call.key, SignedMessage(call.stmt, call.schema, rc))
        <3>1. out = <<[level |-> rc, sig |-> sig]>>
            BY <2>1, <2>3 DEF Delivered
        <3> HIDE DEF sig
        <3>2. out # <<>> /\ out[1].level = rc /\ out[1].sig = sig
            BY <3>1
        <3>3. rc \in 0..10
            BY <2>2, <2>3 DEF Rejected
        <3>4. Verify(call.stmt, call.schema, out[1], call.key) = rc
            BY <3>2, <3>3 DEF Verify, sig
        <3> QED BY <2>1, <2>3, <3>2, <3>3, <3>4
    <2>4. CASE call = NoCall \/ rc = Rejected
        BY <2>1, <2>4 DEF Delivered
    <2> QED BY <2>3, <2>4
<1> QED BY <1>1, Invariance, PTL

\* Whatever verify accepts, certified_level gives the level of the bytes it is
\* accepted for, and the holder of the trusted key has signed it.
THEOREM AcceptedCorrect == Spec => []AcceptedIsCertified
<1>1. AttestInv => AcceptedIsCertified
    <2> SUFFICES ASSUME AttestInv, answer # NoAnswer
                 PROVE  /\ \E st \in StmtOf(answer.stmt), sc \in SchemaOf(answer.schema) :
                               answer.level = CertifiedLevel(st, sc)
                        /\ Sign(answer.key, SignedMessage(answer.stmt, answer.schema, answer.level))
                               \in issued
        BY DEF AcceptedIsCertified
    <2> DEFINE sig == Sign(answer.key, SignedMessage(answer.stmt, answer.schema, answer.level))
    <2>1. sig \in issued
        BY DEF AttestInv, AcceptedInv
    <2>2. /\ sig.message[1] = answer.stmt /\ sig.message[2] = answer.schema
          /\ sig.message[3] = answer.level
        BY DEF Sign, SignedMessage
    <2> HIDE DEF sig
    <2>3. \E st \in StmtOf(answer.stmt), sc \in SchemaOf(answer.schema) :
              answer.level = CertifiedLevel(st, sc)
        BY <2>1, <2>2 DEF AttestInv, Honest
    <2> QED BY <2>1, <2>3 DEF sig
<1> QED BY <1>1, Invariance, PTL
=============================================================================
