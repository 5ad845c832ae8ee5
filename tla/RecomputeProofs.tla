-------------------------- MODULE RecomputeProofs --------------------------
(***************************************************************************)
(* The recompute tier never makes a level up, whatever it is sent and      *)
(* whatever the levels mean.                                               *)
(*                                                                         *)
(* Then, with the levels of the decider (ConformanceAssumption, which      *)
(* nothing before that part uses): the port against the corpus for every   *)
(* statement, every schema and every way of walking an expression; and the *)
(* cycle test of the corpus against what it is for, for every finite set   *)
(* of agents (AgentsAssumption).                                           *)
(***************************************************************************)
EXTENDS Conformance, CertifierProofs, Induction, FiniteSetTheorems, TLAPS

\* What the call has found out, wherever it is.
CallInv ==
    /\ stmt \in AtMostOne(Statements) /\ schema \in AtMostOne(Schemas)
    /\ pc = "called" => lvl = 1 /\ verdict = Unknown
    /\ pc = "certify" =>
          /\ ~null /\ stmt # {} /\ schema # {}
          /\ \A st \in stmt, sc \in schema : LoopInv(st, sc)

RecomputeInv == RecomputeTypeOK /\ CallInv /\ NeverFabricated

\* Bytes that decode do so to one statement and one schema.
LEMMA DecodedOnce ==
    ASSUME CallInv, NEW st \in stmt, NEW sc \in schema
    PROVE  st \in Statements /\ stmt = {st} /\ schema = {sc}
BY DEF CallInv, AtMostOne

LEMMA InitInv == Init => RecomputeInv
BY DEF Init, RecomputeInv, RecomputeTypeOK, CertifierTypeOK, CertifierInit, CallInv,
       NeverFabricated, Unknown

LEMMA NextInv == RecomputeInv /\ [Next]_vars => RecomputeInv'
<1> SUFFICES ASSUME RecomputeInv, [Next]_vars
             PROVE  RecomputeInv'
    OBVIOUS
<1> USE DEF RecomputeInv
<1>1. CASE Refuse
    <2>1. RecomputeTypeOK'
        BY <1>1 DEF Refuse, Return, RecomputeTypeOK, CertifierTypeOK, certifierVars, Rejected
    <2>2. CallInv'
        BY <1>1 DEF Refuse, Return, CallInv, args
    <2>3. NeverFabricated'
        BY <1>1 DEF Refuse, Return, NeverFabricated, args
    <2> QED BY <2>1, <2>2, <2>3
<1>2. CASE Decode
    <2>1. lvl = 1 /\ verdict = Unknown /\ lvl' = lvl /\ verdict' = verdict /\ UNCHANGED args
        BY <1>2 DEF Decode, CallInv, certifierVars
    <2>2. RecomputeTypeOK'
        BY <1>2 DEF Decode, RecomputeTypeOK, CertifierTypeOK, certifierVars
    <2>3. \A st \in stmt, sc \in schema : LoopInv(st, sc)'
        <3> SUFFICES ASSUME NEW st \in stmt, NEW sc \in schema PROVE LoopInv(st, sc)'
            OBVIOUS
        <3>1. LoopInv(st, sc)
            BY <2>1, DecodedOnce, LoopBegins
        <3> QED BY <2>1, <3>1 DEF LoopInv
    <2>4. CallInv'
        BY <1>2, <2>1, <2>3 DEF Decode, CallInv, args
    <2>5. NeverFabricated'
        BY <1>2 DEF Decode, NeverFabricated
    <2> QED BY <2>2, <2>4, <2>5
<1>3. CASE CertifyStep
    <2>1. PICK st \in stmt, sc \in schema : Accept(st, sc) \/ Reject(st, sc) \/ Certify(st)
        BY <1>3 DEF CertifyStep
    <2>2. st \in Statements /\ stmt = {st} /\ schema = {sc}
        BY DecodedOnce
    <2>3. LoopInv(st, sc) /\ verdict = Unknown /\ lvl \in 1..11
        BY <1>3, <2>1 DEF CertifyStep, CallInv, Accept, Reject, Certify,
                          RecomputeTypeOK, CertifierTypeOK
    <2>4. RecomputeTypeOK'
        BY <1>3, <2>1, <2>2, LoopTypes DEF CertifyStep, RecomputeTypeOK
    <2>5. LoopInv(st, sc)'
        BY <2>1, <2>2, <2>3, LoopStep
    <2>6. CallInv'
        BY <1>3, <2>2, <2>5 DEF CertifyStep, CallInv, args
    <2>7. NeverFabricated'
        BY <1>3 DEF CertifyStep, NeverFabricated
    <2> QED BY <2>4, <2>6, <2>7
<1>4. CASE ReturnVerdict
    <2>1. RecomputeTypeOK'
        BY <1>4 DEF ReturnVerdict, Return, RecomputeTypeOK, CertifierTypeOK, certifierVars
    <2>2. CallInv'
        BY <1>4 DEF ReturnVerdict, Return, CallInv, args
    <2>3. \A st \in stmt, sc \in schema : verdict = CertifiedLevel(st, sc)
        BY <1>4 DEF ReturnVerdict, CallInv, LoopInv
    <2>4. /\ ~null /\ stmt # {} /\ schema # {}
          /\ UNCHANGED args /\ result' = verdict
        BY <1>4 DEF ReturnVerdict, Return, CallInv
    <2>5. NeverFabricated'
        BY <2>3, <2>4 DEF NeverFabricated, args, CertifiedLevel, PassesUpTo
    <2> QED BY <2>1, <2>2, <2>5
<1>5. CASE UNCHANGED vars
    BY <1>5 DEF vars, args, certifierVars, RecomputeTypeOK, CertifierTypeOK, CallInv,
                NeverFabricated, LoopInv
<1> QED BY <1>1, <1>2, <1>3, <1>4, <1>5 DEF Next

LEMMA Invariance == Spec => []RecomputeInv
BY InitInv, NextInv, PTL DEF Spec

\* Whatever vcl_recompute is sent, its loop stays among the levels and what it
\* returns is -1 or a level.
THEOREM TypeCorrect == Spec => []RecomputeTypeOK
<1>1. RecomputeInv => RecomputeTypeOK
    BY DEF RecomputeInv
<1> QED BY <1>1, Invariance, PTL

\* vcl_recompute returns a level only for a statement and a schema it could
\* decode, and then the one certified_level has for them.
THEOREM RecomputeIsSound == Spec => []NeverFabricated
<1>1. RecomputeInv => NeverFabricated
    BY DEF RecomputeInv
<1> QED BY <1>1, Invariance, PTL

-----------------------------------------------------------------------------
(* The closure.                                                            *)

\* The sets of pairs of agents.
Graphs(A) == SUBSET (A \X A)

\* Composition of pairs of agents makes pairs of agents.
LEMMA TransStepType ==
    ASSUME NEW A, NEW pairs \in Graphs(A)
    PROVE  TransStep(pairs) \in Graphs(A)
BY DEF TransStep, Graphs

\* transCloseN does what its two equations say.
LEMMA TransCloseNDef ==
    ASSUME NEW A, NEW pairs \in Graphs(A)
    PROVE  /\ TransCloseN(pairs) \in [Nat -> Graphs(A)]
           /\ TransCloseN(pairs)[0] = pairs
           /\ \A n \in Nat : TransCloseN(pairs)[n + 1] = TransStep(TransCloseN(pairs)[n])
<1> DEFINE T == Graphs(A)
           step == [p \in Nat \X T |-> TransStep(p[2])]
           Closed(f) == f = [n \in Nat |-> IF n = 0 THEN pairs ELSE TransStep(f[n - 1])]
<1>1. IsStep(step, T)
    BY TransStepType DEF IsStep
<1>2. PICK f : Recurs(f, pairs, step, T)
    <2> HIDE DEF step
    <2> QED BY <1>1, RecursionDefines
<1>3. \A n \in Nat : f[n + 1] = TransStep(f[n])
    BY <1>2 DEF Recurs
<1>4. ASSUME NEW n \in Nat
      PROVE  f[n] = IF n = 0 THEN pairs ELSE TransStep(f[n - 1])
    <2>1. CASE n = 0
        BY <1>2, <2>1 DEF Recurs
    <2>2. CASE n # 0
        <3>1. n - 1 \in Nat /\ (n - 1) + 1 = n
            BY <2>2
        <3> QED BY <1>3, <2>2, <3>1
    <2> QED BY <2>1, <2>2
<1>5. Closed(f)
    BY <1>2, <1>4 DEF Recurs
<1>6. TransCloseN(pairs) = CHOOSE g : Closed(g)
    BY DEF TransCloseN
<1>7. Closed(TransCloseN(pairs))
    <2> HIDE DEF Closed
    <2> QED BY <1>5, <1>6
<1> DEFINE c == TransCloseN(pairs)
<1>8. DOMAIN c = Nat /\ c[0] = pairs
    BY <1>7
<1>9. \A n \in Nat : c[n + 1] = TransStep(c[n])
    BY <1>7
<1>10. \A n \in Nat : c[n] \in T
    <2> DEFINE Typed == {n \in Nat : c[n] \in T}
    <2>1. 0 \in Typed
        BY <1>8
    <2>2. ASSUME NEW n \in Nat, n \in Typed PROVE n + 1 \in Typed
        <3>1. TransStep(c[n]) \in T
            BY <2>2, TransStepType
        <3> HIDE DEF c
        <3> QED BY <1>9, <3>1
    <2> HIDE DEF Typed
    <2>3. \A n \in Nat : n \in Typed
        BY <2>1, <2>2, SetInduction
    <2> QED BY <2>3 DEF Typed
<1> QED BY <1>7, <1>8, <1>9, <1>10

\* A step keeps every pair and composes two that meet.
LEMMA StepGrows ==
    ASSUME NEW pairs
    PROVE  /\ pairs \subseteq TransStep(pairs)
           /\ \A a, b, c : <<a, b>> \in pairs /\ <<b, c>> \in pairs
                               => <<a, c>> \in TransStep(pairs)
<1>1. pairs \subseteq TransStep(pairs)
    BY DEF TransStep
<1>2. ASSUME NEW a, NEW b, NEW c, <<a, b>> \in pairs, <<b, c>> \in pairs
      PROVE  <<a, c>> \in TransStep(pairs)
    <2> DEFINE q == <<<<a, b>>, <<b, c>>>>
    <2>1. q \in {r \in pairs \X pairs : r[1][2] = r[2][1]}
        BY <1>2
    <2>2. <<a, c>> = <<q[1][1], q[2][2]>>
        OBVIOUS
    <2> QED BY <2>1, <2>2 DEF TransStep
<1> QED BY <1>1, <1>2

\* The pairs themselves are in the closure, however little fuel there is.
LEMMA PairsStay ==
    ASSUME NEW A, NEW pairs \in Graphs(A)
    PROVE  \A n \in Nat : pairs \subseteq TransCloseN(pairs)[n]
<1> DEFINE T == {n \in Nat : pairs \subseteq TransCloseN(pairs)[n]}
<1>1. 0 \in T
    BY TransCloseNDef
<1>2. ASSUME NEW n \in Nat, n \in T PROVE n + 1 \in T
    <2>1. TransCloseN(pairs)[n + 1] = TransStep(TransCloseN(pairs)[n])
        BY TransCloseNDef
    <2>2. TransCloseN(pairs)[n] \subseteq TransCloseN(pairs)[n + 1]
        BY <2>1, StepGrows
    <2> QED BY <1>2, <2>2
<1> HIDE DEF T
<1>3. \A n \in Nat : n \in T
    BY <1>1, <1>2, SetInduction
<1> QED BY <1>3 DEF T

\* With fuel n the closure finds every way back along at most n + 1 pairs: here
\* w lists agents against the direction of the pairs.
LEMMA WalksFound ==
    ASSUME NEW A, NEW pairs \in Graphs(A),
           NEW w, \A i \in Nat : <<w[i + 1], w[i]>> \in pairs
    PROVE  \A n \in Nat : \A i, j \in Nat :
               i < j /\ j - i <= n + 1 => <<w[j], w[i]>> \in TransCloseN(pairs)[n]
<1> DEFINE c == TransCloseN(pairs)
           Found(n) == \A i, j \in Nat : i < j /\ j - i <= n + 1 => <<w[j], w[i]>> \in c[n]
           T == {n \in Nat : Found(n)}
<1>1. 0 \in T
    <2> SUFFICES ASSUME NEW i \in Nat, NEW j \in Nat, i < j, j - i <= 0 + 1
                 PROVE  <<w[j], w[i]>> \in c[0]
        OBVIOUS
    <2>1. j = i + 1
        OBVIOUS
    <2>2. c[0] = pairs
        BY TransCloseNDef
    <2> QED BY <2>1, <2>2
<1>2. ASSUME NEW n \in Nat, n \in T PROVE n + 1 \in T
    <2> SUFFICES ASSUME NEW i \in Nat, NEW j \in Nat, i < j, j - i <= (n + 1) + 1
                 PROVE  <<w[j], w[i]>> \in c[n + 1]
        OBVIOUS
    <2>1. c[n + 1] = TransStep(c[n])
        BY TransCloseNDef
    <2>2. CASE j - i <= n + 1
        BY <1>2, <2>1, <2>2, StepGrows
    <2>3. CASE j - i > n + 1
        <3>1. j - 1 \in Nat /\ i < j - 1 /\ (j - 1) - i <= n + 1 /\ (j - 1) + 1 = j
            BY <2>3
        <3>2. <<w[j - 1], w[i]>> \in c[n]
            BY <1>2, <3>1
        <3>3. <<w[j], w[j - 1]>> \in c[n]
            BY <3>1, PairsStay
        <3> QED BY <2>1, <3>2, <3>3, StepGrows
    <2> QED BY <2>2, <2>3
<1> HIDE DEF T
<1>3. \A n \in Nat : n \in T
    BY <1>1, <1>2, SetInduction
<1> QED BY <1>3 DEF T

-----------------------------------------------------------------------------
(* Rankings.                                                               *)

\* A rank of the agents of B that grows along every pair among them.
Grows(rank, B, pairs) ==
    /\ rank \in [B -> 1..Cardinality(B)]
    /\ \A p \in pairs \cap (B \X B) : rank[p[1]] < rank[p[2]]

\* Composition never leaves what a rank allows: no closure has a cycle where
\* there is a rank.
LEMMA RankedClosure ==
    ASSUME NEW A, NEW pairs \in Graphs(A), NEW rank \in [A -> Int],
           \A p \in pairs : rank[p[1]] < rank[p[2]]
    PROVE  \A n \in Nat : \A p \in TransCloseN(pairs)[n] : rank[p[1]] < rank[p[2]]
<1> DEFINE c == TransCloseN(pairs)
           T == {n \in Nat : \A p \in c[n] : rank[p[1]] < rank[p[2]]}
<1>1. 0 \in T
    <2>1. c[0] = pairs
        BY TransCloseNDef
    <2> QED BY <2>1
<1>2. ASSUME NEW n \in Nat, n \in T PROVE n + 1 \in T
    <2> SUFFICES ASSUME NEW p \in c[n + 1] PROVE rank[p[1]] < rank[p[2]]
        OBVIOUS
    <2>1. c[n + 1] = TransStep(c[n]) /\ c[n] \in Graphs(A)
        BY TransCloseNDef
    <2>2. CASE p \in c[n]
        BY <1>2, <2>2
    <2>3. CASE p \notin c[n]
        <3>1. PICK q \in c[n] \X c[n] : q[1][2] = q[2][1] /\ p = <<q[1][1], q[2][2]>>
            BY <2>1, <2>3 DEF TransStep
        <3>2. rank[q[1][1]] < rank[q[1][2]] /\ rank[q[2][1]] < rank[q[2][2]]
            BY <1>2
        <3>3. q[1][1] \in A /\ q[1][2] \in A /\ q[2][2] \in A
            BY <2>1 DEF Graphs
        <3>4. rank[q[1][1]] \in Int /\ rank[q[1][2]] \in Int /\ rank[q[2][2]] \in Int
            BY <3>3
        <3> QED BY <3>1, <3>2, <3>4
    <2> QED BY <2>2, <2>3
<1> HIDE DEF T
<1>3. \A n \in Nat : n \in T
    BY <1>1, <1>2, SetInduction
<1> QED BY <1>3 DEF T

\* Agents of whom every non-empty set has one that none of the set entails
\* can be ranked, such an agent first.
LEMMA RankExists ==
    ASSUME NEW A, IsFiniteSet(A), NEW pairs \in Graphs(A),
           \A B \in SUBSET A : B # {} => \E b \in B : \A a \in B : <<a, b>> \notin pairs
    PROVE  \E rank : Grows(rank, A, pairs)
<1> DEFINE T == {n \in Nat : \A B \in SUBSET A :
                     Cardinality(B) = n => \E rank : Grows(rank, B, pairs)}
<1>1. 0 \in T
    <2> SUFFICES ASSUME NEW B \in SUBSET A, Cardinality(B) = 0
                 PROVE  \E rank : Grows(rank, B, pairs)
        OBVIOUS
    <2>1. B = {}
        BY FS_Subset, FS_EmptySet
    <2>2. Grows([b \in {} |-> 1], B, pairs)
        BY <2>1 DEF Grows
    <2> QED BY <2>2
<1>2. ASSUME NEW n \in Nat, n \in T PROVE n + 1 \in T
    <2> SUFFICES ASSUME NEW B \in SUBSET A, Cardinality(B) = n + 1
                 PROVE  \E rank : Grows(rank, B, pairs)
        OBVIOUS
    <2>1. IsFiniteSet(B) /\ B # {}
        BY FS_Subset, FS_EmptySet
    <2>2. PICK b \in B : \A a \in B : <<a, b>> \notin pairs
        BY <2>1
    <2> DEFINE C == B \ {b}
    <2>3. C \in SUBSET A /\ Cardinality(C) = n
        <3>1. Cardinality(C) = Cardinality(B) - 1
            BY <2>1, FS_RemoveElement
        <3> QED BY <3>1
    <2>4. PICK rest : Grows(rest, C, pairs)
        BY <1>2, <2>3
    <2>5. rest \in [C -> 1..n]
        BY <2>3, <2>4 DEF Grows
    <2> DEFINE rank == [x \in B |-> IF x = b THEN 1 ELSE rest[x] + 1]
    <2>6. rank \in [B -> 1..(n + 1)]
        BY <2>5
    <2>7. ASSUME NEW p \in pairs \cap (B \X B) PROVE rank[p[1]] < rank[p[2]]
        <3>1. p[1] \in B /\ p[2] \in B /\ p = <<p[1], p[2]>>
            BY <2>7
        <3>2. p[2] # b
            BY <2>2, <2>7, <3>1
        <3>3. p[2] \in C /\ rank[p[2]] = rest[p[2]] + 1 /\ rest[p[2]] \in 1..n
            BY <2>5, <3>1, <3>2
        <3>4. CASE p[1] = b
            BY <3>1, <3>3, <3>4
        <3>5. CASE p[1] # b
            <4>1. p[1] \in C /\ rank[p[1]] = rest[p[1]] + 1 /\ rest[p[1]] \in 1..n
                BY <2>5, <3>1, <3>5
            <4>2. p \in pairs \cap (C \X C)
                BY <2>7, <3>1, <3>3, <4>1
            <4>3. rest[p[1]] < rest[p[2]]
                BY <2>4, <4>2 DEF Grows
            <4> QED BY <3>3, <4>1, <4>3
        <3> QED BY <3>4, <3>5
    <2>8. Grows(rank, B, pairs)
        <3> HIDE DEF rank
        <3> QED BY <2>6, <2>7 DEF Grows
    <2> QED BY <2>8
<1> HIDE DEF T
<1>3. \A n \in Nat : n \in T
    BY <1>1, <1>2, SetInduction
<1>4. Cardinality(A) \in Nat
    BY FS_CardinalityType
<1> QED BY <1>3, <1>4 DEF T

\* Where every agent of a set is entailed by one of the set, walking back from
\* agent to agent repeats a pair after as many steps as there are pairs.
LEMMA WalkingBackRepeats ==
    ASSUME NEW A, IsFiniteSet(A), NEW pairs \in Graphs(A), IsFiniteSet(pairs),
           NEW B \in SUBSET A, B # {},
           \A b \in B : \E a \in B : <<a, b>> \in pairs
    PROVE  \A n \in Nat : Cardinality(pairs) <= n =>
               \E p \in TransCloseN(pairs)[n] : p[1] = p[2]
<1> SUFFICES ASSUME NEW n \in Nat, Cardinality(pairs) <= n
             PROVE  \E p \in TransCloseN(pairs)[n] : p[1] = p[2]
    OBVIOUS
<1> DEFINE Before(b) == CHOOSE a \in B : <<a, b>> \in pairs
           step == [q \in Nat \X B |-> Before(q[2])]
<1>1. \A b \in B : Before(b) \in B /\ <<Before(b), b>> \in pairs
    OBVIOUS
<1>2. IsStep(step, B)
    <2> HIDE DEF Before
    <2> QED BY <1>1 DEF IsStep
<1>3. PICK w : \E b \in B : Recurs(w, b, step, B)
    <2> HIDE DEF step
    <2> QED BY <1>2, RecursionDefines
<1> HIDE DEF Before
<1>4. \A i \in Nat : w[i] \in B /\ w[i + 1] = Before(w[i])
    BY <1>3 DEF Recurs
<1>5. \A i \in Nat : <<w[i + 1], w[i]>> \in pairs
    BY <1>1, <1>4
<1> DEFINE edge == [i \in 0..n |-> <<w[i + 1], w[i]>>]
<1>6. edge \in [0..n -> pairs]
    BY <1>5
<1>7. IsFiniteSet(0..n) /\ Cardinality(pairs) < Cardinality(0..n)
    <2>1. IsFiniteSet(0..n) /\ Cardinality(0..n) = n + 1
        <3>1. 0 \in Int /\ n \in Int /\ ~(0 > n) /\ n - 0 + 1 = n + 1
            OBVIOUS
        <3> QED BY <3>1, FS_Interval
    <2>2. Cardinality(pairs) \in Nat
        BY FS_CardinalityType
    <2> QED BY <2>1, <2>2
<1>8. \E x, y \in 0..n : x # y /\ edge[x] = edge[y]
    <2> DEFINE S == 0..n
    <2>1. edge \in [S -> pairs] /\ IsFiniteSet(S) /\ Cardinality(pairs) < Cardinality(S)
        BY <1>6, <1>7
    <2> HIDE DEF edge, S
    <2>2. \E x, y \in S : x # y /\ edge[x] = edge[y]
        BY <2>1, FS_PigeonHole
    <2> QED BY <2>2 DEF S
<1>9. PICK i \in 0..n, j \in 0..n : i < j /\ edge[i] = edge[j]
    BY <1>8
<1>10. w[i] = w[j] /\ j - i <= n + 1
    BY <1>9
<1>11. <<w[j], w[i]>> \in TransCloseN(pairs)[n]
    <2>1. i \in Nat /\ j \in Nat
        OBVIOUS
    <2>2. \A k, m \in Nat : k < m /\ m - k <= n + 1 => <<w[m], w[k]>> \in TransCloseN(pairs)[n]
        BY <1>5, WalksFound
    <2> QED BY <1>9, <1>10, <2>1, <2>2
<1> QED BY <1>10, <1>11

\* The closure with fuel decides exactly whether there is a rank, with as many
\* steps as there are pairs or with more.
LEMMA ClosureExact ==
    ASSUME NEW A, IsFiniteSet(A), NEW pairs \in Graphs(A), IsFiniteSet(pairs),
           NEW n \in Nat, Cardinality(pairs) <= n
    PROVE  (\E p \in TransCloseN(pairs)[n] : p[1] = p[2]) <=>
               ~ \E rank : Grows(rank, A, pairs)
<1>1. ASSUME NEW rank, Grows(rank, A, pairs), NEW p \in TransCloseN(pairs)[n], p[1] = p[2]
      PROVE  FALSE
    <2>1. rank \in [A -> Int] /\ \A q \in pairs : rank[q[1]] < rank[q[2]]
        <3>1. pairs \cap (A \X A) = pairs
            BY DEF Graphs
        <3>2. 1..Cardinality(A) \subseteq Int
            OBVIOUS
        <3> QED BY <1>1, <3>1, <3>2 DEF Grows
    <2>2. rank[p[1]] < rank[p[2]]
        BY <2>1, RankedClosure
    <2>3. TransCloseN(pairs)[n] \in Graphs(A)
        BY TransCloseNDef
    <2>4. p[1] \in A /\ rank[p[1]] \in Int
        BY <2>1, <2>3 DEF Graphs
    <2> QED BY <1>1, <2>2, <2>4
<1>2. ASSUME ~ \E rank : Grows(rank, A, pairs)
      PROVE  \E p \in TransCloseN(pairs)[n] : p[1] = p[2]
    <2>1. PICK B \in SUBSET A : B # {} /\ \A b \in B : \E a \in B : <<a, b>> \in pairs
        BY <1>2, RankExists
    <2> QED BY <2>1, WalkingBackRepeats
<1> QED BY <1>1, <1>2

\* The ENTAILS pairs of a clause of a statement are finitely many, and are
\* pairs of agents.
LEMMA ClausePairs ==
    ASSUME NEW st \in Statements, NEW c \in st.epistemic
    PROVE  /\ EntailsPairs(c) \in Graphs(Agents)
           /\ IsFiniteSet(EntailsPairs(c))
           /\ Cardinality(EntailsPairs(c)) \in Nat
<1>1. EntailsPairs(c) \in SUBSET (Agents \X Agents)
    BY AgentsAssumption
<1>2. IsFiniteSet(Agents \X Agents)
    BY AgentsAssumption, FS_Product
<1>3. IsFiniteSet(EntailsPairs(c))
    BY <1>1, <1>2, FS_Subset
<1> QED BY <1>1, <1>3, FS_CardinalityType DEF Graphs

\* Two agents that entail each other are a cycle for the corpus too.
LEMMA CircularIsTransitive ==
    ASSUME NEW st \in Statements, NEW c \in st.epistemic, HasCircularEntails(c)
    PROVE  HasTransitiveCycle(c)
<1> DEFINE pairs == EntailsPairs(c)
           k == Cardinality(pairs)
<1>1. PICK p \in pairs : <<p[2], p[1]>> \in pairs
    BY DEF HasCircularEntails
<1>2. pairs \in Graphs(Agents) /\ k \in Nat /\ k # 0
    BY <1>1, ClausePairs, FS_EmptySet
<1>3. p = <<p[1], p[2]>>
    BY <1>1, <1>2 DEF Graphs
<1> HIDE DEF pairs, k
<1>4. k - 1 \in Nat /\ (k - 1) + 1 = k
    BY <1>2
<1>5. pairs \subseteq TransCloseN(pairs)[k - 1]
    BY <1>2, <1>4, PairsStay
<1>6. TransCloseN(pairs)[(k - 1) + 1] = TransStep(TransCloseN(pairs)[k - 1])
    BY <1>2, <1>4, TransCloseNDef
<1>7. <<p[1], p[1]>> \in TransStep(TransCloseN(pairs)[k - 1])
    BY <1>1, <1>3, <1>5, StepGrows
<1>8. <<p[1], p[1]>> \in TransClose(pairs)
    BY <1>4, <1>6, <1>7 DEF TransClose, k
<1> QED BY <1>8 DEF HasTransitiveCycle, pairs

-----------------------------------------------------------------------------
(* The levels.                                                             *)

\* What the corpus finds compatible the port does.
LEMMA CorpusTypesStricter ==
    ASSUME NEW a, NEW b, CorpusTypesCompatible(a, b)
    PROVE  TypesCompatible(a, b)
BY DEF CorpusTypesCompatible, TypesCompatible, VqlTypeEq

\* And the other way round where neither or both of the types are unresolved,
\* and no record occurs in them.
LEMMA TypesAgree ==
    ASSUME NEW a, NEW b, a = TAny <=> b = TAny, RecordFree(a), RecordFree(b),
           TypesCompatible(a, b)
    PROVE  CorpusTypesCompatible(a, b)
BY DEF CorpusTypesCompatible, TypesCompatible, VqlTypeEq

\* A level that has its evidence in the corpus passes in the port.
LEMMA CorpusStricter ==
    ASSUME NEW st \in Statements, NEW sc, NEW n \in 1..10, CorpusCheckLevel(n, st, sc)
    PROVE  CheckLevel(n, st, sc)
<1>1. CASE n = 2
    <2>1. CorpusComparisonsCompatible(st.where, sc)
        BY <1>1 DEF CorpusCheckLevel
    <2>2. ComparisonsCompatible(st.where, sc)
        BY <2>1, CorpusTypesStricter DEF CorpusComparisonsCompatible, ComparisonsCompatible
    <2> QED BY <1>1, <2>2 DEF CheckLevel
<1>2. CASE n = 10
    <2>1. EpiStructOK(st) /\ CorpusNoCycle(st)
        BY <1>2 DEF CorpusCheckLevel
    <2>2. EpiNoCycle(st)
        BY <2>1, CircularIsTransitive DEF CorpusNoCycle, EpiNoCycle
    <2> QED BY <1>2, <2>1, <2>2 DEF CheckLevel
<1>3. CASE n # 2 /\ n # 10
    BY <1>3 DEF CorpusCheckLevel
<1> QED BY <1>1, <1>2, <1>3

\* On the shared domain it is the other way round as well.
LEMMA LevelsAgree ==
    ASSUME NEW st \in Statements, NEW sc, NEW n \in 1..10, SharedDomain(st, sc),
           CheckLevel(n, st, sc)
    PROVE  CorpusCheckLevel(n, st, sc)
<1>1. CASE n = 2
    <2>1. ComparisonsCompatible(st.where, sc)
        BY <1>1 DEF CheckLevel
    <2>2. CorpusComparisonsCompatible(st.where, sc)
        BY <2>1, TypesAgree
        DEF CorpusComparisonsCompatible, ComparisonsCompatible, SharedDomain
    <2> QED BY <1>1, <2>2 DEF CorpusCheckLevel
<1>2. CASE n = 10
    <2>1. EpiStructOK(st) /\ EpiNoCycle(st)
        BY <1>2 DEF CheckLevel
    <2>2. CorpusNoCycle(st)
        BY <2>1 DEF CorpusNoCycle, EpiNoCycle, SharedDomain
    <2> QED BY <1>2, <2>1, <2>2 DEF CorpusCheckLevel
<1>3. CASE n # 2 /\ n # 10
    BY <1>3 DEF CorpusCheckLevel
<1> QED BY <1>1, <1>2, <1>3

\* What certified_level makes of a statement, in terms of the decider.
LEMMA PortCertifies ==
    ASSUME NEW st \in Statements, NEW sc \in Schemas
    PROVE  /\ st.level \in 0..10
           /\ CertifiedLevel(st, sc) =
                  IF \A n \in 1..st.level : CheckLevel(n, st, sc) THEN st.level ELSE Rejected
<1>1. LevelOf(st) = st.level /\ st.level \in 0..10
    BY ConformanceAssumption, CertifierAssumption
<1>2. \A n \in 1..st.level : LevelPass(n, st, sc) <=> CheckLevel(n, st, sc)
    BY <1>1, ConformanceAssumption
<1> QED BY <1>1, <1>2 DEF CertifiedLevel, PassesUpTo

\* What the corpus certifies the port certifies, and on the shared domain the
\* two agree.
LEMMA PortAndCorpus ==
    ASSUME NEW st \in Statements, NEW sc \in Schemas
    PROVE  /\ CorpusCertifiedLevel(st, sc) # Rejected
                  => CertifiedLevel(st, sc) = CorpusCertifiedLevel(st, sc)
           /\ SharedDomain(st, sc)
                  => CertifiedLevel(st, sc) = CorpusCertifiedLevel(st, sc)
<1>1. st.level \in 0..10 /\ \A n \in 1..st.level : n \in 1..10
    BY PortCertifies
<1>2. \A n \in 1..st.level : CorpusCheckLevel(n, st, sc) => CheckLevel(n, st, sc)
    BY <1>1, CorpusStricter
<1>3. SharedDomain(st, sc) =>
          \A n \in 1..st.level : CheckLevel(n, st, sc) => CorpusCheckLevel(n, st, sc)
    BY <1>1, LevelsAgree
<1> QED BY <1>1, <1>2, <1>3, PortCertifies DEF CorpusCertifiedLevel, Rejected

-----------------------------------------------------------------------------
(* The port and the corpus.                                                *)

\* A call that has decided returned what certified_level makes of its
\* arguments.
LEMMA DecidedResult ==
    ASSUME RecomputeInv, NEW st \in stmt, NEW sc \in schema, Decided(st, sc)
    PROVE  st \in Statements /\ sc \in Schemas /\ result = CertifiedLevel(st, sc)
<1>1. st \in Statements /\ sc \in Schemas
    BY DEF RecomputeInv, CallInv, AtMostOne
<1>2. result = CertifiedLevel(st, sc)
    BY DEF RecomputeInv, NeverFabricated, Decided
<1> QED BY <1>1, <1>2

\* What the corpus rejects may pass in the port, never the reverse: whatever
\* certifiedLevel of Checker.idr certifies, decider.rs certifies at that level.
THEOREM PortFollowsCorpus == Spec => []CertifiesWhatCorpusCertifies
<1>1. RecomputeInv => CertifiesWhatCorpusCertifies
    BY DecidedResult, PortAndCorpus DEF CertifiesWhatCorpusCertifies
<1> QED BY <1>1, Invariance, PTL

\* Unresolved types, records and cycles of more than two agents are all that
\* decider.rs and the corpus judge differently.
THEOREM PortAgreesWithCorpus == Spec => []ConformsOnSharedDomain
<1>1. RecomputeInv => ConformsOnSharedDomain
    BY DecidedResult, PortAndCorpus DEF ConformsOnSharedDomain
<1> QED BY <1>1, Invariance, PTL

\* hasTransitiveCycle of Decide.idr, a closure with fuel, finds a cycle exactly
\* where the agents cannot be ranked, however many agents there are.
THEOREM CycleTestIsExact == Spec => []CycleTestExact
<1>1. RecomputeInv => CycleTestExact
    <2> SUFFICES ASSUME RecomputeInv, NEW st \in stmt, NEW c \in st.epistemic
                 PROVE  HasTransitiveCycle(c) <=> ~Ranked(c)
        BY DEF CycleTestExact
    <2>1. st \in Statements
        BY DEF RecomputeInv, CallInv, AtMostOne
    <2> DEFINE pairs == EntailsPairs(c)
    <2>2. pairs \in Graphs(Agents) /\ IsFiniteSet(pairs) /\ Cardinality(pairs) \in Nat
        BY <2>1, ClausePairs
    <2>3. (\E p \in TransCloseN(pairs)[Cardinality(pairs)] : p[1] = p[2]) <=>
              ~ \E rank : Grows(rank, Agents, pairs)
        <3> HIDE DEF pairs
        <3> QED BY <2>2, AgentsAssumption, ClosureExact
    <2>4. Ranked(c) <=> \E rank : Grows(rank, Agents, pairs)
        <3>1. pairs \cap (Agents \X Agents) = pairs
            BY <2>2 DEF Graphs
        <3> QED BY <3>1 DEF Ranked, Grows
    <2> QED BY <2>3, <2>4 DEF HasTransitiveCycle, TransClose
<1> QED BY <1>1, Invariance, PTL
=============================================================================
