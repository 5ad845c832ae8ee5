----------------------------- MODULE WireProofs -----------------------------
(***************************************************************************)
(* What the decoder of Wire keeps, called on any bytes and with any limit  *)
(* of nesting: its types, that its depth is the number of guarded decoders *)
(* that have not returned, and the frame of what it accepts.  Then that    *)
(* the decoder of Transfer is this one, and that it refuses the streams    *)
(* sent to another.                                                        *)
(***************************************************************************)
EXTENDS Transfer, Induction, SequenceTheorems, FiniteSetTheorems

-----------------------------------------------------------------------------
(* Numbers.                                                                *)

\* from_le_bytes, byte by byte.
LEMMA FromLeBytesDef ==
    ASSUME NEW bytes \in Seq(Byte)
    PROVE  \E w : /\ FromLeBytes(bytes) = w[Len(bytes)]
                  /\ w[0] = 0
                  /\ \A i \in 0..Len(bytes) : w[i] \in Nat
                  /\ \A i \in 1..Len(bytes) :
                         w[i] = bytes[Len(bytes) + 1 - i] + 256 * w[i - 1]
<1> DEFINE L == Len(bytes)
           step == [p \in Nat \X Nat |->
                       IF p[1] < L THEN bytes[L - p[1]] + 256 * p[2] ELSE 0]
           Worth(w) == w = [i \in 0..L |-> IF i = 0 THEN 0
                                            ELSE bytes[L + 1 - i] + 256 * w[i - 1]]
<1>1. L \in Nat /\ \A i \in 1..L : bytes[i] \in Nat
    <2>1. ASSUME NEW i \in 1..Len(bytes) PROVE bytes[i] \in Byte
        BY <2>1, ElementOfSeq
    <2>2. Len(bytes) \in Nat
        BY LenProperties
    <2>3. Byte \subseteq Nat
        BY DEF Byte
    <2> QED BY <2>1, <2>2, <2>3
<1>2. IsStep(step, Nat)
    <2>1. ASSUME NEW p \in Nat \X Nat PROVE step[p] \in Nat
        <3>1. CASE p[1] < L
            <4>1. L - p[1] \in 1..L
                BY <1>1, <3>1
            <4> QED BY <1>1, <3>1, <4>1
        <3>2. CASE ~(p[1] < L)
            BY <3>2
        <3> QED BY <3>1, <3>2
    <2> QED BY <2>1 DEF IsStep
<1>3. PICK f : Recurs(f, 0, step, Nat)
    <2> HIDE DEF step
    <2> QED BY <1>2, RecursionDefines
<1> DEFINE g == [i \in 0..L |-> f[i]]
<1>4. ASSUME NEW i \in 0..L
      PROVE  g[i] = IF i = 0 THEN 0 ELSE bytes[L + 1 - i] + 256 * g[i - 1]
    <2>1. CASE i = 0
        BY <1>3, <2>1 DEF Recurs
    <2>2. CASE i # 0
        <3>1. i - 1 \in 0..L /\ i - 1 < L /\ (i - 1) + 1 = i /\ L - (i - 1) = L + 1 - i
            BY <1>1, <2>2
        <3>2. f[i] = step[<<i - 1, f[i - 1]>>] /\ f[i - 1] \in Nat
            <4> HIDE DEF step
            <4>1. i - 1 \in Nat
                BY <3>1
            <4>2. f[(i - 1) + 1] = step[<<i - 1, f[i - 1]>>] /\ f[i - 1] \in Nat
                BY <1>3, <4>1 DEF Recurs
            <4> QED BY <3>1, <4>2
        <3>3. step[<<i - 1, f[i - 1]>>] = bytes[L - (i - 1)] + 256 * f[i - 1]
            BY <3>1, <3>2
        <3> QED BY <2>2, <3>1, <3>2, <3>3
    <2> QED BY <2>1, <2>2
<1>5. Worth(g)
    BY <1>4
<1>6. FromLeBytes(bytes) = (CHOOSE w : Worth(w))[L]
    BY DEF FromLeBytes
<1> DEFINE w == CHOOSE x : Worth(x)
<1>7. Worth(w)
    <2> HIDE DEF Worth, g
    <2> QED BY <1>5
<1> HIDE DEF w
<1>8. w[0] = 0
    BY <1>1, <1>7
<1>9. ASSUME NEW i \in 1..L PROVE w[i] = bytes[L + 1 - i] + 256 * w[i - 1]
    <2>1. i \in 0..L /\ i # 0
        BY <1>1
    <2> QED BY <1>7, <2>1
<1> DEFINE T == {i \in Nat : i \in 0..L => w[i] \in Nat}
<1>10. 0 \in T
    BY <1>8
<1>11. ASSUME NEW i \in Nat, i \in T PROVE i + 1 \in T
    <2> SUFFICES ASSUME i + 1 \in 0..L PROVE w[i + 1] \in Nat
        OBVIOUS
    <2>1. w[i] \in Nat /\ i + 1 \in 1..L /\ L + 1 - (i + 1) \in 1..L /\ (i + 1) - 1 = i
        BY <1>1, <1>11
    <2>2. w[i + 1] = bytes[L + 1 - (i + 1)] + 256 * w[(i + 1) - 1]
        BY <1>9, <2>1
    <2> QED BY <1>1, <2>1, <2>2
<1> HIDE DEF T
<1>12. \A i \in Nat : i \in T
    BY <1>10, <1>11, SetInduction
<1>13. \A i \in 0..L : w[i] \in Nat
    BY <1>12 DEF T
<1> QED BY <1>6, <1>8, <1>9, <1>13 DEF w

\* What it makes of bytes is a number, of a single byte the byte.
LEMMA NumberType ==
    ASSUME NEW bytes \in Seq(Byte)
    PROVE  FromLeBytes(bytes) \in Nat
<1>1. Len(bytes) \in 0..Len(bytes)
    BY LenProperties
<1> QED BY <1>1, FromLeBytesDef

LEMMA OneByte ==
    ASSUME NEW bytes \in Seq(Byte), Len(bytes) = 1
    PROVE  FromLeBytes(bytes) = bytes[1]
<1>1. bytes[1] \in Nat
    <2>1. 1 \in 1..Len(bytes)
        OBVIOUS
    <2>2. bytes[1] \in Byte
        BY <2>1, ElementOfSeq
    <2>3. Byte \subseteq Nat
        BY DEF Byte
    <2> QED BY <2>2, <2>3
<1>2. PICK w : /\ FromLeBytes(bytes) = w[1] /\ w[0] = 0
               /\ \A i \in 1..1 : w[i] = bytes[1 + 1 - i] + 256 * w[i - 1]
    BY FromLeBytesDef
<1>3. w[1] = bytes[1 + 1 - 1] + 256 * w[1 - 1]
    BY <1>2
<1> QED BY <1>1, <1>2, <1>3

-----------------------------------------------------------------------------
(* The tables of the decoder.                                              *)

\* A constructor and the types of its arguments.
IsProduction(p) ==
    /\ Len(p) \in Nat \ {0}
    /\ DOMAIN p = 1..Len(p)
    /\ \A j \in 2..Len(p) : p[j] \in Types

IsTable(t) == DOMAIN t = 1..Len(t) /\ \A i \in DOMAIN t : IsProduction(t[i])

\* A call that is not the return of a guarded decoder.
Quiet == Items \ {<<"leave">>}

\* Every type that is read somewhere.
LEMMA TypesRead ==
    {"str", "word", "bool", "word*", "word?",
     "Modality", "Agent", "Literal", "CompOp", "LogicOp", "AggFunc", "EpistemicOp", "Expr",
     "SelectItem", "Source", "Proof", "Effect", "Version", "Linear", "EpiReq", "SafetyLevel",
     "Repair", "Transition", "VqlType", "VclOp", "FieldRef", "OrderItem", "EpiClause",
     "Verb", "Statement", "RecordField", "FieldDef", "ModalitySchema", "OctadSchema",
     "Expr?", "Proof?", "Effect?", "Version?", "Linear?", "EpiClause?",
     "SelectItem*", "FieldRef*", "OrderItem*", "Agent*", "EpiReq*", "RecordField*",
     "FieldDef*"} \subseteq Types
BY DEF Types, Sums, Structures, Optional, Listed

LEMMA Enumerations ==
    ASSUME NEW names, DOMAIN names = 1..Len(names), Len(names) \in Nat
    PROVE  IsTable(Enumeration(names))
<1>1. /\ DOMAIN Enumeration(names) = 1..Len(names)
      /\ \A i \in 1..Len(names) : Enumeration(names)[i] = <<names[i]>>
    BY DEF Enumeration
<1>2. Len(Enumeration(names)) = Len(names)
    BY <1>1
<1>3. ASSUME NEW i \in 1..Len(names) PROVE IsProduction(<<names[i]>>)
    BY DEF IsProduction
<1> QED BY <1>1, <1>2, <1>3 DEF IsTable

\* Every argument of every constructor has a type there is a decoder of.
LEMMA SumTables == \A T \in DOMAIN Sums : IsTable(Sums[T])
<1>1. IsTable(DecAgent)
    BY TypesRead DEF IsTable, IsProduction, DecAgent
<1>2. IsTable(DecLiteral)
    <2>1. {"str", "word", "bool", "word*"} \subseteq Types
        BY TypesRead
    <2>2. Len(DecLiteral) = 6
        BY DEF DecLiteral
    <2>3. DOMAIN DecLiteral = 1..6 /\ \A i \in 1..6 : IsProduction(DecLiteral[i])
        BY <2>1 DEF IsProduction, DecLiteral
    <2> QED BY <2>2, <2>3 DEF IsTable
<1>3. IsTable(DecExpr)
    <2>1. {"FieldRef", "Literal", "CompOp", "Expr", "LogicOp", "Expr?", "AggFunc", "str",
          "Statement", "EpistemicOp", "Agent"} \subseteq Types
        BY TypesRead
    <2>2. Len(DecExpr) = 10
        BY DEF DecExpr
    <2>3. DOMAIN DecExpr = 1..10 /\ \A i \in 1..10 : IsProduction(DecExpr[i])
        BY <2>1 DEF IsProduction, DecExpr
    <2> QED BY <2>2, <2>3 DEF IsTable
<1>4. IsTable(DecSelectItem)
    <2>1. {"FieldRef", "Modality", "AggFunc", "Expr"} \subseteq Types
        BY TypesRead
    <2>2. Len(DecSelectItem) = 4
        BY DEF DecSelectItem
    <2>3. DOMAIN DecSelectItem = 1..4 /\ \A i \in 1..4 : IsProduction(DecSelectItem[i])
        BY <2>1 DEF IsProduction, DecSelectItem
    <2> QED BY <2>2, <2>3 DEF IsTable
<1>5. IsTable(DecSource)
    BY TypesRead DEF IsTable, IsProduction, DecSource
<1>6. IsTable(DecProof)
    BY TypesRead DEF IsTable, IsProduction, DecProof
<1>7. IsTable(DecVersion)
    <2>1. {"word"} \subseteq Types
        BY TypesRead
    <2>2. Len(DecVersion) = 4
        BY DEF DecVersion
    <2>3. DOMAIN DecVersion = 1..4 /\ \A i \in 1..4 : IsProduction(DecVersion[i])
        BY <2>1 DEF IsProduction, DecVersion
    <2> QED BY <2>2, <2>3 DEF IsTable
<1>8. IsTable(DecLinear)
    BY TypesRead DEF IsTable, IsProduction, DecLinear
<1>9. IsTable(DecEpiReq)
    <2>1. {"Agent", "Expr"} \subseteq Types
        BY TypesRead
    <2>2. Len(DecEpiReq) = 4
        BY DEF DecEpiReq
    <2>3. DOMAIN DecEpiReq = 1..4 /\ \A i \in 1..4 : IsProduction(DecEpiReq[i])
        BY <2>1 DEF IsProduction, DecEpiReq
    <2> QED BY <2>2, <2>3 DEF IsTable
<1>10. IsTable(DecRepair)
    BY TypesRead DEF IsTable, IsProduction, DecRepair
<1>11. IsTable(DecTransition)
    <2>1. {"str", "Expr?", "Repair", "SafetyLevel"} \subseteq Types
        BY TypesRead
    <2>2. Len(DecTransition) = 3
        BY DEF DecTransition
    <2>3. DOMAIN DecTransition = 1..3 /\ \A i \in 1..3 : IsProduction(DecTransition[i])
        BY <2>1 DEF IsProduction, DecTransition
    <2> QED BY <2>2, <2>3 DEF IsTable
<1>12. IsTable(DecOp)
    BY TypesRead DEF IsTable, IsProduction, DecOp
<1>13. IsTable(DecVqlType)
    <2>1. {"word", "VqlType", "RecordField*", "Agent"} \subseteq Types
        BY TypesRead
    <2>2. Len(DecVqlType) = 16
        BY DEF DecVqlType
    <2>3. DOMAIN DecVqlType = 1..16 /\ \A i \in 1..16 : IsProduction(DecVqlType[i])
        BY <2>1 DEF IsProduction, DecVqlType
    <2> QED BY <2>2, <2>3 DEF IsTable
<1>14. IsTable(DecModality)
    BY Enumerations DEF DecModality
<1>15. IsTable(DecComp)
    BY Enumerations DEF DecComp
<1>16. IsTable(DecLogic)
    BY Enumerations DEF DecLogic
<1>17. IsTable(DecAgg)
    BY Enumerations DEF DecAgg
<1>18. IsTable(DecEpiOp)
    BY Enumerations DEF DecEpiOp
<1>19. IsTable(DecEffect)
    BY Enumerations DEF DecEffect
<1>20. IsTable(DecSafety)
    BY Enumerations DEF DecSafety
<1> QED
    BY <1>1, <1>2, <1>3, <1>4, <1>5, <1>6, <1>7, <1>8, <1>9, <1>10, <1>11,
       <1>12, <1>13, <1>14, <1>15, <1>16, <1>17, <1>18, <1>19, <1>20
       DEF Sums

LEMMA StructureTables == \A T \in DOMAIN Structures : IsProduction(Structures[T])
<1>1. IsProduction(DecSchema)
    <2>1. DecSchema = [i \in 1..9 |-> IF i = 1 THEN "OctadSchema" ELSE "ModalitySchema"]
        BY DEF DecSchema
    <2>2. "ModalitySchema" \in Types
        BY TypesRead
    <2> QED BY <2>1, <2>2 DEF IsProduction
<1>2. IsProduction(DecStatement)
    BY TypesRead DEF IsProduction, DecStatement
<1>3. /\ IsProduction(DecVerb)
      /\ IsProduction(DecFieldDef)
      /\ IsProduction(DecModSchema)
      /\ IsProduction(<<"FieldRef", "Modality", "str">>)
      /\ IsProduction(<<"OrderItem", "FieldRef", "bool">>)
      /\ IsProduction(<<"EpiClause", "Agent*", "EpiReq*">>)
      /\ IsProduction(<<"RecordField", "str", "VqlType">>)
    BY TypesRead DEF IsProduction, DecVerb, DecFieldDef, DecModSchema
<1> QED BY <1>1, <1>2, <1>3 DEF Structures

LEMMA ElementTypes ==
    /\ \A k \in Kinds : Root[k] \in Types
    /\ \A T \in DOMAIN Optional : Optional[T] \in Types
    /\ \A T \in DOMAIN Listed : Listed[T] \in Types
BY TypesRead DEF Kinds, Root, Optional, Listed

\* No call but the one that enters a guarded decoder leaves its return behind.
LEMMA ReadType ==
    ASSUME NEW T \in Types
    PROVE  Read(T) \in Quiet
BY DEF Read, Quiet, Items

LEMMA ProduceType ==
    ASSUME NEW p, IsProduction(p), p[1] \in Constructors
    PROVE  Produce(p) \in Seq(Quiet)
<1> DEFINE calls == [i \in 1..(Len(p) - 1) |-> Read(p[i + 1])]
           node == <<"node", p[1], Len(p) - 1>>
<1>1. Len(p) \in Nat \ {0} /\ Len(p) - 1 \in Nat
    BY DEF IsProduction
<1>2. calls \in Seq(Quiet)
    <2>1. ASSUME NEW i \in 1..(Len(p) - 1) PROVE Read(p[i + 1]) \in Quiet
        <3>1. i + 1 \in 2..Len(p)
            BY <1>1
        <3> QED BY <3>1, ReadType DEF IsProduction
    <2>2. calls \in [1..(Len(p) - 1) -> Quiet]
        BY <2>1
    <2> QED BY <1>1, <2>2, SeqDef
<1>3. <<node>> \in Seq(Quiet)
    <2>1. node \in Quiet
        BY <1>1 DEF Quiet, Items
    <2> HIDE DEF node
    <2> QED BY <2>1
<1>4. Produce(p) = calls \o <<node>>
    BY DEF Produce
<1> HIDE DEF calls, node
<1> QED BY <1>2, <1>3, <1>4, ConcatProperties

-----------------------------------------------------------------------------
(* Counting the guarded decoders that have not returned.                   *)

OpenCalls(calls) == {i \in DOMAIN calls : calls[i] = <<"leave">>}
Open(calls) == Cardinality(OpenCalls(calls))

LEMMA OpenFinite ==
    ASSUME NEW calls \in Seq(Items)
    PROVE  IsFiniteSet(OpenCalls(calls)) /\ Open(calls) \in Nat
<1>1. Len(calls) \in Nat /\ DOMAIN calls = 1..Len(calls)
    BY LenProperties
<1>2. IsFiniteSet(1..Len(calls))
    BY <1>1, FS_Interval
<1>3. OpenCalls(calls) \in SUBSET (1..Len(calls))
    BY <1>1 DEF OpenCalls
<1> QED BY <1>2, <1>3, FS_Subset, FS_CardinalityType DEF Open

LEMMA OpenNone ==
    ASSUME NEW calls \in Seq(Quiet)
    PROVE  calls \in Seq(Items) /\ Open(calls) = 0
<1>1. Quiet \subseteq Items /\ <<"leave">> \notin Quiet
    BY DEF Quiet
<1>2. calls \in Seq(Items)
    BY <1>1, SeqMonotonic
<1>3. ASSUME NEW i \in DOMAIN calls PROVE calls[i] # <<"leave">>
    <2>1. i \in 1..Len(calls)
        BY LenProperties
    <2>2. calls[i] \in Quiet
        BY <2>1, ElementOfSeq
    <2> QED BY <1>1, <2>2
<1>4. OpenCalls(calls) = {}
    BY <1>3 DEF OpenCalls
<1> QED BY <1>2, <1>4, FS_EmptySet DEF Open

LEMMA OpenConcat ==
    ASSUME NEW s \in Seq(Items), NEW t \in Seq(Items)
    PROVE  Open(s \o t) = Open(s) + Open(t)
<1> DEFINE n == Len(s)
           A == OpenCalls(s)
           B == {i \in (n + 1)..(n + Len(t)) : t[i - n] = <<"leave">>}
           shift == [i \in OpenCalls(t) |-> n + i]
<1>1. /\ n \in Nat /\ DOMAIN s = 1..n
      /\ Len(t) \in Nat /\ DOMAIN t = 1..Len(t)
    BY LenProperties
<1>2. /\ s \o t \in Seq(Items) /\ Len(s \o t) = n + Len(t)
      /\ \A i \in 1..(n + Len(t)) : (s \o t)[i] = IF i <= n THEN s[i] ELSE t[i - n]
    BY ConcatProperties
<1>3. DOMAIN (s \o t) = 1..(n + Len(t))
    BY <1>2, LenProperties
<1>4. OpenCalls(s \o t) = A \cup B
    BY <1>1, <1>2, <1>3 DEF OpenCalls
<1>5. A \cap B = {}
    BY <1>1 DEF OpenCalls
<1>6. ExistsBijection(OpenCalls(t), B)
    <2>1. shift \in [OpenCalls(t) -> B]
        BY <1>1 DEF OpenCalls
    <2>2. \A i, j \in OpenCalls(t) : shift[i] = shift[j] => i = j
        BY <1>1 DEF OpenCalls
    <2>3. ASSUME NEW j \in B PROVE \E i \in OpenCalls(t) : shift[i] = j
        <3>1. j - n \in OpenCalls(t)
            BY <1>1 DEF OpenCalls
        <3>2. shift[j - n] = j
            BY <1>1, <3>1
        <3> QED BY <3>1, <3>2
    <2> HIDE DEF shift, B
    <2> QED
        BY <2>1, <2>2, <2>3
        DEF ExistsBijection, Bijection, Injection, Surjection, IsInjective
<1> HIDE DEF B
<1>7. IsFiniteSet(A) /\ IsFiniteSet(OpenCalls(t)) /\ Cardinality(A) \in Nat
    BY OpenFinite DEF Open
<1>8. IsFiniteSet(B) /\ Cardinality(B) = Open(t)
    BY <1>6, <1>7, FS_Bijection DEF Open
<1>9. Cardinality(A \cup B) = Cardinality(A) + Cardinality(B) - Cardinality(A \cap B)
    BY <1>7, <1>8, FS_Union
<1>10. Open(t) \in Nat /\ Cardinality(A \cap B) = 0
    BY <1>5, OpenFinite, FS_EmptySet
<1> HIDE DEF A
<1>11. Cardinality(A \cup B) = Cardinality(A) + Open(t)
    BY <1>7, <1>8, <1>9, <1>10
<1> QED BY <1>4, <1>11 DEF Open, A

\* The next call is open, or it is not, and the others are as they were.
LEMMA OpenTail ==
    ASSUME NEW calls \in Seq(Items), calls # <<>>
    PROVE  /\ Tail(calls) \in Seq(Items) /\ Open(Tail(calls)) \in Nat
           /\ calls[1] = <<"leave">> => Open(calls) = 1 + Open(Tail(calls))
           /\ calls[1] # <<"leave">> => Open(calls) = Open(Tail(calls))
<1> DEFINE first == <<calls[1]>>
<1>1. Tail(calls) \in Seq(Items) /\ Open(Tail(calls)) \in Nat
    BY HeadTailProperties, OpenFinite
<1>2. Len(calls) \in Nat \ {0} /\ calls[1] \in Items
    <2>1. Len(calls) \in Nat \ {0}
        BY EmptySeq
    <2>2. 1 \in 1..Len(calls)
        BY <2>1
    <2> QED BY <2>1, <2>2, ElementOfSeq
<1>3. first \in Seq(Items) /\ Len(first) = 1 /\ DOMAIN first = {1} /\ first[1] = calls[1]
    BY <1>2
<1>4. calls = first \o Tail(calls)
    <2>1. /\ first \o Tail(calls) \in Seq(Items)
          /\ Len(first \o Tail(calls)) = 1 + Len(Tail(calls))
          /\ \A i \in 1..(1 + Len(Tail(calls))) :
                 (first \o Tail(calls))[i] = IF i <= 1 THEN first[i] ELSE Tail(calls)[i - 1]
        BY <1>1, <1>3, ConcatProperties
    <2>2. /\ Len(Tail(calls)) = Len(calls) - 1
          /\ \A i \in 1..Len(Tail(calls)) : Tail(calls)[i] = calls[i + 1]
        BY HeadTailProperties
    <2> HIDE DEF first
    <2>3. ASSUME NEW i \in 1..Len(calls) PROVE calls[i] = (first \o Tail(calls))[i]
        <3>1. CASE i = 1
            BY <1>2, <1>3, <2>1, <2>2, <3>1
        <3>2. CASE i # 1
            <4>1. i - 1 \in 1..Len(Tail(calls)) /\ (i - 1) + 1 = i
                BY <1>2, <2>2, <3>2
            <4>2. Tail(calls)[i - 1] = calls[i]
                BY <2>2, <4>1
            <4>3. i \in 1..(1 + Len(Tail(calls))) /\ ~(i <= 1)
                BY <1>2, <2>2, <3>2
            <4> QED BY <2>1, <4>2, <4>3
        <3> QED BY <3>1, <3>2
    <2>4. Len(first \o Tail(calls)) = Len(calls)
        BY <1>2, <2>1, <2>2
    <2> QED BY <2>1, <2>3, <2>4, SeqEqual
<1>5. Open(calls) = Open(first) + Open(Tail(calls))
    BY <1>1, <1>3, <1>4, OpenConcat
<1>6. calls[1] = <<"leave">> => Open(first) = 1
    <2>1. calls[1] = <<"leave">> => OpenCalls(first) = {1}
        BY <1>3 DEF OpenCalls
    <2> QED BY <2>1, FS_Singleton DEF Open
<1>7. calls[1] # <<"leave">> => Open(first) = 0
    <2>1. calls[1] # <<"leave">> => OpenCalls(first) = {}
        BY <1>3 DEF OpenCalls
    <2> QED BY <2>1, FS_EmptySet DEF Open
<1> QED BY <1>1, <1>5, <1>6, <1>7

-----------------------------------------------------------------------------
(* Type correctness and the depth.                                         *)

WireInv ==
    /\ WireTypeOK
    /\ DepthBalanced
    /\ out = "idle" => pos = 0 /\ depth = 0

LEMMA ItemShape ==
    ASSUME NEW item \in Items
    PROVE  /\ item[1] = "leave" <=> item = <<"leave">>
           /\ item[1] \in {"read", "enter"} => item[2] \in Types
           /\ item[1] = "text" => item[2] \in Nat
           /\ item[1] = "repeat" => item[2] \in Types /\ item[3] \in Nat
BY DEF Items

\* The next call, and the bytes it takes.
LEMMA NextCall ==
    ASSUME WireInv, out = "running", todo # <<>>
    PROVE  Top \in Items /\ Width \in Nat
<1>1. todo \in Seq(Items)
    BY DEF WireInv, WireTypeOK
<1>2. Top \in Items
    <2>1. 1 \in 1..Len(todo)
        BY <1>1, EmptySeq
    <2> QED BY <1>1, <2>1, ElementOfSeq DEF Top
<1>3. Width \in Nat
    <2>1. Top[1] = "text" => Top[2] \in Nat
        BY <1>2, ItemShape
    <2> QED BY <2>1, WireAssumption DEF Width
<1> QED BY <1>2, <1>3

LEMMA TakenType ==
    ASSUME WireInv, out = "running", todo # <<>>, Refusal = "none"
    PROVE  /\ pos + Width \in 0..Len(input)
           /\ Taken \in Seq(Byte) /\ Number \in Nat
<1>1. /\ input \in Seq(Byte) /\ Len(input) \in Nat
      /\ pos \in 0..Len(input) /\ Width \in Nat
    BY NextCall, LenProperties DEF WireInv, WireTypeOK
<1>2. pos + Width <= Len(input)
    BY <1>1 DEF Refusal, TakeError
<1>3. Taken \in Seq(Byte)
    <2>1. ASSUME NEW i \in (pos + 1)..(pos + Width) PROVE input[i] \in Byte
        <3>1. i \in 1..Len(input)
            BY <1>1, <1>2
        <3> QED BY <1>1, <3>1, ElementOfSeq
    <2>2. pos + 1 \in Int /\ pos + Width \in Int
        BY <1>1
    <2> QED BY <2>1, <2>2, SubSeqProperties DEF Taken
<1> QED BY <1>1, <1>2, <1>3, NumberType DEF Number

\* A step that succeeds, whatever it leaves to do.
LEMMA Succeeds ==
    ASSUME WireInv, NEW item, Goes(item), NEW calls \in Seq(Items), NEW values,
           Step(calls, values)
    PROVE  /\ kind' \in Kinds /\ input' \in Seq(Byte) /\ pos' \in 0..Len(input')
           /\ todo' \in Seq(Items) /\ out' = "running"
           /\ Open(todo') = Open(calls) + Open(Rest)
           /\ Open(calls) \in Nat /\ Open(Rest) \in Nat
           /\ depth = Open(todo) /\ depth \in 0..MaxDepth
           /\ item = "leave" => Open(todo) = 1 + Open(Rest)
           /\ item # "leave" => Open(todo) = Open(Rest)
<1>1. todo \in Seq(Items) /\ todo # <<>> /\ Top \in Items /\ Top[1] = item
    BY NextCall DEF Goes, WireInv, WireTypeOK
<1>2. Rest \in Seq(Items) /\ Open(Rest) \in Nat
    BY <1>1, OpenTail DEF Rest
<1>3. todo' = calls \o Rest /\ todo' \in Seq(Items)
    BY <1>2, ConcatProperties DEF Step
<1>4. Open(calls \o Rest) = Open(calls) + Open(Rest)
    BY <1>2, OpenConcat
<1>5. pos' \in 0..Len(input')
    BY TakenType DEF Goes, Step
<1>6. item = "leave" <=> Top = <<"leave">>
    BY <1>1, ItemShape
<1>7. /\ item = "leave" => Open(todo) = 1 + Open(Rest)
      /\ item # "leave" => Open(todo) = Open(Rest)
    BY <1>1, <1>6, OpenTail DEF Top, Rest
<1>8. depth = Open(todo) /\ depth \in 0..MaxDepth
    BY DEF WireInv, WireTypeOK, DepthBalanced, Open, OpenCalls
<1>9. kind' \in Kinds /\ input' \in Seq(Byte) /\ out' = "running"
    BY DEF WireInv, WireTypeOK, Step, Goes
<1> QED BY <1>2, <1>3, <1>4, <1>5, <1>7, <1>8, <1>9, OpenFinite

\* One that neither enters nor leaves a guarded decoder.
QuietAction ==
    \E item, values : \E calls \in Seq(Quiet) :
        /\ Goes(item) /\ item # "leave"
        /\ item \in {"magic", "version", "end"} => calls = <<>>
        /\ Step(calls, values)
        /\ UNCHANGED depth

LEMMA QuietlyDone ==
    ASSUME NEW item, Goes(item), item # "leave", NEW calls \in Seq(Quiet),
           item \in {"magic", "version", "end"} => calls = <<>>,
           NEW values, Step(calls, values), UNCHANGED depth
    PROVE  QuietAction
BY DEF QuietAction

LEMMA QuietStep == WireInv /\ QuietAction => WireInv'
<1> SUFFICES ASSUME WireInv, QuietAction PROVE WireInv'
    OBVIOUS
<1>1. PICK item, values, calls :
          /\ calls \in Seq(Quiet) /\ Goes(item) /\ item # "leave"
          /\ Step(calls, values)
          /\ UNCHANGED depth
    BY DEF QuietAction
<1>2. calls \in Seq(Items) /\ Open(calls) = 0
    BY <1>1, OpenNone
<1>3. /\ kind' \in Kinds /\ input' \in Seq(Byte) /\ pos' \in 0..Len(input')
      /\ todo' \in Seq(Items) /\ out' = "running"
      /\ Open(todo') = Open(calls) + Open(Rest) /\ Open(Rest) \in Nat
      /\ depth = Open(todo) /\ depth \in 0..MaxDepth
      /\ Open(todo) = Open(Rest)
    BY <1>1, <1>2, Succeeds
<1>4. depth' = Open(todo') /\ depth' \in 0..MaxDepth
    BY <1>1, <1>2, <1>3
<1> QED
    BY <1>3, <1>4 DEF WireInv, WireTypeOK, DepthBalanced, Open, OpenCalls

LEMMA WireInitInv == WireInit => WireInv
<1> SUFFICES ASSUME WireInit PROVE WireInv
    OBVIOUS
<1>1. OpenCalls(todo) = {}
    BY DEF WireInit, OpenCalls
<1>2. depth = Cardinality(OpenCalls(todo))
    BY <1>1, FS_EmptySet DEF WireInit
<1>3. WireTypeOK
    BY WireAssumption DEF WireInit, WireTypeOK
<1> QED BY <1>2, <1>3 DEF WireInit, WireInv, DepthBalanced, OpenCalls

LEMMA NothingLeft == <<>> \in Seq(Quiet)
BY EmptySeq

\* The actions that go on reading, and the calls they leave to make.
LEMMA ReadsAreQuiet ==
    ASSUME WireInv,
           ReadSum \/ ReadStructure \/ ReadOption \/ ReadCount \/ ReadBool \/ ReadWord
               \/ ReadLength
    PROVE  QuietAction
<1>1. ASSUME Goes("read")
      PROVE  Top[2] \in Types /\ Number \in Nat /\ ContentError = "none"
    <2>1. Top \in Items /\ Top[1] = "read"
        BY <1>1, NextCall DEF Goes
    <2>2. ContentError = "none"
        BY <1>1, <2>1 DEF Goes, Refusal
    <2> QED BY <1>1, <2>1, <2>2, ItemShape, TakenType DEF Goes
<1>2. CASE ReadSum
    <2> DEFINE table == Sums[Top[2]]
    <2>1. IsTable(table)
        BY <1>2, SumTables DEF ReadSum
    <2>2. Number < Len(table)
        <3>1. Top[2] \notin DOMAIN Optional \cup DOMAIN Listed \cup {"bool", "str"}
            BY <1>2 DEF ReadSum, Sums, Optional, Listed
        <3>2. ContentError = IF Number < Len(Sums[Top[2]]) THEN "none" ELSE "BadTag"
            BY <1>2, <3>1 DEF ReadSum, Goes, ContentError
        <3> QED BY <1>1, <1>2, <3>2 DEF ReadSum
    <2>3. Number + 1 \in DOMAIN table
        BY <1>1, <1>2, <2>1, <2>2 DEF ReadSum, IsTable
    <2>4. table[Number + 1][1] \in Constructors
        <3> HIDE DEF Sums
        <3> QED BY <1>2, <2>3 DEF ReadSum, Constructors
    <2>5. Produce(table[Number + 1]) \in Seq(Quiet)
        BY <2>1, <2>3, <2>4, ProduceType DEF IsTable
    <2> QED BY <1>2, <2>5, QuietlyDone DEF ReadSum
<1>3. CASE ReadStructure
    <2>1. IsProduction(Structures[Top[2]]) /\ Structures[Top[2]][1] \in Constructors
        <3>1. Top[2] \in DOMAIN Structures
            BY <1>3 DEF ReadStructure
        <3> HIDE DEF Structures
        <3> QED BY <3>1, StructureTables DEF Constructors
    <2>2. Produce(Structures[Top[2]]) \in Seq(Quiet)
        BY <2>1, ProduceType
    <2> QED BY <1>3, <2>2, QuietlyDone DEF ReadStructure
<1>4. CASE ReadOption
    <2> DEFINE calls == IF Number = 1 THEN << Read(Optional[Top[2]]), <<"keep">> >> ELSE <<>>
    <2>1. Read(Optional[Top[2]]) \in Quiet
        BY <1>4, ElementTypes, ReadType DEF ReadOption
    <2>2. <<"keep">> \in Quiet
        BY DEF Quiet, Items
    <2>3. calls \in Seq(Quiet)
        BY <2>1, <2>2
    <2> HIDE DEF calls
    <2>4. Goes("read") /\ Step(calls, Append(built, <<"list", <<>>>>)) /\ UNCHANGED depth
        BY <1>4 DEF ReadOption, calls
    <2> QED BY <2>3, <2>4, QuietlyDone
<1>5. CASE ReadCount
    <2> DEFINE calls == << <<"repeat", Listed[Top[2]], Number>> >>
    <2>1. Listed[Top[2]] \in Types /\ Number \in Nat
        BY <1>1, <1>5, ElementTypes DEF ReadCount
    <2>2. <<"repeat", Listed[Top[2]], Number>> \in Quiet
        BY <2>1 DEF Quiet, Items
    <2>3. calls \in Seq(Quiet)
        BY <2>2
    <2> HIDE DEF calls
    <2>4. Goes("read") /\ Step(calls, Append(built, <<"list", <<>>>>)) /\ UNCHANGED depth
        BY <1>5 DEF ReadCount, calls
    <2> QED BY <2>3, <2>4, QuietlyDone
<1>6. CASE ReadBool \/ ReadWord
    <2>1. Goes("read") /\ (\E values : Step(<<>>, values)) /\ UNCHANGED depth
        BY <1>6 DEF ReadBool, ReadWord
    <2> QED BY <2>1, NothingLeft, QuietlyDone
<1>7. CASE ReadLength
    <2> DEFINE calls == << <<"text", Number>> >>
    <2>1. <<"text", Number>> \in Quiet
        BY <1>1, <1>7 DEF ReadLength, Quiet, Items
    <2>2. calls \in Seq(Quiet)
        BY <2>1
    <2> HIDE DEF calls
    <2>3. Goes("read") /\ Step(calls, built) /\ UNCHANGED depth
        BY <1>7 DEF ReadLength, calls
    <2> QED BY <2>2, <2>3, QuietlyDone
<1> QED BY <1>2, <1>3, <1>4, <1>5, <1>6, <1>7

\* Those that build, and the frame around them.
LEMMA BuildsAreQuiet ==
    ASSUME WireInv, Frame \/ Repeat \/ Keep \/ ReadText \/ Node
    PROVE  QuietAction
<1>1. CASE Frame
    <2>1. PICK item \in {"magic", "version", "end"} : Goes(item)
        BY <1>1 DEF Frame
    <2>2. Step(<<>>, built) /\ UNCHANGED depth
        BY <1>1 DEF Frame
    <2> QED BY <2>1, <2>2, NothingLeft, QuietlyDone
<1>2. CASE Repeat
    <2> DEFINE calls == IF Top[3] = 0 THEN <<>>
                        ELSE << Read(Top[2]), <<"keep">>, <<"repeat", Top[2], Top[3] - 1>> >>
    <2>1. Top[2] \in Types /\ Top[3] \in Nat
        BY <1>2, NextCall, ItemShape DEF Repeat, Goes
    <2>2. Read(Top[2]) \in Quiet /\ <<"keep">> \in Quiet
        BY <2>1, ReadType DEF Quiet, Items
    <2>3. ASSUME Top[3] # 0 PROVE <<"repeat", Top[2], Top[3] - 1>> \in Quiet
        BY <2>1, <2>3 DEF Quiet, Items
    <2>4. calls \in Seq(Quiet)
        BY <2>2, <2>3
    <2> HIDE DEF calls
    <2>5. Goes("repeat") /\ Step(calls, built) /\ UNCHANGED depth
        BY <1>2 DEF Repeat, calls
    <2> QED BY <2>4, <2>5, QuietlyDone
<1>3. CASE Keep
    <2>1. Goes("keep") /\ (\E values : Step(<<>>, values)) /\ UNCHANGED depth
        BY <1>3 DEF Keep
    <2> QED BY <2>1, NothingLeft, QuietlyDone
<1>4. CASE ReadText
    <2>1. Goes("text") /\ (\E values : Step(<<>>, values)) /\ UNCHANGED depth
        BY <1>4 DEF ReadText
    <2> QED BY <2>1, NothingLeft, QuietlyDone
<1>5. CASE Node
    <2>1. Goes("node") /\ (\E values : Step(<<>>, values)) /\ UNCHANGED depth
        BY <1>5 DEF Node
    <2> QED BY <2>1, NothingLeft, QuietlyDone
<1> QED BY <1>1, <1>2, <1>3, <1>4, <1>5

\* A guarded decoder is entered, below the limit, and its return is left behind.
LEMMA EnterKeepsInv == WireInv /\ Enter => WireInv'
<1> SUFFICES ASSUME WireInv, Enter PROVE WireInv'
    OBVIOUS
<1> DEFINE call == <<"read", Top[2]>>
           calls == << call, <<"leave">> >>
<1>1. call \in Items /\ <<"leave">> \in Items /\ call # <<"leave">>
    <2>1. Top[2] \in Types
        BY NextCall, ItemShape DEF Enter, Goes
    <2> QED BY <2>1 DEF Items
<1>2. calls \in Seq(Items) /\ Open(calls) = 1
    <2> HIDE DEF call
    <2>1. calls \in Seq(Items)
        BY <1>1
    <2>2. OpenCalls(calls) = {2}
        BY <1>1 DEF OpenCalls
    <2> QED BY <2>1, <2>2, FS_Singleton DEF Open
<1> HIDE DEF calls
<1>3. Goes("enter") /\ Step(calls, built) /\ depth' = depth + 1
    BY DEF Enter, calls, call
<1>4. /\ kind' \in Kinds /\ input' \in Seq(Byte) /\ pos' \in 0..Len(input')
      /\ todo' \in Seq(Items) /\ out' = "running"
      /\ Open(todo') = Open(calls) + Open(Rest) /\ Open(Rest) \in Nat
      /\ depth = Open(todo) /\ depth \in 0..MaxDepth
      /\ Open(todo) = Open(Rest)
    BY <1>2, <1>3, Succeeds
<1>5. depth # MaxDepth
    BY <1>3 DEF Goes, Refusal
<1>6. depth' = Open(todo') /\ depth' \in 0..MaxDepth
    BY <1>2, <1>3, <1>4, <1>5, WireAssumption
<1> QED BY <1>4, <1>6 DEF WireInv, WireTypeOK, DepthBalanced, Open, OpenCalls

LEMMA LeaveKeepsInv == WireInv /\ Leave => WireInv'
<1> SUFFICES ASSUME WireInv, Leave PROVE WireInv'
    OBVIOUS
<1>1. Goes("leave") /\ Step(<<>>, built) /\ depth' = Drop(depth)
    BY DEF Leave
<1>2. <<>> \in Seq(Items) /\ Open(<<>>) = 0
    BY NothingLeft, OpenNone
<1>3. /\ kind' \in Kinds /\ input' \in Seq(Byte) /\ pos' \in 0..Len(input')
      /\ todo' \in Seq(Items) /\ out' = "running"
      /\ Open(todo') = Open(<<>>) + Open(Rest) /\ Open(Rest) \in Nat
      /\ depth = Open(todo) /\ depth \in 0..MaxDepth
      /\ Open(todo) = 1 + Open(Rest)
    BY <1>1, <1>2, Succeeds
<1>4. depth' = Open(todo') /\ depth' \in 0..MaxDepth
    BY <1>1, <1>2, <1>3, WireAssumption DEF Drop
<1> QED BY <1>3, <1>4 DEF WireInv, WireTypeOK, DepthBalanced, Open, OpenCalls

\* An error leaves the calls under way, which then end one by one.
LEMMA EndsKeepInv ==
    ASSUME WireInv, Refuse \/ Unwind \/ Return
    PROVE  WireInv'
<1>1. CASE Refuse
    <2>1. Refusal \in Errors
        BY <1>1 DEF Refuse, Refusal, TakeError, ContentError, Errors
    <2> QED
        BY <1>1, <2>1 DEF Refuse, WireInv, WireTypeOK, DepthBalanced, Errors
<1>2. CASE Unwind
    <2>1. todo \in Seq(Items) /\ todo # <<>>
        BY <1>2 DEF Unwind, WireInv, WireTypeOK
    <2>2. Top \in Items
        <3>1. 1 \in 1..Len(todo)
            BY <2>1, EmptySeq
        <3> QED BY <2>1, <3>1, ElementOfSeq DEF Top
    <2>3. Top[1] = "leave" <=> Top = <<"leave">>
        BY <2>2, ItemShape
    <2>4. /\ Rest \in Seq(Items) /\ Open(Rest) \in Nat
          /\ Top = <<"leave">> => Open(todo) = 1 + Open(Rest)
          /\ Top # <<"leave">> => Open(todo) = Open(Rest)
        BY <2>1, OpenTail DEF Top, Rest
    <2>5. depth = Open(todo) /\ depth \in 0..MaxDepth
        BY DEF WireInv, WireTypeOK, DepthBalanced, Open, OpenCalls
    <2>6. todo' = Rest /\ depth' = IF Top[1] = "leave" THEN Drop(depth) ELSE depth
        BY <1>2 DEF Unwind
    <2>7. depth' = Open(todo') /\ depth' \in 0..MaxDepth
        BY <2>3, <2>4, <2>5, <2>6, WireAssumption DEF Drop
    <2>8. todo' \in Seq(Items)
        BY <2>4, <2>6
    <2>9. out' \in Errors /\ out' # "idle" /\ UNCHANGED <<kind, input, pos>>
        BY <1>2 DEF Unwind, Errors
    <2> QED
        BY <2>7, <2>8, <2>9 DEF WireInv, WireTypeOK, DepthBalanced, Open, OpenCalls
<1>3. CASE Return
    BY <1>3 DEF Return, WireInv, WireTypeOK, DepthBalanced
<1> QED BY <1>1, <1>2, <1>3

LEMMA StartKeepsInv ==
    ASSUME WireInv, NEW k \in Kinds, NEW bytes \in Seq(Byte), Start(k, bytes)
    PROVE  WireInv'
<1> DEFINE calls == << <<"magic">>, <<"version">>, Read(Root[k]), <<"end">> >>
<1>1. calls \in Seq(Quiet)
    <2>1. <<"magic">> \in Quiet /\ <<"version">> \in Quiet /\ <<"end">> \in Quiet
        BY DEF Quiet, Items
    <2>2. Read(Root[k]) \in Quiet
        BY ElementTypes, ReadType
    <2> QED BY <2>1, <2>2
<1> HIDE DEF calls
<1>2. calls \in Seq(Items) /\ Open(calls) = 0
    BY <1>1, OpenNone
<1>3. bytes \in Seq(Byte) /\ Len(bytes) \in Nat
    BY WireAssumption, LenProperties
<1>4. /\ todo' = calls /\ kind' = k /\ input' = bytes /\ out' = "running"
      /\ pos' = pos /\ depth' = depth /\ out = "idle"
    BY DEF Start, calls
<1>5. pos' = 0 /\ depth' = 0
    BY <1>4 DEF WireInv
<1>6. pos' \in 0..Len(input') /\ depth' \in 0..MaxDepth
    BY <1>3, <1>4, <1>5, WireAssumption
<1>7. depth' = Open(todo') /\ todo' \in Seq(Items)
    BY <1>2, <1>4, <1>5
<1> QED
    BY <1>3, <1>4, <1>6, <1>7 DEF WireInv, WireTypeOK, DepthBalanced, Open, OpenCalls

LEMMA WireInvKept == WireInv /\ [WireNext]_wireVars => WireInv'
<1> SUFFICES ASSUME WireInv, [WireNext]_wireVars PROVE WireInv'
    OBVIOUS
<1>1. CASE Decode
    BY <1>1, ReadsAreQuiet, BuildsAreQuiet, QuietStep, EnterKeepsInv, LeaveKeepsInv, EndsKeepInv
       DEF Decode
<1>2. CASE \E k \in Kinds, bytes \in Seq(Byte) : Start(k, bytes)
    BY <1>2, StartKeepsInv
<1>3. CASE UNCHANGED wireVars
    BY <1>3 DEF wireVars, WireInv, WireTypeOK, DepthBalanced
<1> QED BY <1>1, <1>2, <1>3 DEF WireNext

\* The cursor stays within the stream, the depth within the limit, and every
\* call left to make is one of a decoder there is (WireTypeOK).
THEOREM WireTypeCorrect == WireSpec => []WireTypeOK
<1>1. WireInv => WireTypeOK
    BY DEF WireInv
<1> QED BY <1>1, WireInitInv, WireInvKept, PTL DEF WireSpec

\* On every path, errors included, the depth is the number of guarded decoders
\* that have not returned (DepthBalanced).
THEOREM DepthIsBalanced == WireSpec => []DepthBalanced
<1>1. WireInv => DepthBalanced
    BY DEF WireInv
<1> QED BY <1>1, WireInitInv, WireInvKept, PTL DEF WireSpec

-----------------------------------------------------------------------------
(* The frame of a stream that is accepted.                                 *)

\* The stream begins with the magic of its decoder and the version.
Framed == Len(input) >= 2 /\ input[1] = Magic[kind] /\ input[2] = Version

\* What a decoder accepts is such a stream, and it has read all of it: no other
\* decoder's stream, no later version's, and no trailing bytes.
AcceptedWhole == out = "Ok" => Framed /\ pos = Len(input)

\* The end is checked last, after it the decoder returns; magic and version are
\* read first, in this order, and the cursor never goes back to them.
FrameInv ==
    /\ out = "running" /\ todo = <<>> => Framed /\ pos = Len(input)
    /\ out = "running" /\ todo # <<>> =>
           /\ todo[Len(todo)] = <<"end">>
           /\ \/ /\ pos = 0 /\ Len(todo) > 2
                 /\ todo[1] = <<"magic">> /\ todo[2] = <<"version">>
              \/ /\ pos = 1 /\ Len(todo) > 1
                 /\ todo[1] = <<"version">> /\ input[1] = Magic[kind]
              \/ pos >= 2 /\ Framed
    /\ AcceptedWhole

\* The first bytes of a stream are checked as they are taken.
LEMMA FrameChecked ==
    ASSUME WireInv, NEW item \in {"magic", "version", "end"}, Goes(item)
    PROVE  /\ item = "end" => Width = 0 /\ pos = Len(input)
           /\ item # "end" => Width = 1 /\ pos + 1 <= Len(input)
           /\ item = "magic" => input[pos + 1] = Magic[kind]
           /\ item = "version" => input[pos + 1] = Version
<1>1. /\ Top[1] = item /\ pos \in Nat /\ input \in Seq(Byte)
      /\ pos + Width \in 0..Len(input) /\ Len(input) \in Nat
    BY TakenType, LenProperties DEF Goes, WireInv, WireTypeOK
<1>2. ContentError = "none"
    BY <1>1 DEF Goes, Refusal
<1>3. CASE item = "end"
    BY <1>1, <1>2, <1>3 DEF Width, ContentError
<1>4. CASE item # "end"
    <2>1. Width = 1
        BY <1>1, <1>4 DEF Width
    <2>2. Taken \in Seq(Byte) /\ Len(Taken) = 1 /\ Taken[1] = input[pos + 1]
        <3>1. Taken \in Seq(Byte)
            BY TakenType DEF Goes
        <3>2. Taken = SubSeq(input, pos + 1, pos + 1)
            BY <2>1 DEF Taken
        <3>3. pos + 1 \in 1..Len(input) /\ pos + 1 \in Int
            BY <1>1, <2>1
        <3>4. \A i \in (pos + 1)..(pos + 1) : input[i] \in Byte
            <4>1. input[pos + 1] \in Byte
                BY <1>1, <3>3, ElementOfSeq
            <4> QED BY <3>3, <4>1
        <3> DEFINE n == pos + 1
        <3>5. /\ Len(SubSeq(input, n, n)) = IF n <= n THEN n - n + 1 ELSE 0
              /\ \A i \in 1..(n - n + 1) : SubSeq(input, n, n)[i] = input[n + i - 1]
            <4> HIDE DEF n
            <4>1. n \in Int /\ \A i \in n..n : input[i] \in Byte
                BY <3>3, <3>4 DEF n
            <4> QED BY <4>1, SubSeqProperties
        <3>6. n - n + 1 = 1 /\ n <= n /\ n + 1 - 1 = n /\ 1 \in 1..1
            BY <3>3
        <3> HIDE DEF n
        <3>7. Len(SubSeq(input, n, n)) = 1 /\ SubSeq(input, n, n)[1] = input[n]
            BY <3>5, <3>6
        <3> QED BY <3>1, <3>2, <3>7 DEF n
    <2>3. Number = input[pos + 1]
        BY <2>2, OneByte DEF Number
    <2>4. item = "magic" => Number = Magic[kind]
        BY <1>1, <1>2 DEF ContentError, RightMagic
    <2>5. item = "version" => Number = Version
        BY <1>1, <1>2 DEF ContentError
    <2> QED BY <1>1, <1>4, <2>1, <2>3, <2>4, <2>5
<1> QED BY <1>3, <1>4

LEMMA FrameStep ==
    ASSUME WireInv, FrameInv, NEW item, Goes(item), NEW calls \in Seq(Items), NEW values,
           Step(calls, values), item \in {"magic", "version", "end"} => calls = <<>>
    PROVE  FrameInv'
<1>1. /\ out = "running" /\ todo # <<>> /\ todo \in Seq(Items) /\ todo[1][1] = item
      /\ Len(todo) \in Nat \ {0} /\ Len(calls) \in Nat
    BY EmptySeq, LenProperties DEF Goes, Top, WireInv, WireTypeOK
<1>2. /\ Rest \in Seq(Items) /\ Len(Rest) = Len(todo) - 1
      /\ \A i \in 1..Len(Rest) : Rest[i] = todo[i + 1]
    BY <1>1, HeadTailProperties DEF Rest
<1>3. /\ todo' = calls \o Rest /\ Len(todo') = Len(calls) + Len(Rest)
      /\ \A i \in 1..(Len(calls) + Len(Rest)) :
             todo'[i] = IF i <= Len(calls) THEN calls[i] ELSE Rest[i - Len(calls)]
    <2>1. todo' = calls \o Rest
        BY DEF Step
    <2>2. Rest \in Seq(Items)
        BY <1>2
    <2>3. /\ Len(calls \o Rest) = Len(calls) + Len(Rest)
          /\ \A i \in 1..(Len(calls) + Len(Rest)) :
                 (calls \o Rest)[i] = IF i <= Len(calls) THEN calls[i] ELSE Rest[i - Len(calls)]
        BY <2>2, ConcatProperties
    <2> QED BY <2>1, <2>3
<1>4. /\ out' = "running" /\ input' = input /\ kind' = kind /\ pos' = pos + Width
      /\ Width \in Nat /\ pos \in Nat
    BY <1>1, NextCall, LenProperties DEF Step, WireInv, WireTypeOK
<1>5. /\ todo[Len(todo)] = <<"end">>
      /\ \/ /\ pos = 0 /\ Len(todo) > 2
            /\ todo[1] = <<"magic">> /\ todo[2] = <<"version">>
         \/ /\ pos = 1 /\ Len(todo) > 1
            /\ todo[1] = <<"version">> /\ input[1] = Magic[kind]
         \/ pos >= 2 /\ Framed
    BY <1>1 DEF FrameInv
<1>6. CASE Len(todo) = 1
    <2>1. item = "end" /\ Framed
        BY <1>1, <1>5, <1>6
    <2>2. Width = 0 /\ pos = Len(input)
        BY <2>1, FrameChecked
    <2>3. todo' = <<>>
        BY <1>2, <1>3, <1>6, <2>1
    <2> QED BY <1>4, <2>1, <2>2, <2>3 DEF FrameInv, Framed, AcceptedWhole
<1>7. CASE Len(todo) > 1
    <2>1. Len(todo') \in Nat \ {0} /\ todo'[Len(todo')] = <<"end">>
        <3>1. Len(Rest) \in Nat \ {0} /\ Rest[Len(Rest)] = todo[Len(todo)]
            BY <1>1, <1>2, <1>7
        <3>2. todo'[Len(calls) + Len(Rest)] = Rest[Len(Rest)]
            BY <1>1, <1>3, <3>1
        <3> QED BY <1>1, <1>3, <1>5, <3>1, <3>2
    <2>2. todo' # <<>>
        BY <2>1, EmptySeq
    <2>3. \/ /\ pos' = 1 /\ Len(todo') > 1
             /\ todo'[1] = <<"version">> /\ input[1] = Magic[kind]
          \/ pos' >= 2 /\ Framed
        <3>1. CASE pos = 0 /\ Len(todo) > 2 /\ todo[1] = <<"magic">> /\ todo[2] = <<"version">>
            <4>1. item = "magic" /\ calls = <<>>
                BY <1>1, <3>1
            <4>2. Width = 1 /\ input[1] = Magic[kind]
                BY <3>1, <4>1, FrameChecked
            <4>3. Len(todo') = Len(Rest) /\ todo'[1] = Rest[1] /\ Rest[1] = todo[2]
                BY <1>2, <1>3, <3>1, <4>1
            <4> QED BY <1>2, <1>4, <3>1, <4>2, <4>3
        <3>2. CASE pos = 1 /\ todo[1] = <<"version">> /\ input[1] = Magic[kind]
            <4>1. item = "version"
                BY <1>1, <3>2
            <4>2. Width = 1 /\ 2 <= Len(input) /\ input[2] = Version
                BY <3>2, <4>1, FrameChecked
            <4> QED BY <1>4, <3>2, <4>2 DEF Framed
        <3>3. CASE pos >= 2 /\ Framed
            BY <1>4, <3>3
        <3> QED BY <1>5, <3>1, <3>2, <3>3
    <2>4. Framed => Framed'
        BY <1>4 DEF Framed
    <2>5. (input[1] = Magic[kind]) => (input[1] = Magic[kind])'
        BY <1>4
    <2>6. (out # "Ok")'
        BY <1>4
    <2>7. CASE Framed
        BY <2>1, <2>2, <2>3, <2>4, <2>5, <2>6, <2>7 DEF FrameInv, AcceptedWhole
    <2>8. CASE ~Framed
        BY <2>1, <2>2, <2>3, <2>5, <2>6, <2>8 DEF FrameInv, AcceptedWhole
    <2> QED BY <2>7, <2>8
<1>8. Len(todo) = 1 \/ Len(todo) > 1
    <2>1. \A n \in Nat \ {0} : n = 1 \/ n > 1
        OBVIOUS
    <2> QED BY <1>1, <2>1
<1> QED BY <1>6, <1>7, <1>8

LEMMA FrameKept == WireInv /\ FrameInv /\ [WireNext]_wireVars => FrameInv'
<1> SUFFICES ASSUME WireInv, FrameInv, [WireNext]_wireVars PROVE FrameInv'
    OBVIOUS
<1>1. CASE QuietAction
    <2>1. PICK item, values, calls :
              /\ calls \in Seq(Quiet) /\ Goes(item) /\ Step(calls, values)
              /\ item \in {"magic", "version", "end"} => calls = <<>>
        BY <1>1 DEF QuietAction
    <2>2. calls \in Seq(Items)
        BY <2>1, OpenNone
    <2> QED BY <2>1, <2>2, FrameStep
<1>2. CASE Enter
    <2> DEFINE calls == << <<"read", Top[2]>>, <<"leave">> >>
    <2>1. Goes("enter") /\ Step(calls, built)
        BY <1>2 DEF Enter
    <2>2. Top[2] \in Types
        BY <2>1, NextCall, ItemShape DEF Goes
    <2>3. calls \in Seq(Items)
        <3>1. <<"read", Top[2]>> \in Items /\ <<"leave">> \in Items
            BY <2>2 DEF Items
        <3> QED BY <3>1
    <2> HIDE DEF calls
    <2> QED BY <2>1, <2>3, FrameStep
<1>3. CASE Leave
    <2>1. Goes("leave") /\ Step(<<>>, built) /\ <<>> \in Seq(Items)
        BY <1>3, EmptySeq DEF Leave
    <2> QED BY <2>1, FrameStep
<1>4. CASE Refuse \/ Unwind
    BY <1>4 DEF Refuse, Unwind, Refusal, TakeError, ContentError, Errors, FrameInv, AcceptedWhole
<1>5. CASE Return
    BY <1>5 DEF Return, FrameInv, AcceptedWhole, Framed
<1>6. CASE \E k \in Kinds, bytes \in Seq(Byte) : Start(k, bytes)
    <2>1. PICK k \in Kinds, bytes \in Seq(Byte) : Start(k, bytes)
        BY <1>6
    <2>2. pos' = 0 /\ out' = "running"
        BY <2>1 DEF Start, WireInv
    <2>3. /\ todo' # <<>> /\ Len(todo') = 4
          /\ todo'[1] = <<"magic">> /\ todo'[2] = <<"version">> /\ todo'[4] = <<"end">>
        BY <2>1 DEF Start
    <2> QED BY <2>2, <2>3 DEF FrameInv, AcceptedWhole
<1>7. CASE UNCHANGED wireVars
    BY <1>7 DEF wireVars, FrameInv, AcceptedWhole, Framed
<1> QED
    BY <1>1, <1>2, <1>3, <1>4, <1>5, <1>6, <1>7, ReadsAreQuiet, BuildsAreQuiet
       DEF WireNext, Decode

\* A decoder accepts nothing but a stream of its own kind and version, read to
\* its last byte (wire.rs:17-24, 642-653).
THEOREM AcceptsOwnStreamsWhole == WireSpec => []AcceptedWhole
<1>1. WireInit => FrameInv
    BY DEF WireInit, FrameInv, AcceptedWhole
<1>2. FrameInv => AcceptedWhole
    BY DEF FrameInv
<1> QED BY <1>1, <1>2, WireInitInv, WireInvKept, FrameKept, PTL DEF WireSpec

\* What another decoder's stream is answered: its magic is refused, whatever
\* follows it.
WrongMagic == Len(input) > 0 /\ input[1] # Magic[kind]
WrongMagicRefused == out \notin {"idle", "running"} /\ WrongMagic => out = "BadMagic"

LEMMA MagicFirst ==
    ASSUME WireInv, FrameInv, out = "running", WrongMagic
    PROVE  todo # <<>> /\ Refusal \in {"none", "BadMagic"}
<1>1. todo # <<>> /\ pos = 0 /\ todo[1] = <<"magic">>
    BY DEF FrameInv, Framed, WrongMagic
<1>2. Top[1] = "magic" /\ Width = 1
    BY <1>1 DEF Top, Width
<1>3. TakeError = "none"
    <2>1. Len(input) \in Nat
        BY LenProperties DEF WireInv, WireTypeOK
    <2> QED BY <1>1, <1>2, <2>1, WireAssumption DEF TakeError, WrongMagic
<1>4. ContentError \in {"none", "BadMagic"}
    BY <1>2 DEF ContentError
<1> QED BY <1>1, <1>2, <1>3, <1>4 DEF Refusal

LEMMA WrongMagicKept ==
    WireInv /\ FrameInv /\ WrongMagicRefused /\ [WireNext]_wireVars => WrongMagicRefused'
<1> SUFFICES ASSUME WireInv, FrameInv, WrongMagicRefused, [WireNext]_wireVars
             PROVE  WrongMagicRefused'
    OBVIOUS
<1>1. CASE QuietAction \/ Enter \/ Leave
    BY <1>1 DEF QuietAction, Enter, Leave, Step, Goes, WrongMagicRefused
<1>2. CASE Refuse
    <2> SUFFICES ASSUME WrongMagic PROVE out' = "BadMagic"
        BY <1>2 DEF Refuse, WrongMagicRefused, WrongMagic
    <2> QED BY <1>2, MagicFirst DEF Refuse
<1>3. CASE Return
    BY <1>3, MagicFirst DEF Return, WrongMagicRefused, WrongMagic
<1>4. CASE Unwind
    BY <1>4 DEF Unwind, Errors, WrongMagicRefused, WrongMagic
<1>5. CASE \E k \in Kinds, bytes \in Seq(Byte) : Start(k, bytes)
    BY <1>5 DEF Start, WrongMagicRefused
<1>6. CASE UNCHANGED wireVars
    BY <1>6 DEF wireVars, WrongMagicRefused, WrongMagic
<1> QED
    BY <1>1, <1>2, <1>3, <1>4, <1>5, <1>6, ReadsAreQuiet, BuildsAreQuiet
       DEF WireNext, Decode

\* "An op/statement/schema mix-up is a hard BadMagic" (wire.rs:21-24), for every
\* byte string that does not begin with the magic of the decoder called on it.
THEOREM AnotherMagicIsRefused == WireSpec => []WrongMagicRefused
<1>1. WireInit => FrameInv /\ WrongMagicRefused
    BY DEF WireInit, FrameInv, AcceptedWhole, WrongMagicRefused
<1> QED
    BY <1>1, WireInitInv, WireInvKept, FrameKept, WrongMagicKept, PTL DEF WireSpec

-----------------------------------------------------------------------------
(* The decoder in its place: what is sent, and where it arrives.           *)

\* What the seam carries is bytes, and intact, the bytes that were sent; what
\* was received is what it carried.
TransferInv ==
    /\ stage \in {"text", "refused", "tree", "wire", "received"}
    /\ stage = "text" =>
           /\ \E t \in Texts : text = t.text
           /\ sent = [kind |-> "VCLT", value |-> NoTree]
    /\ stage \in {"tree", "wire", "received"} => sent \in Sendable
    /\ stage \in {"wire", "received"} =>
           /\ carried \in Seq(Byte)
           /\ intact => carried = ToWire(sent.kind, sent.value)
    /\ stage = "received" => input = carried

LEMMA SendableBytes ==
    ASSUME NEW s \in Sendable
    PROVE  /\ s.kind \in Kinds
           /\ ToWire(s.kind, s.value) \in Seq(Byte)
           /\ Len(ToWire(s.kind, s.value)) > 0
           /\ ToWire(s.kind, s.value)[1] = Magic[s.kind]
           /\ Damaged(ToWire(s.kind, s.value)) \subseteq Seq(Byte)
<1> DEFINE frame == <<Magic[s.kind], Version>>
           body == Encoded(s.value, Root[s.kind])
<1>1. s.kind \in Kinds /\ body \in Seq(Byte)
      /\ Damaged(ToWire(s.kind, s.value)) \subseteq Seq(Byte)
    BY TransferAssumption
<1>2. Magic[s.kind] \in Byte /\ Version \in Byte
    <2>1. \A k \in Kinds : Magic[k] \in Byte
        BY DEF Kinds, Magic, Byte
    <2> QED BY <1>1, <2>1 DEF Version, Byte
<1>3. frame \in Seq(Byte) /\ Len(frame) = 2 /\ frame[1] = Magic[s.kind]
    <2> DEFINE m == Magic[s.kind]
    <2> HIDE DEF m
    <2>1. m \in Byte /\ Version \in Byte
        BY <1>2 DEF m
    <2>2. << m, Version >> \in Seq(Byte) /\ Len(<< m, Version >>) = 2 /\ << m, Version >>[1] = m
        BY <2>1
    <2> QED BY <2>2 DEF m
<1> HIDE DEF frame, body
<1>4. /\ frame \o body \in Seq(Byte)
      /\ Len(frame \o body) = 2 + Len(body)
      /\ (frame \o body)[1] = Magic[s.kind]
      /\ Len(body) \in Nat
    BY <1>1, <1>3, ConcatProperties, LenProperties
<1>5. Len(frame \o body) > 0
    BY <1>4
<1> QED BY <1>1, <1>4, <1>5 DEF ToWire, frame, body

LEMMA TransferInitInv == TransferInit => TransferInv
<1> SUFFICES ASSUME TransferInit PROVE TransferInv
    OBVIOUS
<1>1. CASE FromText
    BY <1>1 DEF FromText, TransferInv
<1>2. CASE FromTree
    BY <1>2 DEF FromTree, TransferInv, Sendable
<1> QED BY <1>1, <1>2 DEF TransferInit

\* A decoder does not touch its input.
LEMMA DecodeReads == Decode => UNCHANGED <<kind, input>>
BY DEF Decode, Frame, Enter, Leave, ReadSum, ReadStructure, ReadOption, ReadCount, Repeat, Keep,
       ReadBool, ReadWord, ReadLength, ReadText, Node, Step, Refuse, Unwind, Return

LEMMA TransferInvKept ==
    TransferInv /\ [TransferNext]_transferVars => TransferInv'
<1> SUFFICES ASSUME TransferInv, [TransferNext]_transferVars PROVE TransferInv'
    OBVIOUS
<1>1. CASE Parse
    <2>1. PICK t \in Texts : text = t.text
        BY <1>1 DEF Parse, TransferInv
    <2>2. CASE Answer(text).ok
        <3>1. sent' = [kind |-> "VCLT", value |-> Answer(t.text).value] /\ stage' = "tree"
            BY <1>1, <2>1, <2>2 DEF Parse, TransferInv
        <3>2. sent' \in Sendable
            BY <2>1, <2>2, <3>1 DEF Sendable
        <3> QED BY <3>1, <3>2 DEF TransferInv
    <2>3. CASE ~Answer(text).ok
        BY <1>1, <2>3 DEF Parse, TransferInv
    <2> QED BY <2>2, <2>3
<1>2. CASE Send
    BY <1>2, SendableBytes DEF Send, TransferInv
<1>3. CASE Damage
    <2>1. carried' \in Seq(Byte)
        BY <1>3, SendableBytes DEF Damage, TransferInv
    <2> QED BY <1>3, <2>1 DEF Damage, TransferInv
<1>4. CASE Receive
    BY <1>4 DEF Receive, Start, TransferInv
<1>5. CASE Decode /\ UNCHANGED <<stage, text, meant, sent, carried, intact>>
    BY <1>5, DecodeReads DEF TransferInv
<1>6. CASE UNCHANGED transferVars
    BY <1>6 DEF transferVars, wireVars, TransferInv
<1> QED BY <1>1, <1>2, <1>3, <1>4, <1>5, <1>6 DEF TransferNext

\* Whatever is sent and whatever the seam does, the decoder of a transfer is the
\* decoder of Wire: what is proved of WireSpec holds of it.
THEOREM TransferDecodes == TransferSpec => WireSpec
<1>1. TransferInit => WireInit
    BY DEF TransferInit
<1>2. TransferInv /\ [TransferNext]_transferVars => [WireNext]_wireVars
    <2> SUFFICES ASSUME TransferInv, [TransferNext]_transferVars PROVE [WireNext]_wireVars
        OBVIOUS
    <2>1. CASE Receive
        <3>1. carried \in Seq(Byte)
            BY <2>1 DEF Receive, TransferInv
        <3> QED BY <2>1, <3>1 DEF Receive, WireNext
    <2>2. CASE Parse \/ Send \/ Damage
        BY <2>2 DEF Parse, Send, Damage
    <2> QED BY <2>1, <2>2 DEF TransferNext, WireNext, transferVars
<1> QED
    BY <1>1, <1>2, TransferInitInv, TransferInvKept, PTL DEF TransferSpec, WireSpec

\* A stream that arrives as it was sent, but at another decoder than its own, is
\* answered BadMagic, whatever it holds (MixUpRefused; wire.rs:18-24).
THEOREM MixUpIsRefused == TransferSpec => []MixUpRefused
<1>1. TransferInv /\ WireTypeOK /\ WrongMagicRefused => MixUpRefused
    <2> SUFFICES ASSUME TransferInv, WireTypeOK, WrongMagicRefused,
                        stage = "received", Done, intact, kind # sent.kind
                 PROVE  out = "BadMagic"
        BY DEF MixUpRefused
    <2>1. input = ToWire(sent.kind, sent.value) /\ sent \in Sendable
        BY DEF TransferInv
    <2>2. Len(input) > 0 /\ input[1] = Magic[sent.kind] /\ sent.kind \in Kinds
        BY <2>1, SendableBytes
    <2>3. Magic[sent.kind] # Magic[kind]
        BY <2>2 DEF WireTypeOK, Kinds, Magic
    <2>4. out \notin {"idle", "running"}
        BY DEF Done, Errors
    <2> QED BY <2>2, <2>3, <2>4 DEF WrongMagicRefused, WrongMagic
<1> QED
    BY <1>1, TransferInitInv, TransferInvKept, TransferDecodes, WireTypeCorrect,
       AnotherMagicIsRefused, PTL DEF TransferSpec
=============================================================================
