--------------------------- MODULE RoundTripProofs ---------------------------
(***************************************************************************)
(* The encoder against the decoder: what is accepted is what is written    *)
(* for the value returned (Canonical), and what is written and arrives     *)
(* intact is accepted, and comes back but for its verbs (OnlyVerbIsLost).  *)
(***************************************************************************)
EXTENDS WireProofs

-----------------------------------------------------------------------------
(* Lists of anything.                                                      *)

LEMMA ListIsSeq ==
    ASSUME NEW s, IsList(s)
    PROVE  /\ Len(s) \in Nat /\ DOMAIN s = 1..Len(s)
           /\ \A S : (\A i \in 1..Len(s) : s[i] \in S) => s \in Seq(S)
<1>1. Len(s) \in Nat /\ DOMAIN s = 1..Len(s)
    BY DEF IsList
<1>2. ASSUME NEW S, \A i \in 1..Len(s) : s[i] \in S PROVE s \in Seq(S)
    <2>1. s \in [1..Len(s) -> S]
        BY <1>2 DEF IsList
    <2> QED BY <1>1, <2>1, SeqDef
<1> QED BY <1>1, <1>2

LEMMA SeqIsList ==
    ASSUME NEW S, NEW s \in Seq(S)
    PROVE  IsList(s)
BY LenProperties DEF IsList

LEMMA ListOf ==
    ASSUME NEW n \in Nat, NEW s, s = [i \in 1..n |-> s[i]]
    PROVE  IsList(s) /\ Len(s) = n
<1>1. s \in [1..n -> {s[i] : i \in 1..n}]
    OBVIOUS
<1>2. s \in Seq({s[i] : i \in 1..n})
    BY <1>1, SeqDef
<1>3. DOMAIN s = 1..Len(s) /\ DOMAIN s = 1..n /\ Len(s) \in Nat
    BY <1>2, LenProperties
<1>4. Len(s) = n
    BY <1>3
<1> QED BY <1>4 DEF IsList

LEMMA SameList ==
    ASSUME NEW s, NEW t, IsList(s), IsList(t), Len(s) = Len(t),
           \A i \in 1..Len(s) : s[i] = t[i]
    PROVE  s = t
BY DEF IsList

LEMMA ListAppend ==
    ASSUME NEW s, IsList(s), NEW x
    PROVE  /\ IsList(Append(s, x)) /\ Len(Append(s, x)) = Len(s) + 1
           /\ \A i \in 1..Len(s) : Append(s, x)[i] = s[i]
           /\ Append(s, x)[Len(s) + 1] = x
<1> DEFINE S == {s[i] : i \in 1..Len(s)} \cup {x}
<1>1. s \in Seq(S) /\ x \in S
    BY ListIsSeq
<1> HIDE DEF S
<1>2. /\ Append(s, x) \in Seq(S) /\ Len(Append(s, x)) = Len(s) + 1
      /\ \A i \in 1..Len(s) : Append(s, x)[i] = s[i]
      /\ Append(s, x)[Len(s) + 1] = x
    BY <1>1, AppendProperties
<1>3. IsList(Append(s, x))
    BY <1>2, SeqIsList
<1> QED BY <1>2, <1>3

LEMMA ListConcat ==
    ASSUME NEW s, NEW t, IsList(s), IsList(t)
    PROVE  /\ IsList(s \o t) /\ Len(s \o t) = Len(s) + Len(t)
           /\ Len(s) \in Nat /\ Len(t) \in Nat
           /\ \A i \in 1..Len(s) : (s \o t)[i] = s[i]
           /\ \A i \in 1..Len(t) : (s \o t)[Len(s) + i] = t[i]
<1> DEFINE S == {s[i] : i \in 1..Len(s)} \cup {t[i] : i \in 1..Len(t)}
<1>1. s \in Seq(S) /\ t \in Seq(S) /\ Len(s) \in Nat /\ Len(t) \in Nat
    BY ListIsSeq
<1> HIDE DEF S
<1>2. /\ s \o t \in Seq(S) /\ Len(s \o t) = Len(s) + Len(t)
      /\ \A i \in 1..(Len(s) + Len(t)) :
             (s \o t)[i] = IF i <= Len(s) THEN s[i] ELSE t[i - Len(s)]
    BY <1>1, ConcatProperties
<1>3. ASSUME NEW i \in 1..Len(t) PROVE (s \o t)[Len(s) + i] = t[i]
    <2>1. /\ Len(s) + i \in 1..(Len(s) + Len(t)) /\ ~(Len(s) + i <= Len(s))
          /\ (Len(s) + i) - Len(s) = i
        BY <1>1
    <2> QED BY <1>2, <2>1
<1>4. \A i \in 1..Len(s) : (s \o t)[i] = s[i]
    BY <1>1, <1>2
<1>5. IsList(s \o t)
    BY <1>2, SeqIsList
<1> QED BY <1>1, <1>2, <1>3, <1>4, <1>5

LEMMA ListJoin ==
    ASSUME NEW s, NEW t, NEW all, IsList(s), IsList(t), all = s \o t
    PROVE  /\ IsList(all) /\ Len(all) = Len(s) + Len(t)
           /\ Len(s) \in Nat /\ Len(t) \in Nat
           /\ \A i \in 1..Len(s) : all[i] = s[i]
           /\ \A i \in 1..Len(t) : all[Len(s) + i] = t[i]
BY ListConcat

LEMMA ListTail ==
    ASSUME NEW s, IsList(s), Len(s) > 0
    PROVE  /\ IsList(Tail(s)) /\ Len(Tail(s)) = Len(s) - 1
           /\ \A i \in 1..(Len(s) - 1) : Tail(s)[i] = s[i + 1]
<1> DEFINE S == {s[i] : i \in 1..Len(s)}
<1>1. s \in Seq(S) /\ Len(s) \in Nat
    BY ListIsSeq
<1>2. s # <<>>
    BY EmptySeq
<1> HIDE DEF S
<1> QED BY <1>1, <1>2, HeadTailProperties, SeqIsList

LEMMA ListPrefix ==
    ASSUME NEW s, IsList(s), NEW n \in Int, n <= Len(s)
    PROVE  /\ IsList(SubSeq(s, 1, n))
           /\ n >= 0 => Len(SubSeq(s, 1, n)) = n
           /\ \A i \in 1..n : SubSeq(s, 1, n)[i] = s[i]
<1> DEFINE S == {s[i] : i \in 1..Len(s)}
<1>1. Len(s) \in Nat /\ n \in Int /\ 1 \in Int
    BY ListIsSeq
<1>2. \A i \in 1..n : s[i] \in S
    BY <1>1
<1> HIDE DEF S
<1>3. /\ SubSeq(s, 1, n) \in Seq(S)
      /\ Len(SubSeq(s, 1, n)) = IF 1 <= n THEN n - 1 + 1 ELSE 0
      /\ \A i \in 1..(n - 1 + 1) : SubSeq(s, 1, n)[i] = s[1 + i - 1]
    BY <1>1, <1>2, SubSeqProperties
<1>4. (n >= 0 => Len(SubSeq(s, 1, n)) = n) /\ n - 1 + 1 = n
    BY <1>1, <1>3
<1>5. ASSUME NEW i \in 1..n PROVE SubSeq(s, 1, n)[i] = s[i]
    <2>1. 1 + i - 1 = i
        OBVIOUS
    <2> QED BY <1>3, <1>4, <2>1
<1> QED BY <1>3, <1>4, <1>5, SeqIsList

LEMMA ListSplit ==
    ASSUME NEW s, NEW t, NEW all, IsList(s), IsList(t), IsList(all),
           Len(all) = Len(s) + Len(t), \A i \in 1..Len(s) : all[i] = s[i],
           \A i \in 1..Len(t) : all[i + Len(s)] = t[i]
    PROVE  s \o t = all
<1>1. /\ IsList(s \o t) /\ Len(s \o t) = Len(s) + Len(t)
      /\ Len(s) \in Nat /\ Len(t) \in Nat
      /\ \A i \in 1..Len(s) : (s \o t)[i] = s[i]
      /\ \A i \in 1..Len(t) : (s \o t)[Len(s) + i] = t[i]
    BY ListConcat
<1>2. ASSUME NEW i \in 1..Len(all) PROVE (s \o t)[i] = all[i]
    <2>1. CASE i <= Len(s)
        BY <1>1, <2>1
    <2>2. CASE i > Len(s)
        <3>1. /\ i - Len(s) \in 1..Len(t) /\ Len(s) + (i - Len(s)) = i
              /\ (i - Len(s)) + Len(s) = i
            BY <1>1, <2>2
        <3>2. (s \o t)[Len(s) + (i - Len(s))] = t[i - Len(s)]
            BY <1>1, <3>1
        <3>3. all[(i - Len(s)) + Len(s)] = t[i - Len(s)]
            BY <3>1
        <3> QED BY <3>1, <3>2, <3>3
    <2> QED BY <1>1, <2>1, <2>2
<1> QED BY <1>1, <1>2, SameList

LEMMA EmptyList == IsList(<<>>) /\ Len(<<>>) = 0 /\ \A s : IsList(s) /\ Len(s) = 0 => s = <<>>
<1>1. IsList(<<>>) /\ Len(<<>>) = 0
    BY EmptySeq, SeqIsList
<1> QED BY <1>1, SameList

LEMMA Singleton ==
    ASSUME NEW x
    PROVE  IsList(<<x>>) /\ Len(<<x>>) = 1 /\ <<x>>[1] = x
BY DEF IsList

LEMMA Regrouped ==
    ASSUME NEW x \in Seq(Byte), NEW y \in Seq(Byte), NEW z \in Seq(Byte)
    PROVE  (x \o y) \o z = x \o (y \o z)
BY ConcatAssociative

-----------------------------------------------------------------------------
(* Numbers as bytes.                                                       *)

LEMMA DivMod ==
    ASSUME NEW n \in Nat
    PROVE  /\ n \div 256 \in Nat /\ n % 256 \in Byte
           /\ n = (n % 256) + 256 * (n \div 256)
BY DEF Byte

LEMMA DivSum ==
    ASSUME NEW n, NEW b \in Byte, NEW m \in Nat, n = b + 256 * m
    PROVE  n \div 256 = m /\ n % 256 = b
BY DEF Byte

LEMMA ShiftedDef ==
    ASSUME NEW n \in Nat
    PROVE  /\ Shifted(n)[0] = n
           /\ \A i \in Nat : Shifted(n)[i] \in Nat /\ Shifted(n)[i + 1] = Shifted(n)[i] \div 256
<1> DEFINE step == [p \in Nat \X Nat |-> p[2] \div 256]
           IsShift(f) == f = [i \in Nat |-> IF i = 0 THEN n ELSE f[i - 1] \div 256]
<1>1. IsStep(step, Nat)
    <2>1. ASSUME NEW p \in Nat \X Nat PROVE step[p] \in Nat
        BY DivMod
    <2> QED BY <2>1 DEF IsStep
<1>2. PICK f : Recurs(f, n, step, Nat)
    <2> HIDE DEF step
    <2> QED BY <1>1, RecursionDefines
<1>3. f \in [Nat -> Nat] /\ f[0] = n /\ \A i \in Nat : f[i + 1] = f[i] \div 256
    BY <1>2, ZenonT(40) DEF Recurs
<1>4. IsShift(f)
    <2>1. ASSUME NEW i \in Nat PROVE f[i] = IF i = 0 THEN n ELSE f[i - 1] \div 256
        <3>1. CASE i # 0
            <4>1. i - 1 \in Nat /\ (i - 1) + 1 = i
                BY <3>1
            <4> QED BY <1>3, <3>1, <4>1
        <3> QED BY <1>3, <3>1
    <2> QED BY <1>3, <2>1
<1> DEFINE g == CHOOSE x : IsShift(x)
<1>5. IsShift(g) /\ Shifted(n) = g
    <2>1. Shifted(n) = g
        BY DEF Shifted
    <2> HIDE DEF IsShift
    <2> QED BY <1>4, <2>1
<1> HIDE DEF g
<1>6. g[0] = n /\ \A i \in Nat : g[i + 1] = g[i] \div 256
    <2>1. ASSUME NEW i \in Nat PROVE g[i + 1] = g[i] \div 256
        <3>1. i + 1 \in Nat /\ i + 1 # 0 /\ (i + 1) - 1 = i
            OBVIOUS
        <3> QED BY <1>5, <3>1
    <2> QED BY <1>5, <2>1
<1> DEFINE T == {i \in Nat : g[i] \in Nat}
<1>7. 0 \in T /\ \A i \in Nat : i \in T => i + 1 \in T
    <2>1. ASSUME NEW i \in Nat, g[i] \in Nat PROVE g[i + 1] \in Nat
        <3>1. g[i] \div 256 \in Nat
            BY <2>1, DivMod
        <3> QED BY <1>6, <3>1
    <2> QED BY <1>6, <2>1
<1> HIDE DEF T
<1>8. \A i \in Nat : i \in T
    BY <1>7, SetInduction
<1>9. \A i \in Nat : g[i] \in Nat
    BY <1>8 DEF T
<1> QED BY <1>5, <1>6, <1>9

LEMMA LittleEndianType ==
    ASSUME NEW n \in Nat, NEW w \in Nat
    PROVE  LittleEndian(n, w) \in Seq(Byte) /\ Len(LittleEndian(n, w)) = w
<1>1. ASSUME NEW i \in 1..w PROVE Shifted(n)[i - 1] % 256 \in Byte
    <2>1. i - 1 \in Nat
        OBVIOUS
    <2>2. Shifted(n)[i - 1] \in Nat
        BY <2>1, ShiftedDef
    <2> QED BY <2>2, DivMod
<1>2. LittleEndian(n, w) \in [1..w -> Byte]
    BY <1>1 DEF LittleEndian
<1>3. LittleEndian(n, w) \in Seq(Byte)
    BY <1>2, SeqDef
<1>4. DOMAIN LittleEndian(n, w) = 1..w
    BY DEF LittleEndian
<1> QED BY <1>3, <1>4, LenProperties

\* A number that its bytes can hold is read back.
LEMMA ReadBack ==
    ASSUME NEW n, NEW w \in Nat, FitsIn(n, w)
    PROVE  /\ LittleEndian(n, w) \in Seq(Byte) /\ Len(LittleEndian(n, w)) = w
           /\ FromLeBytes(LittleEndian(n, w)) = n
<1> DEFINE bytes == LittleEndian(n, w)
           left == Shifted(n)
<1>1. n \in Nat /\ left[w] = 0
    BY DEF FitsIn
<1>2. bytes \in Seq(Byte) /\ Len(bytes) = w
    BY <1>1, LittleEndianType
<1>3. left[0] = n /\ \A i \in Nat : left[i] \in Nat /\ left[i + 1] = left[i] \div 256
    BY <1>1, ShiftedDef
<1>4. \A i \in 1..w : bytes[i] = left[i - 1] % 256
    BY DEF LittleEndian
<1> HIDE DEF bytes, left
<1>5. PICK g : /\ FromLeBytes(bytes) = g[w] /\ g[0] = 0
               /\ \A i \in 1..w : g[i] = bytes[w + 1 - i] + 256 * g[i - 1]
    <2>1. PICK g : /\ FromLeBytes(bytes) = g[Len(bytes)]
                   /\ g[0] = 0
                   /\ \A i \in 0..Len(bytes) : g[i] \in Nat
                   /\ \A i \in 1..Len(bytes) :
                          g[i] = bytes[Len(bytes) + 1 - i] + 256 * g[i - 1]
        BY <1>2, FromLeBytesDef
    <2> QED BY <1>2, <2>1
<1> DEFINE T == {i \in Nat : i <= w => g[i] = left[w - i]}
<1>6. 0 \in T
    BY <1>1, <1>5
<1>7. ASSUME NEW i \in Nat, i \in T PROVE i + 1 \in T
    <2> SUFFICES ASSUME i + 1 <= w PROVE g[i + 1] = left[w - (i + 1)]
        OBVIOUS
    <2> DEFINE j == w - (i + 1)
    <2>1. /\ j \in Nat /\ j + 1 = w - i /\ i + 1 \in 1..w /\ (i + 1) - 1 = i
          /\ w + 1 - (i + 1) = j + 1 /\ j + 1 \in 1..w /\ (j + 1) - 1 = j
        BY <1>7
    <2> HIDE DEF j
    <2>2. g[i + 1] = bytes[w + 1 - (i + 1)] + 256 * g[(i + 1) - 1]
        BY <1>5, <2>1
    <2>3. g[i] = left[j + 1]
        BY <1>7, <2>1
    <2>4. bytes[j + 1] = left[(j + 1) - 1] % 256
        BY <1>4, <2>1
    <2>5. g[i + 1] = (left[j] % 256) + 256 * (left[j] \div 256)
        BY <1>3, <2>1, <2>2, <2>3, <2>4
    <2>6. left[j] \in Nat
        BY <1>3, <2>1
    <2> QED BY <2>5, <2>6, DivMod DEF j
<1> HIDE DEF T
<1>8. \A i \in Nat : i \in T
    BY <1>6, <1>7, SetInduction
<1>9. g[w] = left[w - w] /\ w - w = 0
    BY <1>8 DEF T
<1> QED BY <1>2, <1>3, <1>5, <1>9 DEF bytes

\* The bytes of a number are those it was read from.
LEMMA WriteBack ==
    ASSUME NEW bytes \in Seq(Byte)
    PROVE  /\ FitsIn(FromLeBytes(bytes), Len(bytes))
           /\ LittleEndian(FromLeBytes(bytes), Len(bytes)) = bytes
<1> DEFINE w == Len(bytes)
           n == FromLeBytes(bytes)
           left == Shifted(n)
<1>1. w \in Nat /\ DOMAIN bytes = 1..w /\ IsList(bytes)
    BY LenProperties, SeqIsList
<1>2. n \in Nat
    BY NumberType
<1>3. left[0] = n /\ \A i \in Nat : left[i] \in Nat /\ left[i + 1] = left[i] \div 256
    BY <1>2, ShiftedDef
<1>4. PICK g : /\ n = g[w] /\ g[0] = 0
               /\ \A i \in 0..w : g[i] \in Nat
               /\ \A i \in 1..w : g[i] = bytes[w + 1 - i] + 256 * g[i - 1]
    BY FromLeBytesDef
<1>5. \A i \in 1..w : bytes[i] \in Byte
    BY ElementOfSeq
<1> HIDE DEF w, n, left
<1>6. ASSUME NEW j \in Nat, j < w
      PROVE  g[w - j] = bytes[j + 1] + 256 * g[w - (j + 1)]
    <2>1. w - j \in 1..w /\ w + 1 - (w - j) = j + 1 /\ (w - j) - 1 = w - (j + 1)
        BY <1>1, <1>6
    <2> QED BY <1>4, <2>1
<1> DEFINE T == {j \in Nat : j <= w => left[j] = g[w - j]}
<1>7. 0 \in T
    BY <1>1, <1>3, <1>4
<1>8. ASSUME NEW j \in Nat, j \in T PROVE j + 1 \in T
    <2> SUFFICES ASSUME j + 1 <= w PROVE left[j + 1] = g[w - (j + 1)]
        OBVIOUS
    <2>1. j < w /\ j + 1 \in 1..w /\ w - (j + 1) \in 0..w
        BY <1>1, <1>8
    <2>2. left[j] = g[w - j]
        <3>1. j <= w
            BY <1>1, <2>1
        <3> QED BY <1>8, <3>1
    <2>3. bytes[j + 1] \in Byte /\ g[w - (j + 1)] \in Nat
        BY <1>4, <1>5, <2>1
    <2>4. left[j] = bytes[j + 1] + 256 * g[w - (j + 1)]
        BY <1>6, <2>1, <2>2
    <2>5. left[j] \div 256 = g[w - (j + 1)]
        BY <2>3, <2>4, DivSum
    <2> QED BY <1>3, <2>5
<1> HIDE DEF T
<1>9. \A j \in Nat : j <= w => left[j] = g[w - j]
    <2>1. \A j \in Nat : j \in T
        BY <1>7, <1>8, SetInduction
    <2> QED BY <2>1 DEF T
<1>10. left[w] = 0
    <2>1. left[w] = g[w - w] /\ w - w = 0
        BY <1>1, <1>9
    <2> QED BY <1>4, <2>1
<1>11. ASSUME NEW i \in 1..w PROVE left[i - 1] % 256 = bytes[i]
    <2>1. i - 1 \in Nat /\ i - 1 < w /\ (i - 1) + 1 = i /\ w - i \in 0..w
        BY <1>1
    <2>2. left[i - 1] = g[w - (i - 1)]
        BY <1>1, <1>9, <2>1
    <2>3. g[w - (i - 1)] = bytes[(i - 1) + 1] + 256 * g[w - ((i - 1) + 1)]
        BY <1>6, <2>1
    <2>4. left[i - 1] = bytes[i] + 256 * g[w - i]
        BY <2>1, <2>2, <2>3
    <2>5. bytes[i] \in Byte /\ g[w - i] \in Nat
        BY <1>4, <1>5, <2>1
    <2> QED BY <2>4, <2>5, DivSum, ZenonT(40)
<1>12. LittleEndian(n, w) = [i \in 1..w |-> bytes[i]]
    BY <1>11 DEF LittleEndian, left
<1>13. LittleEndian(n, w) = bytes
    BY <1>1, <1>12 DEF IsList, w
<1> QED BY <1>2, <1>10, <1>13 DEF FitsIn, w, n, left

-----------------------------------------------------------------------------
(* Byte strings one after the other.                                       *)

AreStrings(strings) == IsList(strings) /\ \A i \in 1..Len(strings) : strings[i] \in Seq(Byte)

\* The last k of n strings together, for each k.
Suffixes(strings, last) ==
    /\ last[0] = <<>>
    /\ \A k \in 0..Len(strings) : last[k] \in Seq(Byte)
    /\ \A k \in 1..Len(strings) : last[k] = strings[Len(strings) + 1 - k] \o last[k - 1]

LEMMA JoinedDef ==
    ASSUME NEW strings, AreStrings(strings)
    PROVE  \E last : Suffixes(strings, last) /\ Joined(strings) = last[Len(strings)]
<1> DEFINE n == Len(strings)
           step == [p \in Nat \X Seq(Byte) |-> IF p[1] < n THEN strings[n - p[1]] \o p[2] ELSE <<>>]
           Solves(f) == f = [k \in 0..n |-> IF k = 0 THEN <<>> ELSE strings[n + 1 - k] \o f[k - 1]]
<1>1. n \in Nat /\ \A i \in 1..n : strings[i] \in Seq(Byte)
    BY DEF AreStrings, IsList
<1>2. <<>> \in Seq(Byte)
    BY EmptySeq
<1>3. ASSUME NEW i \in Nat, i < n, NEW s \in Seq(Byte) PROVE strings[n - i] \o s \in Seq(Byte)
    <2>1. n - i \in 1..n
        BY <1>1, <1>3
    <2>2. strings[n - i] \in Seq(Byte)
        BY <1>1, <2>1
    <2> QED BY <2>2, ConcatProperties
<1> HIDE DEF n
<1>4. IsStep(step, Seq(Byte))
    <2>1. ASSUME NEW p \in Nat \X Seq(Byte) PROVE step[p] \in Seq(Byte)
        BY <1>2, <1>3
    <2> QED BY <2>1 DEF IsStep
<1>5. PICK f : Recurs(f, <<>>, step, Seq(Byte))
    <2> HIDE DEF step
    <2> QED BY <1>2, <1>4, RecursionDefines
<1>6. /\ f[0] = <<>>
      /\ \A k \in Nat : k < n => f[k + 1] = strings[n - k] \o f[k]
    <2>1. f \in [Nat -> Seq(Byte)] /\ f[0] = <<>> /\ \A k \in Nat : f[k + 1] = step[<<k, f[k]>>]
        <3> HIDE DEF step
        <3> QED BY <1>5 DEF Recurs
    <2>2. ASSUME NEW k \in Nat, k < n PROVE f[k + 1] = strings[n - k] \o f[k]
        <3>1. f[k] \in Seq(Byte) /\ f[k + 1] = step[<<k, f[k]>>]
            BY <2>1
        <3>2. step[<<k, f[k]>>] = strings[n - k] \o f[k]
            BY <2>2, <3>1
        <3> QED BY <3>1, <3>2
    <2> QED BY <2>1, <2>2
<1>7. Solves([k \in 0..n |-> f[k]])
    <2>1. ASSUME NEW k \in 0..n, k # 0
          PROVE  f[k] = strings[n + 1 - k] \o f[k - 1] /\ k - 1 \in 0..n
        <3>1. k - 1 \in Nat /\ k - 1 < n /\ (k - 1) + 1 = k /\ n - (k - 1) = n + 1 - k
            BY <1>1, <2>1
        <3>2. f[(k - 1) + 1] = strings[n - (k - 1)] \o f[k - 1]
            BY <1>6, <3>1
        <3>3. f[k] = strings[n + 1 - k] \o f[k - 1]
            BY <3>1, <3>2
        <3>4. k - 1 \in 0..n
            BY <1>1, <3>1
        <3> QED BY <3>3, <3>4
    <2> QED BY <1>6, <2>1
<1> DEFINE last == CHOOSE g : Solves(g)
<1>8. Solves(last) /\ Joined(strings) = last[n]
    <2>1. Joined(strings) = last[n]
        BY DEF Joined, n
    <2> HIDE DEF Solves
    <2> QED BY <1>7, <2>1
<1> HIDE DEF last
<1>9. last[0] = <<>> /\ \A k \in 1..n : last[k] = strings[n + 1 - k] \o last[k - 1]
    <2>1. 0 \in 0..n /\ \A k \in 1..n : k \in 0..n /\ k # 0
        BY <1>1
    <2> QED BY <1>8, <2>1
<1> DEFINE T == {k \in Nat : k <= n => last[k] \in Seq(Byte)}
<1>10. 0 \in T
    BY <1>2, <1>9
<1>11. ASSUME NEW k \in Nat, k \in T PROVE k + 1 \in T
    <2> SUFFICES ASSUME k + 1 <= n PROVE last[k + 1] \in Seq(Byte)
        OBVIOUS
    <2>1. k + 1 \in 1..n /\ n + 1 - (k + 1) = n - k /\ (k + 1) - 1 = k /\ k < n /\ k <= n
        BY <1>1
    <2>2. last[k] \in Seq(Byte)
        BY <1>11, <2>1
    <2>3. last[k + 1] = strings[n - k] \o last[k]
        BY <1>9, <2>1
    <2> QED BY <1>3, <2>1, <2>2, <2>3
<1> HIDE DEF T
<1>12. \A k \in 0..n : last[k] \in Seq(Byte)
    <2>1. \A k \in Nat : k \in T
        BY <1>10, <1>11, SetInduction
    <2> QED BY <1>1, <2>1 DEF T
<1>13. Suffixes(strings, last)
    BY <1>9, <1>12 DEF Suffixes, n
<1> QED BY <1>8, <1>13 DEF n

LEMMA JoinedType ==
    ASSUME NEW strings, AreStrings(strings)
    PROVE  Joined(strings) \in Seq(Byte)
<1>1. Len(strings) \in 0..Len(strings)
    BY DEF AreStrings, IsList
<1> QED BY <1>1, JoinedDef DEF Suffixes

LEMMA JoinedNone == Joined(<<>>) = <<>>
<1>1. AreStrings(<<>>) /\ Len(<<>>) = 0
    BY EmptyList DEF AreStrings
<1> QED BY <1>1, JoinedDef DEF Suffixes

\* The first string comes first.
LEMMA JoinedHead ==
    ASSUME NEW strings, AreStrings(strings), NEW first \in Seq(Byte), NEW all, IsList(all),
           Len(all) = Len(strings) + 1, all[1] = first,
           \A i \in 1..Len(strings) : all[i + 1] = strings[i]
    PROVE  AreStrings(all) /\ Joined(all) = first \o Joined(strings)
<1> DEFINE n == Len(strings)
<1>1. n \in Nat /\ Len(all) = n + 1 /\ \A i \in 1..n : strings[i] \in Seq(Byte)
    BY DEF AreStrings, IsList
<1>2. AreStrings(all)
    <2>1. ASSUME NEW i \in 1..(n + 1) PROVE all[i] \in Seq(Byte)
        <3>1. CASE i # 1
            <4>1. i - 1 \in 1..n /\ (i - 1) + 1 = i
                BY <1>1, <3>1
            <4> QED BY <1>1, <4>1
        <3> QED BY <3>1
    <2> QED BY <1>1, <2>1 DEF AreStrings
<1>3. PICK f : /\ Joined(strings) = f[n] /\ f[0] = <<>>
               /\ \A k \in 1..n : f[k] = strings[n + 1 - k] \o f[k - 1]
    <2>1. PICK f : Suffixes(strings, f) /\ Joined(strings) = f[Len(strings)]
        BY JoinedDef
    <2> QED BY <2>1 DEF Suffixes
<1>4. PICK g : /\ Joined(all) = g[n + 1] /\ g[0] = <<>>
               /\ \A k \in 1..(n + 1) : g[k] = all[n + 2 - k] \o g[k - 1]
    <2>1. PICK g : Suffixes(all, g) /\ Joined(all) = g[Len(all)]
        BY <1>2, JoinedDef
    <2>2. \A k \in 1..(n + 1) : g[k] = all[(n + 1) + 1 - k] \o g[k - 1]
        BY <1>1, <2>1 DEF Suffixes
    <2>3. \A k \in 1..(n + 1) : (n + 1) + 1 - k = n + 2 - k
        BY <1>1
    <2> QED BY <1>1, <2>1, <2>2, <2>3 DEF Suffixes
<1> HIDE DEF n
<1> DEFINE T == {k \in Nat : k <= n => g[k] = f[k]}
<1>5. 0 \in T
    BY <1>3, <1>4
<1>6. ASSUME NEW k \in Nat, k \in T PROVE k + 1 \in T
    <2> SUFFICES ASSUME k + 1 <= n PROVE g[k + 1] = f[k + 1]
        OBVIOUS
    <2>1. /\ k + 1 \in 1..n /\ k + 1 \in 1..(n + 1) /\ n - k \in 1..n
          /\ n + 1 - (k + 1) = n - k /\ n + 2 - (k + 1) = (n - k) + 1
          /\ (k + 1) - 1 = k /\ k <= n
        BY <1>1
    <2>2. g[k] = f[k]
        BY <1>6, <2>1
    <2>3. g[k + 1] = all[(n - k) + 1] \o g[k]
        BY <1>4, <2>1
    <2>4. f[k + 1] = strings[n - k] \o f[k]
        BY <1>3, <2>1
    <2>5. all[(n - k) + 1] = strings[n - k]
        BY <2>1 DEF n
    <2> QED BY <2>2, <2>3, <2>4, <2>5
<1> HIDE DEF T
<1>7. g[n] = f[n]
    <2>1. n \in T
        BY <1>1, <1>5, <1>6, SetInduction
    <2> QED BY <2>1 DEF T
<1>8. g[n + 1] = first \o g[n]
    <2>1. n + 1 \in 1..(n + 1) /\ n + 2 - (n + 1) = 1 /\ (n + 1) - 1 = n
        BY <1>1
    <2> QED BY <1>4, <2>1
<1> QED BY <1>2, <1>3, <1>4, <1>7, <1>8

-----------------------------------------------------------------------------
(* What the calls left to make may come to.                                *)

KindOf(T) ==
    CASE T \in DOMAIN Optional \cup DOMAIN Listed -> "list"
      [] T = "bool" -> "bool"
      [] T = "word" -> "word"
      [] T = "str" -> "text"
      [] OTHER -> "node"

\* A value of type T on top of a stack of values.
Atop(stack, T, v) == Append(stack, <<KindOf(T), v>>)

\* Values gathered into the list on top of it, one of them, or into a node.
Gathered(stack, vs) ==
    LET n == Len(stack) IN
        IF vs = <<>> THEN stack
        ELSE Append(SubSeq(stack, 1, n - 1), <<"list", stack[n][2] \o vs>>)

Kept(stack) ==
    LET n == Len(stack) IN
        Append(SubSeq(stack, 1, n - 2), <<"list", Append(stack[n - 1][2], stack[n][2])>>)

Bound(stack, c, m) ==
    LET n == Len(stack) - m IN
        Append(SubSeq(stack, 1, n),
               <<"node", <<c>> \o [i \in 1..m |-> stack[n + i][2]]>>)

\* There is a list on top of the stack.
ListOnTop(stack) == stack # <<>> /\ IsList(stack[Len(stack)][2])

\* Values of the types ts, written one after the other.
Codes(ts, vs) == [i \in 1..Len(ts) |-> Encoded(vs[i], ts[i])]
Times(n, T) == [i \in 1..n |-> T]

\* With the values a.stack built and the bytes a.bytes to come, the call item
\* of the decoder of k may leave b: it returns some value, and took what is
\* written for that value.
Explains(k, item, a, b) ==
    /\ IsList(a.stack) /\ IsList(b.stack)
    /\ a.bytes \in Seq(Byte) /\ b.bytes \in Seq(Byte)
    /\ CASE item[1] = "magic" -> a.bytes = <<Magic[k]>> \o b.bytes /\ b.stack = a.stack
         [] item[1] = "version" -> a.bytes = <<Version>> \o b.bytes /\ b.stack = a.stack
         [] item[1] \in {"read", "enter"} ->
                \E v : /\ Encoded(v, item[2]) \in Seq(Byte)
                       /\ a.bytes = Encoded(v, item[2]) \o b.bytes
                       /\ b.stack = Atop(a.stack, item[2], v)
         [] item[1] = "text" ->
                \E t \in Seq(Byte) :
                    /\ Len(t) = item[2] /\ IsUtf8(t)
                    /\ a.bytes = t \o b.bytes
                    /\ b.stack = Append(a.stack, <<"text", t>>)
         [] item[1] = "repeat" ->
                \E vs : /\ IsList(vs) /\ Len(vs) = item[3]
                        /\ AreStrings(Codes(Times(item[3], item[2]), vs))
                        /\ a.bytes = Joined(Codes(Times(item[3], item[2]), vs)) \o b.bytes
                        /\ vs = <<>> \/ ListOnTop(a.stack) => b.stack = Gathered(a.stack, vs)
         [] item[1] = "keep" -> a.bytes = b.bytes /\ b.stack = Kept(a.stack)
         [] item[1] = "node" ->
                a.bytes = b.bytes /\ b.stack = Bound(a.stack, item[2], item[3])
         [] OTHER -> a.bytes = b.bytes /\ b.stack = a.stack

\* The values built, the bytes to come, the guarded decoders under way, and 1 if
\* more of them will be than MaxDepth, else 0.
At(stack, bytes, d, deep) == [stack |-> stack, bytes |-> bytes, depth |-> d, deep |-> deep]

IsAt(a) ==
    /\ a = At(a.stack, a.bytes, a.depth, a.deep)
    /\ IsList(a.stack) /\ a.bytes \in Seq(Byte)
    /\ a.depth \in 0..MaxDepth /\ a.deep \in {0, 1}

\* What is sent of v is read by item: v arrives, without its verbs.
Reaches(item, a, b, v) ==
    LET T == item[2]
        entered == IF item[1] = "read" /\ T \in Guarded THEN 1 ELSE 0
    IN  /\ item[1] = "enter" => T \in Guarded
        /\ <<T, v>> \in Values
        /\ a.bytes = Encoded(v, T) \o b.bytes
        /\ b.stack = Atop(a.stack, T, Received(v, T))
        /\ a.deep = 1 <=> b.deep = 1 \/ a.depth + Nesting(v, T) - entered > MaxDepth

ReachesAll(item, a, b, vs) ==
    LET T == item[2]   n == item[3]
    IN  /\ IsList(vs) /\ Len(vs) = n
        /\ \A i \in 1..n : <<T, vs[i]>> \in Values
        /\ a.bytes = Joined(Codes(Times(n, T), vs)) \o b.bytes
        /\ n > 0 => ListOnTop(a.stack)
        /\ b.stack = Gathered(a.stack, [i \in 1..n |-> Received(vs[i], T)])
        /\ a.deep = 1 <=> b.deep = 1 \/ \E i \in 1..n : a.depth + Nesting(vs[i], T) > MaxDepth

\* The same when the bytes are those that were sent: from a the call item leads
\* to b, unless the values nest too deep.
Foretells(k, item, a, b) ==
    /\ IsAt(a) /\ IsAt(b)
    /\ b.depth = IF item[1] = "leave" THEN a.depth - 1 ELSE a.depth
    /\ item[1] \notin {"read", "enter", "repeat"} => b.deep = a.deep
    /\ CASE item[1] = "magic" -> a.bytes = <<Magic[k]>> \o b.bytes /\ b.stack = a.stack
         [] item[1] = "version" -> a.bytes = <<Version>> \o b.bytes /\ b.stack = a.stack
         [] item[1] \in {"read", "enter"} -> \E v : Reaches(item, a, b, v)
         [] item[1] = "text" ->
                \E t \in Seq(Byte) :
                    /\ Len(t) = item[2] /\ IsUtf8(t)
                    /\ a.bytes = t \o b.bytes
                    /\ b.stack = Append(a.stack, <<"text", t>>)
         [] item[1] = "repeat" -> \E vs : ReachesAll(item, a, b, vs)
         [] item[1] = "keep" -> a.bytes = b.bytes /\ b.stack = Kept(a.stack)
         [] item[1] = "node" ->
                a.bytes = b.bytes /\ b.stack = Bound(a.stack, item[2], item[3])
         [] item[1] = "end" -> a.bytes = <<>> /\ b.bytes = <<>> /\ b.stack = a.stack
         [] OTHER -> a.bytes = b.bytes /\ b.stack = a.stack

Answered(how, k, item, a, b) ==
    IF how = "any" THEN Explains(k, item, a, b) ELSE Foretells(k, item, a, b)

\* The calls lead from a to b, each from where the one before it left.
Follows(how, k, calls, a, b) ==
    \E g : /\ g[0] = a /\ g[Len(calls)] = b
           /\ \A i \in 1..Len(calls) : Answered(how, k, calls[i], g[i - 1], g[i])

LEMMA FollowsNone ==
    ASSUME NEW how, NEW k, NEW a, NEW b
    PROVE  Follows(how, k, <<>>, a, b) <=> a = b
<1>1. Len(<<>>) = 0
    BY EmptyList
<1>2. ASSUME a = b PROVE Follows(how, k, <<>>, a, b)
    <2> DEFINE g == [i \in {0} |-> a]
    <2>1. g[0] = a
        OBVIOUS
    <2> HIDE DEF g
    <2> QED BY <1>1, <1>2, <2>1 DEF Follows
<1>3. ASSUME Follows(how, k, <<>>, a, b) PROVE a = b
    BY <1>1, <1>3 DEF Follows
<1> QED BY <1>2, <1>3

LEMMA FollowsOne ==
    ASSUME NEW how, NEW k, NEW x, NEW a, NEW b
    PROVE  Follows(how, k, <<x>>, a, b) <=> Answered(how, k, x, a, b)
<1>1. Len(<<x>>) = 1 /\ <<x>>[1] = x
    OBVIOUS
<1>2. ASSUME Answered(how, k, x, a, b) PROVE Follows(how, k, <<x>>, a, b)
    <2> DEFINE g == [i \in 0..1 |-> IF i = 0 THEN a ELSE b]
    <2>1. g[0] = a /\ g[1] = b /\ \A i \in 1..1 : i = 1 /\ i - 1 = 0
        OBVIOUS
    <2> HIDE DEF g
    <2> QED BY <1>1, <1>2, <2>1 DEF Follows
<1>3. ASSUME Follows(how, k, <<x>>, a, b) PROVE Answered(how, k, x, a, b)
    <2>1. PICK g : /\ g[0] = a /\ g[1] = b
                   /\ \A i \in 1..1 : Answered(how, k, <<x>>[i], g[i - 1], g[i])
        BY <1>1, <1>3 DEF Follows
    <2>2. 1 \in 1..1 /\ 1 - 1 = 0
        OBVIOUS
    <2> QED BY <1>1, <2>1, <2>2
<1> QED BY <1>2, <1>3

LEMMA FollowsConcat ==
    ASSUME NEW how, NEW k, NEW x, NEW y, IsList(x), IsList(y), NEW a, NEW b
    PROVE  Follows(how, k, x \o y, a, b) <=>
               \E c : Follows(how, k, x, a, c) /\ Follows(how, k, y, c, b)
<1> DEFINE n == Len(x)
           m == Len(y)
           Leads(calls, g) ==
               \A i \in 1..Len(calls) : Answered(how, k, calls[i], g[i - 1], g[i])
<1>1. /\ n \in Nat /\ m \in Nat /\ Len(x \o y) = n + m
      /\ \A i \in 1..n : (x \o y)[i] = x[i]
      /\ \A i \in 1..m : (x \o y)[n + i] = y[i]
    BY ListConcat
<1> HIDE DEF n, m
<1>2. ASSUME Follows(how, k, x \o y, a, b)
      PROVE  \E c : Follows(how, k, x, a, c) /\ Follows(how, k, y, c, b)
    <2>1. PICK g : g[0] = a /\ g[n + m] = b /\ Leads(x \o y, g)
        BY <1>1, <1>2 DEF Follows
    <2> DEFINE h == [i \in 0..m |-> g[n + i]]
    <2>2. Follows(how, k, x, a, g[n])
        <3>1. \A i \in 1..n : i \in 1..(n + m)
            BY <1>1
        <3>2. \A i \in 1..n : Answered(how, k, x[i], g[i - 1], g[i])
            BY <1>1, <2>1, <3>1
        <3> QED BY <2>1, <3>2 DEF Follows, n
    <2>3. h[0] = g[n] /\ h[m] = b
        BY <1>1, <2>1
    <2>4. ASSUME NEW i \in 1..m PROVE Answered(how, k, y[i], h[i - 1], h[i])
        <3>1. /\ n + i \in 1..(n + m) /\ i - 1 \in 0..m /\ i \in 0..m
              /\ n + (i - 1) = (n + i) - 1
            BY <1>1
        <3>2. h[i] = g[n + i] /\ h[i - 1] = g[(n + i) - 1]
            BY <3>1
        <3>3. Answered(how, k, (x \o y)[n + i], g[(n + i) - 1], g[n + i])
            BY <1>1, <2>1, <3>1
        <3> QED BY <1>1, <3>2, <3>3
    <2> HIDE DEF h
    <2>5. Follows(how, k, y, g[n], b)
        BY <2>3, <2>4 DEF Follows, m
    <2> QED BY <2>2, <2>5
<1>3. ASSUME NEW c, Follows(how, k, x, a, c), Follows(how, k, y, c, b)
      PROVE  Follows(how, k, x \o y, a, b)
    <2>1. PICK g : g[0] = a /\ g[n] = c /\ Leads(x, g)
        BY <1>3 DEF Follows, n
    <2>2. PICK h : h[0] = c /\ h[m] = b /\ Leads(y, h)
        BY <1>3 DEF Follows, m
    <2> DEFINE f == [i \in 0..(n + m) |-> IF i <= n THEN g[i] ELSE h[i - n]]
    <2>3. \A i \in 0..n : f[i] = g[i]
        BY <1>1
    <2>4. ASSUME NEW i \in 0..m PROVE f[n + i] = h[i]
        <3>1. n + i \in 0..(n + m) /\ (n + i) - n = i
            BY <1>1
        <3>2. CASE i = 0
            BY <1>1, <2>1, <2>2, <3>1, <3>2
        <3>3. CASE i # 0
            <4>1. ~(n + i <= n)
                BY <1>1, <3>3
            <4> QED BY <3>1, <4>1
        <3> QED BY <3>2, <3>3
    <2>5. f[0] = a /\ f[n + m] = b
        <3>1. 0 \in 0..n /\ m \in 0..m
            BY <1>1
        <3> QED BY <2>1, <2>2, <2>3, <2>4, <3>1
    <2> HIDE DEF f
    <2>6. ASSUME NEW i \in 1..(n + m) PROVE Answered(how, k, (x \o y)[i], f[i - 1], f[i])
        <3>1. CASE i <= n
            <4>1. i \in 1..n /\ i \in 0..n /\ i - 1 \in 0..n
                BY <1>1, <3>1
            <4>2. f[i] = g[i] /\ f[i - 1] = g[i - 1] /\ (x \o y)[i] = x[i]
                BY <1>1, <2>3, <4>1
            <4>3. Answered(how, k, x[i], g[i - 1], g[i])
                BY <2>1, <4>1 DEF n
            <4> QED BY <4>2, <4>3
        <3>2. CASE i > n
            <4> DEFINE j == i - n
            <4>1. /\ j \in 1..m /\ j \in 0..m /\ j - 1 \in 0..m
                  /\ n + j = i /\ n + (j - 1) = i - 1
                BY <1>1, <3>2
            <4> HIDE DEF j
            <4>2. f[n + j] = h[j] /\ f[n + (j - 1)] = h[j - 1] /\ (x \o y)[n + j] = y[j]
                BY <1>1, <2>4, <4>1
            <4>3. Answered(how, k, y[j], h[j - 1], h[j])
                BY <2>2, <4>1 DEF m
            <4> QED BY <4>1, <4>2, <4>3
        <3>3. i <= n \/ i > n
            BY <1>1
        <3> QED BY <3>1, <3>2, <3>3
    <2> QED BY <1>1, <2>5, <2>6 DEF Follows
<1> QED BY <1>2, <1>3

\* The next call, and those after it.
LEMMA FollowsNext ==
    ASSUME NEW how, NEW k, NEW S, NEW calls \in Seq(S), calls # <<>>, NEW a, NEW b
    PROVE  Follows(how, k, calls, a, b) <=>
               \E c : Answered(how, k, calls[1], a, c) /\ Follows(how, k, Tail(calls), c, b)
<1>1. IsList(calls) /\ Len(calls) \in Nat \ {0}
    BY SeqIsList, EmptySeq
<1>2. /\ IsList(Tail(calls)) /\ Len(Tail(calls)) = Len(calls) - 1
      /\ \A i \in 1..(Len(calls) - 1) : Tail(calls)[i] = calls[i + 1]
    BY <1>1, ListTail
<1> DEFINE first == <<calls[1]>>
<1>3. IsList(first) /\ Len(first) = 1 /\ first[1] = calls[1]
    BY Singleton
<1>4. first \o Tail(calls) = calls
    <2> HIDE DEF first
    <2>1. Len(calls) = Len(first) + Len(Tail(calls))
        BY <1>1, <1>2, <1>3
    <2>2. \A i \in 1..Len(first) : calls[i] = first[i]
        BY <1>3
    <2>3. \A i \in 1..Len(Tail(calls)) : calls[i + Len(first)] = Tail(calls)[i]
        BY <1>2, <1>3
    <2> QED BY <1>1, <1>2, <1>3, <2>1, <2>2, <2>3, ListSplit
<1>5. Follows(how, k, first \o Tail(calls), a, b) <=>
          \E c : Follows(how, k, first, a, c) /\ Follows(how, k, Tail(calls), c, b)
    BY <1>2, <1>3, FollowsConcat
<1> QED BY <1>4, <1>5, FollowsOne

LEMMA FollowsTwo ==
    ASSUME NEW how, NEW k, NEW x, NEW y, NEW a, NEW b
    PROVE  Follows(how, k, <<x, y>>, a, b) <=>
               \E c : Answered(how, k, x, a, c) /\ Answered(how, k, y, c, b)
<1>1. <<x, y>> \in Seq({x, y}) /\ <<x, y>> # <<>> /\ Tail(<<x, y>>) = <<y>> /\ <<x, y>>[1] = x
    OBVIOUS
<1> DEFINE calls == <<x, y>>
           S == {x, y}
<1>2. Follows(how, k, calls, a, b) <=>
          \E c : Answered(how, k, calls[1], a, c) /\ Follows(how, k, Tail(calls), c, b)
    <2>1. calls \in Seq(S) /\ calls # <<>>
        BY <1>1
    <2> HIDE DEF calls, S
    <2> QED BY <2>1, FollowsNext
<1> QED BY <1>1, <1>2, FollowsOne

LEMMA FollowsThree ==
    ASSUME NEW how, NEW k, NEW x, NEW y, NEW z, NEW a, NEW b
    PROVE  Follows(how, k, <<x, y, z>>, a, b) <=>
               \E c, d : /\ Answered(how, k, x, a, c) /\ Answered(how, k, y, c, d)
                         /\ Answered(how, k, z, d, b)
<1>1. /\ <<x, y, z>> \in Seq({x, y, z}) /\ <<x, y, z>> # <<>>
      /\ Tail(<<x, y, z>>) = <<y, z>> /\ <<x, y, z>>[1] = x
    OBVIOUS
<1> DEFINE calls == <<x, y, z>>
           S == {x, y, z}
<1>2. Follows(how, k, calls, a, b) <=>
          \E c : Answered(how, k, calls[1], a, c) /\ Follows(how, k, Tail(calls), c, b)
    <2>1. calls \in Seq(S) /\ calls # <<>>
        BY <1>1
    <2> HIDE DEF calls, S
    <2> QED BY <2>1, FollowsNext
<1> QED BY <1>1, <1>2, FollowsTwo

-----------------------------------------------------------------------------
(* The tables of the encoder against those of the decoder.                 *)

\* Row i of the decoder's table is the row of tag i - 1 of the encoder's.
Row(tags, table, i) ==
    LET c == table[i][1] IN
        /\ c \in DOMAIN tags
        /\ IsList(table[i])
        /\ IsList(tags[c]) /\ Len(tags[c]) = Len(table[i])
        /\ tags[c][1] = i - 1
        /\ \A j \in 2..Len(table[i]) : tags[c][j] = table[i][j]

\* The encoder has no other row.
Mirrors(tags, table) ==
    /\ \A i \in 1..Len(table) : Row(tags, table, i)
    /\ \A c \in DOMAIN tags : \E i \in 1..Len(table) : table[i][1] = c

LEMMA Tuples ==
    /\ \A x : IsList(<<x>>) /\ Len(<<x>>) = 1
    /\ \A x, y : IsList(<<x, y>>) /\ Len(<<x, y>>) = 2
    /\ \A x, y, z : IsList(<<x, y, z>>) /\ Len(<<x, y, z>>) = 3
    /\ \A w, x, y, z : IsList(<<w, x, y, z>>) /\ Len(<<w, x, y, z>>) = 4
    /\ \A u, v, w, x, y, z : IsList(<<u, v, w, x, y, z>>) /\ Len(<<u, v, w, x, y, z>>) = 6
BY DEF IsList

LEMMA MirrorTables ==
    /\ DOMAIN Tags = DOMAIN Sums
    /\ \A T \in DOMAIN Sums : Mirrors(Tags[T], Sums[T])
<1>1. Mirrors(EncModality, DecModality)
    <2>1. Len(DecModality) = 8
        BY DEF DecModality, Enumeration
    <2>2. \A i \in 1..8 : Row(EncModality, DecModality, i)
        BY Tuples DEF Row, EncModality, DecModality, Enumeration
    <2>3. \A c \in DOMAIN EncModality : \E i \in 1..8 : DecModality[i][1] = c
        BY DEF EncModality, DecModality, Enumeration
    <2> QED BY <2>1, <2>2, <2>3 DEF Mirrors
<1>2. Mirrors(EncAgent, DecAgent)
    <2>1. Len(DecAgent) = 5
        BY DEF DecAgent
    <2>2. \A i \in 1..5 : Row(EncAgent, DecAgent, i)
        <3>1. Row(EncAgent, DecAgent, 1) /\ Row(EncAgent, DecAgent, 2)
            BY Tuples DEF Row, EncAgent, DecAgent
        <3>2. /\ Row(EncAgent, DecAgent, 3) /\ Row(EncAgent, DecAgent, 4)
              /\ Row(EncAgent, DecAgent, 5)
            BY Tuples DEF Row, EncAgent, DecAgent
        <3> QED BY <3>1, <3>2
    <2>3. \A c \in DOMAIN EncAgent : \E i \in 1..5 : DecAgent[i][1] = c
        BY DEF EncAgent, DecAgent
    <2> QED BY <2>1, <2>2, <2>3 DEF Mirrors
<1>3. Mirrors(EncLiteral, DecLiteral)
    <2>1. Len(DecLiteral) = 6
        BY DEF DecLiteral
    <2>2. \A i \in 1..6 : Row(EncLiteral, DecLiteral, i)
        <3>1. /\ Row(EncLiteral, DecLiteral, 1) /\ Row(EncLiteral, DecLiteral, 2)
              /\ Row(EncLiteral, DecLiteral, 3) /\ Row(EncLiteral, DecLiteral, 4)
            BY Tuples DEF Row, EncLiteral, DecLiteral
        <3>2. /\ Row(EncLiteral, DecLiteral, 5) /\ Row(EncLiteral, DecLiteral, 6)
            BY Tuples DEF Row, EncLiteral, DecLiteral
        <3> QED BY <3>1, <3>2
    <2>3. \A c \in DOMAIN EncLiteral : \E i \in 1..6 : DecLiteral[i][1] = c
        BY DEF EncLiteral, DecLiteral
    <2> QED BY <2>1, <2>2, <2>3 DEF Mirrors
<1>4. Mirrors(CompTag, DecComp)
    <2>1. Len(DecComp) = 8
        BY DEF DecComp, Enumeration
    <2>2. \A i \in 1..8 : Row(CompTag, DecComp, i)
        BY Tuples DEF Row, CompTag, DecComp, Enumeration
    <2>3. \A c \in DOMAIN CompTag : \E i \in 1..8 : DecComp[i][1] = c
        BY DEF CompTag, DecComp, Enumeration
    <2> QED BY <2>1, <2>2, <2>3 DEF Mirrors
<1>5. Mirrors(LogicTag, DecLogic)
    <2>1. Len(DecLogic) = 3
        BY DEF DecLogic, Enumeration
    <2>2. \A i \in 1..3 : Row(LogicTag, DecLogic, i)
        BY Tuples DEF Row, LogicTag, DecLogic, Enumeration
    <2>3. \A c \in DOMAIN LogicTag : \E i \in 1..3 : DecLogic[i][1] = c
        BY DEF LogicTag, DecLogic, Enumeration
    <2> QED BY <2>1, <2>2, <2>3 DEF Mirrors
<1>6. Mirrors(AggTag, DecAgg)
    <2>1. Len(DecAgg) = 5
        BY DEF DecAgg, Enumeration
    <2>2. \A i \in 1..5 : Row(AggTag, DecAgg, i)
        BY Tuples DEF Row, AggTag, DecAgg, Enumeration
    <2>3. \A c \in DOMAIN AggTag : \E i \in 1..5 : DecAgg[i][1] = c
        BY DEF AggTag, DecAgg, Enumeration
    <2> QED BY <2>1, <2>2, <2>3 DEF Mirrors
<1>7. Mirrors(EpiTag, DecEpiOp)
    <2>1. Len(DecEpiOp) = 3
        BY DEF DecEpiOp, Enumeration
    <2>2. \A i \in 1..3 : Row(EpiTag, DecEpiOp, i)
        BY Tuples DEF Row, EpiTag, DecEpiOp, Enumeration
    <2>3. \A c \in DOMAIN EpiTag : \E i \in 1..3 : DecEpiOp[i][1] = c
        BY DEF EpiTag, DecEpiOp, Enumeration
    <2> QED BY <2>1, <2>2, <2>3 DEF Mirrors
<1>8. Mirrors(EncExpr, DecExpr)
    <2>1. Len(DecExpr) = 10
        BY DEF DecExpr
    <2>2. \A i \in 1..10 : Row(EncExpr, DecExpr, i)
        <3>1. /\ Row(EncExpr, DecExpr, 1) /\ Row(EncExpr, DecExpr, 2)
              /\ Row(EncExpr, DecExpr, 3) /\ Row(EncExpr, DecExpr, 4)
            BY Tuples DEF Row, EncExpr, DecExpr
        <3>2. /\ Row(EncExpr, DecExpr, 5) /\ Row(EncExpr, DecExpr, 6)
              /\ Row(EncExpr, DecExpr, 7) /\ Row(EncExpr, DecExpr, 8)
            BY Tuples DEF Row, EncExpr, DecExpr
        <3>3. /\ Row(EncExpr, DecExpr, 9) /\ Row(EncExpr, DecExpr, 10)
            BY Tuples DEF Row, EncExpr, DecExpr
        <3> QED BY <3>1, <3>2, <3>3
    <2>3. \A c \in DOMAIN EncExpr : \E i \in 1..10 : DecExpr[i][1] = c
        BY DEF EncExpr, DecExpr
    <2> QED BY <2>1, <2>2, <2>3 DEF Mirrors
<1>9. Mirrors(EncSelectItem, DecSelectItem)
    <2>1. Len(DecSelectItem) = 4
        BY DEF DecSelectItem
    <2>2. \A i \in 1..4 : Row(EncSelectItem, DecSelectItem, i)
        <3>1. /\ Row(EncSelectItem, DecSelectItem, 1) /\ Row(EncSelectItem, DecSelectItem, 2)
              /\ Row(EncSelectItem, DecSelectItem, 3) /\ Row(EncSelectItem, DecSelectItem, 4)
            BY Tuples DEF Row, EncSelectItem, DecSelectItem
        <3> QED BY <3>1
    <2>3. \A c \in DOMAIN EncSelectItem : \E i \in 1..4 : DecSelectItem[i][1] = c
        BY DEF EncSelectItem, DecSelectItem
    <2> QED BY <2>1, <2>2, <2>3 DEF Mirrors
<1>10. Mirrors(EncSource, DecSource)
    <2>1. Len(DecSource) = 3
        BY DEF DecSource
    <2>2. \A i \in 1..3 : Row(EncSource, DecSource, i)
        <3>1. /\ Row(EncSource, DecSource, 1) /\ Row(EncSource, DecSource, 2)
              /\ Row(EncSource, DecSource, 3)
            BY Tuples DEF Row, EncSource, DecSource
        <3> QED BY <3>1
    <2>3. \A c \in DOMAIN EncSource : \E i \in 1..3 : DecSource[i][1] = c
        BY DEF EncSource, DecSource
    <2> QED BY <2>1, <2>2, <2>3 DEF Mirrors
<1>11. Mirrors(EncProof, DecProof)
    <2>1. Len(DecProof) = 3
        BY DEF DecProof
    <2>2. \A i \in 1..3 : Row(EncProof, DecProof, i)
        BY Tuples DEF Row, EncProof, DecProof
    <2>3. \A c \in DOMAIN EncProof : \E i \in 1..3 : DecProof[i][1] = c
        BY DEF EncProof, DecProof
    <2> QED BY <2>1, <2>2, <2>3 DEF Mirrors
<1>12. Mirrors(EncEffect, DecEffect)
    <2>1. Len(DecEffect) = 4
        BY DEF DecEffect, Enumeration
    <2>2. \A i \in 1..4 : Row(EncEffect, DecEffect, i)
        BY Tuples DEF Row, EncEffect, DecEffect, Enumeration
    <2>3. \A c \in DOMAIN EncEffect : \E i \in 1..4 : DecEffect[i][1] = c
        BY DEF EncEffect, DecEffect, Enumeration
    <2> QED BY <2>1, <2>2, <2>3 DEF Mirrors
<1>13. Mirrors(EncVersion, DecVersion)
    <2>1. Len(DecVersion) = 4
        BY DEF DecVersion
    <2>2. \A i \in 1..4 : Row(EncVersion, DecVersion, i)
        <3>1. /\ Row(EncVersion, DecVersion, 1) /\ Row(EncVersion, DecVersion, 2)
              /\ Row(EncVersion, DecVersion, 3) /\ Row(EncVersion, DecVersion, 4)
            BY Tuples DEF Row, EncVersion, DecVersion
        <3> QED BY <3>1
    <2>3. \A c \in DOMAIN EncVersion : \E i \in 1..4 : DecVersion[i][1] = c
        BY DEF EncVersion, DecVersion
    <2> QED BY <2>1, <2>2, <2>3 DEF Mirrors
<1>14. Mirrors(EncLinear, DecLinear)
    <2>1. Len(DecLinear) = 3
        BY DEF DecLinear
    <2>2. \A i \in 1..3 : Row(EncLinear, DecLinear, i)
        BY Tuples DEF Row, EncLinear, DecLinear
    <2>3. \A c \in DOMAIN EncLinear : \E i \in 1..3 : DecLinear[i][1] = c
        BY DEF EncLinear, DecLinear
    <2> QED BY <2>1, <2>2, <2>3 DEF Mirrors
<1>15. Mirrors(EncEpiReq, DecEpiReq)
    <2>1. Len(DecEpiReq) = 4
        BY DEF DecEpiReq
    <2>2. \A i \in 1..4 : Row(EncEpiReq, DecEpiReq, i)
        <3>1. /\ Row(EncEpiReq, DecEpiReq, 1) /\ Row(EncEpiReq, DecEpiReq, 2)
              /\ Row(EncEpiReq, DecEpiReq, 3) /\ Row(EncEpiReq, DecEpiReq, 4)
            BY Tuples DEF Row, EncEpiReq, DecEpiReq
        <3> QED BY <3>1
    <2>3. \A c \in DOMAIN EncEpiReq : \E i \in 1..4 : DecEpiReq[i][1] = c
        BY DEF EncEpiReq, DecEpiReq
    <2> QED BY <2>1, <2>2, <2>3 DEF Mirrors
<1>16. Mirrors(SafetyTag, DecSafety)
    <2>1. Len(DecSafety) = 11
        BY DEF DecSafety, Enumeration
    <2>2. \A i \in 1..11 : Row(SafetyTag, DecSafety, i)
        BY Tuples DEF Row, SafetyTag, DecSafety, Enumeration
    <2>3. \A c \in DOMAIN SafetyTag : \E i \in 1..11 : DecSafety[i][1] = c
        BY DEF SafetyTag, DecSafety, Enumeration
    <2> QED BY <2>1, <2>2, <2>3 DEF Mirrors
<1>17. Mirrors(EncRepair, DecRepair)
    <2>1. Len(DecRepair) = 3
        BY DEF DecRepair
    <2>2. \A i \in 1..3 : Row(EncRepair, DecRepair, i)
        BY Tuples DEF Row, EncRepair, DecRepair
    <2>3. \A c \in DOMAIN EncRepair : \E i \in 1..3 : DecRepair[i][1] = c
        BY DEF EncRepair, DecRepair
    <2> QED BY <2>1, <2>2, <2>3 DEF Mirrors
<1>18. Mirrors(EncTransition, DecTransition)
    <2>1. Len(DecTransition) = 3
        BY DEF DecTransition
    <2>2. \A i \in 1..3 : Row(EncTransition, DecTransition, i)
        <3>1. /\ Row(EncTransition, DecTransition, 1) /\ Row(EncTransition, DecTransition, 2)
              /\ Row(EncTransition, DecTransition, 3)
            BY Tuples DEF Row, EncTransition, DecTransition
        <3> QED BY <3>1
    <2>3. \A c \in DOMAIN EncTransition : \E i \in 1..3 : DecTransition[i][1] = c
        BY DEF EncTransition, DecTransition
    <2> QED BY <2>1, <2>2, <2>3 DEF Mirrors
<1>19. Mirrors(EncOp, DecOp)
    <2>1. Len(DecOp) = 2
        BY DEF DecOp
    <2>2. \A i \in 1..2 : Row(EncOp, DecOp, i)
        BY Tuples DEF Row, EncOp, DecOp
    <2>3. \A c \in DOMAIN EncOp : \E i \in 1..2 : DecOp[i][1] = c
        BY DEF EncOp, DecOp
    <2> QED BY <2>1, <2>2, <2>3 DEF Mirrors
<1>20. Mirrors(EncVqlType, DecVqlType)
    <2>1. Len(DecVqlType) = 16
        BY DEF DecVqlType
    <2>2. \A i \in 1..16 : Row(EncVqlType, DecVqlType, i)
        <3>1. /\ Row(EncVqlType, DecVqlType, 1) /\ Row(EncVqlType, DecVqlType, 2)
              /\ Row(EncVqlType, DecVqlType, 3) /\ Row(EncVqlType, DecVqlType, 4)
            BY Tuples DEF Row, EncVqlType, DecVqlType
        <3>2. /\ Row(EncVqlType, DecVqlType, 5) /\ Row(EncVqlType, DecVqlType, 6)
              /\ Row(EncVqlType, DecVqlType, 7) /\ Row(EncVqlType, DecVqlType, 8)
            BY Tuples DEF Row, EncVqlType, DecVqlType
        <3>3. /\ Row(EncVqlType, DecVqlType, 9) /\ Row(EncVqlType, DecVqlType, 10)
              /\ Row(EncVqlType, DecVqlType, 11) /\ Row(EncVqlType, DecVqlType, 12)
            BY Tuples DEF Row, EncVqlType, DecVqlType
        <3>4. /\ Row(EncVqlType, DecVqlType, 13) /\ Row(EncVqlType, DecVqlType, 14)
              /\ Row(EncVqlType, DecVqlType, 15) /\ Row(EncVqlType, DecVqlType, 16)
            BY Tuples DEF Row, EncVqlType, DecVqlType
        <3> QED BY <3>1, <3>2, <3>3, <3>4
    <2>3. \A c \in DOMAIN EncVqlType : \E i \in 1..16 : DecVqlType[i][1] = c
        BY DEF EncVqlType, DecVqlType
    <2> QED BY <2>1, <2>2, <2>3 DEF Mirrors
<1> QED
    BY <1>1, <1>2, <1>3, <1>4, <1>5, <1>6, <1>7, <1>8, <1>9, <1>10, <1>11, <1>12, <1>13,
       <1>14, <1>15, <1>16, <1>17, <1>18, <1>19, <1>20
       DEF Tags, Sums

LEMMA MirrorStructures ==
    /\ DOMAIN Fields = DOMAIN Structures
    /\ \A T \in DOMAIN Structures :
           /\ IsList(Structures[T])
           /\ IsList(Fields[T]) /\ Len(Fields[T]) = Len(Structures[T]) - 1
           /\ \A i \in 1..Len(Fields[T]) : Fields[T][i] = Structures[T][i + 1]
<1> DEFINE Follow(f, s) ==
        IsList(s) /\ IsList(f) /\ Len(f) = Len(s) - 1 /\ \A i \in 1..Len(f) : f[i] = s[i + 1]
<1>1. Follow(EncSchema, DecSchema)
    <2>1. DecSchema = [i \in 1..9 |-> IF i = 1 THEN "OctadSchema" ELSE "ModalitySchema"]
        BY DEF DecSchema
    <2> QED BY <2>1 DEF EncSchema, IsList
<1>2. Follow(EncStatement, DecStatement)
    BY DEF EncStatement, DecStatement, IsList
<1>3. Follow(EncFieldDef, DecFieldDef)
    BY DEF EncFieldDef, DecFieldDef, IsList
<1>4. Follow(EncModSchema, DecModSchema)
    BY DEF EncModSchema, DecModSchema, IsList
<1>5. /\ Follow(<<"Modality", "str">>, <<"FieldRef", "Modality", "str">>)
      /\ Follow(<<"FieldRef", "bool">>, <<"OrderItem", "FieldRef", "bool">>)
      /\ Follow(<<"Agent*", "EpiReq*">>, <<"EpiClause", "Agent*", "EpiReq*">>)
      /\ Follow(<<"str", "VqlType">>, <<"RecordField", "str", "VqlType">>)
    BY DEF IsList
<1>6. Follow(<<>>, DecVerb)
    BY EmptyList, Tuples DEF DecVerb
<1>7. DOMAIN Fields = DOMAIN Structures
    BY DEF Fields, Structures
<1>8. ASSUME NEW T \in DOMAIN Structures PROVE Follow(Fields[T], Structures[T])
    <2> HIDE DEF Follow
    <2> QED BY <1>1, <1>2, <1>3, <1>4, <1>5, <1>6 DEF Fields, Structures
<1> QED BY <1>7, <1>8

-----------------------------------------------------------------------------
(* A value and its parts.                                                  *)

Scalars == {"bool", "word", "str"}

LEMMA Classes ==
    \A T : /\ T \in DOMAIN Sums => T \notin DOMAIN Structures
           /\ T \in DOMAIN Sums \cup DOMAIN Structures =>
                  T \notin DOMAIN Optional \cup DOMAIN Listed \cup Scalars
           /\ T \in DOMAIN Optional => T \notin DOMAIN Listed
           /\ T \in DOMAIN Optional \cup DOMAIN Listed => T \notin Scalars
           /\ T \in Guarded => T \in DOMAIN Sums
BY DEF Sums, Structures, Optional, Listed, Scalars, Guarded

\* Each type is of one class.
LEMMA OneClass ==
    \A T : LET opt == T \in DOMAIN Optional   lst == T \in DOMAIN Listed
               sum == T \in DOMAIN Tags       str == T \in DOMAIN Fields
           IN  /\ opt => ~lst /\ ~sum /\ ~str
               /\ lst => ~opt /\ ~sum /\ ~str
               /\ sum => ~opt /\ ~lst /\ ~str
               /\ str => ~opt /\ ~lst /\ ~sum
               /\ opt \/ lst \/ sum \/ str => T # "str" /\ T # "word" /\ T # "bool"
               /\ T = "Verb" => str
<1>1. "Verb" \in DOMAIN Structures
    BY DEF Structures
<1>2. DOMAIN Tags = DOMAIN Sums /\ DOMAIN Fields = DOMAIN Structures
    BY MirrorTables, MirrorStructures
<1> QED BY <1>1, <1>2, Classes DEF Scalars

\* All of a production or of a value but its constructor.
Args(p) == [j \in 1..(Len(p) - 1) |-> p[j + 1]]

Arrivals(ts, ws) == [j \in 1..Len(ts) |-> Received(ws[j], ts[j])]
Levels(ts, ws) == {Nesting(ws[j], ts[j]) : j \in 1..Len(ts)}

\* The parts of v are the values ws, of the types ts, and head is its header.
Consists(v, T, head, ts, ws) ==
    /\ IsList(ts)
    /\ Header(v, T) = head
    /\ Payload(v, T) = [j \in 1..Len(ts) |-> <<ts[j], ws[j]>>]

LEMMA PartsAre ==
    ASSUME NEW v, NEW T, NEW ts, NEW ws, IsList(ts), PartTypes(v, T) = ts,
           \A j \in 1..Len(ts) : PartAt(v, T, j) = ws[j]
    PROVE  Consists(v, T, Header(v, T), ts, ws)
<1>1. DOMAIN ts = 1..Len(ts)
    BY DEF IsList
<1>2. Payload(v, T) = [j \in 1..Len(ts) |-> <<ts[j], PartAt(v, T, j)>>]
    BY <1>1 DEF Payload
<1> QED BY <1>2 DEF Consists

LEMMA WrittenAs ==
    ASSUME NEW v, NEW T, NEW head, NEW ts, NEW ws, Consists(v, T, head, ts, ws), Writes(v, T)
    PROVE  Encoded(v, T) = head \o Joined(Codes(ts, ws))
<1> DEFINE parts == Payload(v, T)
<1>1. parts = [j \in 1..Len(ts) |-> <<ts[j], ws[j]>>] /\ Header(v, T) = head
    BY DEF Consists
<1>2. [i \in DOMAIN parts |-> Encoded(parts[i][2], parts[i][1])] = Codes(ts, ws)
    BY <1>1 DEF Codes
<1> QED BY <1>1, <1>2 DEF Writes

LEMMA ArgsList ==
    ASSUME NEW p, IsList(p), Len(p) > 0
    PROVE  IsList(Args(p)) /\ Len(Args(p)) = Len(p) - 1
<1>1. Len(p) - 1 \in Nat
    BY DEF IsList
<1>2. Args(p) = [j \in 1..(Len(p) - 1) |-> Args(p)[j]]
    BY DEF Args
<1> QED BY <1>1, <1>2, ListOf

LEMMA ProductionList ==
    /\ \A T \in DOMAIN Sums : /\ Len(Sums[T]) \in Nat /\ DOMAIN Sums[T] = 1..Len(Sums[T])
                              /\ \A i \in 1..Len(Sums[T]) : Len(Sums[T][i]) \in Nat \ {0}
    /\ \A T \in DOMAIN Structures : Len(Structures[T]) \in Nat \ {0}
BY SumTables, StructureTables DEF IsTable, IsProduction

LEMMA ProductionIsList ==
    /\ \A T \in DOMAIN Sums : \A i \in 1..Len(Sums[T]) :
           IsList(Sums[T][i]) /\ Len(Sums[T][i]) > 0
    /\ \A T \in DOMAIN Structures : IsList(Structures[T]) /\ Len(Structures[T]) > 0
<1>1. ASSUME NEW T \in DOMAIN Sums, NEW i \in 1..Len(Sums[T])
      PROVE  IsList(Sums[T][i]) /\ Len(Sums[T][i]) > 0
    <2>1. Row(Tags[T], Sums[T], i)
        BY MirrorTables DEF Mirrors
    <2>2. Len(Sums[T][i]) \in Nat \ {0}
        BY ProductionList
    <2> QED BY <2>1, <2>2 DEF Row
<1>2. ASSUME NEW T \in DOMAIN Structures
      PROVE  IsList(Structures[T]) /\ Len(Structures[T]) > 0
    BY MirrorStructures, ProductionList
<1> QED BY <1>1, <1>2

LEMMA SumConsists ==
    ASSUME NEW T \in DOMAIN Sums, NEW i \in 1..Len(Sums[T]), NEW v, IsList(v),
           v[1] = Sums[T][i][1], Len(v) = Len(Sums[T][i])
    PROVE  IsValue(v, T) /\ Consists(v, T, <<i - 1>>, Args(Sums[T][i]), Args(v))
<1> DEFINE p == Sums[T][i]
           c == p[1]
<1>1. Row(Tags[T], Sums[T], i) /\ T \in DOMAIN Tags
    BY MirrorTables DEF Mirrors
<1>2. /\ c \in DOMAIN Tags[T] /\ IsList(Tags[T][c]) /\ Len(Tags[T][c]) = Len(p)
      /\ Tags[T][c][1] = i - 1 /\ \A j \in 2..Len(p) : Tags[T][c][j] = p[j]
    BY <1>1 DEF Row
<1>3. /\ T \notin DOMAIN Optional /\ T \notin DOMAIN Listed /\ T \notin DOMAIN Fields
      /\ T # "str" /\ T # "word" /\ T # "bool" /\ T # "Verb"
    BY <1>1, OneClass
<1> HIDE DEF p
<1>4. Len(p) \in Nat \ {0}
    BY <1>2, ProductionList DEF p
<1>5. Tail(Tags[T][c]) = Args(p) /\ IsList(Args(p)) /\ Len(Args(p)) = Len(p) - 1
    <2>1. /\ IsList(Tail(Tags[T][c])) /\ Len(Tail(Tags[T][c])) = Len(p) - 1
          /\ \A j \in 1..(Len(p) - 1) : Tail(Tags[T][c])[j] = Tags[T][c][j + 1]
        BY <1>2, <1>4, ListTail
    <2>2. \A j \in 1..(Len(p) - 1) : j + 1 \in 2..Len(p)
        BY <1>4
    <2>3. \A j \in 1..(Len(p) - 1) : Tail(Tags[T][c])[j] = p[j + 1]
        BY <1>2, <2>1, <2>2
    <2>4. Tail(Tags[T][c]) = [j \in 1..(Len(p) - 1) |-> p[j + 1]]
        BY <2>1, <2>3 DEF IsList
    <2> QED BY <2>1, <2>4 DEF Args
<1>6. v[1] = c /\ Len(v) = Len(p)
    BY DEF p
<1>7. Header(v, T) = <<i - 1>>
    BY <1>1, <1>2, <1>3, <1>6 DEF Header
<1>10. PartTypes(v, T) = Args(p)
    BY <1>1, <1>3, <1>5, <1>6 DEF PartTypes
<1>8. \A j \in 1..Len(Args(p)) : PartAt(v, T, j) = Args(v)[j]
    BY <1>3, <1>5, <1>6 DEF PartAt, Args
<1>9. IsValue(v, T)
    BY <1>1, <1>2, <1>3, <1>6 DEF IsValue
<1> QED BY <1>5, <1>7, <1>8, <1>9, <1>10, PartsAre DEF p

LEMMA StructureConsists ==
    ASSUME NEW T \in DOMAIN Structures, NEW v, IsList(v), Len(v) = Len(Structures[T]),
           v[1] = Structures[T][1] \/ T = "Verb"
    PROVE  IsValue(v, T) /\ Consists(v, T, <<>>, Args(Structures[T]), Args(v))
<1> DEFINE p == Structures[T]
<1>1. /\ T \in DOMAIN Fields /\ IsList(Fields[T]) /\ Len(Fields[T]) = Len(p) - 1
      /\ \A j \in 1..Len(Fields[T]) : Fields[T][j] = p[j + 1]
    BY MirrorStructures
<1>2. /\ T \notin DOMAIN Optional /\ T \notin DOMAIN Listed /\ T \notin DOMAIN Tags
      /\ T # "str" /\ T # "word" /\ T # "bool"
    BY <1>1, OneClass
<1> HIDE DEF p
<1>4. Len(p) \in Nat \ {0}
    BY ProductionList DEF p
<1>5. Fields[T] = Args(p)
    BY <1>1 DEF Args, IsList
<1>6. Header(v, T) = <<>> /\ PartTypes(v, T) = Args(p)
    BY <1>1, <1>2, <1>5 DEF Header, PartTypes
<1>7. \A j \in 1..Len(Args(p)) : PartAt(v, T, j) = Args(v)[j]
    BY <1>1, <1>2, <1>5 DEF PartAt, Args, p
<1>8. IsValue(v, T)
    <2>1. Len(v) = Len(Fields[T]) + 1
        BY <1>1, <1>4 DEF p
    <2> QED BY <1>1, <1>2, <2>1 DEF IsValue
<1> QED BY <1>1, <1>5, <1>6, <1>7, <1>8, PartsAre DEF p

LEMMA TimesList ==
    ASSUME NEW n \in Nat, NEW T
    PROVE  IsList(Times(n, T)) /\ Len(Times(n, T)) = n /\ \A i \in 1..n : Times(n, T)[i] = T
<1>1. Times(n, T) = [i \in 1..n |-> Times(n, T)[i]]
    BY DEF Times
<1> QED BY <1>1, ListOf DEF Times

LEMMA ListConsists ==
    ASSUME NEW T, NEW v, IsList(v), T \in DOMAIN Optional \cup DOMAIN Listed
    PROVE  LET X == IF T \in DOMAIN Optional THEN Optional[T] ELSE Listed[T]
               head == IF T \in DOMAIN Optional THEN <<Len(v)>> ELSE LittleEndian(Len(v), LenWidth)
           IN  Consists(v, T, head, Times(Len(v), X), v)
<1> DEFINE X == IF T \in DOMAIN Optional THEN Optional[T] ELSE Listed[T]
           head == IF T \in DOMAIN Optional THEN <<Len(v)>> ELSE LittleEndian(Len(v), LenWidth)
<1>1. T \notin DOMAIN Tags /\ T \notin DOMAIN Fields /\ T # "str" /\ T # "word" /\ T # "bool"
    BY OneClass
<1>2. DOMAIN v = 1..Len(v) /\ Len(v) \in Nat
    BY DEF IsList
<1>3. Header(v, T) = head /\ PartTypes(v, T) = Times(Len(v), X)
    <2>1. CASE T \in DOMAIN Optional
        <3>1. T \notin DOMAIN Listed
            BY <2>1, OneClass
        <3>2. Header(v, T) = <<Len(v)>>
            BY <1>1, <2>1, <3>1 DEF Header
        <3>3. PartTypes(v, T) = [i \in 1..Len(v) |-> Optional[T]]
            BY <1>1, <1>2, <2>1, <3>1 DEF PartTypes
        <3> QED BY <2>1, <3>2, <3>3 DEF Times
    <2>2. CASE T \in DOMAIN Listed
        <3>1. T \notin DOMAIN Optional
            BY <2>2, OneClass
        <3>2. Header(v, T) = LittleEndian(Len(v), LenWidth)
            BY <1>1, <2>2, <3>1 DEF Header
        <3>3. PartTypes(v, T) = [i \in 1..Len(v) |-> Listed[T]]
            BY <1>1, <1>2, <2>2, <3>1 DEF PartTypes
        <3> QED BY <3>1, <3>2, <3>3 DEF Times
    <2> QED BY <2>1, <2>2
<1>5. IsList(Times(Len(v), X)) /\ Len(Times(Len(v), X)) = Len(v)
    BY <1>2, TimesList
<1>6. \A j \in 1..Len(v) : PartAt(v, T, j) = v[j]
    BY DEF PartAt
<1> HIDE DEF X, head
<1>7. Consists(v, T, Header(v, T), Times(Len(v), X), v)
    BY <1>3, <1>5, <1>6, PartsAre
<1> QED BY <1>3, <1>7 DEF X, head

LEMMA ScalarConsists ==
    ASSUME NEW T \in Scalars, NEW v
    PROVE  LET head == CASE T = "str" -> LittleEndian(Len(v), LenWidth) \o v
                         [] T = "word" -> LittleEndian(v, WordWidth)
                         [] OTHER -> IF v THEN <<1>> ELSE <<0>>
           IN  Consists(v, T, head, <<>>, <<>>)
<1>1. T \notin DOMAIN Optional \cup DOMAIN Listed \cup DOMAIN Tags \cup DOMAIN Fields
    BY Classes, MirrorTables, MirrorStructures
<1>2. T = "str" \/ T = "word" \/ T = "bool"
    BY DEF Scalars
<1>3. PartTypes(v, T) = <<>>
    BY <1>1 DEF PartTypes
<1>4. Consists(v, T, Header(v, T), <<>>, <<>>)
    BY <1>3, EmptyList, PartsAre
<1>5. Header(v, T) = CASE T = "str" -> LittleEndian(Len(v), LenWidth) \o v
                       [] T = "word" -> LittleEndian(v, WordWidth)
                       [] OTHER -> IF v THEN <<1>> ELSE <<0>>
    BY <1>1, <1>2 DEF Header
<1> QED BY <1>4, <1>5

-----------------------------------------------------------------------------
(* One read after the other, and the node made of what they read.          *)

Reads(ts) == [j \in 1..Len(ts) |-> Read(ts[j])]

\* The stack t is s and, on top of it, the first i of the values vs, of the
\* types ts.
Piled(s, ts, vs, i, t) ==
    /\ IsList(s) /\ IsList(t) /\ Len(t) = Len(s) + i
    /\ \A j \in 1..Len(s) : t[j] = s[j]
    /\ \A j \in 1..i : t[Len(s) + j] = <<KindOf(ts[j]), vs[j]>>

LEMMA PiledOn ==
    ASSUME NEW s, NEW ts, NEW vs, NEW i \in Nat, NEW t, Piled(s, ts, vs, i, t)
    PROVE  Piled(s, ts, vs, i + 1, Atop(t, ts[i + 1], vs[i + 1]))
<1> DEFINE n == Len(s)
           x == <<KindOf(ts[i + 1]), vs[i + 1]>>
           u == Atop(t, ts[i + 1], vs[i + 1])
<1>1. u = Append(t, x) /\ n \in Nat
    BY DEF Atop, Piled, IsList
<1>6. /\ IsList(s) /\ IsList(t) /\ Len(t) = n + i /\ \A j \in 1..n : t[j] = s[j]
      /\ \A j \in 1..i : t[n + j] = <<KindOf(ts[j]), vs[j]>>
    BY DEF Piled
<1> HIDE DEF x, u
<1>2. /\ IsList(Append(t, x)) /\ Len(Append(t, x)) = Len(t) + 1
      /\ \A j \in 1..Len(t) : Append(t, x)[j] = t[j]
      /\ Append(t, x)[Len(t) + 1] = x
    BY <1>6, ListAppend
<1>3. \A j \in 1..n : u[j] = s[j]
    <2>1. \A j \in 1..n : j \in 1..Len(t)
        BY <1>1, <1>6
    <2> QED BY <1>1, <1>2, <1>6, <2>1
<1>4. ASSUME NEW j \in 1..(i + 1) PROVE u[n + j] = <<KindOf(ts[j]), vs[j]>>
    <2>1. CASE j = i + 1
        <3>1. n + j = Len(t) + 1
            BY <1>1, <1>6, <2>1
        <3> QED BY <1>1, <1>2, <2>1, <3>1 DEF x
    <2>2. CASE j # i + 1
        <3>1. j \in 1..i /\ n + j \in 1..Len(t)
            BY <1>1, <1>6, <2>2
        <3> QED BY <1>1, <1>2, <1>6, <3>1
    <2> QED BY <2>1, <2>2
<1>5. Len(u) = n + (i + 1)
    BY <1>1, <1>2, <1>6
<1>7. IsList(u)
    BY <1>1, <1>2
<1>8. Piled(s, ts, vs, i + 1, u)
    BY <1>3, <1>4, <1>5, <1>6, <1>7 DEF Piled
<1> QED BY <1>8 DEF u

LEMMA ReadsExplained ==
    ASSUME NEW k, NEW ts, IsList(ts), NEW a, NEW b, IsList(a.stack), a.bytes \in Seq(Byte),
           Follows("any", k, Reads(ts), a, b)
    PROVE  \E ws : /\ IsList(ws) /\ Len(ws) = Len(ts) /\ AreStrings(Codes(ts, ws))
                   /\ IsList(b.stack) /\ b.bytes \in Seq(Byte)
                   /\ a.bytes = Joined(Codes(ts, ws)) \o b.bytes
                   /\ Piled(a.stack, ts, ws, Len(ts), b.stack)
<1> DEFINE n == Len(ts)
<1>1. n \in Nat /\ IsList(Reads(ts)) /\ Len(Reads(ts)) = n
    <2>1. n \in Nat /\ Reads(ts) = [j \in 1..n |-> Reads(ts)[j]]
        BY DEF IsList, Reads
    <2> HIDE DEF n
    <2> QED BY <2>1, ListOf
<1>2. PICK g : /\ g[0] = a /\ g[n] = b
               /\ \A j \in 1..n : Answered("any", k, Reads(ts)[j], g[j - 1], g[j])
    BY <1>1 DEF Follows
<1> DEFINE Took(j, v) ==
        /\ Encoded(v, ts[j]) \in Seq(Byte)
        /\ g[j - 1].bytes = Encoded(v, ts[j]) \o g[j].bytes
        /\ g[j].stack = Atop(g[j - 1].stack, ts[j], v)
<1>3. ASSUME NEW j \in 1..n
      PROVE  /\ IsList(g[j].stack) /\ g[j].bytes \in Seq(Byte)
             /\ \E v : Took(j, v)
    <2>1. Reads(ts)[j] = Read(ts[j])
        BY DEF Reads
    <2>2. Explains(k, Read(ts[j]), g[j - 1], g[j])
        BY <1>2, <2>1 DEF Answered
    <2>3. Read(ts[j])[1] \in {"read", "enter"} /\ Read(ts[j])[2] = ts[j]
        BY DEF Read
    <2> DEFINE x == Read(ts[j])
    <2> HIDE DEF x
    <2>4. x[1] \in {"read", "enter"} /\ x[2] = ts[j] /\ Explains(k, x, g[j - 1], g[j])
        BY <2>2, <2>3 DEF x
    <2> QED BY <2>4 DEF Explains
<1> DEFINE ws == [j \in 1..n |-> CHOOSE v : Took(j, v)]
           codes == Codes(ts, ws)
<1>4. IsList(ws) /\ Len(ws) = n
    <2> HIDE DEF Took, n
    <2>1. ws = [j \in 1..n |-> ws[j]]
        OBVIOUS
    <2> HIDE DEF ws
    <2> QED BY <1>1, <2>1, ListOf
<1>5. \A j \in 1..n : Took(j, ws[j])
    <2> HIDE DEF Took
    <2> QED BY <1>3
<1> HIDE DEF ws
<1>6. IsList(codes) /\ Len(codes) = n /\ \A j \in 1..n : codes[j] = Encoded(ws[j], ts[j])
    <2>1. codes = [j \in 1..n |-> codes[j]] /\ \A j \in 1..n : codes[j] = Encoded(ws[j], ts[j])
        BY DEF Codes
    <2> HIDE DEF codes, n
    <2> QED BY <1>1, <2>1, ListOf
<1> HIDE DEF codes, n
<1>7. AreStrings(codes)
    BY <1>5, <1>6 DEF AreStrings
<1>8. PICK last : Suffixes(codes, last) /\ Joined(codes) = last[n]
    BY <1>6, <1>7, JoinedDef
<1>9. /\ last[0] = <<>> /\ \A i \in 0..n : last[i] \in Seq(Byte)
      /\ \A i \in 1..n : last[i] = codes[n + 1 - i] \o last[i - 1]
    BY <1>6, <1>8 DEF Suffixes
<1>10. b.bytes \in Seq(Byte) /\ IsList(b.stack)
    <2>1. CASE n = 0
        BY <1>2, <2>1
    <2>2. CASE n # 0
        <3>1. n \in 1..n
            BY <1>1, <2>2
        <3> QED BY <1>2, <1>3, <3>1
    <2> QED BY <2>1, <2>2
<1> DEFINE T == {i \in Nat : i <= n => g[n - i].bytes = last[i] \o b.bytes}
<1>11. 0 \in T
    <2>1. n - 0 = n /\ <<>> \o b.bytes = b.bytes
        BY <1>1, <1>10
    <2> QED BY <1>2, <1>9, <2>1
<1>12. ASSUME NEW i \in Nat, i \in T PROVE i + 1 \in T
    <2>0. i + 1 \in Nat
        OBVIOUS
    <2> SUFFICES ASSUME i + 1 <= n PROVE g[n - (i + 1)].bytes = last[i + 1] \o b.bytes
        BY <2>0
    <2>1. /\ i <= n /\ n - i \in 1..n /\ (n - i) - 1 = n - (i + 1) /\ i + 1 \in 1..n
          /\ n + 1 - (i + 1) = n - i /\ (i + 1) - 1 = i /\ i \in 0..n
        BY <1>1
    <2>2. g[n - i].bytes = last[i] \o b.bytes
        BY <1>12, <2>1
    <2>3. g[(n - i) - 1].bytes = codes[n - i] \o g[n - i].bytes
        BY <1>5, <1>6, <2>1
    <2>4. last[i + 1] = codes[n - i] \o last[i]
        BY <1>9, <2>1
    <2>5. codes[n - i] \in Seq(Byte) /\ last[i] \in Seq(Byte)
        BY <1>6, <1>7, <1>9, <2>1 DEF AreStrings
    <2>6. (codes[n - i] \o last[i]) \o b.bytes = codes[n - i] \o (last[i] \o b.bytes)
        <3> DEFINE x == codes[n - i]
                   y == last[i]
                   z == b.bytes
        <3>1. x \in Seq(Byte) /\ y \in Seq(Byte) /\ z \in Seq(Byte)
            BY <1>10, <2>5
        <3> HIDE DEF x, y, z
        <3>2. (x \o y) \o z = x \o (y \o z)
            BY <3>1, Regrouped
        <3> QED BY <3>2 DEF x, y, z
    <2> QED BY <2>1, <2>2, <2>3, <2>4, <2>6
<1> HIDE DEF T
<1>13. a.bytes = Joined(codes) \o b.bytes
    <2>1. n \in T
        BY <1>1, <1>11, <1>12, SetInduction
    <2>2. n - n = 0 /\ n <= n
        BY <1>1
    <2>3. g[n - n].bytes = last[n] \o b.bytes
        BY <2>1, <2>2 DEF T
    <2> QED BY <1>2, <1>8, <2>2, <2>3
<1> DEFINE U == {i \in Nat : i <= n => Piled(a.stack, ts, ws, i, g[i].stack)}
<1>14. 0 \in U
    BY <1>2 DEF Piled, IsList
<1>15. ASSUME NEW i \in Nat, i \in U PROVE i + 1 \in U
    <2> SUFFICES ASSUME i + 1 <= n PROVE Piled(a.stack, ts, ws, i + 1, g[i + 1].stack)
        OBVIOUS
    <2>1. i <= n /\ i + 1 \in 1..n /\ (i + 1) - 1 = i
        BY <1>1
    <2>2. Piled(a.stack, ts, ws, i, g[i].stack)
        BY <1>15, <2>1
    <2>3. g[i + 1].stack = Atop(g[i].stack, ts[i + 1], ws[i + 1])
        BY <1>5, <2>1
    <2> QED BY <2>2, <2>3, PiledOn
<1> HIDE DEF U
<1>16. Piled(a.stack, ts, ws, n, b.stack)
    <2>1. n \in U
        BY <1>1, <1>14, <1>15, SetInduction
    <2>2. n <= n
        BY <1>1
    <2> QED BY <1>2, <2>1, <2>2 DEF U
<1> QED BY <1>4, <1>7, <1>10, <1>13, <1>16 DEF n, codes

\* The node of constructor c and arguments vs.
Made(c, vs) == <<c>> \o vs

LEMMA MadeParts ==
    ASSUME NEW c, NEW vs, IsList(vs)
    PROVE  /\ IsList(Made(c, vs)) /\ Len(Made(c, vs)) = Len(vs) + 1
           /\ Made(c, vs)[1] = c /\ Args(Made(c, vs)) = vs
           /\ \A j \in 1..Len(vs) : Made(c, vs)[j + 1] = vs[j]
<1>1. IsList(<<c>>) /\ Len(<<c>>) = 1 /\ <<c>>[1] = c
    BY Singleton
<1> DEFINE s == <<c>>
           v == Made(c, vs)
<1>2. v = s \o vs
    BY DEF Made
<1> HIDE DEF s, v
<1>3. /\ IsList(s \o vs) /\ Len(s \o vs) = Len(s) + Len(vs)
      /\ Len(vs) \in Nat
      /\ \A i \in 1..Len(s) : (s \o vs)[i] = s[i]
      /\ \A i \in 1..Len(vs) : (s \o vs)[Len(s) + i] = vs[i]
    BY <1>1, ListConcat DEF s
<1>4. Len(s) = 1 /\ s[1] = c
    BY <1>1 DEF s
<1>5. IsList(v) /\ Len(v) = Len(vs) + 1 /\ v[1] = c
    BY <1>2, <1>3, <1>4
<1>6. \A j \in 1..Len(vs) : v[j + 1] = vs[j]
    <2>1. \A j \in 1..Len(vs) : j + 1 = 1 + j
        OBVIOUS
    <2> QED BY <1>2, <1>3, <1>4, <2>1
<1>7. Args(v) = [j \in 1..Len(vs) |-> vs[j]]
    <2>1. Len(v) - 1 = Len(vs)
        BY <1>3, <1>5
    <2> QED BY <1>6, <2>1 DEF Args
<1>8. Args(v) = vs
    BY <1>7 DEF IsList
<1> QED BY <1>5, <1>6, <1>8 DEF v

\* The node takes the place of its arguments.
Noded(s, c, vs) == Append(s, <<"node", Made(c, vs)>>)

LEMMA BoundPile ==
    ASSUME NEW s, NEW ts, NEW vs, NEW m \in Nat, NEW t, Piled(s, ts, vs, m, t),
           IsList(vs), Len(vs) = m, NEW c
    PROVE  Bound(t, c, m) = Noded(s, c, vs) /\ IsList(Noded(s, c, vs))
<1> DEFINE n == Len(t) - m
<1>1. /\ IsList(s) /\ IsList(t) /\ Len(t) = Len(s) + m /\ Len(s) \in Nat
      /\ \A j \in 1..Len(s) : t[j] = s[j]
      /\ \A j \in 1..m : t[Len(s) + j] = <<KindOf(ts[j]), vs[j]>>
    BY DEF Piled, IsList
<1>2. n = Len(s) /\ n \in 0..Len(t)
    BY <1>1
<1> HIDE DEF n
<1>3. SubSeq(t, 1, n) = s
    <2>1. /\ IsList(SubSeq(t, 1, n)) /\ Len(SubSeq(t, 1, n)) = n
          /\ \A i \in 1..n : SubSeq(t, 1, n)[i] = t[i]
        <3>1. n \in Int /\ n <= Len(t) /\ n >= 0
            BY <1>1, <1>2
        <3> QED BY <1>1, <3>1, ListPrefix
    <2> QED BY <1>1, <1>2, <2>1, SameList
<1>4. [i \in 1..m |-> t[n + i][2]] = vs
    <2>1. \A i \in 1..m : t[n + i][2] = vs[i]
        BY <1>1, <1>2
    <2>2. vs = [i \in 1..m |-> vs[i]]
        BY DEF IsList
    <2> QED BY <2>1, <2>2
<1>5. Bound(t, c, m) = Noded(s, c, vs)
    BY <1>3, <1>4 DEF Bound, Made, Noded, n
<1>6. IsList(Noded(s, c, vs))
    BY <1>1, ListAppend DEF Noded
<1> QED BY <1>5, <1>6

\* The calls of a production, and its node.
LEMMA ProduceCalls ==
    ASSUME NEW how, NEW k, NEW p, IsList(p), Len(p) > 0, NEW a, NEW b
    PROVE  Follows(how, k, Produce(p), a, b) <=>
               \E c : /\ Follows(how, k, Reads(Args(p)), a, c)
                      /\ Answered(how, k, <<"node", p[1], Len(Args(p))>>, c, b)
<1> DEFINE node == <<"node", p[1], Len(p) - 1>>
           x == Reads(Args(p))
<1>1. IsList(Args(p)) /\ Len(Args(p)) = Len(p) - 1
    BY ArgsList
<1>2. Produce(p) = x \o <<node>>
    BY <1>1 DEF Produce, Reads, Args
<1>3. IsList(x)
    <2>1. Len(Args(p)) \in Nat /\ x = [j \in 1..Len(Args(p)) |-> x[j]]
        BY <1>1 DEF Reads, IsList
    <2> HIDE DEF x
    <2> QED BY <2>1, ListOf
<1>4. IsList(<<node>>)
    BY Singleton
<1> DEFINE y == <<node>>
<1>5. Follows(how, k, x \o y, a, b) <=>
          \E c : Follows(how, k, x, a, c) /\ Follows(how, k, y, c, b)
    <2> HIDE DEF x, y
    <2> QED BY <1>3, <1>4, FollowsConcat DEF y
<1>6. \A c : Follows(how, k, y, c, b) <=> Answered(how, k, node, c, b)
    <2> HIDE DEF node
    <2> QED BY FollowsOne
<1> QED BY <1>1, <1>2, <1>5, <1>6

\* The node v of production p, and the bytes rest of its arguments.
Produced(p, v, rest, a, b) ==
    /\ IsList(v) /\ Len(v) = Len(p) /\ v[1] = p[1]
    /\ rest \in Seq(Byte) /\ rest = Joined(Codes(Args(p), Args(v)))
    /\ IsList(b.stack) /\ b.bytes \in Seq(Byte) /\ a.bytes = rest \o b.bytes
    /\ b.stack = Append(a.stack, <<"node", v>>)

LEMMA ProduceExplained ==
    ASSUME NEW k, NEW p, IsList(p), Len(p) > 0, NEW a, NEW b, IsList(a.stack),
           a.bytes \in Seq(Byte), Follows("any", k, Produce(p), a, b)
    PROVE  \E v, rest : Produced(p, v, rest, a, b)
<1> DEFINE ts == Args(p)
           node == <<"node", p[1], Len(ts)>>
<1>1. PICK c : Follows("any", k, Reads(ts), a, c) /\ Answered("any", k, node, c, b)
    BY ProduceCalls
<1>2. IsList(ts) /\ Len(ts) = Len(p) - 1
    BY ArgsList
<1>3. /\ b.bytes \in Seq(Byte) /\ IsList(b.stack) /\ c.bytes = b.bytes
      /\ b.stack = Bound(c.stack, p[1], Len(ts))
    <2>1. Explains(k, node, c, b)
        BY <1>1 DEF Answered
    <2>2. node[1] = "node" /\ node[2] = p[1] /\ node[3] = Len(ts)
        OBVIOUS
    <2> HIDE DEF node
    <2> QED BY <2>1, <2>2 DEF Explains
<1> HIDE DEF ts
<1>4. PICK ws : /\ IsList(ws) /\ Len(ws) = Len(ts) /\ AreStrings(Codes(ts, ws))
                /\ IsList(c.stack) /\ c.bytes \in Seq(Byte)
                /\ a.bytes = Joined(Codes(ts, ws)) \o c.bytes
                /\ Piled(a.stack, ts, ws, Len(ts), c.stack)
    BY <1>1, <1>2, ReadsExplained
<1> DEFINE v == Made(p[1], ws)
<1>5. IsList(v) /\ Len(v) = Len(ws) + 1 /\ v[1] = p[1] /\ Args(v) = ws
    BY <1>4, MadeParts
<1>6. b.stack = Append(a.stack, <<"node", v>>)
    <2>1. Len(ts) \in Nat
        BY <1>2 DEF IsList
    <2> DEFINE s == a.stack
               t == c.stack
               m == Len(ts)
               x == p[1]
    <2>2. Piled(s, ts, ws, m, t) /\ IsList(ws) /\ Len(ws) = m /\ m \in Nat
        BY <1>4, <2>1
    <2> HIDE DEF s, t, m, x
    <2>3. Bound(t, x, m) = Noded(s, x, ws)
        BY <2>2, BoundPile
    <2> QED BY <1>3, <2>3 DEF s, t, m, x, Noded
<1> HIDE DEF v
<1>7. Len(v) = Len(p)
    <2>1. Len(p) \in Nat
        BY DEF IsList
    <2> QED BY <1>2, <1>4, <1>5, <2>1
<1> DEFINE rest == Joined(Codes(ts, ws))
<1>8. rest \in Seq(Byte)
    BY <1>4, JoinedType
<1>9. rest = Joined(Codes(Args(p), Args(v)))
    BY <1>5 DEF ts
<1> HIDE DEF rest
<1>10. Produced(p, v, rest, a, b)
    BY <1>3, <1>4, <1>5, <1>6, <1>7, <1>8, <1>9 DEF Produced, rest
<1> QED BY <1>10

-----------------------------------------------------------------------------
(* Values gathered into a list.                                            *)

LEMMA ListAlgebra ==
    ASSUME NEW s, IsList(s), NEW t, IsList(t), NEW x
    PROVE  /\ s \o <<>> = s /\ <<>> \o s = s
           /\ Append(s, x) = s \o <<x>> /\ Append(<<>>, x) = <<x>>
           /\ Append(s, x) \o t = s \o (<<x>> \o t)
<1> DEFINE S == {s[i] : i \in 1..Len(s)} \cup {t[i] : i \in 1..Len(t)} \cup {x}
<1>1. s \in Seq(S) /\ t \in Seq(S) /\ x \in S
    BY ListIsSeq
<1> HIDE DEF S
<1>2. <<x>> \in Seq(S) /\ <<>> \in Seq(S)
    BY <1>1
<1>3. Append(s, x) = s \o <<x>>
    BY <1>1
<1>4. (s \o <<x>>) \o t = s \o (<<x>> \o t)
    <2> DEFINE y == <<x>>
    <2>1. y \in Seq(S)
        BY <1>2
    <2> HIDE DEF y
    <2>2. (s \o y) \o t = s \o (y \o t)
        BY <1>1, <2>1, ConcatAssociative
    <2> QED BY <2>2 DEF y
<1>5. s \o <<>> = s /\ <<>> \o s = s
    BY <1>1
<1>6. Append(<<>>, x) = <<x>>
    OBVIOUS
<1> QED BY <1>3, <1>4, <1>5, <1>6

LEMMA OnTop ==
    ASSUME NEW s, IsList(s), s # <<>>
    PROVE  /\ Len(s) \in Nat \ {0} /\ IsList(SubSeq(s, 1, Len(s) - 1))
           /\ Len(SubSeq(s, 1, Len(s) - 1)) = Len(s) - 1
<1>1. Len(s) \in Nat \ {0}
    BY EmptyList DEF IsList
<1>2. Len(s) - 1 \in Int /\ Len(s) - 1 <= Len(s) /\ Len(s) - 1 >= 0
    BY <1>1
<1> QED BY <1>1, <1>2, ListPrefix

LEMMA Topped ==
    ASSUME NEW s, IsList(s), NEW x
    PROVE  /\ IsList(Append(s, x)) /\ Append(s, x) # <<>> /\ Len(Append(s, x)) = Len(s) + 1
           /\ Append(s, x)[Len(Append(s, x))] = x
           /\ SubSeq(Append(s, x), 1, Len(Append(s, x)) - 1) = s
<1> DEFINE u == Append(s, x)
<1>1. /\ IsList(u) /\ Len(u) = Len(s) + 1 /\ Len(s) \in Nat
      /\ \A i \in 1..Len(s) : u[i] = s[i]
      /\ u[Len(s) + 1] = x
    BY ListAppend DEF IsList
<1> HIDE DEF u
<1>2. u # <<>>
    BY <1>1, EmptyList
<1>3. SubSeq(u, 1, Len(u) - 1) = s
    <2>1. Len(u) - 1 = Len(s) /\ Len(u) - 1 \in Int /\ Len(u) - 1 <= Len(u) /\ Len(u) - 1 >= 0
        BY <1>1
    <2>2. /\ IsList(SubSeq(u, 1, Len(u) - 1)) /\ Len(SubSeq(u, 1, Len(u) - 1)) = Len(u) - 1
          /\ \A i \in 1..(Len(u) - 1) : SubSeq(u, 1, Len(u) - 1)[i] = u[i]
        BY <1>1, <2>1, ListPrefix
    <2> QED BY <1>1, <2>1, <2>2, SameList
<1> QED BY <1>1, <1>2, <1>3 DEF u

\* The value on top goes into what is below it.
LEMMA KeptTop ==
    ASSUME NEW s, IsList(s), s # <<>>, NEW K, NEW v
    PROVE  /\ Kept(Append(s, <<K, v>>)) =
                  Append(SubSeq(s, 1, Len(s) - 1), <<"list", Append(s[Len(s)][2], v)>>)
           /\ IsList(Kept(Append(s, <<K, v>>)))
<1> DEFINE u == Append(s, <<K, v>>)
           n == Len(s)
<1>1. /\ IsList(u) /\ Len(u) = n + 1 /\ \A i \in 1..n : u[i] = s[i]
      /\ u[n + 1] = <<K, v>>
    BY ListAppend
<1>2. /\ n \in Nat \ {0} /\ IsList(SubSeq(s, 1, n - 1)) /\ Len(SubSeq(s, 1, n - 1)) = n - 1
    BY OnTop
<1>3. \A i \in 1..(n - 1) : SubSeq(s, 1, n - 1)[i] = s[i]
    <2>1. n - 1 \in Int /\ n - 1 <= n
        BY <1>2
    <2> QED BY <2>1, ListPrefix
<1> HIDE DEF u, n
<1>4. SubSeq(u, 1, n - 1) = SubSeq(s, 1, n - 1)
    <2>1. n - 1 \in Int /\ n - 1 <= Len(u) /\ n - 1 >= 0 /\ \A i \in 1..(n - 1) : i \in 1..n
        BY <1>1, <1>2
    <2>2. /\ IsList(SubSeq(u, 1, n - 1)) /\ Len(SubSeq(u, 1, n - 1)) = n - 1
          /\ \A i \in 1..(n - 1) : SubSeq(u, 1, n - 1)[i] = u[i]
        BY <1>1, <2>1, ListPrefix
    <2>3. \A i \in 1..(n - 1) : SubSeq(u, 1, n - 1)[i] = SubSeq(s, 1, n - 1)[i]
        BY <1>1, <1>3, <2>1, <2>2
    <2> QED BY <1>2, <2>2, <2>3, SameList
<1>5. /\ Len(u) - 2 = n - 1 /\ Len(u) - 1 = n /\ u[Len(u)][2] = v /\ u[n] = s[n]
    <2>1. n \in 1..n
        BY <1>2
    <2> QED BY <1>1, <1>2, <2>1
<1>6. Kept(u) = Append(SubSeq(s, 1, n - 1), <<"list", Append(s[n][2], v)>>)
    BY <1>4, <1>5 DEF Kept
<1>7. IsList(Append(SubSeq(s, 1, n - 1), <<"list", Append(s[n][2], v)>>))
    BY <1>2, ListAppend
<1> QED BY <1>6, <1>7 DEF u, n

LEMMA GatheredTop ==
    ASSUME NEW s, IsList(s), NEW l, IsList(l), NEW vs, IsList(vs)
    PROVE  Gathered(Append(s, <<"list", l>>), vs) = Append(s, <<"list", l \o vs>>)
<1> DEFINE x == <<"list", l>>
           u == Append(s, x)
<1>1. x[2] = l
    OBVIOUS
<1> HIDE DEF x
<1>2. u[Len(u)] = x /\ SubSeq(u, 1, Len(u) - 1) = s
    BY Topped
<1>3. CASE vs = <<>>
    <2>1. l \o vs = l
        BY <1>3, ListAlgebra
    <2> QED BY <1>3, <2>1 DEF Gathered, x
<1>4. CASE vs # <<>>
    BY <1>1, <1>2, <1>4 DEF Gathered, x
<1> QED BY <1>3, <1>4

\* One value kept and then the others, or all of them.
LEMMA GatheredNext ==
    ASSUME NEW s, IsList(s), ListOnTop(s), NEW K, NEW v, NEW vs, IsList(vs)
    PROVE  LET u == Kept(Append(s, <<K, v>>))
           IN  IsList(u) /\ ListOnTop(u) /\ Gathered(u, vs) = Gathered(s, <<v>> \o vs)
<1> DEFINE r == SubSeq(s, 1, Len(s) - 1)
           l == s[Len(s)][2]
           k == Append(l, v)
           u == Kept(Append(s, <<K, v>>))
           all == <<v>> \o vs
<1>1. s # <<>> /\ IsList(l) /\ IsList(r)
    BY OnTop DEF ListOnTop
<1>2. u = Append(r, <<"list", k>>)
    BY <1>1, KeptTop
<1>3. IsList(k)
    BY <1>1, ListAppend
<1>4. IsList(all) /\ all # <<>> /\ k \o vs = l \o all
    <2>1. IsList(<<v>>) /\ Len(<<v>>) = 1
        BY Singleton
    <2>2. IsList(all) /\ Len(all) = 1 + Len(vs) /\ Len(vs) \in Nat
        BY <2>1, ListConcat
    <2>3. all # <<>>
        BY <2>2, EmptyList
    <2>4. k \o vs = l \o all
        <3> HIDE DEF l
        <3>1. Append(l, v) \o vs = l \o (<<v>> \o vs)
            BY <1>1, ListAlgebra
        <3> QED BY <3>1
    <2> QED BY <2>2, <2>3, <2>4
<1> HIDE DEF r, l, k, u, all
<1>5. Gathered(u, vs) = Append(r, <<"list", k \o vs>>)
    BY <1>1, <1>2, <1>3, GatheredTop
<1>6. Gathered(s, all) = Append(r, <<"list", l \o all>>)
    BY <1>4 DEF Gathered, r, l
<1>7. IsList(u) /\ ListOnTop(u)
    <2> DEFINE x == <<"list", k>>
    <2>1. x[2] = k
        OBVIOUS
    <2> HIDE DEF x
    <2>2. IsList(Append(r, x)) /\ Append(r, x) # <<>> /\ Append(r, x)[Len(Append(r, x))] = x
        BY <1>1, Topped
    <2>3. u = Append(r, x)
        BY <1>2 DEF x
    <2> QED BY <1>3, <2>1, <2>2, <2>3 DEF ListOnTop
<1> QED BY <1>4, <1>5, <1>6, <1>7 DEF u, all

\* Into an empty list on top of s.
LEMMA GatheredFirst ==
    ASSUME NEW s, IsList(s)
    PROVE  LET u == Append(s, <<"list", <<>>>>)
           IN  /\ IsList(u) /\ ListOnTop(u)
               /\ \A vs : IsList(vs) => Gathered(u, vs) = Append(s, <<"list", vs>>)
               /\ \A K, v : Kept(Append(u, <<K, v>>)) = Append(s, <<"list", <<v>>>>)
<1> DEFINE x == <<"list", <<>>>>
           u == Append(s, x)
<1>1. IsList(<<>>) /\ x[2] = <<>>
    BY EmptyList
<1>2. /\ IsList(u) /\ u # <<>> /\ u[Len(u)] = x /\ SubSeq(u, 1, Len(u) - 1) = s
    <2> HIDE DEF x
    <2> QED BY Topped
<1>3. ASSUME NEW vs, IsList(vs) PROVE Gathered(u, vs) = Append(s, <<"list", vs>>)
    <2>1. Gathered(u, vs) = Append(s, <<"list", <<>> \o vs>>)
        BY <1>1, <1>3, GatheredTop
    <2>2. <<>> \o vs = vs
        BY <1>3, ListAlgebra
    <2> QED BY <2>1, <2>2
<1> HIDE DEF x, u
<1>4. ASSUME NEW K, NEW v PROVE Kept(Append(u, <<K, v>>)) = Append(s, <<"list", <<v>>>>)
    <2>1. Kept(Append(u, <<K, v>>)) =
              Append(SubSeq(u, 1, Len(u) - 1), <<"list", Append(u[Len(u)][2], v)>>)
        BY <1>2, KeptTop
    <2>2. Append(<<>>, v) = <<v>>
        OBVIOUS
    <2> QED BY <1>1, <1>2, <2>1, <2>2
<1>5. ListOnTop(u)
    BY <1>1, <1>2 DEF ListOnTop
<1> QED BY <1>2, <1>3, <1>4, <1>5 DEF x, u

-----------------------------------------------------------------------------
(* What a step of the decoder has read, it explains.                       *)

Now(stack, bytes) == [stack |-> stack, bytes |-> bytes]

\* Every value is encoded by the tables: the equation by which the walk of
\* to_wire is defined, here for every value there may be.
EncodesByTables == \A T \in Types : \A v : IsValue(v, T) => Writes(v, T)

LEMMA Recoded ==
    ASSUME EncodesByTables, NEW T \in Types, NEW v, IsValue(v, T),
           NEW head, NEW ts, NEW ws, Consists(v, T, head, ts, ws)
    PROVE  Encoded(v, T) = head \o Joined(Codes(ts, ws))
<1>1. Writes(v, T)
    BY DEF EncodesByTables
<1> QED BY <1>1, WrittenAs

\* The bytes of a step that succeeds.
LEMMA TakenBytes ==
    ASSUME WireInv, NEW item, Goes(item)
    PROVE  /\ Top \in Items /\ Top[1] = item /\ ContentError = "none"
           /\ Width \in Nat /\ Taken \in Seq(Byte) /\ Len(Taken) = Width /\ Number \in Nat
           /\ Width = 0 => Taken = <<>>
           /\ Width = 1 => Taken = <<Number>>
           /\ FitsIn(Number, Width) /\ LittleEndian(Number, Width) = Taken
           /\ pos + Width <= Len(input) /\ pos \in Nat
<1>1. Top \in Items /\ Width \in Nat /\ Top[1] = item /\ Refusal = "none"
    BY NextCall DEF Goes
<1>2. pos + Width \in 0..Len(input) /\ Taken \in Seq(Byte) /\ Number \in Nat
    BY TakenType DEF Goes
<1>3. input \in Seq(Byte) /\ Len(input) \in Nat /\ pos \in 0..Len(input)
    BY LenProperties DEF WireInv, WireTypeOK
<1>4. Len(Taken) = Width
    <2>1. pos + 1 \in Int /\ pos + Width \in Int
        BY <1>1, <1>3
    <2>2. \A i \in (pos + 1)..(pos + Width) : input[i] \in Byte
        <3>1. \A i \in (pos + 1)..(pos + Width) : i \in 1..Len(input)
            BY <1>1, <1>2, <1>3
        <3> QED BY <1>3, <3>1, ElementOfSeq
    <2>3. Len(Taken) = IF pos + 1 <= pos + Width THEN (pos + Width) - (pos + 1) + 1 ELSE 0
        BY <2>1, <2>2, SubSeqProperties DEF Taken
    <2> QED BY <1>1, <1>3, <2>3
<1>5. Width = 0 => Taken = <<>>
    BY <1>2, <1>4, EmptySeq
<1>6. Width = 1 => Taken = <<Number>>
    <2> SUFFICES ASSUME Width = 1 PROVE Taken = <<Number>>
        OBVIOUS
    <2> DEFINE b == Taken
    <2>1. b \in Seq(Byte) /\ Len(b) = 1 /\ Number = FromLeBytes(b)
        BY <1>2, <1>4 DEF Number
    <2> HIDE DEF b
    <2>2. Number = b[1]
        BY <2>1, OneByte
    <2>3. b = <<b[1]>>
        BY <2>1
    <2> QED BY <2>2, <2>3 DEF b
<1>7. FitsIn(Number, Width) /\ LittleEndian(Number, Width) = Taken
    BY <1>2, <1>4, WriteBack DEF Number
<1>8. ContentError = "none"
    BY <1>1 DEF Refusal
<1> QED BY <1>1, <1>2, <1>3, <1>4, <1>5, <1>6, <1>7, <1>8

\* A read by its type.
LEMMA ReadBytes ==
    ASSUME WireInv, Goes("read")
    PROVE  LET T == Top[2] IN
           /\ T \in Types
           /\ T \in DOMAIN Sums =>
                  Width = 1 /\ Number + 1 \in 1..Len(Sums[T])
           /\ T \in DOMAIN Structures => Width = 0
           /\ T \in DOMAIN Optional => Width = 1 /\ Number \in {0, 1}
           /\ T \in DOMAIN Listed => Width = LenWidth /\ IsLength(Number)
           /\ T = "bool" => Width = 1 /\ Number \in {0, 1}
           /\ T = "word" => Width = WordWidth /\ FitsIn(Number, WordWidth)
           /\ T = "str" => Width = LenWidth /\ IsLength(Number)
<1> DEFINE T == Top[2]
<1>1. /\ Top \in Items /\ Top[1] = "read" /\ ContentError = "none"
      /\ Number \in Nat /\ FitsIn(Number, Width)
    BY TakenBytes
<1>2. T \in Types
    BY <1>1, ItemShape
<1>3. CASE T \in DOMAIN Sums
    <2>1. /\ T \notin DOMAIN Optional \cup DOMAIN Listed \cup {"bool", "str"}
          /\ T # "word" /\ T \notin DOMAIN Structures
        BY <1>3, Classes DEF Scalars
    <2>2. Width = 1
        BY <1>1, <2>1 DEF Width
    <2>3. ContentError = IF Number < Len(Sums[T]) THEN "none" ELSE "BadTag"
        BY <1>1, <1>3, <2>1 DEF ContentError
    <2>4. Len(Sums[T]) \in Nat
        BY <1>3, ProductionList
    <2>5. Number + 1 \in 1..Len(Sums[T])
        BY <1>1, <2>3, <2>4
    <2> QED BY <1>2, <1>3, <2>1, <2>2, <2>5
<1>4. CASE T \in DOMAIN Structures
    <2>1. /\ T \notin DOMAIN Optional \cup DOMAIN Listed \cup {"bool", "str"}
          /\ T # "word" /\ T \notin DOMAIN Sums
        BY <1>4, Classes DEF Scalars
    <2>2. Width = 0
        BY <1>1, <1>4, <2>1 DEF Width
    <2> QED BY <1>2, <2>1, <2>2
<1>5. CASE T \in DOMAIN Optional
    <2>1. /\ T \notin DOMAIN Listed \cup {"bool", "str"} /\ T # "word"
          /\ T \notin DOMAIN Structures \cup DOMAIN Sums
        BY <1>5, Classes DEF Scalars
    <2>2. Width = 1
        BY <1>1, <2>1 DEF Width
    <2>3. ContentError = IF IsBit THEN "none" ELSE "BadTag"
        BY <1>1, <1>5, <2>1 DEF ContentError
    <2>4. Number \in {0, 1}
        BY <1>1, <2>3 DEF IsBit
    <2> QED BY <1>2, <2>1, <2>2, <2>4
<1>6. CASE T \in DOMAIN Listed \cup {"str"}
    <2>1. /\ T # "bool" /\ T # "word"
          /\ T \notin DOMAIN Structures \cup DOMAIN Sums \cup DOMAIN Optional
        BY <1>6, Classes DEF Scalars
    <2>2. Width = LenWidth
        BY <1>1, <1>6, <2>1 DEF Width
    <2>3. ContentError = IF Number <= UsizeMax THEN "none" ELSE "LengthOverflow"
        BY <1>1, <1>6, <2>1 DEF ContentError
    <2>4. IsLength(Number)
        BY <1>1, <2>2, <2>3 DEF IsLength
    <2> QED BY <1>2, <2>1, <2>2, <2>4
<1>7. CASE T = "bool"
    <2>1. T \notin DOMAIN Structures \cup DOMAIN Sums \cup DOMAIN Optional \cup DOMAIN Listed
        BY <1>7, Classes DEF Scalars
    <2>2. Width = 1
        BY <1>1, <1>7, <2>1 DEF Width
    <2>3. ContentError = IF IsBit THEN "none" ELSE "BadBool"
        BY <1>1, <1>7, <2>1 DEF ContentError
    <2>4. Number \in {0, 1}
        BY <1>1, <2>3 DEF IsBit
    <2> QED BY <1>2, <1>7, <2>1, <2>2, <2>4
<1>8. CASE T = "word"
    <2>1. T \notin DOMAIN Structures \cup DOMAIN Sums \cup DOMAIN Optional \cup DOMAIN Listed
        BY <1>8, Classes DEF Scalars
    <2>2. Width = WordWidth
        BY <1>1, <1>8, <2>1 DEF Width
    <2> QED BY <1>1, <1>2, <1>8, <2>1, <2>2
<1> QED BY <1>2, <1>3, <1>4, <1>5, <1>6, <1>7, <1>8 DEF Types

\* What the calls lead to from the values and any bytes to come, the call Top
\* leads to from what was built and the bytes taken before them.
Undoes(calls, values) ==
    \A r \in Seq(Byte) : \A m :
        Follows("any", kind, calls, Now(values, r), m) =>
            Explains(kind, Top, Now(built, Taken \o r), m)

LEMMA NowIs ==
    \A s, r : Now(s, r).stack = s /\ Now(s, r).bytes = r
BY DEF Now

LEMMA Strings ==
    ASSUME NEW x \in Seq(Byte), NEW y \in Seq(Byte), NEW z \in Seq(Byte)
    PROVE  /\ x \o y \in Seq(Byte) /\ (x \o y) \o z = x \o (y \o z)
           /\ Len(x \o y) = Len(x) + Len(y)
           /\ x \o <<>> = x /\ <<>> \o x = x
<1>1. x \o y \in Seq(Byte) /\ (x \o y) \o z = x \o (y \o z)
    BY ConcatProperties, ConcatAssociative
<1> QED BY <1>1, ConcatProperties

LEMMA StillThere ==
    ASSUME WireInv, NEW item, Goes(item), NEW r \in Seq(Byte), IsList(built)
    PROVE  LET a == Now(built, Taken \o r) IN
           /\ IsList(a.stack) /\ a.bytes \in Seq(Byte) /\ a.stack = built
           /\ a.bytes = Taken \o r
           /\ Width = 0 => a.bytes = r
<1>1. Taken \in Seq(Byte) /\ (Width = 0 => Taken = <<>>)
    BY TakenBytes
<1>2. Taken \o r \in Seq(Byte)
    BY <1>1, ConcatProperties
<1>3. Width = 0 => Taken \o r = r
    BY <1>1
<1> QED BY <1>2, <1>3, NowIs

\* The next values are on top of those there are.
LEMMA ReadExplained ==
    ASSUME WireInv, NEW item \in {"read", "enter"}, Goes(item), IsList(built),
           NEW r \in Seq(Byte), NEW b, IsList(b.stack), b.bytes \in Seq(Byte),
           NEW v, NEW rest \in Seq(Byte), r = rest \o b.bytes,
           Encoded(v, Top[2]) = Taken \o rest, b.stack = Atop(built, Top[2], v)
    PROVE  Explains(kind, Top, Now(built, Taken \o r), b)
<1> DEFINE a == Now(built, Taken \o r)
           T == Top[2]
           code == Encoded(v, T)
<1>1. Top[1] = item /\ Taken \in Seq(Byte)
    BY TakenBytes
<1>2. Taken \o r = code \o b.bytes
    <2> DEFINE x == Taken
               z == b.bytes
    <2>1. x \in Seq(Byte) /\ rest \in Seq(Byte) /\ z \in Seq(Byte)
        BY <1>1
    <2> HIDE DEF x, z
    <2>2. (x \o rest) \o z = x \o (rest \o z)
        BY <2>1, Regrouped, SMTT(30)
    <2> QED BY <2>2 DEF x, z
<1>3. code \in Seq(Byte)
    BY <1>1, ConcatProperties
<1>4. a.stack = built /\ a.bytes = Taken \o r /\ a.bytes \in Seq(Byte)
    BY StillThere
<1> HIDE DEF a, code, T
<1>5. \E w : /\ Encoded(w, T) \in Seq(Byte) /\ a.bytes = Encoded(w, T) \o b.bytes
             /\ b.stack = Atop(a.stack, T, w)
    BY <1>2, <1>3, <1>4 DEF code, T
<1>6. Explains(kind, Top, a, b)
    BY <1>1, <1>4, <1>5 DEF Explains, T
<1> QED BY <1>6 DEF a

LEMMA FrameUndone ==
    ASSUME WireInv, IsList(built), NEW item \in {"magic", "version", "end"}, Goes(item)
    PROVE  Undoes(<<>>, built)
<1> SUFFICES ASSUME NEW r \in Seq(Byte), NEW m, Follows("any", kind, <<>>, Now(built, r), m)
             PROVE  Explains(kind, Top, Now(built, Taken \o r), m)
    BY DEF Undoes
<1>1. m = Now(built, r)
    BY FollowsNone
<1> DEFINE a == Now(built, Taken \o r)
<1>2. /\ IsList(a.stack) /\ a.bytes \in Seq(Byte) /\ a.stack = built
      /\ a.bytes = Taken \o r
      /\ Width = 0 => a.bytes = r
    BY StillThere
<1>3. Top[1] = item /\ ContentError = "none" /\ (Width = 1 => Taken = <<Number>>)
    BY TakenBytes
<1> HIDE DEF a
<1>4. m.stack = built /\ m.bytes = r
    BY <1>1, NowIs
<1>5. CASE item = "magic"
    <2>1. Taken = <<Magic[kind]>>
        <3>1. Width = 1
            BY <1>3, <1>5 DEF Width
        <3>2. RightMagic
            BY <1>3, <1>5 DEF ContentError
        <3> QED BY <1>3, <3>1, <3>2 DEF RightMagic
    <2> QED BY <1>2, <1>3, <1>4, <1>5, <2>1 DEF Explains, a
<1>6. CASE item = "version"
    <2>1. Taken = <<Version>>
        <3>1. Width = 1
            BY <1>3, <1>6 DEF Width
        <3>2. Number = Version
            BY <1>3, <1>6 DEF ContentError
        <3> QED BY <1>3, <3>1, <3>2
    <2> QED BY <1>2, <1>3, <1>4, <1>6, <2>1 DEF Explains, a
<1>7. CASE item = "end"
    <2>1. Width = 0
        BY <1>3, <1>7 DEF Width
    <2> QED BY <1>2, <1>3, <1>4, <1>7, <2>1 DEF Explains, a
<1> QED BY <1>5, <1>6, <1>7

LEMMA EnterUndone ==
    ASSUME WireInv, IsList(built), Goes("enter")
    PROVE  Undoes(<< <<"read", Top[2]>>, <<"leave">> >>, built)
<1> DEFINE T == Top[2]
           call == <<"read", T>>
           return == <<"leave">>
<1> SUFFICES ASSUME NEW r \in Seq(Byte), NEW m,
                    Follows("any", kind, <<call, return>>, Now(built, r), m)
             PROVE  Explains(kind, Top, Now(built, Taken \o r), m)
    BY DEF Undoes
<1>1. PICK c : /\ Answered("any", kind, call, Now(built, r), c)
               /\ Answered("any", kind, return, c, m)
    <2> HIDE DEF call, return
    <2> QED BY FollowsTwo
<1>2. Width = 0 /\ Top[1] = "enter"
    BY TakenBytes DEF Width
<1> DEFINE a == Now(built, Taken \o r)
           a1 == Now(built, r)
<1>3. /\ IsList(a.stack) /\ a.bytes \in Seq(Byte) /\ a.stack = built /\ a.bytes = r
      /\ a1.stack = built /\ a1.bytes = r
    BY <1>2, StillThere, NowIs
<1> HIDE DEF a, a1
<1>4. PICK v : /\ Encoded(v, T) \in Seq(Byte) /\ a1.bytes = Encoded(v, T) \o c.bytes
               /\ c.stack = Atop(a1.stack, T, v)
    <2>1. Explains(kind, call, a1, c)
        BY <1>1 DEF Answered, a1
    <2>2. call[1] = "read" /\ call[2] = T
        OBVIOUS
    <2> HIDE DEF call
    <2> QED BY <2>1, <2>2 DEF Explains
<1>5. IsList(m.stack) /\ m.bytes \in Seq(Byte) /\ c.bytes = m.bytes /\ m.stack = c.stack
    <2>1. Explains(kind, return, c, m)
        BY <1>1 DEF Answered
    <2>2. return[1] = "leave"
        OBVIOUS
    <2> HIDE DEF return
    <2> QED BY <2>1, <2>2 DEF Explains
<1>6. \E w : /\ Encoded(w, T) \in Seq(Byte) /\ a.bytes = Encoded(w, T) \o m.bytes
             /\ m.stack = Atop(a.stack, T, w)
    BY <1>3, <1>4, <1>5
<1>7. Explains(kind, Top, a, m)
    BY <1>2, <1>3, <1>5, <1>6 DEF Explains
<1> QED BY <1>7 DEF a

LEMMA LeaveUndone ==
    ASSUME WireInv, IsList(built), Goes("leave")
    PROVE  Undoes(<<>>, built)
<1> SUFFICES ASSUME NEW r \in Seq(Byte), NEW m, Follows("any", kind, <<>>, Now(built, r), m)
             PROVE  Explains(kind, Top, Now(built, Taken \o r), m)
    BY DEF Undoes
<1>1. m = Now(built, r)
    BY FollowsNone
<1>2. Width = 0 /\ Top[1] = "leave"
    BY TakenBytes DEF Width
<1> DEFINE a == Now(built, Taken \o r)
<1>3. IsList(a.stack) /\ a.bytes \in Seq(Byte) /\ a.stack = built /\ a.bytes = r
    BY <1>2, StillThere
<1> HIDE DEF a
<1>4. m.stack = built /\ m.bytes = r
    BY <1>1, NowIs
<1>5. Explains(kind, Top, a, m)
    BY <1>2, <1>3, <1>4 DEF Explains
<1> QED BY <1>5 DEF a

LEMMA SumUndone ==
    ASSUME EncodesByTables, WireInv, IsList(built), Goes("read"), Top[2] \in DOMAIN Sums
    PROVE  Undoes(Produce(Sums[Top[2]][Number + 1]), built)
<1> DEFINE T == Top[2]
           i == Number + 1
           p == Sums[T][i]
<1> SUFFICES ASSUME NEW r \in Seq(Byte), NEW m,
                    Follows("any", kind, Produce(p), Now(built, r), m)
             PROVE  Explains(kind, Top, Now(built, Taken \o r), m)
    BY DEF Undoes
<1>1. T \in Types /\ i \in 1..Len(Sums[T]) /\ Taken = <<Number>> /\ Number \in Nat
    <2>1. Width = 1 /\ T \in Types /\ i \in 1..Len(Sums[T])
        BY ReadBytes
    <2> QED BY <2>1, TakenBytes
<1>2. IsList(p) /\ Len(p) > 0
    BY <1>1, ProductionIsList
<1> DEFINE a1 == Now(built, r)
<1>3. a1.stack = built /\ a1.bytes = r
    BY NowIs
<1> HIDE DEF p, a1
<1>4. PICK v, rest : Produced(p, v, rest, a1, m)
    <2>1. IsList(a1.stack) /\ a1.bytes \in Seq(Byte) /\ Follows("any", kind, Produce(p), a1, m)
        BY <1>3 DEF a1
    <2> QED BY <1>2, <2>1, ProduceExplained
<1>5. /\ IsList(v) /\ Len(v) = Len(p) /\ v[1] = p[1]
      /\ rest \in Seq(Byte) /\ rest = Joined(Codes(Args(p), Args(v)))
      /\ IsList(m.stack) /\ m.bytes \in Seq(Byte) /\ r = rest \o m.bytes
      /\ m.stack = Append(built, <<"node", v>>)
    BY <1>3, <1>4 DEF Produced
<1>6. Encoded(v, T) = Taken \o rest
    <2> DEFINE head == <<i - 1>>
               ts == Args(p)
               ws == Args(v)
    <2>1. IsValue(v, T) /\ Consists(v, T, head, ts, ws)
        BY <1>1, <1>5, SumConsists DEF p
    <2>2. Taken = head
        BY <1>1
    <2>3. T \in Types /\ rest = Joined(Codes(ts, ws))
        BY <1>1, <1>5
    <2> HIDE DEF head, T, ts, ws
    <2>4. Encoded(v, T) = head \o Joined(Codes(ts, ws))
        BY <2>1, <2>3, Recoded
    <2> QED BY <2>2, <2>3, <2>4
<1>7. m.stack = Atop(built, T, v)
    <2>1. KindOf(T) = "node"
        BY Classes DEF KindOf, Scalars
    <2> QED BY <1>5, <2>1 DEF Atop
<1> QED BY <1>5, <1>6, <1>7, ReadExplained

LEMMA StructureUndone ==
    ASSUME EncodesByTables, WireInv, IsList(built), Goes("read"), Top[2] \in DOMAIN Structures
    PROVE  Undoes(Produce(Structures[Top[2]]), built)
<1> DEFINE T == Top[2]
           p == Structures[T]
<1> SUFFICES ASSUME NEW r \in Seq(Byte), NEW m,
                    Follows("any", kind, Produce(p), Now(built, r), m)
             PROVE  Explains(kind, Top, Now(built, Taken \o r), m)
    BY DEF Undoes
<1>1. T \in Types /\ Taken = <<>>
    <2>1. Width = 0 /\ T \in Types
        BY ReadBytes
    <2> QED BY <2>1, TakenBytes
<1>2. IsList(p) /\ Len(p) > 0
    BY <1>1, ProductionIsList
<1> DEFINE a1 == Now(built, r)
<1>3. a1.stack = built /\ a1.bytes = r
    BY NowIs
<1> HIDE DEF p, a1
<1>4. PICK v, rest : Produced(p, v, rest, a1, m)
    <2>1. IsList(a1.stack) /\ a1.bytes \in Seq(Byte) /\ Follows("any", kind, Produce(p), a1, m)
        BY <1>3 DEF a1
    <2> QED BY <1>2, <2>1, ProduceExplained
<1>5. /\ IsList(v) /\ Len(v) = Len(p) /\ v[1] = p[1]
      /\ rest \in Seq(Byte) /\ rest = Joined(Codes(Args(p), Args(v)))
      /\ IsList(m.stack) /\ m.bytes \in Seq(Byte) /\ r = rest \o m.bytes
      /\ m.stack = Append(built, <<"node", v>>)
    BY <1>3, <1>4 DEF Produced
<1>6. Encoded(v, T) = Taken \o rest
    <2> DEFINE head == <<>>
               ts == Args(p)
               ws == Args(v)
    <2>1. IsValue(v, T) /\ Consists(v, T, head, ts, ws)
        BY <1>5, StructureConsists DEF p
    <2>2. Taken = head
        BY <1>1
    <2>3. T \in Types /\ rest = Joined(Codes(ts, ws))
        BY <1>1, <1>5
    <2> HIDE DEF head, T, ts, ws
    <2>4. Encoded(v, T) = head \o Joined(Codes(ts, ws))
        BY <2>1, <2>3, Recoded, SMTT(30)
    <2> QED BY <2>2, <2>3, <2>4
<1>7. m.stack = Atop(built, T, v)
    <2>1. KindOf(T) = "node"
        BY Classes DEF KindOf, Scalars
    <2> QED BY <1>5, <2>1 DEF Atop
<1> QED BY <1>5, <1>6, <1>7, ReadExplained

\* What is written for a list, header first.
LEMMA OptionRecoded ==
    ASSUME EncodesByTables, NEW vs, IsList(vs), NEW T \in DOMAIN Optional, Len(vs) <= 1
    PROVE  Encoded(vs, T) = <<Len(vs)>> \o Joined(Codes(Times(Len(vs), Optional[T]), vs))
<1>1. /\ T \notin DOMAIN Tags /\ T \notin DOMAIN Fields /\ T \notin DOMAIN Listed
      /\ T # "str" /\ T # "word" /\ T # "bool"
    BY OneClass
<1>2. T \in Types /\ IsValue(vs, T)
    BY <1>1 DEF IsValue, Types
<1> DEFINE ts == Times(Len(vs), Optional[T])
           head == <<Len(vs)>>
<1>3. Consists(vs, T, head, ts, vs)
    BY ListConsists
<1> HIDE DEF ts, head
<1>4. Encoded(vs, T) = head \o Joined(Codes(ts, vs))
    BY <1>2, <1>3, Recoded
<1> QED BY <1>4 DEF ts, head

LEMMA ListRecoded ==
    ASSUME EncodesByTables, NEW vs, IsList(vs), NEW T \in DOMAIN Listed, IsLength(Len(vs))
    PROVE  Encoded(vs, T) =
               LittleEndian(Len(vs), LenWidth) \o Joined(Codes(Times(Len(vs), Listed[T]), vs))
<1>1. /\ T \notin DOMAIN Tags /\ T \notin DOMAIN Fields /\ T \notin DOMAIN Optional
      /\ T # "str" /\ T # "word" /\ T # "bool"
    BY OneClass
<1>2. T \in Types /\ IsValue(vs, T)
    BY <1>1 DEF IsValue, Types
<1> DEFINE ts == Times(Len(vs), Listed[T])
           head == LittleEndian(Len(vs), LenWidth)
<1>3. Consists(vs, T, head, ts, vs)
    BY <1>1, ListConsists
<1> HIDE DEF ts, head
<1>4. Encoded(vs, T) = head \o Joined(Codes(ts, vs))
    BY <1>2, <1>3, Recoded
<1> QED BY <1>4 DEF ts, head

LEMMA CodesOfOne ==
    ASSUME NEW v, NEW X, Encoded(v, X) \in Seq(Byte)
    PROVE  /\ AreStrings(Codes(Times(1, X), <<v>>))
           /\ Joined(Codes(Times(1, X), <<v>>)) = Encoded(v, X)
<1> DEFINE code == Encoded(v, X)
           codes == Codes(Times(1, X), <<v>>)
<1> DEFINE one == 1
           w == <<v>>
<1>1. Len(Times(one, X)) = one /\ \A i \in 1..one : Times(one, X)[i] = X
    <2>1. one \in Nat
        OBVIOUS
    <2> HIDE DEF one
    <2> QED BY <2>1, TimesList
<1>2. codes = [i \in 1..1 |-> code]
    <2>1. \A i \in 1..1 : w[i] = v
        OBVIOUS
    <2> HIDE DEF w
    <2>2. Codes(Times(1, X), w) = [i \in 1..1 |-> Encoded(v, X)]
        BY <1>1, <2>1 DEF Codes
    <2> QED BY <2>2 DEF w
<1> HIDE DEF code, codes
<1>3. IsList(codes) /\ Len(codes) = 1 /\ codes[1] = code
    <2>1. codes = [i \in 1..1 |-> codes[i]] /\ 1 \in Nat /\ codes[1] = code
        BY <1>2
    <2> QED BY <2>1, ListOf
<1>4. AreStrings(<<>>) /\ Len(<<>>) = 0
    BY EmptyList DEF AreStrings
<1>5. AreStrings(codes) /\ Joined(codes) = code \o Joined(<<>>)
    <2> DEFINE none == <<>>
    <2>1. /\ AreStrings(none) /\ Len(codes) = Len(none) + 1
          /\ \A i \in 1..Len(none) : codes[i + 1] = none[i]
        BY <1>3, <1>4
    <2> HIDE DEF none
    <2>2. AreStrings(codes) /\ Joined(codes) = code \o Joined(none)
        BY <1>3, <2>1, JoinedHead DEF code
    <2> QED BY <2>2 DEF none
<1>6. code \o <<>> = code
    BY Strings DEF code
<1> QED BY <1>5, <1>6, JoinedNone DEF code, codes

\* The codes of a list are those of its first value and of the others.
LEMMA CodesOfNext ==
    ASSUME NEW v, NEW vs, IsList(vs), NEW X, Encoded(v, X) \in Seq(Byte),
           AreStrings(Codes(Times(Len(vs), X), vs))
    PROVE  LET all == <<v>> \o vs IN
           /\ IsList(all) /\ Len(all) = Len(vs) + 1
           /\ AreStrings(Codes(Times(Len(all), X), all))
           /\ Joined(Codes(Times(Len(all), X), all)) =
                  Encoded(v, X) \o Joined(Codes(Times(Len(vs), X), vs))
<1> DEFINE all == <<v>> \o vs
           n == Len(vs)
           strings == Codes(Times(n, X), vs)
           codes == Codes(Times(Len(all), X), all)
           code == Encoded(v, X)
<1>1. /\ IsList(all) /\ Len(all) = n + 1 /\ n \in Nat
      /\ all[1] = v /\ \A i \in 1..n : all[i + 1] = vs[i]
    <2> DEFINE node == Made(v, vs)
    <2>1. /\ IsList(node) /\ Len(node) = Len(vs) + 1
          /\ node[1] = v /\ \A i \in 1..Len(vs) : node[i + 1] = vs[i]
        <3> HIDE DEF all, n, strings, codes, code
        <3> QED BY MadeParts
    <2>2. all = node
        BY DEF Made
    <2>3. n \in Nat
        BY DEF IsList
    <2> HIDE DEF node, all
    <2> QED BY <2>1, <2>2, <2>3
<1> HIDE DEF all, n
<1>2. n + 1 \in Nat /\ 1 \in 1..(n + 1) /\ \A i \in 1..n : i + 1 \in 1..(n + 1)
    BY <1>1
<1>3. strings = [i \in 1..n |-> Encoded(vs[i], X)]
    BY <1>1, TimesList DEF Codes
<1>4. codes = [i \in 1..(n + 1) |-> Encoded(all[i], X)]
    BY <1>1, <1>2, TimesList DEF Codes
<1> HIDE DEF strings, codes, code
<1>5. IsList(strings) /\ Len(strings) = n /\ IsList(codes) /\ Len(codes) = n + 1
    <2>1. strings = [i \in 1..n |-> strings[i]] /\ codes = [i \in 1..(n + 1) |-> codes[i]]
        BY <1>3, <1>4
    <2> QED BY <1>1, <1>2, <2>1, ListOf
<1>6. codes[1] = code /\ \A i \in 1..n : codes[i + 1] = strings[i]
    BY <1>1, <1>2, <1>3, <1>4 DEF code
<1>7. AreStrings(strings) /\ code \in Seq(Byte)
    BY DEF strings, code, n
<1>8. AreStrings(codes) /\ Joined(codes) = code \o Joined(strings)
    BY <1>5, <1>6, <1>7, JoinedHead
<1> QED BY <1>1, <1>8 DEF all, n, strings, codes, code

\* The values a list is made of, and their bytes.
Gathers(k, n, X, a, b, vs) ==
    /\ IsList(vs) /\ Len(vs) = n
    /\ AreStrings(Codes(Times(n, X), vs))
    /\ a.bytes = Joined(Codes(Times(n, X), vs)) \o b.bytes
    /\ vs = <<>> \/ ListOnTop(a.stack) => b.stack = Gathered(a.stack, vs)

Sound(a, b) ==
    /\ IsList(a.stack) /\ IsList(b.stack)
    /\ a.bytes \in Seq(Byte) /\ b.bytes \in Seq(Byte)

\* A value is read.
Reading(X, a, b, v) ==
    /\ Encoded(v, X) \in Seq(Byte) /\ a.bytes = Encoded(v, X) \o b.bytes
    /\ b.stack = Atop(a.stack, X, v)

LEMMA ReadCall ==
    ASSUME NEW k, NEW a, NEW b, NEW X
    PROVE  Answered("any", k, Read(X), a, b) <=> Sound(a, b) /\ \E v : Reading(X, a, b, v)
<1> DEFINE x == Read(X)
<1>1. x[1] \in {"read", "enter"} /\ x[2] = X
    BY DEF Read
<1> HIDE DEF x
<1>2. Answered("any", k, x, a, b) <=> Explains(k, x, a, b)
    BY DEF Answered
<1>3. Explains(k, x, a, b) <=> Sound(a, b) /\ \E v : Reading(X, a, b, v)
    BY <1>1 DEF Explains, Reading, Sound
<1> QED BY <1>2, <1>3 DEF x

LEMMA KeepCall ==
    ASSUME NEW k, NEW a, NEW b
    PROVE  Answered("any", k, <<"keep">>, a, b) <=>
               Sound(a, b) /\ a.bytes = b.bytes /\ b.stack = Kept(a.stack)
<1> DEFINE x == <<"keep">>
<1>1. x[1] = "keep"
    OBVIOUS
<1> HIDE DEF x
<1>2. Answered("any", k, x, a, b) <=>
          Sound(a, b) /\ a.bytes = b.bytes /\ b.stack = Kept(a.stack)
    BY <1>1 DEF Answered, Explains, Sound
<1> QED BY <1>2 DEF x

LEMMA RepeatCall ==
    ASSUME NEW k, NEW a, NEW b, NEW X, NEW n
    PROVE  Answered("any", k, <<"repeat", X, n>>, a, b) <=>
               Sound(a, b) /\ \E vs : Gathers(k, n, X, a, b, vs)
<1> DEFINE x == <<"repeat", X, n>>
<1>1. x[1] = "repeat" /\ x[2] = X /\ x[3] = n
    OBVIOUS
<1> HIDE DEF x
<1>2. Answered("any", k, x, a, b) <=> Explains(k, x, a, b)
    BY DEF Answered
<1>3. Explains(k, x, a, b) <=> Sound(a, b) /\ \E vs : Gathers(k, n, X, a, b, vs)
    BY <1>1 DEF Explains, Gathers, Sound
<1> QED BY <1>2, <1>3 DEF x

LEMMA TextCall ==
    ASSUME NEW k, NEW a, NEW b, NEW n
    PROVE  Answered("any", k, <<"text", n>>, a, b) <=>
               /\ Sound(a, b)
               /\ \E t \in Seq(Byte) :
                      /\ Len(t) = n /\ IsUtf8(t) /\ a.bytes = t \o b.bytes
                      /\ b.stack = Append(a.stack, <<"text", t>>)
<1> DEFINE x == <<"text", n>>
<1>1. x[1] = "text" /\ x[2] = n
    OBVIOUS
<1> HIDE DEF x
<1>2. Answered("any", k, x, a, b) <=> Explains(k, x, a, b)
    BY DEF Answered
<1>3. Explains(k, x, a, b) <=>
          /\ Sound(a, b)
          /\ \E t \in Seq(Byte) :
                 /\ Len(t) = n /\ IsUtf8(t) /\ a.bytes = t \o b.bytes
                 /\ b.stack = Append(a.stack, <<"text", t>>)
    BY <1>1 DEF Explains, Sound
<1> QED BY <1>2, <1>3 DEF x

LEMMA OptionUndone ==
    ASSUME EncodesByTables, WireInv, IsList(built), Goes("read"), Top[2] \in DOMAIN Optional
    PROVE  Undoes(IF Number = 1 THEN << Read(Optional[Top[2]]), <<"keep">> >> ELSE <<>>,
                  Append(built, <<"list", <<>>>>))
<1> DEFINE T == Top[2]
           X == Optional[T]
           call == Read(X)
           values == Append(built, <<"list", <<>>>>)
<1>1. T \in Types /\ Number \in {0, 1} /\ Taken = <<Number>>
    BY ReadBytes, TakenBytes
<1>2. KindOf(T) = "list"
    <2>1. T # "str" /\ T # "word" /\ T # "bool"
        BY OneClass
    <2> QED BY <2>1 DEF KindOf
<1>3. /\ IsList(values) /\ ListOnTop(values)
      /\ \A K, v : Kept(Append(values, <<K, v>>)) = Append(built, <<"list", <<v>>>>)
    BY GatheredFirst
<1>4. CASE Number = 1
    <2> SUFFICES ASSUME NEW r \in Seq(Byte), NEW m,
                        Follows("any", kind, <<call, <<"keep">>>>, Now(values, r), m)
                 PROVE  Explains(kind, Top, Now(built, Taken \o r), m)
        BY <1>4 DEF Undoes
    <2>1. PICK c : /\ Answered("any", kind, call, Now(values, r), c)
                   /\ Answered("any", kind, <<"keep">>, c, m)
        <3> HIDE DEF call, values
        <3> QED BY FollowsTwo
    <2>2. PICK v : /\ Encoded(v, X) \in Seq(Byte) /\ r = Encoded(v, X) \o c.bytes
                   /\ c.stack = Atop(values, X, v)
        <3> DEFINE a1 == Now(values, r)
        <3>1. a1.stack = values /\ a1.bytes = r
            BY NowIs
        <3>2. Answered("any", kind, Read(X), a1, c)
            BY <2>1
        <3> HIDE DEF X, values, a1
        <3>3. \E v : Reading(X, a1, c, v)
            BY <3>2, ReadCall
        <3> QED BY <3>1, <3>3 DEF Reading
    <2>3. /\ IsList(m.stack) /\ m.bytes \in Seq(Byte) /\ c.bytes = m.bytes
          /\ m.stack = Kept(c.stack)
        BY <2>1, KeepCall DEF Sound
    <2> DEFINE vs == <<v>>
    <2>4. IsList(vs) /\ Len(vs) = 1
        BY Singleton
    <2>5. m.stack = Atop(built, T, vs)
        <3> HIDE DEF values
        <3>1. Kept(c.stack) = Append(built, <<"list", <<v>>>>)
            BY <1>3, <2>2 DEF Atop
        <3> QED BY <1>2, <2>3, <3>1 DEF Atop
    <2>6. Encoded(vs, T) = Taken \o Encoded(v, X)
        <3> DEFINE head == <<Len(vs)>>
        <3>1. Encoded(vs, T) = head \o Joined(Codes(Times(Len(vs), X), vs))
            <4>1. IsList(vs) /\ Len(vs) <= 1
                BY <2>4
            <4> HIDE DEF vs
            <4> QED BY <4>1, OptionRecoded
        <3>2. Joined(Codes(Times(1, X), vs)) = Encoded(v, X)
            BY <2>2, CodesOfOne
        <3>3. Taken = head
            BY <1>1, <1>4, <2>4
        <3> HIDE DEF head, vs
        <3> QED BY <2>4, <3>1, <3>2, <3>3
    <2> HIDE DEF vs
    <2>7. r = Encoded(v, X) \o m.bytes
        BY <2>2, <2>3
    <2> DEFINE rest == Encoded(v, X)
    <2>8. rest \in Seq(Byte)
        BY <2>2
    <2> HIDE DEF rest
    <2> QED BY <2>3, <2>5, <2>6, <2>7, <2>8, ReadExplained DEF rest
<1>5. CASE Number = 0
    <2> SUFFICES ASSUME NEW r \in Seq(Byte), NEW m,
                        Follows("any", kind, <<>>, Now(values, r), m)
                 PROVE  Explains(kind, Top, Now(built, Taken \o r), m)
        BY <1>5 DEF Undoes
    <2>1. m = Now(values, r)
        BY FollowsNone
    <2>2. m.stack = values /\ m.bytes = r
        BY <2>1, NowIs
    <2> DEFINE vs == <<>>
    <2>3. IsList(vs) /\ Len(vs) = 0
        BY EmptyList
    <2>4. m.stack = Atop(built, T, vs)
        BY <1>2, <2>2 DEF Atop
    <2>5. Encoded(vs, T) = Taken \o vs
        <3> DEFINE head == <<Len(vs)>>
        <3>1. Encoded(vs, T) = head \o Joined(Codes(Times(Len(vs), X), vs))
            <4> HIDE DEF vs
            <4> QED BY <2>3, OptionRecoded
        <3>2. Codes(Times(0, X), vs) = vs
            <4>1. Len(Times(0, X)) = 0
                BY TimesList
            <4> QED BY <4>1 DEF Codes
        <3>3. Joined(vs) = vs
            BY JoinedNone
        <3>4. Taken = head
            BY <1>1, <1>5, <2>3
        <3> HIDE DEF head, vs
        <3> QED BY <2>3, <3>1, <3>2, <3>3, <3>4
    <2>6. vs \in Seq(Byte) /\ r = vs \o r
        BY Strings
    <2> HIDE DEF vs, values
    <2> QED BY <1>3, <2>2, <2>4, <2>5, <2>6, ReadExplained
<1> QED BY <1>1, <1>4, <1>5

LEMMA CountUndone ==
    ASSUME EncodesByTables, WireInv, IsList(built), Goes("read"), Top[2] \in DOMAIN Listed
    PROVE  Undoes(<< <<"repeat", Listed[Top[2]], Number>> >>, Append(built, <<"list", <<>>>>))
<1> DEFINE T == Top[2]
           X == Listed[T]
           call == <<"repeat", X, Number>>
           values == Append(built, <<"list", <<>>>>)
<1> SUFFICES ASSUME NEW r \in Seq(Byte), NEW m, Follows("any", kind, <<call>>, Now(values, r), m)
             PROVE  Explains(kind, Top, Now(built, Taken \o r), m)
    BY DEF Undoes
<1>1. T \in Types /\ IsLength(Number) /\ Taken = LittleEndian(Number, LenWidth)
    <2>1. Width = LenWidth /\ T \in Types /\ IsLength(Number)
        BY ReadBytes
    <2> QED BY <2>1, TakenBytes
<1>2. KindOf(T) = "list"
    <2>1. T # "str" /\ T # "word" /\ T # "bool"
        BY OneClass
    <2> QED BY <2>1 DEF KindOf
<1>3. /\ IsList(values) /\ ListOnTop(values)
      /\ \A vs : IsList(vs) => Gathered(values, vs) = Append(built, <<"list", vs>>)
    BY GatheredFirst
<1> DEFINE a1 == Now(values, r)
           n == Number
<1>4. a1.stack = values /\ a1.bytes = r
    BY NowIs
<1>5. Answered("any", kind, call, a1, m)
    <2> HIDE DEF call, a1
    <2> QED BY FollowsOne DEF a1
<1> HIDE DEF a1, n, X, values
<1>6. PICK vs : Sound(a1, m) /\ Gathers(kind, n, X, a1, m, vs)
    <2>1. Answered("any", kind, <<"repeat", X, n>>, a1, m)
        BY <1>5 DEF n
    <2> QED BY <2>1, RepeatCall
<1>7. /\ IsList(m.stack) /\ m.bytes \in Seq(Byte) /\ IsList(vs) /\ Len(vs) = n
      /\ AreStrings(Codes(Times(n, X), vs))
      /\ r = Joined(Codes(Times(n, X), vs)) \o m.bytes
      /\ m.stack = Gathered(values, vs)
    BY <1>3, <1>4, <1>6 DEF Sound, Gathers
<1>8. m.stack = Atop(built, T, vs)
    BY <1>2, <1>3, <1>7 DEF Atop
<1>9. Encoded(vs, T) = Taken \o Joined(Codes(Times(n, X), vs))
    <2>1. IsLength(Len(vs)) /\ Taken = LittleEndian(Len(vs), LenWidth)
        BY <1>1, <1>7 DEF n
    <2>2. Encoded(vs, T) = LittleEndian(Len(vs), LenWidth) \o Joined(Codes(Times(Len(vs), X), vs))
        BY <1>7, <2>1, ListRecoded DEF X
    <2> QED BY <1>7, <2>1, <2>2
<1> DEFINE rest == Joined(Codes(Times(n, X), vs))
<1>10. rest \in Seq(Byte)
    BY <1>7, JoinedType
<1> HIDE DEF rest
<1> QED BY <1>7, <1>8, <1>9, <1>10, ReadExplained DEF rest

LEMMA RepeatUndone ==
    ASSUME WireInv, IsList(built), Goes("repeat")
    PROVE  Undoes(IF Top[3] = 0 THEN <<>>
                  ELSE << Read(Top[2]), <<"keep">>, <<"repeat", Top[2], Top[3] - 1>> >>, built)
<1> DEFINE X == Top[2]
           n == Top[3]
           s == built
<1>1. /\ Top \in Items /\ Top[1] = "repeat" /\ n \in Nat /\ Width = 0
    BY TakenBytes, ItemShape DEF Width
<1>2. ASSUME NEW r \in Seq(Byte), NEW m, NEW vs, Gathers(kind, n, X, Now(s, r), m, vs),
             IsList(m.stack), m.bytes \in Seq(Byte)
      PROVE  Explains(kind, Top, Now(s, Taken \o r), m)
    <2> DEFINE a == Now(s, Taken \o r)
               a1 == Now(s, r)
    <2>1. IsList(a.stack) /\ a.bytes \in Seq(Byte) /\ a.stack = s /\ a.bytes = r
        BY <1>1, StillThere
    <2>2. a1.stack = s /\ a1.bytes = r
        BY NowIs
    <2> HIDE DEF a, a1
    <2>3. Gathers(kind, n, X, a, m, vs)
        BY <1>2, <2>1, <2>2 DEF Gathers, a1
    <2>4. Explains(kind, Top, a, m)
        BY <1>1, <1>2, <2>1, <2>3 DEF Explains, Gathers
    <2> QED BY <2>4 DEF a
<1>3. CASE n = 0
    <2> SUFFICES ASSUME NEW r \in Seq(Byte), NEW m, Follows("any", kind, <<>>, Now(s, r), m)
                 PROVE  Explains(kind, Top, Now(s, Taken \o r), m)
        BY <1>3 DEF Undoes
    <2> DEFINE a1 == Now(s, r)
               none == <<>>
    <2>1. m = a1 /\ a1.stack = s /\ a1.bytes = r
        BY FollowsNone, NowIs
    <2>2. IsList(none) /\ Len(none) = 0 /\ Codes(Times(0, X), none) = none
        <3>1. Len(Times(0, X)) = 0
            BY TimesList
        <3> QED BY <3>1, EmptyList DEF Codes
    <2>3. AreStrings(none) /\ r = Joined(none) \o r
        BY <2>2, JoinedNone, Strings DEF AreStrings
    <2>4. Gathered(s, none) = s
        BY DEF Gathered
    <2> HIDE DEF a1
    <2>5. Gathers(kind, n, X, a1, m, none)
        <3> HIDE DEF none
        <3> QED BY <1>3, <2>1, <2>2, <2>3, <2>4 DEF Gathers
    <2> QED BY <1>2, <2>1, <2>5 DEF a1
<1>4. CASE n # 0
    <2> DEFINE call == Read(X)
               again == <<"repeat", X, n - 1>>
               n1 == n - 1
    <2> SUFFICES ASSUME NEW r \in Seq(Byte), NEW m,
                        Follows("any", kind, <<call, <<"keep">>, again>>, Now(s, r), m)
                 PROVE  Explains(kind, Top, Now(s, Taken \o r), m)
        BY <1>4 DEF Undoes
    <2> DEFINE a1 == Now(s, r)
    <2>1. a1.stack = s /\ a1.bytes = r
        BY NowIs
    <2>2. PICK c, d : /\ Answered("any", kind, call, a1, c)
                      /\ Answered("any", kind, <<"keep">>, c, d)
                      /\ Answered("any", kind, again, d, m)
        <3> HIDE DEF call, again
        <3> QED BY FollowsThree
    <2> HIDE DEF a1
    <2>3. PICK v : Sound(a1, c) /\ Reading(X, a1, c, v)
        <3> HIDE DEF X
        <3> QED BY <2>2, ReadCall DEF call
    <2>4. Sound(c, d) /\ c.bytes = d.bytes /\ d.stack = Kept(c.stack)
        BY <2>2, KeepCall
    <2>5. PICK vs : Sound(d, m) /\ Gathers(kind, n1, X, d, m, vs)
        <3>1. Answered("any", kind, <<"repeat", X, n1>>, d, m)
            BY <2>2
        <3> HIDE DEF X, n1
        <3> QED BY <3>1, RepeatCall
    <2> DEFINE all == <<v>> \o vs
               more == Joined(Codes(Times(n1, X), vs))
    <2>6. /\ IsList(vs) /\ Len(vs) = n1 /\ AreStrings(Codes(Times(n1, X), vs))
          /\ Encoded(v, X) \in Seq(Byte)
          /\ r = Encoded(v, X) \o (more \o m.bytes)
          /\ vs = <<>> \/ ListOnTop(d.stack) => m.stack = Gathered(d.stack, vs)
          /\ IsList(m.stack) /\ m.bytes \in Seq(Byte)
        BY <2>1, <2>3, <2>4, <2>5 DEF Gathers, Reading, Sound
    <2>7. /\ IsList(all) /\ Len(all) = Len(vs) + 1
          /\ AreStrings(Codes(Times(Len(all), X), all))
          /\ Joined(Codes(Times(Len(all), X), all)) = Encoded(v, X) \o more
        <3> HIDE DEF X, n1
        <3> QED BY <2>6, CodesOfNext
    <2>8. Len(all) = n
        BY <1>1, <2>6, <2>7
    <2>9. r = Joined(Codes(Times(n, X), all)) \o m.bytes
        <3>1. more \in Seq(Byte)
            BY <2>6, JoinedType
        <3> DEFINE x == Encoded(v, X)
                   z == m.bytes
        <3>2. x \in Seq(Byte) /\ z \in Seq(Byte)
            BY <2>6
        <3>3. r = x \o (more \o z) /\ Joined(Codes(Times(n, X), all)) = x \o more
            BY <2>6, <2>7, <2>8
        <3> HIDE DEF x, more, z, all
        <3>4. (x \o more) \o z = x \o (more \o z)
            BY <3>1, <3>2, Regrouped, SMTT(30)
        <3> QED BY <3>3, <3>4 DEF z
    <2>10. ListOnTop(s) => m.stack = Gathered(s, all)
        <3> SUFFICES ASSUME ListOnTop(s) PROVE m.stack = Gathered(s, all)
            OBVIOUS
        <3> DEFINE K == KindOf(X)
                   u == Kept(Append(s, <<K, v>>))
        <3>1. d.stack = u
            BY <2>1, <2>3, <2>4 DEF Reading, Atop
        <3>2. ListOnTop(u) /\ Gathered(u, vs) = Gathered(s, all)
            <4> HIDE DEF K, s
            <4> QED BY <2>6, GatheredNext DEF s
        <3> HIDE DEF u, all
        <3> QED BY <2>6, <3>1, <3>2
    <2>11. all = <<>> => m.stack = Gathered(s, all)
        BY <1>4, <2>7, <2>8, EmptyList
    <2> HIDE DEF all
    <2>12. Gathers(kind, n, X, a1, m, all)
        BY <2>1, <2>7, <2>8, <2>9, <2>10, <2>11 DEF Gathers
    <2> QED BY <1>2, <2>6, <2>12 DEF a1
<1> QED BY <1>3, <1>4

\* What is written for a scalar.
LEMMA ScalarRecoded ==
    ASSUME EncodesByTables
    PROVE  /\ \A v \in BOOLEAN : Encoded(v, "bool") = IF v THEN <<1>> ELSE <<0>>
           /\ \A v : FitsIn(v, WordWidth) => Encoded(v, "word") = LittleEndian(v, WordWidth)
           /\ \A v \in Seq(Byte) : IsUtf8(v) /\ IsLength(Len(v)) =>
                  Encoded(v, "str") = LittleEndian(Len(v), LenWidth) \o v
<1>1. \A T \in Scalars : /\ T \in Types /\ T \notin DOMAIN Tags /\ T \notin DOMAIN Fields
                         /\ T \notin DOMAIN Optional /\ T \notin DOMAIN Listed
    BY OneClass DEF Types, Scalars
<1> DEFINE none == <<>>
<1>2. Joined(Codes(none, none)) = <<>>
    <2>1. Codes(none, none) = <<>>
        BY EmptyList DEF Codes
    <2> QED BY <2>1, JoinedNone
<1>3. \A v, T : T \in Scalars => Consists(v, T, Header(v, T), none, none)
    <2> SUFFICES ASSUME NEW v, NEW T \in Scalars PROVE Consists(v, T, Header(v, T), none, none)
        OBVIOUS
    <2>1. PartTypes(v, T) = <<>>
        BY <1>1 DEF PartTypes
    <2> QED BY <2>1, EmptyList, PartsAre
<1>4. ASSUME NEW v, NEW T \in Scalars, IsValue(v, T), Header(v, T) \in Seq(Byte)
      PROVE  Encoded(v, T) = Header(v, T)
    <2>1. T \in Types /\ Consists(v, T, Header(v, T), none, none)
        BY <1>1, <1>3
    <2> HIDE DEF none
    <2>2. Encoded(v, T) = Header(v, T) \o Joined(Codes(none, none))
        BY <1>4, <2>1, Recoded
    <2>3. Header(v, T) \o <<>> = Header(v, T)
        BY <1>4, Strings
    <2> QED BY <1>2, <2>2, <2>3
<1> DEFINE b == "bool"
           w == "word"
           s == "str"
<1>5. /\ b \in Scalars /\ w \in Scalars /\ s \in Scalars /\ b # w /\ b # s /\ w # s
    BY DEF Scalars
<1>6. ASSUME NEW v \in BOOLEAN PROVE Encoded(v, b) = IF v THEN <<1>> ELSE <<0>>
    <2>1. /\ b \notin DOMAIN Tags /\ b \notin DOMAIN Fields
          /\ b \notin DOMAIN Optional /\ b \notin DOMAIN Listed
        BY <1>1, <1>5
    <2>2. IsValue(v, b)
        BY <2>1 DEF IsValue
    <2>3. Header(v, b) = IF v THEN <<1>> ELSE <<0>>
        BY <2>1 DEF Header
    <2>4. Header(v, b) \in Seq(Byte)
        <3>1. <<1>> \in Seq(Byte) /\ <<0>> \in Seq(Byte)
            BY DEF Byte
        <3> QED BY <2>3, <3>1
    <2> HIDE DEF b
    <2> QED BY <1>4, <1>5, <2>2, <2>3, <2>4
<1>7. ASSUME NEW v, FitsIn(v, WordWidth) PROVE Encoded(v, w) = LittleEndian(v, WordWidth)
    <2>1. /\ w \notin DOMAIN Tags /\ w \notin DOMAIN Fields
          /\ w \notin DOMAIN Optional /\ w \notin DOMAIN Listed
        BY <1>1, <1>5
    <2>2. IsValue(v, w)
        BY <1>7, <2>1 DEF IsValue
    <2>3. Header(v, w) = LittleEndian(v, WordWidth)
        BY <2>1 DEF Header
    <2>4. Header(v, w) \in Seq(Byte)
        <3>1. WordWidth \in Nat /\ v \in Nat
            BY <1>7, WireAssumption DEF FitsIn
        <3> QED BY <2>3, <3>1, LittleEndianType
    <2> HIDE DEF w
    <2> QED BY <1>4, <1>5, <2>2, <2>3, <2>4
<1>8. ASSUME NEW v \in Seq(Byte), IsUtf8(v), IsLength(Len(v))
      PROVE  Encoded(v, s) = LittleEndian(Len(v), LenWidth) \o v
    <2>1. /\ s \notin DOMAIN Tags /\ s \notin DOMAIN Fields
          /\ s \notin DOMAIN Optional /\ s \notin DOMAIN Listed
        BY <1>1, <1>5
    <2>2. IsValue(v, s)
        BY <1>8, <2>1 DEF IsValue
    <2>3. Header(v, s) = LittleEndian(Len(v), LenWidth) \o v
        BY <2>1 DEF Header
    <2>4. Header(v, s) \in Seq(Byte)
        <3>1. LenWidth \in Nat /\ Len(v) \in Nat
            BY WireAssumption
        <3>2. LittleEndian(Len(v), LenWidth) \in Seq(Byte)
            BY <3>1, LittleEndianType
        <3> QED BY <2>3, <3>2, Strings
    <2> HIDE DEF s
    <2> QED BY <1>4, <1>5, <2>2, <2>3, <2>4
<1> QED BY <1>6, <1>7, <1>8

\* A scalar is read at once.
LEMMA ScalarUndone ==
    ASSUME EncodesByTables, WireInv, IsList(built), Goes("read")
    PROVE  /\ Top[2] = "bool" => Undoes(<<>>, Append(built, <<"bool", Number = 1>>))
           /\ Top[2] = "word" => Undoes(<<>>, Append(built, <<"word", Number>>))
<1>1. ASSUME NEW v, Top[2] \in {"bool", "word"}, Encoded(v, Top[2]) = Taken
      PROVE  Undoes(<<>>, Append(built, <<KindOf(Top[2]), v>>))
    <2> DEFINE values == Append(built, <<KindOf(Top[2]), v>>)
    <2> SUFFICES ASSUME NEW r \in Seq(Byte), NEW m, Follows("any", kind, <<>>, Now(values, r), m)
                 PROVE  Explains(kind, Top, Now(built, Taken \o r), m)
        BY DEF Undoes
    <2>1. m = Now(values, r)
        BY FollowsNone
    <2>2. m.stack = values /\ m.bytes = r
        BY <2>1, NowIs
    <2>3. IsList(values) /\ values = Atop(built, Top[2], v)
        BY ListAppend DEF Atop
    <2>4. Taken \in Seq(Byte)
        BY TakenBytes
    <2> DEFINE none == <<>>
    <2>5. none \in Seq(Byte) /\ r = none \o r /\ Taken = Taken \o none
        BY <2>4, Strings
    <2> HIDE DEF values, none
    <2> QED BY <1>1, <2>2, <2>3, <2>5, ReadExplained
<1>2. ASSUME Top[2] = "bool" PROVE Undoes(<<>>, Append(built, <<"bool", Number = 1>>))
    <2> DEFINE v == (Number = 1)
    <2>1. Number \in {0, 1} /\ Taken = <<Number>>
        BY <1>2, ReadBytes, TakenBytes
    <2>2. v \in BOOLEAN
        OBVIOUS
    <2>3. Encoded(v, "bool") = IF v THEN <<1>> ELSE <<0>>
        <3> HIDE DEF v
        <3> QED BY <2>2, ScalarRecoded
    <2>4. Encoded(v, Top[2]) = Taken
        BY <1>2, <2>1, <2>3
    <2>5. KindOf("bool") = "bool"
        BY OneClass, Classes DEF KindOf, Scalars
    <2> HIDE DEF v
    <2>6. Undoes(<<>>, Append(built, <<KindOf(Top[2]), v>>))
        BY <1>1, <1>2, <2>4
    <2> QED BY <1>2, <2>5, <2>6 DEF v
<1>3. ASSUME Top[2] = "word" PROVE Undoes(<<>>, Append(built, <<"word", Number>>))
    <2>1. FitsIn(Number, WordWidth) /\ Taken = LittleEndian(Number, WordWidth)
        BY <1>3, ReadBytes, TakenBytes
    <2>2. Encoded(Number, Top[2]) = Taken
        BY <1>3, <2>1, ScalarRecoded
    <2>3. KindOf("word") = "word"
        BY OneClass, Classes DEF KindOf, Scalars
    <2>4. Undoes(<<>>, Append(built, <<KindOf(Top[2]), Number>>))
        BY <1>1, <1>3, <2>2
    <2> QED BY <1>3, <2>3, <2>4
<1> QED BY <1>2, <1>3

LEMMA LengthUndone ==
    ASSUME EncodesByTables, WireInv, IsList(built), Goes("read"), Top[2] = "str"
    PROVE  Undoes(<< <<"text", Number>> >>, built)
<1> DEFINE call == <<"text", Number>>
<1> SUFFICES ASSUME NEW r \in Seq(Byte), NEW m, Follows("any", kind, <<call>>, Now(built, r), m)
             PROVE  Explains(kind, Top, Now(built, Taken \o r), m)
    BY DEF Undoes
<1>1. IsLength(Number) /\ Taken = LittleEndian(Number, LenWidth)
    BY ReadBytes, TakenBytes
<1> DEFINE a1 == Now(built, r)
<1>2. a1.stack = built /\ a1.bytes = r
    BY NowIs
<1>3. Answered("any", kind, call, a1, m)
    <2> HIDE DEF call, a1
    <2> QED BY FollowsOne DEF a1
<1> HIDE DEF a1
<1>4. PICK t \in Seq(Byte) : /\ Len(t) = Number /\ IsUtf8(t) /\ r = t \o m.bytes
                             /\ m.stack = Append(built, <<"text", t>>)
                             /\ Sound(a1, m)
    <2> DEFINE n == Number
    <2>1. Answered("any", kind, <<"text", n>>, a1, m)
        BY <1>3
    <2> HIDE DEF n
    <2>2. /\ Sound(a1, m)
          /\ \E t \in Seq(Byte) :
                 /\ Len(t) = n /\ IsUtf8(t) /\ a1.bytes = t \o m.bytes
                 /\ m.stack = Append(a1.stack, <<"text", t>>)
        BY <2>1, TextCall
    <2> QED BY <1>2, <2>2 DEF n
<1>5. Encoded(t, Top[2]) = Taken \o t
    BY <1>1, <1>4, ScalarRecoded
<1>6. m.stack = Atop(built, Top[2], t)
    <2>1. KindOf("str") = "text"
        BY OneClass, Classes DEF KindOf, Scalars
    <2> QED BY <1>4, <2>1 DEF Atop
<1> QED BY <1>4, <1>5, <1>6, ReadExplained DEF Sound

\* What builds a value takes no bytes but those of a text.
LEMMA BuildUndone ==
    ASSUME WireInv, IsList(built)
    PROVE  /\ Goes("keep") => Undoes(<<>>, Kept(built)) /\ IsList(Kept(built))
           /\ Goes("node") =>
                  Undoes(<<>>, Bound(built, Top[2], Top[3])) /\ IsList(Bound(built, Top[2], Top[3]))
           /\ Goes("text") => Undoes(<<>>, Append(built, <<"text", Taken>>))
<1>1. ASSUME NEW item, Goes(item), NEW values, IsList(values),
             item = "keep" => values = Kept(built),
             item = "node" => values = Bound(built, Top[2], Top[3]),
             item = "text" => values = Append(built, <<"text", Taken>>),
             item \in {"keep", "node", "text"}
      PROVE  Undoes(<<>>, values)
    <2> SUFFICES ASSUME NEW r \in Seq(Byte), NEW m, Follows("any", kind, <<>>, Now(values, r), m)
                 PROVE  Explains(kind, Top, Now(built, Taken \o r), m)
        BY DEF Undoes
    <2>1. m = Now(values, r)
        BY FollowsNone
    <2>2. m.stack = values /\ m.bytes = r
        BY <2>1, NowIs
    <2> DEFINE a == Now(built, Taken \o r)
    <2>3. /\ IsList(a.stack) /\ a.bytes \in Seq(Byte) /\ a.stack = built
          /\ a.bytes = Taken \o r /\ (Width = 0 => a.bytes = r)
        BY <1>1, StillThere
    <2>4. /\ Top[1] = item /\ ContentError = "none" /\ Taken \in Seq(Byte)
          /\ Len(Taken) = Width
        BY <1>1, TakenBytes
    <2> HIDE DEF a
    <2>5. CASE item = "keep"
        <3>1. Width = 0
            BY <2>4, <2>5 DEF Width
        <3> QED BY <1>1, <2>2, <2>3, <2>4, <2>5, <3>1 DEF Explains, a
    <2>6. CASE item = "node"
        <3>1. Width = 0
            BY <2>4, <2>6 DEF Width
        <3> QED BY <1>1, <2>2, <2>3, <2>4, <2>6, <3>1 DEF Explains, a
    <2>7. CASE item = "text"
        <3>1. Width = Top[2] /\ IsUtf8(Taken)
            BY <2>4, <2>7 DEF Width, ContentError
        <3> QED BY <1>1, <2>2, <2>3, <2>4, <2>7, <3>1 DEF Explains, a
    <2> QED BY <1>1, <2>5, <2>6, <2>7
<1>2. IsList(Kept(built))
    <2>1. Len(built) - 2 \in Int /\ Len(built) - 2 <= Len(built)
        BY DEF IsList
    <2>2. IsList(SubSeq(built, 1, Len(built) - 2))
        BY <2>1, ListPrefix
    <2> QED BY <2>2, ListAppend DEF Kept
<1>3. ASSUME Goes("node") PROVE IsList(Bound(built, Top[2], Top[3]))
    <2>1. Top[3] \in Nat
        BY <1>3, TakenBytes DEF Items
    <2>2. Len(built) - Top[3] \in Int /\ Len(built) - Top[3] <= Len(built)
        BY <2>1 DEF IsList
    <2>3. IsList(SubSeq(built, 1, Len(built) - Top[3]))
        BY <2>2, ListPrefix
    <2> QED BY <2>3, ListAppend DEF Bound
<1>4. IsList(Append(built, <<"text", Taken>>))
    BY ListAppend
<1> QED BY <1>1, <1>2, <1>3, <1>4

-----------------------------------------------------------------------------
(* What is accepted is what would be written (Canonical).                  *)

\* One step back.
Undone ==
    \E item, calls, values :
        /\ Goes(item) /\ Step(calls, values)
        /\ IsList(calls) /\ IsList(values) /\ Undoes(calls, values)

LEMMA ProduceIsList ==
    /\ \A T \in DOMAIN Sums : \A i \in 1..Len(Sums[T]) : IsList(Produce(Sums[T][i]))
    /\ \A T \in DOMAIN Structures : IsList(Produce(Structures[T]))
<1>1. ASSUME NEW p, IsList(p), Len(p) > 0 PROVE IsList(Produce(p))
    <2> DEFINE calls == [i \in 1..(Len(p) - 1) |-> Read(p[i + 1])]
               node == <<"node", p[1], Len(p) - 1>>
    <2>1. IsList(calls)
        <3>1. Len(p) - 1 \in Nat /\ calls = [i \in 1..(Len(p) - 1) |-> calls[i]]
            BY <1>1 DEF IsList
        <3> HIDE DEF calls
        <3> QED BY <3>1, ListOf
    <2>2. IsList(<<node>>)
        BY Singleton
    <2>3. Produce(p) = calls \o <<node>>
        BY DEF Produce
    <2> HIDE DEF calls, node
    <2> QED BY <2>1, <2>2, <2>3, ListConcat
<1> HIDE DEF Produce
<1> QED BY <1>1, ProductionIsList

LEMMA FrameTakenBack ==
    ASSUME WireInv, IsList(built), Frame \/ Enter \/ Leave
    PROVE  Undone
<1>1. CASE Frame
    <2>1. PICK item \in {"magic", "version", "end"} : Goes(item)
        BY <1>1 DEF Frame
    <2>2. Step(<<>>, built) /\ Undoes(<<>>, built)
        BY <1>1, <2>1, FrameUndone DEF Frame
    <2> QED BY <2>1, <2>2, EmptyList DEF Undone
<1>2. CASE Enter
    <2> DEFINE calls == << <<"read", Top[2]>>, <<"leave">> >>
    <2>1. Goes("enter") /\ Step(calls, built)
        BY <1>2 DEF Enter
    <2>2. Undoes(calls, built)
        BY <2>1, EnterUndone
    <2>3. IsList(calls)
        BY Tuples
    <2> HIDE DEF calls
    <2> QED BY <2>1, <2>2, <2>3 DEF Undone
<1>3. CASE Leave
    <2>1. Goes("leave") /\ Step(<<>>, built)
        BY <1>3 DEF Leave
    <2>2. Undoes(<<>>, built)
        BY <2>1, LeaveUndone
    <2> QED BY <2>1, <2>2, EmptyList DEF Undone
<1> QED BY <1>1, <1>2, <1>3

LEMMA ReadTakenBack ==
    ASSUME EncodesByTables, WireInv, IsList(built),
           ReadSum \/ ReadStructure \/ ReadOption \/ ReadCount
    PROVE  Undone
<1>1. CASE ReadSum
    <2> DEFINE T == Top[2]
               calls == Produce(Sums[T][Number + 1])
    <2>1. Goes("read") /\ T \in DOMAIN Sums /\ Step(calls, built)
        BY <1>1 DEF ReadSum
    <2>2. Undoes(calls, built)
        BY <2>1, SumUndone
    <2>3. Number + 1 \in 1..Len(Sums[T])
        BY <2>1, ReadBytes
    <2>4. IsList(calls)
        BY <2>1, <2>3, ProduceIsList
    <2> HIDE DEF calls
    <2> QED BY <2>1, <2>2, <2>4 DEF Undone
<1>2. CASE ReadStructure
    <2> DEFINE T == Top[2]
               calls == Produce(Structures[T])
    <2>1. Goes("read") /\ T \in DOMAIN Structures /\ Step(calls, built)
        BY <1>2 DEF ReadStructure
    <2>2. Undoes(calls, built)
        BY <2>1, StructureUndone
    <2>3. IsList(calls)
        BY <2>1, ProduceIsList
    <2> HIDE DEF calls
    <2> QED BY <2>1, <2>2, <2>3 DEF Undone
<1> DEFINE values == Append(built, <<"list", <<>>>>)
<1>3. IsList(values)
    BY ListAppend
<1>4. CASE ReadOption
    <2> DEFINE X == Read(Optional[Top[2]])
               calls == IF Number = 1 THEN <<X, <<"keep">>>> ELSE <<>>
    <2>1. Goes("read") /\ Top[2] \in DOMAIN Optional /\ Step(calls, values)
        BY <1>4 DEF ReadOption
    <2>2. Undoes(calls, values)
        BY <2>1, OptionUndone
    <2>3. IsList(calls)
        <3> HIDE DEF X
        <3> QED BY Tuples, EmptyList
    <2> HIDE DEF calls, values
    <2> QED BY <1>3, <2>1, <2>2, <2>3 DEF Undone
<1>5. CASE ReadCount
    <2> DEFINE call == <<"repeat", Listed[Top[2]], Number>>
               calls == <<call>>
    <2>1. Goes("read") /\ Top[2] \in DOMAIN Listed /\ Step(calls, values)
        BY <1>5 DEF ReadCount
    <2>2. Undoes(calls, values)
        BY <2>1, CountUndone
    <2>3. IsList(calls)
        <3> HIDE DEF call
        <3> QED BY Singleton
    <2> HIDE DEF calls, values
    <2> QED BY <1>3, <2>1, <2>2, <2>3 DEF Undone
<1> QED BY <1>1, <1>2, <1>4, <1>5

LEMMA RestTakenBack ==
    ASSUME EncodesByTables, WireInv, IsList(built),
           Repeat \/ Keep \/ ReadBool \/ ReadWord \/ ReadLength \/ ReadText \/ Node
    PROVE  Undone
<1>1. CASE Repeat
    <2> DEFINE X == Read(Top[2])
               next == <<"repeat", Top[2], Top[3] - 1>>
               calls == IF Top[3] = 0 THEN <<>> ELSE <<X, <<"keep">>, next>>
    <2>1. Goes("repeat") /\ Step(calls, built)
        BY <1>1 DEF Repeat
    <2>2. Undoes(calls, built)
        BY <2>1, RepeatUndone
    <2>3. IsList(calls)
        <3> HIDE DEF X, next
        <3> QED BY Tuples, EmptyList
    <2> HIDE DEF calls
    <2> QED BY <2>1, <2>2, <2>3 DEF Undone
<1>2. CASE Keep
    <2>1. Goes("keep") /\ Step(<<>>, Kept(built))
        BY <1>2 DEF Keep, Kept
    <2> QED BY <2>1, BuildUndone, EmptyList DEF Undone
<1>3. CASE Node
    <2>1. Goes("node") /\ Step(<<>>, Bound(built, Top[2], Top[3]))
        BY <1>3 DEF Node, Bound
    <2> QED BY <2>1, BuildUndone, EmptyList DEF Undone
<1>4. ASSUME NEW item, Goes(item), NEW value, Step(<<>>, Append(built, value)),
             Undoes(<<>>, Append(built, value))
      PROVE  Undone
    BY <1>4, ListAppend, EmptyList DEF Undone
<1>5. CASE ReadText
    BY <1>4, <1>5, BuildUndone DEF ReadText
<1>6. CASE ReadBool \/ ReadWord
    BY <1>4, <1>6, ScalarUndone DEF ReadBool, ReadWord
<1>7. CASE ReadLength
    <2> DEFINE call == <<"text", Number>>
               calls == <<call>>
    <2>1. Goes("read") /\ Top[2] = "str" /\ Step(calls, built)
        BY <1>7 DEF ReadLength
    <2>2. Undoes(calls, built)
        BY <2>1, LengthUndone
    <2>3. IsList(calls)
        <3> HIDE DEF call
        <3> QED BY Singleton
    <2> HIDE DEF calls
    <2> QED BY <2>1, <2>2, <2>3 DEF Undone
<1> QED BY <1>1, <1>2, <1>3, <1>5, <1>6, <1>7

\* The bytes taken are the next of the input.
LEMMA TakenNext ==
    ASSUME WireInv, NEW item, Goes(item)
    PROVE  /\ SubSeq(input, 1, pos) \in Seq(Byte)
           /\ SubSeq(input, 1, pos) \o Taken = SubSeq(input, 1, pos + Width)
<1>1. /\ Taken \in Seq(Byte) /\ Len(Taken) = Width /\ Width \in Nat
      /\ pos \in Nat /\ pos + Width <= Len(input)
    BY TakenBytes
<1>2. input \in Seq(Byte) /\ Len(input) \in Nat
    BY LenProperties DEF WireInv, WireTypeOK
<1>3. ASSUME NEW n \in Nat, n <= Len(input)
      PROVE  /\ SubSeq(input, 1, n) \in Seq(Byte) /\ IsList(SubSeq(input, 1, n))
             /\ Len(SubSeq(input, 1, n)) = n
             /\ \A i \in 1..n : SubSeq(input, 1, n)[i] = input[i]
    <2>1. IsList(input)
        BY <1>2, SeqIsList
    <2>2. /\ IsList(SubSeq(input, 1, n)) /\ Len(SubSeq(input, 1, n)) = n
          /\ \A i \in 1..n : SubSeq(input, 1, n)[i] = input[i]
        BY <1>3, <2>1, ListPrefix
    <2>3. \A i \in 1..n : input[i] \in Byte
        BY <1>2, <1>3, ElementOfSeq
    <2> QED BY <2>2, <2>3, ListIsSeq
<1> DEFINE before == SubSeq(input, 1, pos)
           after == SubSeq(input, 1, pos + Width)
<1>4. /\ before \in Seq(Byte) /\ IsList(before) /\ Len(before) = pos
      /\ \A i \in 1..pos : before[i] = input[i]
    BY <1>1, <1>2, <1>3
<1>5. /\ IsList(after) /\ Len(after) = pos + Width
      /\ \A i \in 1..(pos + Width) : after[i] = input[i]
    BY <1>1, <1>2, <1>3
<1>6. \A i \in 1..Width : Taken[i] = input[pos + i]
    <2>1. \A i \in (pos + 1)..(pos + Width) : input[i] \in Byte
        <3>1. \A i \in (pos + 1)..(pos + Width) : i \in 1..Len(input)
            BY <1>1, <1>2
        <3> QED BY <1>2, <3>1, ElementOfSeq
    <2>2. \A i \in 1..((pos + Width) - (pos + 1) + 1) :
              SubSeq(input, pos + 1, pos + Width)[i] = input[(pos + 1) + i - 1]
        BY <1>1, <2>1, SubSeqProperties
    <2>3. (pos + Width) - (pos + 1) + 1 = Width /\ \A i \in 1..Width : (pos + 1) + i - 1 = pos + i
        BY <1>1
    <2> QED BY <2>2, <2>3 DEF Taken
<1>7. IsList(Taken)
    BY <1>1, SeqIsList
<1> HIDE DEF before, after
<1>8. \A i \in 1..Len(before) : after[i] = before[i]
    BY <1>1, <1>4, <1>5
<1>9. \A i \in 1..Len(Taken) : after[i + Len(before)] = Taken[i]
    BY <1>1, <1>4, <1>5, <1>6
<1>10. after = before \o Taken
    BY <1>1, <1>4, <1>5, <1>7, <1>8, <1>9, ListSplit
<1> QED BY <1>4, <1>10 DEF before, after

\* Whatever bytes are to come: if the calls under way then end, and with the
\* bytes, what they return is encoded as the bytes taken and those to come.
Explained ==
    /\ IsList(built)
    /\ out = "idle" => built = <<>>
    /\ out = "Ok" => todo = <<>>
    /\ out \in {"running", "Ok"} =>
           \A r \in Seq(Byte) : \A m :
               Follows("any", kind, todo, Now(built, r), m) /\ m.bytes = <<>> =>
                   ToWire(kind, m.stack[1][2]) = SubSeq(input, 1, pos) \o r

LEMMA UndoneExplained ==
    ASSUME WireInv, Explained, Undone
    PROVE  Explained'
<1>1. PICK item, calls, values :
          /\ Goes(item) /\ Step(calls, values)
          /\ IsList(calls) /\ IsList(values) /\ Undoes(calls, values)
    BY DEF Undone
<1>2. /\ kind' = kind /\ input' = input /\ pos' = pos + Width /\ out' = "running"
      /\ todo' = calls \o Rest /\ built' = values /\ out = "running" /\ todo # <<>>
    BY <1>1 DEF Step, Goes
<1>3. todo \in Seq(Items) /\ IsList(Rest)
    <2>1. todo \in Seq(Items)
        BY DEF WireInv, WireTypeOK
    <2>2. IsList(todo) /\ Len(todo) \in Nat \ {0}
        BY <1>2, <2>1, SeqIsList, EmptySeq
    <2> QED BY <2>1, <2>2, ListTail DEF Rest
<1>4. ASSUME NEW r \in Seq(Byte), NEW m,
             Follows("any", kind, calls \o Rest, Now(values, r), m), m.bytes = <<>>
      PROVE  ToWire(kind, m.stack[1][2]) = SubSeq(input, 1, pos + Width) \o r
    <2>1. PICK c : Follows("any", kind, calls, Now(values, r), c) /\ Follows("any", kind, Rest, c, m)
        BY <1>1, <1>3, <1>4, FollowsConcat
    <2>2. Answered("any", kind, todo[1], Now(built, Taken \o r), c)
        BY <1>1, <2>1 DEF Undoes, Answered, Top
    <2>3. Follows("any", kind, todo, Now(built, Taken \o r), m)
        BY <1>2, <1>3, <2>1, <2>2, FollowsNext DEF Rest
    <2> DEFINE before == SubSeq(input, 1, pos)
    <2>4. /\ Taken \in Seq(Byte) /\ before \in Seq(Byte)
          /\ before \o Taken = SubSeq(input, 1, pos + Width)
        BY <1>1, TakenBytes, TakenNext
    <2>5. Taken \o r \in Seq(Byte)
        BY <2>4, Strings
    <2>6. ToWire(kind, m.stack[1][2]) = before \o (Taken \o r)
        BY <1>2, <1>4, <2>3, <2>5 DEF Explained
    <2>7. (before \o Taken) \o r = before \o (Taken \o r)
        <3> DEFINE x == Taken
        <3>1. before \in Seq(Byte) /\ x \in Seq(Byte) /\ r \in Seq(Byte)
            BY <2>4
        <3> HIDE DEF before, x
        <3>2. (before \o x) \o r = before \o (x \o r)
            BY <3>1, Strings
        <3> QED BY <3>2 DEF x
    <2> QED BY <2>4, <2>6, <2>7
<1> QED BY <1>1, <1>2, <1>4 DEF Explained

LEMMA TuplesJoined ==
    /\ \A x, y : <<x>> \o <<y>> = <<x, y>>
    /\ \A w, x, y, z : <<w, x>> \o <<y, z>> = <<w, x, y, z>>
<1>1. ASSUME NEW x, NEW y PROVE <<x>> \o <<y>> = <<x, y>>
    <2> DEFINE all == <<x, y>>
               s == <<x>>
               t == <<y>>
    <2>1. /\ IsList(s) /\ Len(s) = 1 /\ s[1] = x /\ IsList(t) /\ Len(t) = 1 /\ t[1] = y
          /\ IsList(all) /\ Len(all) = 2 /\ all[1] = x /\ all[2] = y
        BY Tuples
    <2> HIDE DEF all, s, t
    <2>2. (\A i \in 1..Len(s) : all[i] = s[i]) /\ \A i \in 1..Len(t) : all[i + Len(s)] = t[i]
        BY <2>1
    <2>3. IsList(s) /\ IsList(t) /\ IsList(all) /\ Len(all) = Len(s) + Len(t)
        BY <2>1
    <2>4. s \o t = all
        BY <2>2, <2>3, ListSplit
    <2> QED BY <2>4 DEF all, s, t
<1>2. ASSUME NEW w, NEW x, NEW y, NEW z PROVE <<w, x>> \o <<y, z>> = <<w, x, y, z>>
    <2> DEFINE all == <<w, x, y, z>>
               s == <<w, x>>
               t == <<y, z>>
    <2>1. /\ IsList(s) /\ Len(s) = 2 /\ s[1] = w /\ s[2] = x
          /\ IsList(t) /\ Len(t) = 2 /\ t[1] = y /\ t[2] = z
          /\ IsList(all) /\ Len(all) = 4
          /\ all[1] = w /\ all[2] = x /\ all[3] = y /\ all[4] = z
        BY Tuples
    <2> HIDE DEF all, s, t
    <2>2. (\A i \in 1..Len(s) : all[i] = s[i]) /\ \A i \in 1..Len(t) : all[i + Len(s)] = t[i]
        <3>1. (\A i \in 1..2 : i = 1 \/ i = 2) /\ 1 + 2 = 3 /\ 2 + 2 = 4
            OBVIOUS
        <3> QED BY <2>1, <3>1
    <2>3. IsList(s) /\ IsList(t) /\ IsList(all) /\ Len(all) = Len(s) + Len(t)
        BY <2>1
    <2>4. s \o t = all
        BY <2>2, <2>3, ListSplit
    <2> QED BY <2>4 DEF all, s, t
<1> QED BY <1>1, <1>2

\* A stream as a whole: its frame, and one value.
LEMMA StreamExplained ==
    ASSUME NEW k, NEW T, NEW r \in Seq(Byte), NEW m, m.bytes = <<>>, T = Root[k],
           Follows("any", k, << <<"magic">>, <<"version">>, Read(T), <<"end">> >>,
                   Now(<<>>, r), m)
    PROVE  ToWire(k, m.stack[1][2]) = r
<1> DEFINE magic == <<"magic">>
           version == <<"version">>
           call == Read(T)
           end == <<"end">>
           a == Now(<<>>, r)
<1>1. a.stack = <<>> /\ a.bytes = r
    BY NowIs
<1>2. \E b, c, d : /\ Answered("any", k, magic, a, b) /\ Answered("any", k, version, b, c)
                   /\ Answered("any", k, call, c, d) /\ Answered("any", k, end, d, m)
    <2> HIDE DEF magic, version, call, end, a
    <2> DEFINE x == <<magic, version>>
               y == <<call, end>>
    <2>1. IsList(x) /\ IsList(y) /\ x \o y = <<magic, version, call, end>>
        BY Tuples, TuplesJoined
    <2>2. Follows("any", k, x \o y, a, m)
        BY <2>1 DEF magic, version, call, end, a
    <2>3. PICK c : Follows("any", k, x, a, c) /\ Follows("any", k, y, c, m)
        <3> HIDE DEF x, y
        <3> QED BY <2>1, <2>2, FollowsConcat
    <2>4. \E b : Answered("any", k, magic, a, b) /\ Answered("any", k, version, b, c)
        BY <2>3, FollowsTwo
    <2>5. \E d : Answered("any", k, call, c, d) /\ Answered("any", k, end, d, m)
        BY <2>3, FollowsTwo
    <2> QED BY <2>4, <2>5
<1>3. PICK b, c, d : /\ Answered("any", k, magic, a, b) /\ Answered("any", k, version, b, c)
                     /\ Answered("any", k, call, c, d) /\ Answered("any", k, end, d, m)
    BY <1>2
<1> HIDE DEF call, a
<1>4. a.bytes = <<Magic[k]>> \o b.bytes /\ b.stack = a.stack
    <2>1. magic[1] = "magic"
        OBVIOUS
    <2> HIDE DEF magic
    <2> QED BY <1>3, <2>1 DEF Answered, Explains
<1>5. b.bytes = <<Version>> \o c.bytes /\ c.stack = b.stack
    <2>1. version[1] = "version"
        OBVIOUS
    <2> HIDE DEF version
    <2> QED BY <1>3, <2>1 DEF Answered, Explains
<1>6. d.bytes = m.bytes /\ m.stack = d.stack
    <2>1. end[1] = "end"
        OBVIOUS
    <2> HIDE DEF end
    <2> QED BY <1>3, <2>1 DEF Answered, Explains
<1>7. PICK v : Reading(T, c, d, v)
    BY <1>3, ReadCall DEF call
<1>8. /\ Encoded(v, T) \in Seq(Byte) /\ c.bytes = Encoded(v, T)
      /\ m.stack[1] = <<KindOf(T), v>>
    <2>1. Encoded(v, T) \in Seq(Byte) /\ c.bytes = Encoded(v, T) \o <<>>
        BY <1>6, <1>7 DEF Reading
    <2>2. m.stack = Append(<<>>, <<KindOf(T), v>>)
        BY <1>1, <1>4, <1>5, <1>6, <1>7 DEF Reading, Atop
    <2>3. Append(<<>>, <<KindOf(T), v>>)[1] = <<KindOf(T), v>>
        BY EmptyList, ListAppend
    <2> QED BY <2>1, <2>2, <2>3, Strings
<1> DEFINE body == Encoded(v, T)
           g == Magic[k]
<1> HIDE DEF body, g
<1>9. <<g, Version>> \o body = <<g>> \o (<<Version>> \o body)
    <2>1. <<g>> \o <<Version>> = <<g, Version>>
        BY TuplesJoined
    <2> DEFINE S == Byte \cup {g, Version}
    <2>2. body \in Seq(S) /\ <<g>> \in Seq(S) /\ <<Version>> \in Seq(S)
        <3>1. body \in Seq(Byte)
            BY <1>8 DEF body
        <3>2. IsList(body) /\ \A i \in 1..Len(body) : body[i] \in Byte
            BY <3>1, SeqIsList, ElementOfSeq
        <3> QED BY <3>2, ListIsSeq
    <2> HIDE DEF S
    <2>3. (<<g>> \o <<Version>>) \o body = <<g>> \o (<<Version>> \o body)
        BY <2>2, ConcatAssociative
    <2> QED BY <2>1, <2>3
<1>10. r = <<g>> \o (<<Version>> \o body)
    BY <1>1, <1>4, <1>5, <1>8 DEF g, body
<1>11. m.stack[1][2] = v
    BY <1>8
<1> QED BY <1>9, <1>10, <1>11 DEF ToWire, g, body

LEMMA ExplainedKept ==
    EncodesByTables /\ WireInv /\ Explained /\ [WireNext]_wireVars => Explained'
<1> SUFFICES ASSUME EncodesByTables, WireInv, Explained, [WireNext]_wireVars
             PROVE  Explained'
    OBVIOUS
<1>1. IsList(built)
    BY DEF Explained
<1>2. CASE \/ Frame \/ Enter \/ Leave
           \/ ReadSum \/ ReadStructure \/ ReadOption \/ ReadCount \/ Repeat \/ Keep
           \/ ReadBool \/ ReadWord \/ ReadLength \/ ReadText \/ Node
    BY <1>1, <1>2, FrameTakenBack, ReadTakenBack, RestTakenBack, UndoneExplained
<1>3. CASE Refuse
    <2>1. Refusal \notin {"idle", "running", "Ok"}
        BY DEF Refusal, TakeError, ContentError
    <2> QED BY <1>3, <2>1, EmptyList DEF Refuse, Explained
<1>4. CASE Unwind
    BY <1>4 DEF Unwind, Errors, Explained
<1>5. CASE Return
    BY <1>5 DEF Return, Explained
<1>6. CASE \E k \in Kinds, bytes \in Seq(Byte) : Start(k, bytes)
    <2>1. PICK k \in Kinds, bytes \in Seq(Byte) : Start(k, bytes)
        BY <1>6
    <2> DEFINE stream == << <<"magic">>, <<"version">>, Read(Root[k]), <<"end">> >>
    <2>2. /\ kind' = k /\ todo' = stream /\ out' = "running"
          /\ built' = <<>> /\ pos' = 0
        BY <2>1 DEF Start, Explained, WireInv
    <2>3. ASSUME NEW r \in Seq(Byte), NEW m, Follows("any", k, stream, Now(<<>>, r), m),
                 m.bytes = <<>>
          PROVE  ToWire(k, m.stack[1][2]) = SubSeq(input', 1, 0) \o r
        <3>1. ToWire(k, m.stack[1][2]) = r
            <4> DEFINE T == Root[k]
            <4>1. T = Root[k]
                OBVIOUS
            <4> HIDE DEF T
            <4> QED BY <2>3, <4>1, StreamExplained
        <3>2. SubSeq(input', 1, 0) = <<>>
            BY SubSeqEmpty
        <3> QED BY <3>1, <3>2, Strings
    <2> HIDE DEF stream
    <2> QED BY <2>2, <2>3, EmptyList DEF Explained
<1>7. CASE UNCHANGED wireVars
    BY <1>7 DEF wireVars, Explained
<1> QED BY <1>2, <1>3, <1>4, <1>5, <1>6, <1>7 DEF WireNext, Decode

LEMMA ExplainedIsCanonical ==
    ASSUME WireInv, AcceptedWhole, Explained
    PROVE  Canonical
<1> SUFFICES ASSUME Done, out = "Ok" PROVE ToWire(kind, built[1][2]) = input
    BY DEF Canonical
<1> DEFINE m == Now(built, <<>>)
<1>1. m.stack = built /\ m.bytes = <<>>
    BY NowIs
<1>2. Follows("any", kind, todo, Now(built, <<>>), m)
    BY FollowsNone DEF Explained
<1>3. ToWire(kind, m.stack[1][2]) = SubSeq(input, 1, pos) \o <<>>
    BY <1>1, <1>2, EmptySeq DEF Explained
<1>4. SubSeq(input, 1, pos) = input
    <2>1. pos = Len(input) /\ input \in Seq(Byte)
        BY DEF AcceptedWhole, WireInv, WireTypeOK
    <2>2. IsList(input) /\ Len(input) \in Nat
        BY <2>1, SeqIsList, LenProperties
    <2> QED BY <2>1, <2>2, ListPrefix, SameList
<1>5. input \o <<>> = input
    BY Strings DEF WireInv, WireTypeOK
<1> QED BY <1>1, <1>3, <1>4, <1>5

\* "Exactly one byte string per value" (Canonical; wire.rs:642-653): for all
\* bytes on which a decoder is called, what it accepts is the encoding of the
\* value it returns.
THEOREM DecodingIsCanonical == EncodesByTables => (WireSpec => []Canonical)
<1>1. WireInit => Explained
    BY EmptyList DEF WireInit, Explained
<1>2. WireInv /\ AcceptedWhole /\ Explained => Canonical
    BY ExplainedIsCanonical
<1> SUFFICES ASSUME EncodesByTables PROVE WireSpec => []Canonical
    OBVIOUS
<1>3. WireInv /\ Explained /\ [WireNext]_wireVars => Explained'
    BY ExplainedKept
<1> QED
    BY <1>1, <1>2, <1>3, WireInitInv, WireInvKept, AcceptsOwnStreamsWhole, PTL DEF WireSpec

\* The same of what arrives over the seam, damaged or not.
THEOREM TransfersAreCanonical == EncodesByTables => (TransferSpec => []Canonical)
BY TransferDecodes, DecodingIsCanonical, PTL

-----------------------------------------------------------------------------
(* What is sent arrives, but for its verbs (OnlyVerbIsLost).               *)

\* The decoder where it is, with deep foreseen, and after its next step.
ToCome(n) == SubSeq(input, n + 1, Len(input))
Here(deep) == At(built, ToCome(pos), depth, deep)
Then(values, d, deep) == At(values, ToCome(pos + Width), d, deep)

\* The next call is foretold to lead to c.
Foretold(deep, c) ==
    /\ WireInv /\ out = "running" /\ todo # <<>> /\ Len(input) <= UsizeMax
    /\ Foretells(kind, Top, Here(deep), c)

Allowed == TakeError = "none" /\ ContentError = "none"

\* The calls that it makes will lead there.
Leads(calls, values, d, deep, c) ==
    Follows("sent", kind, calls, Then(values, d, deep), c)

LEMMA AtIs ==
    \A s, r, d, e : /\ At(s, r, d, e).stack = s /\ At(s, r, d, e).bytes = r
                    /\ At(s, r, d, e).depth = d /\ At(s, r, d, e).deep = e
BY DEF At

LEMMA ForetoldAt ==
    ASSUME NEW deep, NEW c, Foretold(deep, c)
    PROVE  /\ IsList(built) /\ ToCome(pos) \in Seq(Byte)
           /\ depth \in 0..MaxDepth /\ deep \in {0, 1}
           /\ c = At(c.stack, c.bytes, c.depth, c.deep)
           /\ IsList(c.stack) /\ c.bytes \in Seq(Byte)
           /\ c.depth \in 0..MaxDepth /\ c.deep \in {0, 1}
           /\ c.depth = IF Top[1] = "leave" THEN depth - 1 ELSE depth
           /\ Top[1] \notin {"read", "enter", "repeat"} => c.deep = deep
           /\ Top \in Items /\ Width \in Nat
           /\ input \in Seq(Byte) /\ Len(input) \in Nat /\ pos \in 0..Len(input)
           /\ Len(input) <= UsizeMax
<1> DEFINE a == Here(deep)
<1>1. /\ a.stack = built /\ a.bytes = ToCome(pos) /\ a.depth = depth /\ a.deep = deep
    BY AtIs DEF Here
<1> HIDE DEF a
<1>2. Foretells(kind, Top, a, c)
    BY DEF Foretold, a
<1>3. IsAt(a) /\ IsAt(c) /\ c.depth = (IF Top[1] = "leave" THEN a.depth - 1 ELSE a.depth)
      /\ (Top[1] \notin {"read", "enter", "repeat"} => c.deep = a.deep)
    BY <1>2 DEF Foretells
<1>4. Top \in Items /\ Width \in Nat
    BY NextCall DEF Foretold
<1>5. input \in Seq(Byte) /\ Len(input) \in Nat /\ pos \in 0..Len(input) /\ Len(input) <= UsizeMax
    BY LenProperties DEF Foretold, WireInv, WireTypeOK
<1> QED BY <1>1, <1>3, <1>4, <1>5 DEF IsAt

\* The bytes that are foretold are the next that are taken.
LEMMA PrefixTaken ==
    ASSUME NEW deep, NEW c, Foretold(deep, c), NEW x \in Seq(Byte), NEW y \in Seq(Byte),
           ToCome(pos) = x \o y, Len(x) = Width
    PROVE  /\ TakeError = "none" /\ Taken = x /\ ToCome(pos + Width) = y
           /\ Width = 1 => Number = x[1]
<1> DEFINE n == Len(input)
<1>1. /\ Width \in Nat /\ input \in Seq(Byte) /\ n \in Nat /\ pos \in 0..n /\ n <= UsizeMax
    BY ForetoldAt
<1>2. ASSUME NEW i \in Nat, i <= n
      PROVE  /\ IsList(ToCome(i)) /\ Len(ToCome(i)) = n - i
             /\ \A j \in 1..(n - i) : ToCome(i)[j] = input[i + j]
    <2>1. \A j \in (i + 1)..n : input[j] \in Byte
        BY <1>1, <1>2, ElementOfSeq
    <2>2. /\ SubSeq(input, i + 1, n) \in Seq(Byte)
          /\ Len(SubSeq(input, i + 1, n)) = IF i + 1 <= n THEN n - (i + 1) + 1 ELSE 0
          /\ \A j \in 1..(n - (i + 1) + 1) :
                 SubSeq(input, i + 1, n)[j] = input[(i + 1) + j - 1]
        BY <1>1, <1>2, <2>1, SubSeqProperties
    <2>3. /\ n - (i + 1) + 1 = n - i /\ \A j \in 1..(n - i) : (i + 1) + j - 1 = i + j
          /\ (IF i + 1 <= n THEN n - (i + 1) + 1 ELSE 0) = n - i
        BY <1>1, <1>2
    <2> QED BY <2>2, <2>3, SeqIsList DEF ToCome
<1>3. /\ IsList(x) /\ IsList(y)
    BY SeqIsList
<1> DEFINE all == ToCome(pos)
<1>4. /\ Len(all) = Len(x) + Len(y) /\ Len(y) \in Nat
      /\ \A i \in 1..Len(x) : all[i] = x[i]
      /\ \A i \in 1..Len(y) : all[Len(x) + i] = y[i]
    <2>1. all = x \o y
        OBVIOUS
    <2> HIDE DEF all
    <2> QED BY <1>3, <2>1, ListJoin
<1>5. pos + Width + Len(y) = n /\ pos + Width <= n /\ pos + Width \in Nat
    BY <1>1, <1>2, <1>4
<1>6. TakeError = "none"
    BY <1>1, <1>5, WireAssumption DEF TakeError
<1>7. Taken = x
    <2>1. \A i \in (pos + 1)..(pos + Width) : i \in 1..n
        BY <1>1, <1>5
    <2>2. \A i \in (pos + 1)..(pos + Width) : input[i] \in Byte
        BY <1>1, <2>1, ElementOfSeq
    <2>3. /\ Taken \in Seq(Byte)
          /\ Len(Taken) = IF pos + 1 <= pos + Width THEN (pos + Width) - (pos + 1) + 1 ELSE 0
          /\ \A i \in 1..((pos + Width) - (pos + 1) + 1) : Taken[i] = input[(pos + 1) + i - 1]
        BY <1>1, <2>2, SubSeqProperties DEF Taken
    <2>4. Len(Taken) = Width /\ \A i \in 1..Width : Taken[i] = input[pos + i]
        <3>1. \A i \in 1..Width : (pos + 1) + i - 1 = pos + i
            BY <1>1
        <3>2. (pos + Width) - (pos + 1) + 1 = Width
            BY <1>1
        <3> QED BY <1>1, <2>3, <3>1, <3>2
    <2>5. \A i \in 1..Width : input[pos + i] = x[i]
        <3>1. \A i \in 1..Width : i \in 1..(n - pos)
            BY <1>1, <1>5
        <3>2. \A i \in 1..Width : ToCome(pos)[i] = input[pos + i]
            BY <1>1, <1>2, <3>1
        <3> QED BY <1>4, <3>2
    <2>6. IsList(Taken) /\ Len(Taken) = Len(x) /\ \A i \in 1..Len(Taken) : Taken[i] = x[i]
        BY <2>3, <2>4, <2>5, SeqIsList
    <2> QED BY <1>3, <2>6, SameList
<1>8. ToCome(pos + Width) = y
    <2>1. /\ IsList(ToCome(pos + Width)) /\ Len(ToCome(pos + Width)) = n - (pos + Width)
          /\ \A j \in 1..(n - (pos + Width)) : ToCome(pos + Width)[j] = input[pos + Width + j]
        BY <1>2, <1>5
    <2>2. n - (pos + Width) = Len(y)
        BY <1>1, <1>4, <1>5
    <2>3. ASSUME NEW j \in 1..Len(y) PROVE input[pos + Width + j] = y[j]
        <3>1. Width + j \in 1..(n - pos) /\ pos + (Width + j) = pos + Width + j
            BY <1>1, <2>2
        <3> DEFINE i == Width + j
        <3>2. i \in 1..(n - pos)
            BY <3>1
        <3> HIDE DEF i
        <3>3. ToCome(pos)[i] = input[pos + i]
            <4>1. pos \in Nat /\ pos <= n
                BY <1>1
            <4>2. \A h \in 1..(n - pos) : ToCome(pos)[h] = input[pos + h]
                BY <1>2, <4>1
            <4> QED BY <3>2, <4>2
        <3>4. ToCome(pos)[Width + j] = input[pos + Width + j]
            BY <3>1, <3>3 DEF i
        <3> QED BY <1>4, <3>4
    <2>4. IsList(ToCome(pos + Width)) /\ Len(ToCome(pos + Width)) = Len(y)
          /\ \A j \in 1..Len(ToCome(pos + Width)) : ToCome(pos + Width)[j] = y[j]
        BY <2>1, <2>2, <2>3
    <2> QED BY <1>3, <2>4, SameList
<1>9. Width = 1 => Number = x[1]
    BY <1>7, OneByte DEF Number
<1> QED BY <1>6, <1>7, <1>8, <1>9

\* What is assumed of the values that are sent.
LEMMA ValueFacts ==
    ASSUME NEW T, NEW v, <<T, v>> \in Values
    PROVE  /\ IsValue(v, T) /\ Encoded(v, T) \in Seq(Byte) /\ Nesting(v, T) \in Nat
           /\ Writes(v, T) /\ Forgets(v, T) /\ Nests(v, T)
           /\ \A i \in DOMAIN Payload(v, T) : Payload(v, T)[i] \in Values
<1> DEFINE x == <<T, v>>
<1>1. x[1] = T /\ x[2] = v /\ x \in Values
    OBVIOUS
<1> HIDE DEF x
<1> QED BY <1>1, ValuesAssumption

LEMMA PartFacts ==
    ASSUME NEW T, NEW v, <<T, v>> \in Values, NEW head, NEW ts, NEW ws,
           Consists(v, T, head, ts, ws)
    PROVE  /\ Len(ts) \in Nat
           /\ Encoded(v, T) = head \o Joined(Codes(ts, ws))
           /\ AreStrings(Codes(ts, ws)) /\ Len(Codes(ts, ws)) = Len(ts)
           /\ \A j \in 1..Len(ts) : <<ts[j], ws[j]>> \in Values /\ Nesting(ws[j], ts[j]) \in Nat
<1>1. /\ Len(ts) \in Nat
      /\ Payload(v, T) = [j \in 1..Len(ts) |-> <<ts[j], ws[j]>>]
    BY DEF Consists, IsList
<1>2. \A j \in 1..Len(ts) : <<ts[j], ws[j]>> \in Values
    <2>1. \A j \in 1..Len(ts) : Payload(v, T)[j] \in Values /\ Payload(v, T)[j] = <<ts[j], ws[j]>>
        BY <1>1, ValueFacts
    <2> QED BY <2>1
<1>3. Encoded(v, T) = head \o Joined(Codes(ts, ws))
    <2>1. Writes(v, T)
        BY ValueFacts
    <2> QED BY <2>1, WrittenAs
<1>4. \A j \in 1..Len(ts) : Encoded(ws[j], ts[j]) \in Seq(Byte) /\ Nesting(ws[j], ts[j]) \in Nat
    BY <1>2, ValueFacts
<1> DEFINE codes == Codes(ts, ws)
<1>5. codes = [j \in 1..Len(ts) |-> codes[j]] /\ \A j \in 1..Len(ts) : codes[j] \in Seq(Byte)
    BY <1>4 DEF Codes
<1> HIDE DEF codes
<1>6. IsList(codes) /\ Len(codes) = Len(ts)
    BY <1>1, <1>5, ListOf
<1>7. AreStrings(codes)
    BY <1>5, <1>6 DEF AreStrings
<1> QED BY <1>1, <1>2, <1>3, <1>4, <1>6, <1>7 DEF codes

\* Some value of them goes too deep from depth d.
TooLow(d, ts, ws, i) == \E j \in i..Len(ts) : d + Nesting(ws[j], ts[j]) > MaxDepth

\* A value goes too deep if a part of it does: itself it does not, as its
\* guard has been passed.
LEMMA DeepBelow ==
    ASSUME NEW T, NEW v, <<T, v>> \in Values, NEW head, NEW ts, NEW ws,
           Consists(v, T, head, ts, ws), NEW d \in 0..MaxDepth
    PROVE  LET guard == IF T \in Guarded THEN 1 ELSE 0
           IN  d + Nesting(v, T) - guard > MaxDepth <=> TooLow(d, ts, ws, 1)
<1> DEFINE guard == IF T \in Guarded THEN 1 ELSE 0
           parts == Payload(v, T)
           below == {0} \cup {Nesting(parts[i][2], parts[i][1]) : i \in DOMAIN parts}
<1>1. PICK n \in below : (\A m \in below : m <= n) /\ Nesting(v, T) = n + guard
    <2>1. Nests(v, T)
        BY ValueFacts
    <2> QED BY <2>1 DEF Nests
<1>2. parts = [j \in 1..Len(ts) |-> <<ts[j], ws[j]>>]
    BY DEF Consists
<1>3. below = {0} \cup Levels(ts, ws)
    BY <1>2 DEF Levels
<1>4. \A j \in 1..Len(ts) : Nesting(ws[j], ts[j]) \in Nat
    BY PartFacts
<1> HIDE DEF below
<1>5. n \in Nat /\ d \in Nat /\ d <= MaxDepth /\ MaxDepth \in Nat /\ guard \in {0, 1}
    BY <1>3, <1>4, WireAssumption DEF Levels
<1>6. d + Nesting(v, T) - guard > MaxDepth <=> d + n > MaxDepth
    BY <1>1, <1>5
<1>7. ASSUME d + n > MaxDepth PROVE TooLow(d, ts, ws, 1)
    <2>1. n # 0
        BY <1>5, <1>7
    <2>2. PICK j \in 1..Len(ts) : n = Nesting(ws[j], ts[j])
        BY <1>3, <2>1 DEF Levels
    <2> QED BY <1>7, <2>2 DEF TooLow
<1>8. ASSUME TooLow(d, ts, ws, 1) PROVE d + n > MaxDepth
    <2>1. PICK j \in 1..Len(ts) : d + Nesting(ws[j], ts[j]) > MaxDepth
        BY <1>8 DEF TooLow
    <2>2. Nesting(ws[j], ts[j]) <= n
        BY <1>1, <1>3 DEF Levels
    <2> QED BY <1>4, <1>5, <2>1, <2>2
<1> QED BY <1>6, <1>7, <1>8

LEMMA AtIsAt ==
    ASSUME NEW s, IsList(s), NEW r \in Seq(Byte), NEW d \in 0..MaxDepth, NEW e \in {0, 1}
    PROVE  IsAt(At(s, r, d, e))
BY AtIs DEF IsAt

LEMMA ReadTold ==
    ASSUME NEW k, NEW T, NEW v, <<T, v>> \in Values, NEW s, IsList(s), NEW z \in Seq(Byte),
           NEW d \in 0..MaxDepth, NEW e \in {0, 1}, NEW f \in {0, 1},
           e = 1 <=> f = 1 \/ d + Nesting(v, T) > MaxDepth
    PROVE  Answered("sent", k, Read(T), At(s, Encoded(v, T) \o z, d, e),
                    At(Atop(s, T, Received(v, T)), z, d, f))
<1> DEFINE item == Read(T)
           w == Received(v, T)
           x == Encoded(v, T)
           bytes == x \o z
           stack == Atop(s, T, w)
           a == At(s, bytes, d, e)
           b == At(stack, z, d, f)
<1>1. /\ item[1] \in {"read", "enter"} /\ item[2] = T
      /\ item[1] = "enter" => T \in Guarded
      /\ (IF item[1] = "read" /\ T \in Guarded THEN 1 ELSE 0) = 0
    BY DEF Read
<1>2. bytes \in Seq(Byte)
    <2>1. x \in Seq(Byte)
        BY ValueFacts
    <2> HIDE DEF x
    <2> QED BY <2>1, Strings
<1>3. IsList(stack)
    BY ListAppend DEF Atop
<1>4. IsAt(a) /\ IsAt(b)
    <2> HIDE DEF bytes, stack
    <2> QED BY <1>2, <1>3, AtIsAt
<1>5. /\ a.stack = s /\ a.bytes = bytes /\ a.depth = d /\ a.deep = e
      /\ b.stack = stack /\ b.bytes = z /\ b.depth = d /\ b.deep = f
    <2> HIDE DEF bytes, stack
    <2> QED BY AtIs
<1> HIDE DEF item, a, b
<1>6. Reaches(item, a, b, v)
    <2>1. d + Nesting(v, T) - 0 = d + Nesting(v, T)
        BY ValueFacts
    <2> QED BY <1>1, <1>5, <2>1 DEF Reaches
<1>7. Foretells(k, item, a, b)
    <2>1. item[1] # "leave" /\ item[1] \in {"read", "enter", "repeat"}
        BY <1>1
    <2> QED BY <1>1, <1>4, <1>5, <1>6, <2>1 DEF Foretells
<1> QED BY <1>7 DEF Answered, item, a, b

LEMMA PileIsOne ==
    ASSUME NEW s, NEW ts, NEW vs, NEW i \in Nat, NEW t, NEW u,
           Piled(s, ts, vs, i, t), Piled(s, ts, vs, i, u)
    PROVE  t = u
<1> DEFINE n == Len(s)
<1>1. /\ n \in Nat /\ IsList(t) /\ IsList(u) /\ Len(t) = n + i /\ Len(u) = n + i
      /\ \A j \in 1..n : t[j] = s[j] /\ u[j] = s[j]
      /\ \A j \in 1..i : t[n + j] = u[n + j]
    BY DEF Piled, IsList
<1> HIDE DEF n
<1>2. ASSUME NEW j \in 1..Len(t) PROVE t[j] = u[j]
    <2>1. CASE j <= n
        BY <1>1, <2>1
    <2>2. CASE j > n
        <3>1. j - n \in 1..i /\ n + (j - n) = j
            BY <1>1, <2>2
        <3> QED BY <1>1, <3>1
    <2> QED BY <1>1, <2>1, <2>2
<1> QED BY <1>1, <1>2, SameList

LEMMA PileThere ==
    ASSUME NEW s, IsList(s), NEW ts, NEW vs, NEW i \in Nat
    PROVE  \E t : Piled(s, ts, vs, i, t)
<1> DEFINE n == Len(s)
           t == [j \in 1..(n + i) |->
                    IF j <= n THEN s[j] ELSE <<KindOf(ts[j - n]), vs[j - n]>>]
<1>1. n \in Nat /\ n + i \in Nat
    BY DEF IsList
<1>2. /\ \A j \in 1..n : t[j] = s[j]
      /\ \A j \in 1..i : t[n + j] = <<KindOf(ts[j]), vs[j]>>
    <2>1. ASSUME NEW j \in 1..n PROVE t[j] = s[j]
        BY <1>1
    <2>2. ASSUME NEW j \in 1..i PROVE t[n + j] = <<KindOf(ts[j]), vs[j]>>
        <3>1. n + j \in 1..(n + i) /\ ~(n + j <= n) /\ (n + j) - n = j
            BY <1>1
        <3> HIDE DEF n
        <3> QED BY <3>1
    <2> QED BY <2>1, <2>2
<1>3. IsList(t) /\ Len(t) = n + i
    <2>1. t = [j \in 1..(n + i) |-> t[j]]
        OBVIOUS
    <2> HIDE DEF t, n
    <2> QED BY <1>1, <2>1, ListOf
<1> QED BY <1>2, <1>3 DEF Piled

\* Values that are sent are read one after the other, and pile up.
LEMMA ReadsForetold ==
    ASSUME NEW k, NEW ts, NEW ws, IsList(ts), \A j \in 1..Len(ts) : <<ts[j], ws[j]>> \in Values,
           AreStrings(Codes(ts, ws)), Len(Codes(ts, ws)) = Len(ts),
           NEW s, IsList(s), NEW z \in Seq(Byte), NEW d \in 0..MaxDepth,
           NEW e \in {0, 1}, NEW f \in {0, 1}, e = 1 <=> f = 1 \/ TooLow(d, ts, ws, 1)
    PROVE  \E t : /\ Piled(s, ts, Arrivals(ts, ws), Len(ts), t)
                  /\ Follows("sent", k, Reads(ts), At(s, Joined(Codes(ts, ws)) \o z, d, e),
                             At(t, z, d, f))
<1> DEFINE n == Len(ts)
           vs == Arrivals(ts, ws)
           codes == Codes(ts, ws)
           stack == [i \in 0..n |-> CHOOSE t : Piled(s, ts, vs, i, t)]
           low == [i \in 0..n |-> IF f = 1 \/ TooLow(d, ts, ws, i + 1) THEN 1 ELSE 0]
<1>1. n \in Nat /\ Len(Reads(ts)) = n /\ \A i \in 1..n : Reads(ts)[i] = Read(ts[i])
    <2>1. n \in Nat /\ Reads(ts) = [j \in 1..n |-> Reads(ts)[j]]
        BY DEF IsList, Reads
    <2>2. \A i \in 1..n : Reads(ts)[i] = Read(ts[i])
        BY DEF Reads
    <2> HIDE DEF n
    <2> QED BY <2>1, <2>2, ListOf
<1>2. \A i \in 1..n : vs[i] = Received(ws[i], ts[i]) /\ codes[i] = Encoded(ws[i], ts[i])
    BY DEF Arrivals, Codes
<1>3. PICK last : Suffixes(codes, last) /\ Joined(codes) = last[Len(codes)]
    BY JoinedDef
<1>4. /\ last[0] = <<>> /\ Joined(codes) = last[n] /\ \A i \in 0..n : last[i] \in Seq(Byte)
      /\ \A i \in 1..n : last[i] = codes[n + 1 - i] \o last[i - 1]
    BY <1>3 DEF Suffixes
<1> HIDE DEF n, vs, codes
<1>5. \A i \in 0..n : Piled(s, ts, vs, i, stack[i])
    <2>1. \A i \in 0..n : i \in Nat
        BY <1>1
    <2> QED BY <2>1, PileThere
<1>6. \A i \in 0..n : low[i] \in {0, 1} /\ (low[i] = 1 <=> f = 1 \/ TooLow(d, ts, ws, i + 1))
    OBVIOUS
<1> HIDE DEF stack, low
<1>7. stack[0] = s
    <2>1. Piled(s, ts, vs, 0, s)
        BY DEF Piled, IsList
    <2>2. Piled(s, ts, vs, 0, stack[0]) /\ 0 \in Nat
        BY <1>1, <1>5
    <2> QED BY <2>1, <2>2, PileIsOne
<1>8. ASSUME NEW i \in 1..n PROVE stack[i] = Atop(stack[i - 1], ts[i], vs[i])
    <2>1. i - 1 \in 0..n /\ i - 1 \in Nat /\ (i - 1) + 1 = i /\ i \in 0..n /\ i \in Nat
        BY <1>1
    <2> DEFINE h == i - 1
    <2>2. h \in Nat /\ Piled(s, ts, vs, h, stack[h]) /\ h + 1 = i
        BY <1>5, <2>1
    <2> HIDE DEF h
    <2>3. Piled(s, ts, vs, h + 1, Atop(stack[h], ts[h + 1], vs[h + 1]))
        BY <2>2, PiledOn
    <2>4. Piled(s, ts, vs, i, stack[i])
        BY <1>5, <2>1
    <2>5. stack[i] = Atop(stack[h], ts[i], vs[i])
        BY <2>1, <2>2, <2>3, <2>4, PileIsOne
    <2> QED BY <2>5 DEF h
<1> DEFINE bytes == [i \in 0..n |-> last[n - i] \o z]
<1>9. /\ bytes[0] = Joined(codes) \o z /\ bytes[n] = z
      /\ \A i \in 0..n : bytes[i] \in Seq(Byte)
    <2>1. \A i \in 0..n : n - i \in 0..n /\ bytes[i] = last[n - i] \o z
        BY <1>1
    <2>2. \A i \in 0..n : bytes[i] \in Seq(Byte)
        <3> SUFFICES ASSUME NEW i \in 0..n PROVE bytes[i] \in Seq(Byte)
            OBVIOUS
        <3> DEFINE x == last[n - i]
        <3>1. x \in Seq(Byte) /\ bytes[i] = x \o z
            BY <1>4, <2>1
        <3> HIDE DEF x, bytes
        <3> QED BY <3>1, Strings
    <2>3. bytes[0] = last[n] \o z /\ bytes[n] = <<>> \o z
        <3>1. 0 \in 0..n /\ n \in 0..n /\ n - 0 = n /\ n - n = 0
            BY <1>1
        <3> QED BY <1>4, <3>1
    <2>4. <<>> \o z = z
        BY Strings
    <2> QED BY <1>4, <2>2, <2>3, <2>4
<1>10. ASSUME NEW i \in 1..n PROVE bytes[i - 1] = codes[i] \o bytes[i]
    <2>1. /\ i - 1 \in 0..n /\ i \in 0..n /\ n - (i - 1) \in 1..n /\ n - i \in 0..n
          /\ n + 1 - (n - (i - 1)) = i /\ (n - (i - 1)) - 1 = n - i
        BY <1>1
    <2> DEFINE x == codes[i]
               y == last[n - i]
               w == last[n - (i - 1)]
    <2>2. w = x \o y /\ bytes[i - 1] = w \o z /\ bytes[i] = y \o z
        BY <1>4, <2>1
    <2>3. x \in Seq(Byte) /\ y \in Seq(Byte)
        <3>1. Len(codes) = n
            BY DEF codes, n
        <3>2. AreStrings(codes)
            BY DEF codes
        <3> QED BY <1>4, <2>1, <3>1, <3>2 DEF AreStrings
    <2> HIDE DEF x, y, w, bytes
    <2>4. (x \o y) \o z = x \o (y \o z)
        BY <2>3, Regrouped
    <2> QED BY <2>2, <2>4 DEF x
<1> HIDE DEF bytes
<1> DEFINE g == [i \in 0..n |-> At(stack[i], bytes[i], d, low[i])]
<1>11. ASSUME NEW i \in 1..n PROVE Answered("sent", k, Reads(ts)[i], g[i - 1], g[i])
    <2>1. i - 1 \in 0..n /\ i \in 0..n /\ (i - 1) + 1 = i
        BY <1>1
    <2> DEFINE T == ts[i]
               v == ws[i]
               top == stack[i - 1]
               rest == bytes[i]
               lower == low[i - 1]
               lowest == low[i]
    <2>2. <<T, v>> \in Values /\ Nesting(v, T) \in Nat
        <3>1. <<T, v>> \in Values
            BY DEF n
        <3> HIDE DEF T, v
        <3> QED BY <3>1, ValueFacts
    <2>3. IsList(top) /\ rest \in Seq(Byte) /\ lower \in {0, 1} /\ lowest \in {0, 1}
        BY <1>5, <1>6, <1>9, <2>1 DEF Piled
    <2>4. lower = 1 <=> lowest = 1 \/ d + Nesting(v, T) > MaxDepth
        <3>1. TooLow(d, ts, ws, i) <=> TooLow(d, ts, ws, i + 1) \/ d + Nesting(v, T) > MaxDepth
            <4>1. \A j : j \in i..n <=> j = i \/ j \in (i + 1)..n
                BY <1>1
            <4> QED BY <4>1 DEF TooLow, n
        <3> QED BY <1>6, <2>1, <3>1
    <2>5. g[i - 1] = At(top, Encoded(v, T) \o rest, d, lower)
        BY <1>2, <1>10, <2>1
    <2>6. g[i] = At(Atop(top, T, Received(v, T)), rest, d, lowest)
        BY <1>2, <1>8, <2>1
    <2>7. Reads(ts)[i] = Read(T)
        BY <1>1
    <2> HIDE DEF g, T, v, top, rest, lower, lowest
    <2> QED BY <2>2, <2>3, <2>4, <2>5, <2>6, <2>7, ReadTold
<1>12. low[0] = e /\ low[n] = f
    <2>1. 0 \in 0..n /\ n \in 0..n /\ 0 + 1 = 1
        BY <1>1
    <2>2. ~TooLow(d, ts, ws, n + 1)
        BY <1>1 DEF TooLow, n
    <2> QED BY <1>6, <2>1, <2>2
<1>13. g[0] = At(s, Joined(codes) \o z, d, e) /\ g[n] = At(stack[n], z, d, f)
    <2>1. 0 \in 0..n /\ n \in 0..n
        BY <1>1
    <2> QED BY <1>7, <1>9, <1>12, <2>1
<1> HIDE DEF g
<1>14. Follows("sent", k, Reads(ts), At(s, Joined(codes) \o z, d, e), At(stack[n], z, d, f))
    BY <1>1, <1>11, <1>13 DEF Follows
<1>15. Piled(s, ts, vs, n, stack[n])
    BY <1>1, <1>5
<1> QED BY <1>14, <1>15 DEF n, vs, codes

LEMMA NodeTold ==
    ASSUME NEW k, NEW c, NEW m, NEW t, IsList(t), IsList(Bound(t, c, m)), NEW z \in Seq(Byte),
           NEW d \in 0..MaxDepth, NEW f \in {0, 1}
    PROVE  Answered("sent", k, <<"node", c, m>>, At(t, z, d, f), At(Bound(t, c, m), z, d, f))
<1> DEFINE item == <<"node", c, m>>
           u == Bound(t, c, m)
           a == At(t, z, d, f)
           b == At(u, z, d, f)
<1>1. item[1] = "node" /\ item[2] = c /\ item[3] = m
    OBVIOUS
<1> HIDE DEF item, u
<1>2. IsAt(a) /\ IsAt(b)
    BY AtIsAt DEF u
<1>3. /\ a.stack = t /\ a.bytes = z /\ a.depth = d /\ a.deep = f
      /\ b.stack = u /\ b.bytes = z /\ b.depth = d /\ b.deep = f
    BY AtIs
<1> HIDE DEF a, b
<1>4. Foretells(k, item, a, b)
    BY <1>1, <1>2, <1>3 DEF Foretells, u
<1> QED BY <1>4 DEF Answered, item, a, b, u

LEMMA ArrivalsList ==
    ASSUME NEW ts, NEW ws, IsList(ts)
    PROVE  IsList(Arrivals(ts, ws)) /\ Len(Arrivals(ts, ws)) = Len(ts)
<1> DEFINE vs == Arrivals(ts, ws)
<1>1. Len(ts) \in Nat /\ vs = [j \in 1..Len(ts) |-> vs[j]]
    BY DEF IsList, Arrivals
<1> HIDE DEF vs
<1>2. IsList(vs) /\ Len(vs) = Len(ts)
    BY <1>1, ListOf
<1> QED BY <1>2 DEF vs

\* The calls of a production read its node.
LEMMA ProduceForetold ==
    ASSUME NEW k, NEW p, IsList(p), Len(p) > 0, NEW ws,
           \A j \in 1..Len(Args(p)) : <<Args(p)[j], ws[j]>> \in Values,
           AreStrings(Codes(Args(p), ws)), Len(Codes(Args(p), ws)) = Len(Args(p)),
           NEW s, IsList(s), NEW z \in Seq(Byte), NEW d \in 0..MaxDepth,
           NEW e \in {0, 1}, NEW f \in {0, 1}, e = 1 <=> f = 1 \/ TooLow(d, Args(p), ws, 1)
    PROVE  Follows("sent", k, Produce(p), At(s, Joined(Codes(Args(p), ws)) \o z, d, e),
                   At(Noded(s, p[1], Arrivals(Args(p), ws)), z, d, f))
<1> DEFINE ts == Args(p)
           m == Len(ts)
           vs == Arrivals(ts, ws)
           a == At(s, Joined(Codes(ts, ws)) \o z, d, e)
           b == At(Noded(s, p[1], vs), z, d, f)
<1>1. IsList(ts) /\ m \in Nat
    BY ArgsList DEF IsList
<1>2. PICK t : Piled(s, ts, vs, m, t) /\ Follows("sent", k, Reads(ts), a, At(t, z, d, f))
    <2> HIDE DEF ts
    <2> QED BY <1>1, ReadsForetold DEF ts
<1>3. IsList(vs) /\ Len(vs) = m
    <2> HIDE DEF ts
    <2> QED BY <1>1, ArrivalsList
<1>4. Bound(t, p[1], m) = Noded(s, p[1], vs) /\ IsList(Noded(s, p[1], vs)) /\ IsList(t)
    <2> DEFINE c == p[1]
    <2> HIDE DEF ts, m, vs, c
    <2>1. Bound(t, c, m) = Noded(s, c, vs) /\ IsList(Noded(s, c, vs))
        BY <1>1, <1>2, <1>3, BoundPile
    <2> QED BY <1>2, <2>1 DEF Piled, c
<1>5. Answered("sent", k, <<"node", p[1], m>>, At(t, z, d, f), b)
    <2> DEFINE c == p[1]
    <2> HIDE DEF c, m
    <2>1. Answered("sent", k, <<"node", c, m>>, At(t, z, d, f), At(Bound(t, c, m), z, d, f))
        BY <1>4, NodeTold DEF c
    <2> QED BY <1>4, <2>1 DEF c
<1> HIDE DEF a, b
<1>6. Follows("sent", k, Produce(p), a, b)
    BY <1>2, <1>5, ProduceCalls
<1> QED BY <1>6 DEF a, b

LEMMA ReceivedParts ==
    ASSUME NEW T, NEW v, <<T, v>> \in Values, NEW head, NEW ts, NEW ws,
           Consists(v, T, head, ts, ws)
    PROVE  /\ T \in DOMAIN Optional \cup DOMAIN Listed => Received(v, T) = Arrivals(ts, ws)
           /\ T \in DOMAIN Sums \cup DOMAIN Structures /\ T # "Verb" =>
                  Received(v, T) = Made(v[1], Arrivals(ts, ws))
           /\ T = "Verb" => Received(v, T) = DecVerb
           /\ T \in Scalars => Received(v, T) = v
<1> DEFINE parts == Payload(v, T)
           received == [i \in DOMAIN parts |-> Received(parts[i][2], parts[i][1])]
<1>1. Forgets(v, T)
    BY ValueFacts
<1>2. parts = [j \in 1..Len(ts) |-> <<ts[j], ws[j]>>]
    BY DEF Consists
<1>3. received = Arrivals(ts, ws)
    BY <1>2 DEF Arrivals
<1>4. DOMAIN Tags = DOMAIN Sums /\ DOMAIN Fields = DOMAIN Structures
    BY MirrorTables, MirrorStructures
<1> DEFINE w == Received(v, T)
<1>5. w = CASE T = "Verb" -> DecVerb
            [] T \in DOMAIN Optional \cup DOMAIN Listed -> received
            [] T \in DOMAIN Tags \cup (DOMAIN Fields \ {"Verb"}) -> <<v[1]>> \o received
            [] OTHER -> v
    BY <1>1 DEF Forgets
<1> DEFINE plain == Made(v[1], received)
<1>6. plain = <<v[1]>> \o received
    BY DEF Made
<1> HIDE DEF received, w, plain
<1>7. CASE T \in DOMAIN Optional \cup DOMAIN Listed
    <2>1. /\ T # "Verb" /\ T \notin DOMAIN Tags \cup (DOMAIN Fields \ {"Verb"})
          /\ T \notin DOMAIN Sums \cup DOMAIN Structures /\ T \notin Scalars
        BY <1>4, <1>7, OneClass DEF Scalars
    <2> QED BY <1>3, <1>5, <1>7, <2>1 DEF w
<1>8. CASE T \in DOMAIN Sums \cup DOMAIN Structures /\ T # "Verb"
    <2>1. T \notin DOMAIN Optional \cup DOMAIN Listed /\ T \notin Scalars
        BY <1>4, <1>8, OneClass DEF Scalars
    <2>2. T \in DOMAIN Tags \cup (DOMAIN Fields \ {"Verb"})
        BY <1>4, <1>8
    <2> QED BY <1>3, <1>5, <1>6, <1>8, <2>1, <2>2 DEF w, plain
<1>9. CASE T = "Verb"
    <2>1. /\ T \notin DOMAIN Optional \cup DOMAIN Listed /\ T \notin Scalars
          /\ T \notin DOMAIN Tags
        BY <1>4, <1>9, OneClass DEF Scalars
    <2> QED BY <1>5, <1>9, <2>1 DEF w
<1>10. CASE T \in Scalars
    <2>1. /\ T \notin DOMAIN Optional \cup DOMAIN Listed
          /\ T \notin DOMAIN Sums \cup DOMAIN Structures
        BY <1>10, Classes
    <2>2. T # "Verb"
        BY <1>10 DEF Scalars
    <2> QED BY <1>4, <1>5, <1>10, <2>1, <2>2 DEF w
<1> QED BY <1>7, <1>8, <1>9, <1>10

\* The value v of type T, its guard counted or already passed, is to come and
\* leads to c.
GuardOf(T) == IF T \in Guarded THEN 1 ELSE 0

Arriving(T, v, passed, deep, c) ==
    /\ <<T, v>> \in Values
    /\ ToCome(pos) = Encoded(v, T) \o c.bytes
    /\ c = At(Atop(built, T, Received(v, T)), c.bytes, depth, c.deep)
    /\ deep = 1 <=> c.deep = 1 \/ depth + Nesting(v, T) - passed > MaxDepth

LEMMA NextValue ==
    ASSUME NEW deep, NEW c, Foretold(deep, c), Top[1] \in {"read", "enter"}
    PROVE  /\ Top[2] \in Types
           /\ Top[1] = "read" => \E v : Arriving(Top[2], v, GuardOf(Top[2]), deep, c)
           /\ Top[1] = "enter" => Top[2] \in Guarded /\ \E v : Arriving(Top[2], v, 0, deep, c)
<1> DEFINE a == Here(deep)
<1>1. /\ a.stack = built /\ a.bytes = ToCome(pos) /\ a.depth = depth /\ a.deep = deep
    BY AtIs DEF Here
<1> HIDE DEF a
<1>2. Foretells(kind, Top, a, c)
    BY DEF Foretold, a
<1>3. PICK v : Reaches(Top, a, c, v)
    BY <1>2 DEF Foretells
<1>4. Top[2] \in Types
    BY ForetoldAt, ItemShape
<1>5. c = At(c.stack, c.bytes, c.depth, c.deep) /\ c.depth = depth
    <2>1. Top[1] # "leave"
        OBVIOUS
    <2> QED BY <2>1, ForetoldAt
<1>6. CASE Top[1] = "read"
    <2>1. Arriving(Top[2], v, GuardOf(Top[2]), deep, c)
        BY <1>1, <1>3, <1>5, <1>6 DEF Reaches, Arriving, GuardOf
    <2> QED BY <1>4, <1>6, <2>1
<1>7. CASE Top[1] = "enter"
    <2>1. Top[2] \in Guarded /\ Arriving(Top[2], v, 0, deep, c)
        BY <1>1, <1>3, <1>5, <1>7 DEF Reaches, Arriving
    <2> QED BY <1>4, <1>7, <2>1
<1> QED BY <1>6, <1>7

LEMMA HeadSplit ==
    ASSUME NEW head, IsList(head), NEW j \in Seq(Byte), NEW z \in Seq(Byte),
           head \o j \in Seq(Byte)
    PROVE  head \in Seq(Byte) /\ j \o z \in Seq(Byte) /\ (head \o j) \o z = head \o (j \o z)
<1> DEFINE all == head \o j
<1>1. IsList(j)
    BY SeqIsList
<1>2. all \in Seq(Byte) /\ all = head \o j
    OBVIOUS
<1> HIDE DEF all
<1>3. Len(all) = Len(head) + Len(j) /\ Len(head) \in Nat /\ Len(j) \in Nat
      /\ \A i \in 1..Len(head) : all[i] = head[i]
    BY <1>1, <1>2, ListJoin
<1>4. \A i \in 1..Len(head) : head[i] \in Byte
    <2>1. \A i \in 1..Len(head) : i \in 1..Len(all)
        BY <1>3
    <2> QED BY <1>2, <1>3, <2>1, ElementOfSeq
<1>5. head \in Seq(Byte)
    BY <1>4, ListIsSeq
<1> QED BY <1>5, Strings, SMTT(30)

\* The header of what is read is taken, and its parts are to come.
LEMMA HeaderTaken ==
    ASSUME NEW deep, NEW c, Foretold(deep, c), NEW T, NEW v, <<T, v>> \in Values,
           NEW head, NEW ts, NEW ws, Consists(v, T, head, ts, ws), IsList(head),
           Len(head) = Width, ToCome(pos) = Encoded(v, T) \o c.bytes
    PROVE  /\ TakeError = "none" /\ Number = FromLeBytes(head)
           /\ ToCome(pos + Width) = Joined(Codes(ts, ws)) \o c.bytes
           /\ Width = 1 => Number = head[1]
<1> DEFINE j == Joined(Codes(ts, ws))
           z == c.bytes
<1>1. Encoded(v, T) = head \o j /\ Encoded(v, T) \in Seq(Byte) /\ j \in Seq(Byte)
    BY PartFacts, ValueFacts, JoinedType
<1>2. z \in Seq(Byte)
    BY ForetoldAt
<1>3. ToCome(pos) = (head \o j) \o z
    BY <1>1
<1> HIDE DEF j, z
<1>4. /\ head \in Seq(Byte) /\ j \o z \in Seq(Byte)
      /\ (head \o j) \o z = head \o (j \o z)
    BY <1>1, <1>2, HeadSplit
<1> DEFINE y == j \o z
<1>5. y \in Seq(Byte) /\ ToCome(pos) = head \o y
    BY <1>3, <1>4
<1> HIDE DEF y
<1>6. /\ TakeError = "none" /\ Taken = head /\ ToCome(pos + Width) = y
      /\ Width = 1 => Number = head[1]
    BY <1>4, <1>5, PrefixTaken
<1> QED BY <1>6 DEF y, j, z, Number

\* A production of the next call.
LEMMA ProductionForeseen ==
    ASSUME NEW deep, NEW c, Foretold(deep, c), Top[1] = "read",
           Top[2] \in DOMAIN Sums \cup DOMAIN Structures,
           NEW p, IsList(p), Len(p) > 0, NEW v, NEW head,
           Arriving(Top[2], v, GuardOf(Top[2]), deep, c),
           Consists(v, Top[2], head, Args(p), Args(v)), IsList(head), Len(head) = Width,
           Top[2] = "Verb" => p = DecVerb, Top[2] # "Verb" => v[1] = p[1]
    PROVE  /\ TakeError = "none" /\ (Width = 1 => Number = head[1])
           /\ Leads(Produce(p), built, depth, deep, c)
<1> DEFINE T == Top[2]
           ts == Args(p)
           ws == Args(v)
           z == c.bytes
           f == c.deep
<1>0. /\ <<T, v>> \in Values
      /\ ToCome(pos) = Encoded(v, T) \o c.bytes
      /\ c = At(Atop(built, T, Received(v, T)), c.bytes, depth, c.deep)
      /\ deep = 1 <=> c.deep = 1 \/ depth + Nesting(v, T) - GuardOf(T) > MaxDepth
    BY DEF Arriving
<1>1. /\ TakeError = "none" /\ (Width = 1 => Number = head[1])
      /\ ToCome(pos + Width) = Joined(Codes(ts, ws)) \o z
    <2> HIDE DEF ts, ws, T
    <2> QED BY <1>0, HeaderTaken DEF ts, ws, T
<1>2. deep = 1 <=> f = 1 \/ TooLow(depth, ts, ws, 1)
    <2>1. depth \in 0..MaxDepth
        BY ForetoldAt
    <2> HIDE DEF ts, ws
    <2>2. LET guard == IF T \in Guarded THEN 1 ELSE 0
          IN  depth + Nesting(v, T) - guard > MaxDepth <=> TooLow(depth, ts, ws, 1)
        BY <1>0, <2>1, DeepBelow DEF ts, ws
    <2> QED BY <1>0, <2>2 DEF GuardOf
<1>3. /\ IsList(built) /\ depth \in 0..MaxDepth /\ deep \in {0, 1}
      /\ z \in Seq(Byte) /\ f \in {0, 1}
    BY ForetoldAt
<1>4. /\ \A i \in 1..Len(ts) : <<ts[i], ws[i]>> \in Values
      /\ AreStrings(Codes(ts, ws)) /\ Len(Codes(ts, ws)) = Len(ts)
    <2> HIDE DEF ts, ws
    <2> QED BY <1>0, PartFacts DEF ts, ws
<1> DEFINE vs == Arrivals(ts, ws)
           a == At(built, Joined(Codes(ts, ws)) \o z, depth, deep)
           b == At(Noded(built, p[1], vs), z, depth, f)
<1>5. Follows("sent", kind, Produce(p), a, b)
    <2> HIDE DEF ws, z, f
    <2> QED BY <1>2, <1>3, <1>4, ProduceForetold
<1>6. Received(v, T) = Made(p[1], vs)
    <2>1. CASE T # "Verb"
        <3> HIDE DEF ts, ws
        <3> QED BY <1>0, <2>1, ReceivedParts DEF ts, ws
    <2>2. CASE T = "Verb"
        <3>1. p = <<"Select">> /\ Len(p) = 1 /\ p[1] = "Select"
            BY <2>2 DEF DecVerb
        <3>2. IsList(ts) /\ Len(ts) = 0
            <4>1. IsList(Args(p)) /\ Len(Args(p)) = Len(p) - 1
                BY ArgsList
            <4> QED BY <3>1, <4>1
        <3>3. IsList(vs) /\ Len(vs) = 0
            <4> HIDE DEF ts, ws
            <4> QED BY <3>2, ArrivalsList
        <3>4. vs = <<>>
            <4> HIDE DEF vs
            <4> QED BY <3>3, EmptyList
        <3>5. Made(p[1], vs) = DecVerb
            <4> DEFINE s == <<p[1]>>
            <4>1. IsList(s)
                BY Singleton
            <4> HIDE DEF s, vs
            <4>2. s \o <<>> = s
                BY <4>1, EmptyList, ListAlgebra
            <4> QED BY <3>1, <3>4, <4>2 DEF Made, s, DecVerb
        <3>6. Received(v, T) = DecVerb
            <4> HIDE DEF ts, ws
            <4> QED BY <1>0, <2>2, ReceivedParts DEF ts, ws
        <3> QED BY <3>5, <3>6
    <2> QED BY <2>1, <2>2
<1>7. KindOf(T) = "node"
    BY Classes DEF KindOf, Scalars
<1>8. Atop(built, T, Received(v, T)) = Noded(built, p[1], vs)
    <2> HIDE DEF vs
    <2> QED BY <1>6, <1>7 DEF Atop, Noded
<1>9. b = c
    BY <1>0, <1>8
<1>10. a = Then(built, depth, deep)
    BY <1>1 DEF Then
<1> HIDE DEF a, b
<1>11. Follows("sent", kind, Produce(p), Then(built, depth, deep), c)
    BY <1>5, <1>9, <1>10
<1> QED BY <1>1, <1>11 DEF Leads

LEMMA SumForeseen ==
    ASSUME NEW deep, NEW c, Foretold(deep, c), Top[1] = "read", Top[2] \in DOMAIN Sums
    PROVE  Allowed /\ Leads(Produce(Sums[Top[2]][Number + 1]), built, depth, deep, c)
<1> DEFINE T == Top[2]
<1>1. PICK v : Arriving(T, v, GuardOf(T), deep, c)
    BY NextValue
<1>2. /\ T \notin DOMAIN Optional /\ T \notin DOMAIN Listed /\ T \notin DOMAIN Structures
      /\ T # "str" /\ T # "word" /\ T # "bool" /\ T # "Verb" /\ T \in DOMAIN Tags
      /\ T \notin DOMAIN Fields
    <2>1. T \in DOMAIN Tags
        BY MirrorTables
    <2>2. T \notin DOMAIN Structures
        BY Classes
    <2> QED BY <2>1, <2>2, OneClass
<1>3. IsList(v) /\ v[1] \in DOMAIN Tags[T] /\ Len(v) = Len(Tags[T][v[1]])
    <2>1. IsValue(v, T)
        BY <1>1, ValueFacts DEF Arriving
    <2> HIDE DEF T
    <2> QED BY <1>2, <2>1 DEF IsValue
<1>4. PICK i \in 1..Len(Sums[T]) : v[1] = Sums[T][i][1] /\ Len(v) = Len(Sums[T][i])
    <2>1. Mirrors(Tags[T], Sums[T])
        BY MirrorTables
    <2>2. PICK i \in 1..Len(Sums[T]) : Sums[T][i][1] = v[1]
        BY <1>3, <2>1 DEF Mirrors
    <2>3. Row(Tags[T], Sums[T], i)
        BY <2>1 DEF Mirrors
    <2> QED BY <1>3, <2>2, <2>3 DEF Row
<1> DEFINE p == Sums[T][i]
           head == <<i - 1>>
<1>5. Consists(v, T, head, Args(p), Args(v))
    <2> HIDE DEF T
    <2> QED BY <1>3, <1>4, SumConsists DEF T
<1>6. Width = 1
    BY <1>2 DEF Width
<1>7. IsList(head) /\ Len(head) = 1 /\ head[1] = i - 1
    BY Singleton
<1>8. IsList(p) /\ Len(p) > 0
    BY ProductionIsList
<1>9. /\ TakeError = "none" /\ Number = i - 1
      /\ Leads(Produce(p), built, depth, deep, c)
    <2>1. v[1] = p[1] /\ T # "Verb" /\ Len(head) = Width
        BY <1>2, <1>4, <1>6, <1>7
    <2>2. T \in DOMAIN Sums \cup DOMAIN Structures
        OBVIOUS
    <2> HIDE DEF p, head
    <2>3. /\ TakeError = "none" /\ (Width = 1 => Number = head[1])
          /\ Leads(Produce(p), built, depth, deep, c)
        BY <1>1, <1>5, <1>7, <1>8, <2>1, <2>2, ProductionForeseen
    <2> QED BY <1>6, <1>7, <2>3
<1>10. ContentError = "none"
    <2>1. ContentError = IF Number < Len(Sums[T]) THEN "none" ELSE "BadTag"
        BY <1>2 DEF ContentError
    <2>2. Len(Sums[T]) \in Nat
        BY ProductionList
    <2> QED BY <1>9, <2>1, <2>2
<1>11. Number + 1 = i
    <2>1. Len(Sums[T]) \in Nat
        BY ProductionList
    <2> QED BY <1>9, <2>1
<1> QED BY <1>9, <1>10, <1>11 DEF Allowed

LEMMA StructureForeseen ==
    ASSUME NEW deep, NEW c, Foretold(deep, c), Top[1] = "read", Top[2] \in DOMAIN Structures
    PROVE  Allowed /\ Leads(Produce(Structures[Top[2]]), built, depth, deep, c)
<1> DEFINE T == Top[2]
           p == Structures[T]
<1>1. PICK v : Arriving(T, v, GuardOf(T), deep, c)
    BY NextValue
<1>2. /\ T \notin DOMAIN Optional /\ T \notin DOMAIN Listed /\ T \notin DOMAIN Sums
      /\ T \notin DOMAIN Tags
      /\ T # "str" /\ T # "word" /\ T # "bool" /\ T \in DOMAIN Fields
    <2>1. T \in DOMAIN Fields
        BY MirrorStructures
    <2>2. T \notin DOMAIN Sums
        BY Classes
    <2> QED BY <2>1, <2>2, OneClass
<1>3. IsList(v) /\ Len(v) = Len(Fields[T]) + 1 /\ (T = "Verb" \/ v[1] = p[1])
    <2>1. IsValue(v, T)
        BY <1>1, ValueFacts DEF Arriving
    <2> HIDE DEF T
    <2> QED BY <1>2, <2>1 DEF IsValue
<1>4. IsList(p) /\ Len(p) > 0 /\ Len(v) = Len(p)
    <2>1. IsList(p) /\ Len(p) > 0
        BY ProductionIsList
    <2>2. Len(Fields[T]) = Len(p) - 1
        BY MirrorStructures
    <2> QED BY <1>3, <2>1, <2>2 DEF IsList
<1> DEFINE head == <<>>
<1>5. Consists(v, T, head, Args(p), Args(v))
    <2> HIDE DEF T
    <2> QED BY <1>3, <1>4, StructureConsists DEF T
<1>6. Width = 0
    BY <1>2 DEF Width
<1>7. IsList(head) /\ Len(head) = Width
    BY <1>6, EmptyList
<1>8. T = "Verb" => p = DecVerb
    BY DEF Structures
<1>9. /\ TakeError = "none"
      /\ Leads(Produce(p), built, depth, deep, c)
    <2>1. T \in DOMAIN Sums \cup DOMAIN Structures /\ (T # "Verb" => v[1] = p[1])
        BY <1>3
    <2> HIDE DEF p, head
    <2> QED BY <1>1, <1>4, <1>5, <1>7, <1>8, <2>1, ProductionForeseen
<1>10. ContentError = "none"
    BY <1>2 DEF ContentError
<1> QED BY <1>9, <1>10 DEF Allowed

LEMMA KeepTold ==
    ASSUME NEW k, NEW t, IsList(t), IsList(Kept(t)), NEW z \in Seq(Byte),
           NEW d \in 0..MaxDepth, NEW f \in {0, 1}
    PROVE  Answered("sent", k, <<"keep">>, At(t, z, d, f), At(Kept(t), z, d, f))
<1> DEFINE item == <<"keep">>
           u == Kept(t)
           a == At(t, z, d, f)
           b == At(u, z, d, f)
<1>1. item[1] = "keep"
    OBVIOUS
<1> HIDE DEF item, u
<1>2. IsAt(a) /\ IsAt(b)
    BY AtIsAt DEF u
<1>3. /\ a.stack = t /\ a.bytes = z /\ a.depth = d /\ a.deep = f
      /\ b.stack = u /\ b.bytes = z /\ b.depth = d /\ b.deep = f
    BY AtIs
<1> HIDE DEF a, b
<1>4. Foretells(k, item, a, b)
    BY <1>1, <1>2, <1>3 DEF Foretells, u
<1> QED BY <1>4 DEF Answered, item, a, b, u

\* Some of the values of a type goes too deep from depth d.
SomeTooLow(d, X, vs) == \E i \in 1..Len(vs) : d + Nesting(vs[i], X) > MaxDepth

\* All the values of a list arrive, in order.
AllReceived(X, vs) == [i \in 1..Len(vs) |-> Received(vs[i], X)]

LEMMA RepeatTold ==
    ASSUME NEW k, NEW X, NEW vs, IsList(vs), \A i \in 1..Len(vs) : <<X, vs[i]>> \in Values,
           AreStrings(Codes(Times(Len(vs), X), vs)),
           NEW s, IsList(s), Len(vs) > 0 => ListOnTop(s),
           NEW t, IsList(t), t = Gathered(s, AllReceived(X, vs)), NEW z \in Seq(Byte),
           NEW d \in 0..MaxDepth, NEW e \in {0, 1}, NEW f \in {0, 1},
           e = 1 <=> f = 1 \/ SomeTooLow(d, X, vs)
    PROVE  Answered("sent", k, <<"repeat", X, Len(vs)>>,
                    At(s, Joined(Codes(Times(Len(vs), X), vs)) \o z, d, e), At(t, z, d, f))
<1> DEFINE n == Len(vs)
           item == <<"repeat", X, n>>
           j == Joined(Codes(Times(n, X), vs))
           bytes == j \o z
           a == At(s, bytes, d, e)
           b == At(t, z, d, f)
<1>1. item[1] = "repeat" /\ item[2] = X /\ item[3] = n
    OBVIOUS
<1>2. bytes \in Seq(Byte)
    <2>1. j \in Seq(Byte)
        BY JoinedType
    <2> HIDE DEF j
    <2> QED BY <2>1, Strings
<1> HIDE DEF item, bytes
<1>3. IsAt(a) /\ IsAt(b)
    BY <1>2, AtIsAt
<1>4. /\ a.stack = s /\ a.bytes = bytes /\ a.depth = d /\ a.deep = e
      /\ b.stack = t /\ b.bytes = z /\ b.depth = d /\ b.deep = f
    BY AtIs
<1> HIDE DEF a, b
<1>5. ReachesAll(item, a, b, vs)
    BY <1>1, <1>4 DEF ReachesAll, bytes, SomeTooLow, AllReceived
<1>6. Foretells(k, item, a, b)
    BY <1>1, <1>3, <1>4, <1>5 DEF Foretells
<1> QED BY <1>6 DEF Answered, item, a, b, bytes

\* The list that the next call reads.
Listing(X, vs, deep, c) ==
    /\ IsList(vs) /\ \A i \in 1..Len(vs) : <<X, vs[i]>> \in Values
    /\ AreStrings(Codes(Times(Len(vs), X), vs))
    /\ Number = Len(vs)
    /\ ToCome(pos + Width) = Joined(Codes(Times(Len(vs), X), vs)) \o c.bytes
    /\ c = At(Append(built, <<"list", AllReceived(X, vs)>>), c.bytes, depth, c.deep)
    /\ deep = 1 <=> c.deep = 1 \/ SomeTooLow(depth, X, vs)

LEMMA NextList ==
    ASSUME NEW deep, NEW c, Foretold(deep, c), Top[1] = "read",
           Top[2] \in DOMAIN Optional \cup DOMAIN Listed
    PROVE  LET X == IF Top[2] \in DOMAIN Optional THEN Optional[Top[2]] ELSE Listed[Top[2]]
           IN  Allowed /\ \E vs : Listing(X, vs, deep, c) /\ (Top[2] \in DOMAIN Optional => Len(vs) <= 1)
<1> DEFINE T == Top[2]
           X == IF T \in DOMAIN Optional THEN Optional[T] ELSE Listed[T]
<1>1. PICK v : Arriving(T, v, GuardOf(T), deep, c)
    BY NextValue
<1>2. /\ <<T, v>> \in Values
      /\ ToCome(pos) = Encoded(v, T) \o c.bytes
      /\ c = At(Atop(built, T, Received(v, T)), c.bytes, depth, c.deep)
      /\ deep = 1 <=> c.deep = 1 \/ depth + Nesting(v, T) - GuardOf(T) > MaxDepth
    BY <1>1 DEF Arriving
<1>3. /\ T \notin DOMAIN Sums /\ T \notin DOMAIN Structures
      /\ T \notin DOMAIN Tags /\ T \notin DOMAIN Fields
      /\ T # "str" /\ T # "word" /\ T # "bool"
      /\ T \in DOMAIN Optional => T \notin DOMAIN Listed
    <2>1. DOMAIN Tags = DOMAIN Sums /\ DOMAIN Fields = DOMAIN Structures
        BY MirrorTables, MirrorStructures
    <2> QED BY <2>1, OneClass
<1>4. /\ IsList(v) /\ (T \in DOMAIN Optional => Len(v) <= 1)
      /\ T \in DOMAIN Listed => IsLength(Len(v))
    <2>1. IsValue(v, T)
        BY <1>2, ValueFacts
    <2> HIDE DEF T
    <2>2. CASE T \in DOMAIN Optional
        BY <1>3, <2>1, <2>2 DEF IsValue
    <2>3. CASE T \in DOMAIN Listed
        <3>1. T \notin DOMAIN Optional
            BY <1>3, <2>3
        <3> QED BY <1>3, <2>1, <2>3, <3>1 DEF IsValue
    <2> QED BY <2>2, <2>3 DEF T
<1> DEFINE n == Len(v)
           head == IF T \in DOMAIN Optional THEN <<n>> ELSE LittleEndian(n, LenWidth)
           ts == Times(n, X)
<1>5. Consists(v, T, head, ts, v)
    <2> HIDE DEF T
    <2> QED BY <1>4, ListConsists DEF T
<1>6. n \in Nat /\ Len(ts) = n /\ \A i \in 1..n : ts[i] = X
    <2>1. n \in Nat
        BY <1>4 DEF IsList
    <2> HIDE DEF X, n
    <2> QED BY <2>1, TimesList
<1>7. /\ IsList(head) /\ Len(head) = Width /\ FromLeBytes(head) = n
      /\ T \in DOMAIN Optional => Width = 1 /\ head = <<n>>
    <2>1. CASE T \in DOMAIN Optional
        <3>1. Width = 1
            BY <1>3, <2>1 DEF Width
        <3>2. n \in {0, 1}
            BY <1>4, <1>6, <2>1
        <3>3. <<n>> \in Seq(Byte) /\ Len(<<n>>) = 1 /\ <<n>>[1] = n
            <4>1. n \in Byte
                BY <3>2 DEF Byte
            <4> QED BY <4>1, Singleton, ListIsSeq
        <3> DEFINE b == <<n>>
        <3>4. b \in Seq(Byte) /\ Len(b) = 1 /\ b[1] = n
            BY <3>3
        <3> HIDE DEF b
        <3>5. FromLeBytes(b) = n /\ IsList(b)
            BY <3>4, OneByte, SeqIsList
        <3> QED BY <2>1, <3>1, <3>3, <3>5 DEF b
    <2>2. CASE T \notin DOMAIN Optional
        <3>1. T \in DOMAIN Listed
            BY <2>2
        <3>2. Width = LenWidth /\ LenWidth \in Nat
            BY <1>3, <3>1, WireAssumption DEF Width
        <3>3. FitsIn(n, LenWidth)
            BY <1>4, <3>1 DEF IsLength
        <3> DEFINE b == LittleEndian(n, LenWidth)
        <3>4. b \in Seq(Byte) /\ Len(b) = LenWidth /\ FromLeBytes(b) = n
            BY <3>2, <3>3, ReadBack
        <3> HIDE DEF b
        <3>5. IsList(b)
            BY <3>4, SeqIsList
        <3> QED BY <2>2, <3>2, <3>4, <3>5 DEF b
    <2> QED BY <2>1, <2>2
<1>8. /\ TakeError = "none" /\ Number = n
      /\ ToCome(pos + Width) = Joined(Codes(ts, v)) \o c.bytes
    <2> HIDE DEF T, head, ts
    <2> QED BY <1>2, <1>5, <1>7, HeaderTaken
<1>9. ContentError = "none"
    <2>1. CASE T \in DOMAIN Optional
        <3>1. ContentError = IF IsBit THEN "none" ELSE "BadTag"
            BY <1>3, <2>1 DEF ContentError
        <3> QED BY <1>4, <1>6, <1>8, <2>1, <3>1 DEF IsBit
    <2>2. CASE T \in DOMAIN Listed
        <3>1. T \notin DOMAIN Optional
            BY <1>3, <2>2
        <3>2. ContentError = IF Number <= UsizeMax THEN "none" ELSE "LengthOverflow"
            BY <1>3, <2>2, <3>1 DEF ContentError
        <3> QED BY <1>4, <1>8, <2>2, <3>2 DEF IsLength
    <2> QED BY <2>1, <2>2
<1>10. /\ \A i \in 1..n : <<X, v[i]>> \in Values
       /\ AreStrings(Codes(ts, v))
    <2>1. /\ \A i \in 1..Len(ts) : <<ts[i], v[i]>> \in Values
          /\ AreStrings(Codes(ts, v))
        <3> HIDE DEF T, head, ts
        <3> QED BY <1>2, <1>5, PartFacts
    <2> HIDE DEF X, n, ts
    <2> QED BY <1>6, <2>1
<1>11. deep = 1 <=> c.deep = 1 \/ SomeTooLow(depth, X, v)
    <2>1. GuardOf(T) = 0
        BY <1>3, Classes DEF GuardOf
    <2>2. depth + Nesting(v, T) - GuardOf(T) > MaxDepth <=> TooLow(depth, ts, v, 1)
        <3>1. depth \in 0..MaxDepth
            BY ForetoldAt
        <3> HIDE DEF T, head, ts
        <3> QED BY <1>2, <1>5, <3>1, DeepBelow DEF GuardOf
    <2>3. TooLow(depth, ts, v, 1) <=> SomeTooLow(depth, X, v)
        <3> HIDE DEF X, ts
        <3> QED BY <1>6 DEF TooLow, SomeTooLow
    <2> QED BY <1>2, <2>2, <2>3
<1>12. Atop(built, T, Received(v, T)) = Append(built, <<"list", AllReceived(X, v)>>)
    <2>1. KindOf(T) = "list"
        BY <1>3 DEF KindOf
    <2>2. Received(v, T) = Arrivals(ts, v)
        <3> HIDE DEF ts, head
        <3> QED BY <1>2, <1>5, ReceivedParts
    <2>3. Arrivals(ts, v) = AllReceived(X, v)
        <3> HIDE DEF ts, X
        <3> QED BY <1>6 DEF Arrivals, AllReceived, n
    <2> HIDE DEF X, ts
    <2> QED BY <2>1, <2>2, <2>3 DEF Atop
<1>13. c = At(Append(built, <<"list", AllReceived(X, v)>>), c.bytes, depth, c.deep)
    <2> HIDE DEF X, T
    <2> QED BY <1>2, <1>12
<1>14. Listing(X, v, deep, c)
    <2> HIDE DEF X, T
    <2> QED BY <1>4, <1>8, <1>10, <1>11, <1>13 DEF Listing, ts, n
<1> QED BY <1>4, <1>8, <1>9, <1>14 DEF Allowed

\* A list that is not empty is its first value and the others.
LEMMA FirstAndOthers ==
    ASSUME NEW X, NEW all, IsList(all), Len(all) > 0,
           \A i \in 1..Len(all) : <<X, all[i]>> \in Values,
           NEW d \in 0..MaxDepth
    PROVE  \E v, vs :
               /\ <<X, v>> \in Values /\ IsList(vs) /\ Len(all) = Len(vs) + 1
               /\ \A i \in 1..Len(vs) : <<X, vs[i]>> \in Values
               /\ all = <<v>> \o vs
               /\ AllReceived(X, all) = <<Received(v, X)>> \o AllReceived(X, vs)
               /\ AreStrings(Codes(Times(Len(vs), X), vs))
               /\ Joined(Codes(Times(Len(all), X), all)) =
                      Encoded(v, X) \o Joined(Codes(Times(Len(vs), X), vs))
               /\ SomeTooLow(d, X, all) <=>
                      d + Nesting(v, X) > MaxDepth \/ SomeTooLow(d, X, vs)
<1> DEFINE v == all[1]
           vs == Tail(all)
           n == Len(vs)
<1>1. /\ IsList(vs) /\ n \in Nat /\ Len(all) = n + 1
      /\ \A i \in 1..n : vs[i] = all[i + 1]
    <2>1. Len(all) \in Nat \ {0}
        BY DEF IsList
    <2>2. /\ IsList(vs) /\ Len(vs) = Len(all) - 1
          /\ \A i \in 1..(Len(all) - 1) : vs[i] = all[i + 1]
        BY <2>1, ListTail
    <2> QED BY <2>1, <2>2
<1> HIDE DEF vs, n
<1>2. 1 \in 1..(n + 1) /\ \A i \in 1..n : i + 1 \in 1..(n + 1)
    BY <1>1
<1>3. <<X, v>> \in Values /\ \A i \in 1..n : <<X, vs[i]>> \in Values
    BY <1>1, <1>2
<1> HIDE DEF v
<1>4. all = <<v>> \o vs
    <2> DEFINE node == Made(v, vs)
    <2>1. IsList(node) /\ Len(node) = n + 1 /\ node[1] = v /\ \A i \in 1..n : node[i + 1] = vs[i]
        BY <1>1, MadeParts DEF n
    <2> HIDE DEF node
    <2>2. ASSUME NEW i \in 1..(n + 1) PROVE all[i] = node[i]
        <3>1. CASE i = 1
            BY <2>1, <3>1 DEF v
        <3>2. CASE i # 1
            <4>1. i - 1 \in 1..n /\ (i - 1) + 1 = i
                BY <1>1, <3>2
            <4> QED BY <1>1, <2>1, <4>1
        <3> QED BY <3>1, <3>2
    <2>3. all = node
        BY <1>1, <2>1, <2>2, SameList
    <2> QED BY <2>3 DEF node, Made
<1> DEFINE ws == AllReceived(X, vs)
           us == AllReceived(X, all)
           w == Received(v, X)
<1>5. /\ IsList(ws) /\ Len(ws) = n /\ \A i \in 1..n : ws[i] = Received(vs[i], X)
      /\ IsList(us) /\ Len(us) = n + 1 /\ \A i \in 1..(n + 1) : us[i] = Received(all[i], X)
    <2>1. /\ ws = [i \in 1..n |-> ws[i]] /\ \A i \in 1..n : ws[i] = Received(vs[i], X)
        BY DEF AllReceived, n
    <2>2. /\ us = [i \in 1..(n + 1) |-> us[i]] /\ \A i \in 1..(n + 1) : us[i] = Received(all[i], X)
        BY <1>1 DEF AllReceived
    <2>3. n + 1 \in Nat
        BY <1>1
    <2> HIDE DEF ws, us
    <2> QED BY <1>1, <2>1, <2>2, <2>3, ListOf
<1> HIDE DEF ws, us
<1>6. us = <<w>> \o ws
    <2> DEFINE node == Made(w, ws)
    <2>1. /\ IsList(node) /\ Len(node) = n + 1 /\ node[1] = w
          /\ \A i \in 1..n : node[i + 1] = ws[i]
        BY <1>5, MadeParts
    <2> HIDE DEF node
    <2>2. ASSUME NEW i \in 1..(n + 1) PROVE us[i] = node[i]
        <3>1. CASE i = 1
            BY <1>5, <2>1, <3>1 DEF v, w
        <3>2. CASE i # 1
            <4>1. i - 1 \in 1..n /\ (i - 1) + 1 = i
                BY <1>1, <3>2
            <4> QED BY <1>1, <1>5, <2>1, <4>1, ZenonT(40)
        <3> QED BY <3>1, <3>2
    <2>3. us = node
        BY <1>5, <2>1, <2>2, SameList
    <2> QED BY <2>3 DEF node, Made
<1>7. AreStrings(Codes(Times(n, X), vs))
    <2> DEFINE codes == Codes(Times(n, X), vs)
    <2>1. Len(Times(n, X)) = n /\ \A i \in 1..n : Times(n, X)[i] = X
        BY <1>1, TimesList
    <2>2. codes = [i \in 1..n |-> Encoded(vs[i], X)]
        BY <2>1 DEF Codes
    <2>3. \A i \in 1..n : Encoded(vs[i], X) \in Seq(Byte)
        BY <1>3, ValueFacts
    <2>4. codes = [i \in 1..n |-> codes[i]] /\ \A i \in 1..n : codes[i] \in Seq(Byte)
        BY <2>2, <2>3
    <2> HIDE DEF codes
    <2>5. IsList(codes) /\ Len(codes) = n
        BY <1>1, <2>4, ListOf
    <2> QED BY <2>4, <2>5 DEF AreStrings, codes
<1>8. Joined(Codes(Times(Len(all), X), all)) = Encoded(v, X) \o Joined(Codes(Times(n, X), vs))
    <2>1. Encoded(v, X) \in Seq(Byte)
        BY <1>3, ValueFacts
    <2> QED BY <1>1, <1>4, <1>7, <2>1, CodesOfNext DEF n
<1>9. SomeTooLow(d, X, all) <=> d + Nesting(v, X) > MaxDepth \/ SomeTooLow(d, X, vs)
    <2>1. ASSUME SomeTooLow(d, X, all)
          PROVE  d + Nesting(v, X) > MaxDepth \/ SomeTooLow(d, X, vs)
        <3>1. PICK i \in 1..(n + 1) : d + Nesting(all[i], X) > MaxDepth
            BY <1>1, <2>1 DEF SomeTooLow
        <3>2. CASE i = 1
            BY <3>1, <3>2 DEF v
        <3>3. CASE i # 1
            <4>1. i - 1 \in 1..n /\ (i - 1) + 1 = i
                BY <1>1, <3>3
            <4>2. vs[i - 1] = all[i]
                BY <1>1, <4>1
            <4> QED BY <3>1, <4>1, <4>2 DEF SomeTooLow, n
        <3> QED BY <3>2, <3>3
    <2>2. ASSUME d + Nesting(v, X) > MaxDepth \/ SomeTooLow(d, X, vs)
          PROVE  SomeTooLow(d, X, all)
        <3>1. CASE d + Nesting(v, X) > MaxDepth
            BY <1>1, <1>2, <3>1 DEF SomeTooLow, v
        <3>2. CASE SomeTooLow(d, X, vs)
            <4>1. PICK i \in 1..n : d + Nesting(vs[i], X) > MaxDepth
                BY <3>2 DEF SomeTooLow, n
            <4> QED BY <1>1, <1>2, <4>1 DEF SomeTooLow
        <3> QED BY <2>2, <3>1, <3>2
    <2> QED BY <2>1, <2>2
<1> QED BY <1>1, <1>3, <1>4, <1>6, <1>7, <1>8, <1>9 DEF us, ws, w, n

\* A list of none.
LEMMA NoneReceived ==
    ASSUME NEW X, NEW vs, IsList(vs), Len(vs) = 0, NEW d \in 0..MaxDepth, NEW z \in Seq(Byte)
    PROVE  /\ vs = <<>> /\ AllReceived(X, vs) = <<>> /\ ~SomeTooLow(d, X, vs)
           /\ Joined(Codes(Times(Len(vs), X), vs)) = <<>>
           /\ Joined(Codes(Times(Len(vs), X), vs)) \o z = z
<1>1. vs = <<>>
    BY EmptyList
<1>2. AllReceived(X, vs) = <<>>
    BY <1>1 DEF AllReceived
<1>3. Codes(Times(Len(vs), X), vs) = <<>>
    <2>1. Len(Times(0, X)) = 0
        BY TimesList
    <2> QED BY <2>1 DEF Codes
<1>4. ~SomeTooLow(d, X, vs)
    BY DEF SomeTooLow
<1>5. Joined(<<>>) = <<>> /\ <<>> \o z = z
    BY JoinedNone, Strings
<1> QED BY <1>1, <1>2, <1>3, <1>4, <1>5

\* A value is read and kept.
LEMMA ValueKept ==
    ASSUME NEW k, NEW X, NEW v, <<X, v>> \in Values, NEW s, IsList(s), ListOnTop(s),
           NEW z \in Seq(Byte), NEW d \in 0..MaxDepth, NEW e \in {0, 1}, NEW f \in {0, 1},
           e = 1 <=> f = 1 \/ d + Nesting(v, X) > MaxDepth
    PROVE  LET t == Atop(s, X, Received(v, X)) IN
           /\ IsList(Kept(t)) /\ ListOnTop(Kept(t))
           /\ Answered("sent", k, Read(X), At(s, Encoded(v, X) \o z, d, e), At(t, z, d, f))
           /\ Answered("sent", k, <<"keep">>, At(t, z, d, f), At(Kept(t), z, d, f))
<1> DEFINE t == Atop(s, X, Received(v, X))
           w == Received(v, X)
           K == KindOf(X)
<1>1. IsList(t) /\ IsList(Kept(t)) /\ ListOnTop(Kept(t))
    <2> DEFINE none == <<>>
    <2>1. IsList(none)
        BY EmptyList
    <2> HIDE DEF w, K, none
    <2>2. LET u == Kept(Append(s, <<K, w>>)) IN IsList(u) /\ ListOnTop(u)
        BY <2>1, GatheredNext
    <2>3. IsList(Append(s, <<K, w>>))
        BY ListAppend
    <2> QED BY <2>2, <2>3 DEF Atop, w, K
<1>2. Answered("sent", k, Read(X), At(s, Encoded(v, X) \o z, d, e), At(t, z, d, f))
    BY ReadTold
<1> HIDE DEF t
<1>3. Answered("sent", k, <<"keep">>, At(t, z, d, f), At(Kept(t), z, d, f))
    BY <1>1, KeepTold
<1> QED BY <1>1, <1>2, <1>3 DEF t

LEMMA OptionForeseen ==
    ASSUME NEW deep, NEW c, Foretold(deep, c), Top[1] = "read", Top[2] \in DOMAIN Optional
    PROVE  /\ Allowed
           /\ Leads(IF Number = 1 THEN << Read(Optional[Top[2]]), <<"keep">> >> ELSE <<>>,
                    Append(built, <<"list", <<>>>>), depth, deep, c)
<1> DEFINE X == Optional[Top[2]]
           call == Read(X)
           values == Append(built, <<"list", <<>>>>)
           z == c.bytes
           f == c.deep
<1>1. /\ IsList(built) /\ depth \in 0..MaxDepth /\ deep \in {0, 1}
      /\ z \in Seq(Byte) /\ f \in {0, 1}
    BY ForetoldAt
<1>2. Allowed /\ \E vs : Listing(X, vs, deep, c) /\ Len(vs) <= 1
    <2>1. Top[2] \in DOMAIN Optional \cup DOMAIN Listed
        OBVIOUS
    <2> QED BY <2>1, NextList
<1>3. PICK vs : Listing(X, vs, deep, c) /\ Len(vs) <= 1
    BY <1>2
<1>4. /\ IsList(values) /\ ListOnTop(values)
      /\ \A ws : IsList(ws) => Gathered(values, ws) = Append(built, <<"list", ws>>)
      /\ \A K, v : Kept(Append(values, <<K, v>>)) = Append(built, <<"list", <<v>>>>)
    BY <1>1, GatheredFirst
<1> HIDE DEF X, call, values, z, f
<1>5. /\ IsList(vs) /\ Number = Len(vs) /\ Len(vs) \in Nat
      /\ \A i \in 1..Len(vs) : <<X, vs[i]>> \in Values
      /\ ToCome(pos + Width) = Joined(Codes(Times(Len(vs), X), vs)) \o z
      /\ c = At(Append(built, <<"list", AllReceived(X, vs)>>), z, depth, f)
      /\ deep = 1 <=> f = 1 \/ SomeTooLow(depth, X, vs)
    BY <1>3 DEF Listing, z, f, IsList
<1>6. CASE Len(vs) = 0
    <2>1. /\ AllReceived(X, vs) = <<>> /\ ~SomeTooLow(depth, X, vs)
          /\ Joined(Codes(Times(Len(vs), X), vs)) \o z = z
        BY <1>1, <1>5, <1>6, NoneReceived
    <2>2. deep = f
        BY <1>1, <1>5, <2>1
    <2>3. Then(values, depth, deep) = c
        BY <1>5, <2>1, <2>2 DEF Then, values
    <2>4. Follows("sent", kind, <<>>, Then(values, depth, deep), c)
        BY <2>3, FollowsNone
    <2>5. Number # 1
        BY <1>5, <1>6
    <2> QED BY <1>2, <2>4, <2>5 DEF Leads, values
<1>7. CASE Len(vs) = 1
    <2>1. PICK v, ws :
              /\ <<X, v>> \in Values /\ IsList(ws) /\ Len(vs) = Len(ws) + 1
              /\ AllReceived(X, vs) = <<Received(v, X)>> \o AllReceived(X, ws)
              /\ Joined(Codes(Times(Len(vs), X), vs)) =
                     Encoded(v, X) \o Joined(Codes(Times(Len(ws), X), ws))
              /\ SomeTooLow(depth, X, vs) <=>
                     depth + Nesting(v, X) > MaxDepth \/ SomeTooLow(depth, X, ws)
        <3>1. Len(vs) > 0
            BY <1>7
        <3> QED BY <1>1, <1>5, <3>1, FirstAndOthers
    <2>2. Len(ws) = 0
        <3>1. Len(ws) \in Nat /\ Len(vs) = Len(ws) + 1
            BY <2>1 DEF IsList
        <3> QED BY <1>7, <3>1
    <2>3. /\ AllReceived(X, ws) = <<>> /\ ~SomeTooLow(depth, X, ws)
          /\ Joined(Codes(Times(Len(ws), X), ws)) = <<>>
        BY <1>1, <2>1, <2>2, NoneReceived
    <2> DEFINE w == Received(v, X)
               x == Encoded(v, X)
               one == <<w>>
               t == Atop(values, X, w)
    <2>4. x \in Seq(Byte)
        BY <2>1, ValueFacts
    <2>5. AllReceived(X, vs) = <<w>>
        <3>1. IsList(one)
            BY Singleton
        <3> HIDE DEF one
        <3>2. one \o <<>> = one
            BY <3>1, EmptyList, ListAlgebra
        <3> QED BY <2>1, <2>3, <3>2 DEF one
    <2>6. ToCome(pos + Width) = x \o z
        <3> HIDE DEF x
        <3>1. x \o <<>> = x
            BY <2>4, Strings
        <3> QED BY <1>5, <2>1, <2>3, <3>1 DEF x
    <2>7. /\ Answered("sent", kind, call, At(values, x \o z, depth, deep), At(t, z, depth, f))
          /\ Answered("sent", kind, <<"keep">>, At(t, z, depth, f), At(Kept(t), z, depth, f))
        <3>1. deep = 1 <=> f = 1 \/ depth + Nesting(v, X) > MaxDepth
            BY <1>5, <2>1, <2>3
        <3> QED BY <1>1, <1>4, <2>1, <3>1, ValueKept DEF call
    <2>8. Kept(t) = Append(built, <<"list", <<w>>>>)
        BY <1>4 DEF Atop
    <2>9. At(Kept(t), z, depth, f) = c
        BY <1>5, <2>5, <2>8
    <2>10. At(values, x \o z, depth, deep) = Then(values, depth, deep)
        BY <2>6 DEF Then
    <2> DEFINE mid == At(t, z, depth, f)
    <2>11. /\ Answered("sent", kind, call, Then(values, depth, deep), mid)
           /\ Answered("sent", kind, <<"keep">>, mid, c)
        BY <2>7, <2>9, <2>10
    <2> HIDE DEF mid
    <2>12. Follows("sent", kind, <<call, <<"keep">>>>, Then(values, depth, deep), c)
        BY <2>11, FollowsTwo
    <2>13. Number = 1
        BY <1>5, <1>7
    <2> QED BY <1>2, <2>12, <2>13 DEF Leads, values, call, X
<1> QED BY <1>3, <1>5, <1>6, <1>7

LEMMA CountForeseen ==
    ASSUME NEW deep, NEW c, Foretold(deep, c), Top[1] = "read", Top[2] \in DOMAIN Listed
    PROVE  /\ Allowed
           /\ Leads(<< <<"repeat", Listed[Top[2]], Number>> >>,
                    Append(built, <<"list", <<>>>>), depth, deep, c)
<1> DEFINE X == Listed[Top[2]]
           call == <<"repeat", X, Number>>
           values == Append(built, <<"list", <<>>>>)
           z == c.bytes
           f == c.deep
<1>1. /\ IsList(built) /\ depth \in 0..MaxDepth /\ deep \in {0, 1}
      /\ z \in Seq(Byte) /\ f \in {0, 1}
    BY ForetoldAt
<1>2. Allowed /\ \E vs : Listing(X, vs, deep, c)
    <2>1. Top[2] \in DOMAIN Optional \cup DOMAIN Listed /\ Top[2] \notin DOMAIN Optional
        BY OneClass
    <2> QED BY <2>1, NextList
<1>3. PICK vs : Listing(X, vs, deep, c)
    BY <1>2
<1>4. /\ IsList(values) /\ ListOnTop(values)
      /\ \A ws : IsList(ws) => Gathered(values, ws) = Append(built, <<"list", ws>>)
    BY <1>1, GatheredFirst
<1> HIDE DEF X, values, z, f
<1>5. /\ IsList(vs) /\ Number = Len(vs)
      /\ \A i \in 1..Len(vs) : <<X, vs[i]>> \in Values
      /\ AreStrings(Codes(Times(Len(vs), X), vs))
      /\ ToCome(pos + Width) = Joined(Codes(Times(Len(vs), X), vs)) \o z
      /\ c = At(Append(built, <<"list", AllReceived(X, vs)>>), z, depth, f)
      /\ deep = 1 <=> f = 1 \/ SomeTooLow(depth, X, vs)
    BY <1>3 DEF Listing, z, f
<1> DEFINE t == Append(built, <<"list", AllReceived(X, vs)>>)
<1>6. t = Gathered(values, AllReceived(X, vs)) /\ IsList(t)
    <2> DEFINE us == AllReceived(X, vs)
    <2>1. IsList(us)
        <3>1. us = [i \in 1..Len(vs) |-> us[i]] /\ Len(vs) \in Nat
            BY <1>5 DEF AllReceived, IsList
        <3> HIDE DEF us
        <3> QED BY <3>1, ListOf
    <2> HIDE DEF us
    <2>2. IsList(Append(built, <<"list", us>>))
        BY <1>1, ListAppend
    <2> QED BY <1>4, <2>1, <2>2 DEF us
<1> HIDE DEF t
<1>7. Answered("sent", kind, <<"repeat", X, Len(vs)>>,
               At(values, Joined(Codes(Times(Len(vs), X), vs)) \o z, depth, deep),
               At(t, z, depth, f))
    BY <1>1, <1>4, <1>5, <1>6, RepeatTold
<1>8. Answered("sent", kind, call, Then(values, depth, deep), c)
    BY <1>5, <1>7 DEF Then, t
<1> HIDE DEF call
<1>9. Follows("sent", kind, <<call>>, Then(values, depth, deep), c)
    BY <1>8, FollowsOne
<1> QED BY <1>2, <1>9 DEF Leads, call, values, X

LEMMA RepeatForeseen ==
    ASSUME NEW deep, NEW c, Foretold(deep, c), Top[1] = "repeat"
    PROVE  /\ Allowed
           /\ Leads(IF Top[3] = 0 THEN <<>>
                    ELSE << Read(Top[2]), <<"keep">>, <<"repeat", Top[2], Top[3] - 1>> >>,
                    built, depth, deep, c)
<1> DEFINE X == Top[2]
           n == Top[3]
           z == c.bytes
           f == c.deep
           a == Here(deep)
<1>1. /\ IsList(built) /\ depth \in 0..MaxDepth /\ deep \in {0, 1}
      /\ z \in Seq(Byte) /\ f \in {0, 1} /\ ToCome(pos) \in Seq(Byte)
      /\ c = At(c.stack, z, depth, f) /\ IsList(c.stack) /\ Top \in Items
    <2>1. Top[1] # "leave"
        OBVIOUS
    <2> QED BY <2>1, ForetoldAt
<1>2. a.stack = built /\ a.bytes = ToCome(pos) /\ a.depth = depth /\ a.deep = deep
    BY AtIs DEF Here
<1> HIDE DEF a
<1>3. \E vs : ReachesAll(Top, a, c, vs)
    <2>1. Foretells(kind, Top, a, c)
        BY DEF Foretold, a
    <2> QED BY <2>1 DEF Foretells
<1>4. PICK vs : ReachesAll(Top, a, c, vs)
    BY <1>3
<1> DEFINE t == c.stack
<1>5. /\ IsList(vs) /\ Len(vs) = n /\ n \in Nat
      /\ \A i \in 1..Len(vs) : <<X, vs[i]>> \in Values
      /\ ToCome(pos) = Joined(Codes(Times(Len(vs), X), vs)) \o z
      /\ Len(vs) > 0 => ListOnTop(built)
      /\ t = Gathered(built, AllReceived(X, vs))
      /\ deep = 1 <=> f = 1 \/ SomeTooLow(depth, X, vs)
    BY <1>2, <1>4 DEF ReachesAll, AllReceived, SomeTooLow, IsList
<1>6. /\ Width = 0 /\ Allowed /\ ToCome(pos + Width) = ToCome(pos)
    <2>1. Width = 0 /\ ContentError = "none"
        BY DEF Width, ContentError
    <2> DEFINE none == <<>>
    <2>2. none \in Seq(Byte) /\ Len(none) = Width /\ ToCome(pos) = none \o ToCome(pos)
        BY <1>1, <2>1, EmptyList, Strings
    <2> HIDE DEF none
    <2>3. TakeError = "none" /\ ToCome(pos + Width) = ToCome(pos)
        BY <1>1, <2>2, PrefixTaken
    <2> QED BY <2>1, <2>3 DEF Allowed
<1> HIDE DEF X, n, z, f, t
<1>7. CASE n = 0
    <2>1. /\ AllReceived(X, vs) = <<>> /\ ~SomeTooLow(depth, X, vs)
          /\ Joined(Codes(Times(Len(vs), X), vs)) \o z = z
        BY <1>1, <1>5, <1>7, NoneReceived
    <2>2. t = built
        BY <1>5, <2>1 DEF Gathered
    <2>3. deep = f
        BY <1>1, <1>5, <2>1
    <2>4. Then(built, depth, deep) = c
        BY <1>1, <1>5, <1>6, <2>1, <2>2, <2>3 DEF Then, t
    <2>5. Follows("sent", kind, <<>>, Then(built, depth, deep), c)
        BY <2>4, FollowsNone
    <2> QED BY <1>6, <1>7, <2>5 DEF Leads, n
<1>8. CASE n # 0
    <2>1. PICK v, ws :
              /\ <<X, v>> \in Values /\ IsList(ws) /\ Len(vs) = Len(ws) + 1
              /\ \A i \in 1..Len(ws) : <<X, ws[i]>> \in Values
              /\ AllReceived(X, vs) = <<Received(v, X)>> \o AllReceived(X, ws)
              /\ AreStrings(Codes(Times(Len(ws), X), ws))
              /\ Joined(Codes(Times(Len(vs), X), vs)) =
                     Encoded(v, X) \o Joined(Codes(Times(Len(ws), X), ws))
              /\ SomeTooLow(depth, X, vs) <=>
                     depth + Nesting(v, X) > MaxDepth \/ SomeTooLow(depth, X, ws)
        <3>1. Len(vs) > 0
            BY <1>5, <1>8
        <3> QED BY <1>1, <1>5, <3>1, FirstAndOthers
    <2> DEFINE call == Read(X)
               m == n - 1
               again == <<"repeat", X, m>>
               g == IF f = 1 \/ SomeTooLow(depth, X, ws) THEN 1 ELSE 0
               w == Received(v, X)
               us == AllReceived(X, ws)
               more == Joined(Codes(Times(Len(ws), X), ws))
               y == more \o z
               x == Encoded(v, X)
               u == Atop(built, X, w)
    <2>2. Len(ws) = m /\ ListOnTop(built)
        BY <1>5, <1>8, <2>1 DEF IsList
    <2>3. x \in Seq(Byte) /\ more \in Seq(Byte)
        BY <2>1, ValueFacts, JoinedType
    <2> HIDE DEF x, more
    <2>4. y \in Seq(Byte) /\ ToCome(pos) = x \o y
        <3>1. z \in Seq(Byte)
            BY <1>1
        <3> HIDE DEF z
        <3>2. more \o z \in Seq(Byte)
            BY <2>3, <3>1, Strings
        <3>3. (x \o more) \o z = x \o (more \o z)
            BY <2>3, <3>1, Regrouped
        <3> QED BY <1>5, <2>1, <3>2, <3>3 DEF x, more
    <2> HIDE DEF y
    <2>5. g \in {0, 1} /\ (deep = 1 <=> g = 1 \/ depth + Nesting(v, X) > MaxDepth)
          /\ (g = 1 <=> f = 1 \/ SomeTooLow(depth, X, ws))
        BY <1>5, <2>1
    <2> HIDE DEF g
    <2>6. /\ IsList(Kept(u)) /\ ListOnTop(Kept(u))
          /\ Answered("sent", kind, call, At(built, x \o y, depth, deep), At(u, y, depth, g))
          /\ Answered("sent", kind, <<"keep">>, At(u, y, depth, g), At(Kept(u), y, depth, g))
        BY <1>1, <2>1, <2>2, <2>4, <2>5, ValueKept DEF x
    <2>7. IsList(us)
        <3>1. us = [i \in 1..Len(ws) |-> us[i]] /\ Len(ws) \in Nat
            BY <2>1 DEF AllReceived, IsList
        <3> HIDE DEF us
        <3> QED BY <3>1, ListOf
    <2>8. t = Gathered(Kept(u), us)
        <3> DEFINE K == KindOf(X)
        <3> HIDE DEF K, us, w
        <3>1. Gathered(Kept(Append(built, <<K, w>>)), us) = Gathered(built, <<w>> \o us)
            BY <1>1, <2>2, <2>7, GatheredNext
        <3> QED BY <1>5, <2>1, <3>1 DEF Atop, K, w, us
    <2> DEFINE s == Kept(u)
    <2> HIDE DEF u
    <2>9. Answered("sent", kind, <<"repeat", X, Len(ws)>>,
                   At(s, more \o z, depth, g), At(t, z, depth, f))
        <3>1. IsList(s) /\ ListOnTop(s) /\ IsList(t) /\ t = Gathered(s, AllReceived(X, ws))
            BY <1>1, <2>6, <2>8 DEF t
        <3> HIDE DEF s
        <3> QED BY <1>1, <2>1, <2>5, <3>1, RepeatTold DEF more
    <2> DEFINE first == At(u, y, depth, g)
               second == At(s, y, depth, g)
    <2>10. /\ Answered("sent", kind, call, Then(built, depth, deep), first)
           /\ Answered("sent", kind, <<"keep">>, first, second)
           /\ Answered("sent", kind, again, second, c)
        <3>1. Then(built, depth, deep) = At(built, x \o y, depth, deep)
            BY <1>6, <2>4 DEF Then
        <3>2. At(t, z, depth, f) = c
            BY <1>1 DEF t
        <3>3. Answered("sent", kind, again, second, c)
            BY <2>2, <2>9, <3>2 DEF y
        <3> QED BY <2>6, <3>1, <3>3
    <2> HIDE DEF call, again, first, second
    <2>11. Follows("sent", kind, <<call, <<"keep">>, again>>, Then(built, depth, deep), c)
        BY <2>10, FollowsThree
    <2> QED BY <1>6, <1>8, <2>11 DEF Leads, call, again, m, n, X
<1> QED BY <1>7, <1>8

LEMMA HeaderIsList ==
    ASSUME NEW v, NEW T \in Scalars, IsValue(v, T)
    PROVE  Header(v, T) \in Seq(Byte)
<1>1. T \notin DOMAIN Optional \cup DOMAIN Listed \cup DOMAIN Tags \cup DOMAIN Fields
    BY Classes, MirrorTables, MirrorStructures
<1>2. T \notin DOMAIN Optional /\ T \notin DOMAIN Listed /\ T \notin DOMAIN Tags /\ T \notin DOMAIN Fields
    BY <1>1
<1>3. T = "str" \/ T = "word" \/ T = "bool"
    BY DEF Scalars
<1>4. CASE T = "str"
    <2>1. v \in Seq(Byte) /\ Header(v, T) = LittleEndian(Len(v), LenWidth) \o v
        BY <1>2, <1>4 DEF IsValue, Header
    <2>2. LittleEndian(Len(v), LenWidth) \in Seq(Byte)
        BY <2>1, WireAssumption, LenProperties, LittleEndianType
    <2> QED BY <2>1, <2>2, Strings
<1>5. CASE T = "word"
    <2>1. FitsIn(v, WordWidth) /\ Header(v, T) = LittleEndian(v, WordWidth)
        BY <1>2, <1>5 DEF IsValue, Header
    <2>2. v \in Nat /\ WordWidth \in Nat
        BY <2>1, WireAssumption DEF FitsIn
    <2> QED BY <2>1, <2>2, LittleEndianType
<1>6. CASE T = "bool"
    <2>1. Header(v, T) = IF v THEN <<1>> ELSE <<0>>
        BY <1>2, <1>6 DEF Header
    <2>2. <<1>> \in Seq(Byte) /\ <<0>> \in Seq(Byte)
        BY DEF Byte
    <2> QED BY <2>1, <2>2
<1> QED BY <1>3, <1>4, <1>5, <1>6

\* What is written for a scalar, with its header.
LEMMA NextScalar ==
    ASSUME NEW deep, NEW c, Foretold(deep, c), Top[1] = "read", Top[2] \in Scalars
    PROVE  \E v : /\ IsValue(v, Top[2]) /\ Header(v, Top[2]) \in Seq(Byte)
                  /\ ToCome(pos) = Header(v, Top[2]) \o c.bytes
                  /\ c = At(Append(built, <<KindOf(Top[2]), v>>), c.bytes, depth, deep)
<1> DEFINE T == Top[2]
<1>1. PICK v : Arriving(T, v, GuardOf(T), deep, c)
    BY NextValue
<1>2. /\ <<T, v>> \in Values
      /\ ToCome(pos) = Encoded(v, T) \o c.bytes
      /\ c = At(Atop(built, T, Received(v, T)), c.bytes, depth, c.deep)
      /\ deep = 1 <=> c.deep = 1 \/ depth + Nesting(v, T) - GuardOf(T) > MaxDepth
    BY <1>1 DEF Arriving
<1> DEFINE none == <<>>
           head == Header(v, T)
<1>3. Consists(v, T, head, none, none)
    <2>1. T \notin DOMAIN Optional \cup DOMAIN Listed \cup DOMAIN Tags \cup DOMAIN Fields
        BY Classes, MirrorTables, MirrorStructures
    <2>2. PartTypes(v, T) = <<>>
        BY <2>1 DEF PartTypes
    <2> QED BY <2>2, EmptyList, PartsAre
<1>4. IsValue(v, T) /\ Encoded(v, T) \in Seq(Byte)
    BY <1>2, ValueFacts
<1>5. Encoded(v, T) = head
    <2> HIDE DEF none, head, T
    <2>1. Encoded(v, T) = head \o Joined(Codes(none, none))
        BY <1>2, <1>3, PartFacts
    <2>2. Joined(Codes(none, none)) = <<>>
        <3>1. Codes(none, none) = <<>>
            BY EmptyList DEF Codes, none
        <3> QED BY <3>1, JoinedNone
    <2>3. head \o <<>> = head
        <3>1. head \in Seq(Byte)
            BY <1>4, HeaderIsList DEF T, head
        <3> QED BY <3>1, Strings
    <2> QED BY <2>1, <2>2, <2>3
<1>6. deep = c.deep
    <2>1. depth \in 0..MaxDepth /\ deep \in {0, 1} /\ c.deep \in {0, 1}
        BY ForetoldAt
    <2>2. depth + Nesting(v, T) - GuardOf(T) > MaxDepth <=> TooLow(depth, none, none, 1)
        <3> HIDE DEF T, head, none
        <3> QED BY <1>2, <1>3, <2>1, DeepBelow DEF GuardOf
    <2>3. ~TooLow(depth, none, none, 1)
        BY EmptyList DEF TooLow
    <2> QED BY <1>2, <2>1, <2>2, <2>3
<1>7. Received(v, T) = v
    <2> HIDE DEF none, head
    <2> QED BY <1>2, <1>3, ReceivedParts
<1> QED BY <1>2, <1>4, <1>5, <1>6, <1>7 DEF Atop

LEMMA ScalarForeseen ==
    ASSUME NEW deep, NEW c, Foretold(deep, c), Top[1] = "read"
    PROVE  /\ Top[2] = "bool" =>
                  Allowed /\ Leads(<<>>, Append(built, <<"bool", Number = 1>>), depth, deep, c)
           /\ Top[2] = "word" =>
                  Allowed /\ Leads(<<>>, Append(built, <<"word", Number>>), depth, deep, c)
<1> DEFINE T == Top[2]
           z == c.bytes
<1>1. z \in Seq(Byte)
    BY ForetoldAt
<1>2. ASSUME T = "bool"
      PROVE  Allowed /\ Leads(<<>>, Append(built, <<"bool", Number = 1>>), depth, deep, c)
    <2>1. PICK v : /\ IsValue(v, T) /\ Header(v, T) \in Seq(Byte)
                   /\ ToCome(pos) = Header(v, T) \o z
                   /\ c = At(Append(built, <<KindOf(T), v>>), z, depth, deep)
        BY <1>2, NextScalar DEF Scalars
    <2>2. /\ T \notin DOMAIN Tags /\ T \notin DOMAIN Fields
          /\ T \notin DOMAIN Optional /\ T \notin DOMAIN Listed
          /\ T \notin DOMAIN Sums /\ T \notin DOMAIN Structures
        BY <1>2, OneClass, MirrorTables, MirrorStructures
    <2> HIDE DEF T
    <2>3. v \in BOOLEAN /\ Header(v, T) = (IF v THEN <<1>> ELSE <<0>>) /\ KindOf(T) = "bool"
        BY <1>2, <2>1, <2>2 DEF IsValue, Header, KindOf
    <2> DEFINE x == Header(v, T)
    <2>4. Width = 1 /\ x \in Seq(Byte) /\ Len(x) = 1 /\ x[1] = IF v THEN 1 ELSE 0
        <3>1. Width = 1
            BY <1>2, <2>2 DEF Width, T
        <3> QED BY <2>1, <2>3, <3>1
    <2>5. ToCome(pos) = x \o z
        BY <2>1
    <2> HIDE DEF x
    <2>6. TakeError = "none" /\ ToCome(pos + Width) = z /\ Number = x[1]
        BY <1>1, <2>4, <2>5, PrefixTaken
    <2>7. ContentError = "none"
        <3>1. ContentError = IF IsBit THEN "none" ELSE "BadBool"
            BY <1>2, <2>2 DEF ContentError, T
        <3> QED BY <2>4, <2>6, <3>1 DEF IsBit
    <2>8. v <=> Number = 1
        BY <2>3, <2>4, <2>6
    <2>9. Append(built, <<"bool", Number = 1>>) = Append(built, <<KindOf(T), v>>)
        <3> DEFINE w == (Number = 1)
        <3>1. w = v
            BY <2>3, <2>8
        <3> HIDE DEF w
        <3>2. Append(built, <<"bool", w>>) = Append(built, <<KindOf(T), v>>)
            BY <2>3, <3>1
        <3> QED BY <3>2 DEF w
    <2>10. Then(Append(built, <<"bool", Number = 1>>), depth, deep) = c
        BY <2>1, <2>6, <2>9 DEF Then
    <2> QED BY <2>6, <2>7, <2>10, FollowsNone DEF Leads, Allowed
<1>3. ASSUME T = "word"
      PROVE  Allowed /\ Leads(<<>>, Append(built, <<"word", Number>>), depth, deep, c)
    <2>1. PICK v : /\ IsValue(v, T) /\ Header(v, T) \in Seq(Byte)
                   /\ ToCome(pos) = Header(v, T) \o z
                   /\ c = At(Append(built, <<KindOf(T), v>>), z, depth, deep)
        BY <1>3, NextScalar DEF Scalars
    <2>2. /\ T \notin DOMAIN Tags /\ T \notin DOMAIN Fields
          /\ T \notin DOMAIN Optional /\ T \notin DOMAIN Listed
          /\ T \notin DOMAIN Sums /\ T \notin DOMAIN Structures
        BY <1>3, OneClass, MirrorTables, MirrorStructures
    <2> HIDE DEF T
    <2>3. FitsIn(v, WordWidth) /\ Header(v, T) = LittleEndian(v, WordWidth) /\ KindOf(T) = "word"
        BY <1>3, <2>1, <2>2 DEF IsValue, Header, KindOf
    <2> DEFINE x == LittleEndian(v, WordWidth)
    <2>4. x \in Seq(Byte) /\ Len(x) = WordWidth /\ FromLeBytes(x) = v
        <3>1. WordWidth \in Nat
            BY WireAssumption
        <3> QED BY <2>3, <3>1, ReadBack
    <2>5. ToCome(pos) = x \o z /\ Width = WordWidth
        BY <1>3, <2>1, <2>2, <2>3 DEF Width, T
    <2> HIDE DEF x
    <2>6. TakeError = "none" /\ ToCome(pos + Width) = z /\ Taken = x
        BY <1>1, <2>4, <2>5, PrefixTaken
    <2>7. Number = v
        BY <2>4, <2>6 DEF Number
    <2>8. ContentError = "none"
        BY <1>3, <2>2 DEF ContentError, T
    <2>9. Then(Append(built, <<"word", Number>>), depth, deep) = c
        BY <2>1, <2>3, <2>6, <2>7 DEF Then
    <2> QED BY <2>6, <2>8, <2>9, FollowsNone DEF Leads, Allowed
<1> QED BY <1>2, <1>3

\* The text of a string is to come.
LEMMA TextTold ==
    ASSUME NEW k, NEW t \in Seq(Byte), IsUtf8(t), NEW s, IsList(s), NEW z \in Seq(Byte),
           NEW d \in 0..MaxDepth, NEW f \in {0, 1}
    PROVE  Answered("sent", k, <<"text", Len(t)>>, At(s, t \o z, d, f),
                    At(Append(s, <<"text", t>>), z, d, f))
<1> DEFINE item == <<"text", Len(t)>>
           u == Append(s, <<"text", t>>)
           bytes == t \o z
           a == At(s, bytes, d, f)
           b == At(u, z, d, f)
<1>1. item[1] = "text" /\ item[2] = Len(t)
    OBVIOUS
<1>2. bytes \in Seq(Byte) /\ IsList(u)
    BY Strings, ListAppend
<1> HIDE DEF item, u, bytes
<1>3. IsAt(a) /\ IsAt(b)
    BY <1>2, AtIsAt
<1>4. /\ a.stack = s /\ a.bytes = bytes /\ a.depth = d /\ a.deep = f
      /\ b.stack = u /\ b.bytes = z /\ b.depth = d /\ b.deep = f
    BY AtIs
<1> HIDE DEF a, b
<1>5. Foretells(k, item, a, b)
    BY <1>1, <1>3, <1>4 DEF Foretells, u, bytes
<1> QED BY <1>5 DEF Answered, item, a, b, u, bytes

LEMMA LengthForeseen ==
    ASSUME NEW deep, NEW c, Foretold(deep, c), Top[1] = "read", Top[2] = "str"
    PROVE  Allowed /\ Leads(<< <<"text", Number>> >>, built, depth, deep, c)
<1> DEFINE T == Top[2]
           z == c.bytes
<1>1. z \in Seq(Byte) /\ IsList(built) /\ depth \in 0..MaxDepth /\ deep \in {0, 1}
    BY ForetoldAt
<1>2. PICK v : /\ IsValue(v, T) /\ Header(v, T) \in Seq(Byte)
               /\ ToCome(pos) = Header(v, T) \o z
               /\ c = At(Append(built, <<KindOf(T), v>>), z, depth, deep)
    BY NextScalar DEF Scalars
<1>3. /\ T \notin DOMAIN Tags /\ T \notin DOMAIN Fields
      /\ T \notin DOMAIN Optional /\ T \notin DOMAIN Listed
      /\ T \notin DOMAIN Sums /\ T \notin DOMAIN Structures
    BY OneClass, MirrorTables, MirrorStructures
<1>4. T = "str"
    OBVIOUS
<1>5. Width = LenWidth
    BY <1>3 DEF Width
<1>6. ContentError = IF Number <= UsizeMax THEN "none" ELSE "LengthOverflow"
    BY <1>3 DEF ContentError
<1> HIDE DEF T
<1>7. /\ v \in Seq(Byte) /\ IsUtf8(v) /\ IsLength(Len(v))
      /\ Header(v, T) = LittleEndian(Len(v), LenWidth) \o v /\ KindOf(T) = "text"
    BY <1>2, <1>3, <1>4 DEF IsValue, Header, KindOf
<1> DEFINE x == LittleEndian(Len(v), LenWidth)
           y == v \o z
<1>8. x \in Seq(Byte) /\ Len(x) = LenWidth /\ FromLeBytes(x) = Len(v)
    <2>1. LenWidth \in Nat /\ FitsIn(Len(v), LenWidth)
        BY <1>7, WireAssumption DEF IsLength
    <2> DEFINE n == Len(v)
    <2> HIDE DEF n
    <2> QED BY <2>1, ReadBack DEF n
<1> HIDE DEF x
<1>9. y \in Seq(Byte) /\ ToCome(pos) = x \o y
    <2>1. ToCome(pos) = (x \o v) \o z
        BY <1>2, <1>7 DEF x
    <2>2. v \o z \in Seq(Byte) /\ (x \o v) \o z = x \o (v \o z)
        BY <1>1, <1>7, <1>8, Strings
    <2> QED BY <2>1, <2>2
<1> HIDE DEF y
<1>10. TakeError = "none" /\ ToCome(pos + Width) = y /\ Taken = x
    BY <1>5, <1>8, <1>9, PrefixTaken
<1>11. Number = Len(v)
    BY <1>8, <1>10 DEF Number
<1>12. ContentError = "none"
    BY <1>6, <1>7, <1>11 DEF IsLength
<1> DEFINE call == <<"text", Number>>
<1>13. Answered("sent", kind, call, Then(built, depth, deep), c)
    <2>1. Answered("sent", kind, <<"text", Len(v)>>, At(built, v \o z, depth, deep),
                   At(Append(built, <<"text", v>>), z, depth, deep))
        BY <1>1, <1>7, TextTold
    <2>2. Then(built, depth, deep) = At(built, v \o z, depth, deep)
        BY <1>10 DEF Then, y
    <2>3. c = At(Append(built, <<"text", v>>), z, depth, deep)
        BY <1>2, <1>7
    <2> QED BY <1>11, <2>1, <2>2, <2>3
<1> HIDE DEF call
<1> QED BY <1>10, <1>12, <1>13, FollowsOne DEF Leads, Allowed, call

\* A step that takes no bytes.
LEMMA NoneTaken ==
    ASSUME NEW deep, NEW c, Foretold(deep, c), Width = 0
    PROVE  TakeError = "none" /\ ToCome(pos + Width) = ToCome(pos)
<1> DEFINE none == <<>>
<1>1. ToCome(pos) \in Seq(Byte)
    BY ForetoldAt
<1>2. none \in Seq(Byte) /\ Len(none) = Width /\ ToCome(pos) = none \o ToCome(pos)
    BY <1>1, EmptyList, Strings
<1> HIDE DEF none
<1> QED BY <1>1, <1>2, PrefixTaken

\* What is foretold of a call that reads no value.
LEMMA Forecast ==
    ASSUME NEW deep, NEW c, Foretold(deep, c)
    PROVE  /\ Top[1] = "magic" => ToCome(pos) = <<Magic[kind]>> \o c.bytes /\ c.stack = built
           /\ Top[1] = "version" => ToCome(pos) = <<Version>> \o c.bytes /\ c.stack = built
           /\ Top[1] = "end" => ToCome(pos) = <<>> /\ c.bytes = <<>> /\ c.stack = built
           /\ Top[1] = "leave" => ToCome(pos) = c.bytes /\ c.stack = built
           /\ Top[1] = "keep" => ToCome(pos) = c.bytes /\ c.stack = Kept(built)
           /\ Top[1] = "node" =>
                  ToCome(pos) = c.bytes /\ c.stack = Bound(built, Top[2], Top[3])
           /\ Top[1] = "text" =>
                  \E t \in Seq(Byte) : /\ Len(t) = Top[2] /\ IsUtf8(t)
                                       /\ ToCome(pos) = t \o c.bytes
                                       /\ c.stack = Append(built, <<"text", t>>)
<1> DEFINE a == Here(deep)
<1>1. a.stack = built /\ a.bytes = ToCome(pos)
    BY AtIs DEF Here
<1> HIDE DEF a
<1>2. Foretells(kind, Top, a, c)
    BY DEF Foretold, a
<1>3. ASSUME Top[1] \in {"magic", "version", "end", "leave"}
      PROVE  /\ Top[1] = "magic" => ToCome(pos) = <<Magic[kind]>> \o c.bytes /\ c.stack = built
             /\ Top[1] = "version" => ToCome(pos) = <<Version>> \o c.bytes /\ c.stack = built
             /\ Top[1] = "end" => ToCome(pos) = <<>> /\ c.bytes = <<>> /\ c.stack = built
             /\ Top[1] = "leave" => ToCome(pos) = c.bytes /\ c.stack = built
    <2>1. CASE Top[1] = "magic"
        BY <1>1, <1>2, <2>1 DEF Foretells
    <2>2. CASE Top[1] = "version"
        BY <1>1, <1>2, <2>2 DEF Foretells
    <2>3. CASE Top[1] = "end"
        BY <1>1, <1>2, <2>3 DEF Foretells
    <2>4. CASE Top[1] = "leave"
        BY <1>1, <1>2, <2>4 DEF Foretells
    <2> QED BY <1>3, <2>1, <2>2, <2>3, <2>4
<1>4. CASE Top[1] = "keep"
    BY <1>1, <1>2, <1>4 DEF Foretells
<1>5. CASE Top[1] = "node"
    BY <1>1, <1>2, <1>5 DEF Foretells
<1>6. CASE Top[1] = "text"
    BY <1>1, <1>2, <1>6 DEF Foretells
<1> QED BY <1>3, <1>4, <1>5, <1>6

LEMMA FrameForeseen ==
    ASSUME NEW deep, NEW c, Foretold(deep, c), Top[1] \in {"magic", "version", "end"}
    PROVE  Allowed /\ Leads(<<>>, built, depth, deep, c)
<1> DEFINE z == c.bytes
<1>1. z \in Seq(Byte) /\ c = At(c.stack, z, depth, deep) /\ kind \in Kinds
    <2>1. Top[1] # "leave" /\ Top[1] \notin {"read", "enter", "repeat"}
        OBVIOUS
    <2>2. kind \in Kinds
        BY DEF Foretold, WireInv, WireTypeOK
    <2> QED BY <2>1, <2>2, ForetoldAt
<1> HIDE DEF z
<1>2. ASSUME TakeError = "none", ContentError = "none", ToCome(pos + Width) = z, c.stack = built
      PROVE  Allowed /\ Leads(<<>>, built, depth, deep, c)
    <2>1. Then(built, depth, deep) = c
        BY <1>1, <1>2 DEF Then
    <2> QED BY <1>2, <2>1, FollowsNone DEF Leads, Allowed
<1>3. ASSUME NEW n \in Byte, Top[1] \in {"magic", "version"}, ToCome(pos) = <<n>> \o z
      PROVE  TakeError = "none" /\ Number = n /\ ToCome(pos + Width) = z
    <2> DEFINE x == <<n>>
    <2>1. x \in Seq(Byte) /\ Len(x) = 1 /\ x[1] = n /\ Width = 1 /\ ToCome(pos) = x \o z
        BY <1>3 DEF Width
    <2> HIDE DEF x
    <2> QED BY <1>1, <2>1, PrefixTaken
<1>4. CASE Top[1] = "magic"
    <2>1. ToCome(pos) = <<Magic[kind]>> \o z /\ c.stack = built
        BY <1>4, Forecast DEF z
    <2>2. Magic[kind] \in Byte
        <3>1. \A k \in Kinds : Magic[k] \in Byte
            BY DEF Kinds, Magic, Byte
        <3> QED BY <1>1, <3>1
    <2>3. TakeError = "none" /\ Number = Magic[kind] /\ ToCome(pos + Width) = z
        BY <1>3, <1>4, <2>1, <2>2
    <2>4. ContentError = "none"
        BY <1>4, <2>3 DEF ContentError, RightMagic
    <2> QED BY <1>2, <2>1, <2>3, <2>4
<1>5. CASE Top[1] = "version"
    <2>1. ToCome(pos) = <<Version>> \o z /\ c.stack = built
        BY <1>5, Forecast DEF z
    <2>2. Version \in Byte
        BY DEF Version, Byte
    <2>3. TakeError = "none" /\ Number = Version /\ ToCome(pos + Width) = z
        BY <1>3, <1>5, <2>1, <2>2
    <2>4. ContentError = "none"
        BY <1>5, <2>3 DEF ContentError
    <2> QED BY <1>2, <2>1, <2>3, <2>4
<1>6. CASE Top[1] = "end"
    <2>1. ToCome(pos) = <<>> /\ z = <<>> /\ c.stack = built
        BY <1>6, Forecast DEF z
    <2>2. Width = 0
        BY <1>6 DEF Width
    <2>3. TakeError = "none" /\ ToCome(pos + Width) = z
        BY <2>1, <2>2, NoneTaken
    <2>4. pos = Len(input)
        <3> DEFINE n == Len(input)
        <3>1. input \in Seq(Byte) /\ n \in Nat /\ pos \in 0..n
            BY ForetoldAt
        <3>2. \A j \in (pos + 1)..n : input[j] \in Byte
            BY <3>1, ElementOfSeq
        <3>3. Len(SubSeq(input, pos + 1, n)) = IF pos + 1 <= n THEN n - (pos + 1) + 1 ELSE 0
            BY <3>1, <3>2, SubSeqProperties
        <3>4. Len(SubSeq(input, pos + 1, n)) = 0
            BY <2>1, EmptyList DEF ToCome
        <3> QED BY <3>1, <3>3, <3>4
    <2>5. ContentError = "none"
        BY <1>6, <2>4 DEF ContentError
    <2> QED BY <1>2, <2>1, <2>3, <2>5
<1> QED BY <1>4, <1>5, <1>6

\* What builds a value takes no bytes but those of a text.
LEMMA BuildForeseen ==
    ASSUME NEW deep, NEW c, Foretold(deep, c)
    PROVE  /\ Top[1] = "keep" => Allowed /\ Leads(<<>>, Kept(built), depth, deep, c)
           /\ Top[1] = "node" =>
                  Allowed /\ Leads(<<>>, Bound(built, Top[2], Top[3]), depth, deep, c)
           /\ Top[1] = "text" =>
                  Allowed /\ Leads(<<>>, Append(built, <<"text", Taken>>), depth, deep, c)
<1> DEFINE z == c.bytes
<1>1. z \in Seq(Byte)
    BY ForetoldAt
<1>2. ASSUME Top[1] \in {"keep", "node", "text"} PROVE c = At(c.stack, z, depth, deep)
    <2>1. Top[1] # "leave" /\ Top[1] \notin {"read", "enter", "repeat"}
        BY <1>2
    <2> QED BY <2>1, ForetoldAt
<1> HIDE DEF z
<1>3. ASSUME NEW values, c = At(values, z, depth, deep),
             TakeError = "none", ContentError = "none", ToCome(pos + Width) = z
      PROVE  Allowed /\ Leads(<<>>, values, depth, deep, c)
    <2>1. Then(values, depth, deep) = c
        BY <1>3 DEF Then
    <2> QED BY <1>3, <2>1, FollowsNone DEF Leads, Allowed
<1>4. ASSUME Top[1] = "keep"
      PROVE  Allowed /\ Leads(<<>>, Kept(built), depth, deep, c)
    <2>1. ToCome(pos) = z /\ c.stack = Kept(built)
        BY <1>4, Forecast DEF z
    <2>2. Width = 0 /\ ContentError = "none"
        BY <1>4 DEF Width, ContentError
    <2>3. TakeError = "none" /\ ToCome(pos + Width) = ToCome(pos)
        BY <2>2, NoneTaken
    <2> QED BY <1>2, <1>3, <1>4, <2>1, <2>2, <2>3
<1>5. ASSUME Top[1] = "node"
      PROVE  Allowed /\ Leads(<<>>, Bound(built, Top[2], Top[3]), depth, deep, c)
    <2>1. ToCome(pos) = z /\ c.stack = Bound(built, Top[2], Top[3])
        BY <1>5, Forecast DEF z
    <2>2. Width = 0 /\ ContentError = "none"
        BY <1>5 DEF Width, ContentError
    <2>3. TakeError = "none" /\ ToCome(pos + Width) = ToCome(pos)
        BY <2>2, NoneTaken
    <2> QED BY <1>2, <1>3, <1>5, <2>1, <2>2, <2>3
<1>6. ASSUME Top[1] = "text"
      PROVE  Allowed /\ Leads(<<>>, Append(built, <<"text", Taken>>), depth, deep, c)
    <2>1. PICK t \in Seq(Byte) : /\ Len(t) = Top[2] /\ IsUtf8(t) /\ ToCome(pos) = t \o z
                                 /\ c.stack = Append(built, <<"text", t>>)
        BY <1>6, Forecast DEF z
    <2>2. Width = Len(t)
        BY <1>6, <2>1 DEF Width
    <2>3. TakeError = "none" /\ ToCome(pos + Width) = z /\ Taken = t
        BY <1>1, <2>1, <2>2, PrefixTaken
    <2>4. ContentError = "none"
        BY <1>6, <2>1, <2>3 DEF ContentError
    <2> QED BY <1>2, <1>3, <1>6, <2>1, <2>3, <2>4
<1> QED BY <1>4, <1>5, <1>6

\* A guarded node has a level of its own.
LEMMA EnterForeseen ==
    ASSUME NEW deep, NEW c, Foretold(deep, c), Top[1] = "enter"
    PROVE  /\ depth = MaxDepth => deep = 1
           /\ depth # MaxDepth =>
                  Allowed /\ Leads(<< <<"read", Top[2]>>, <<"leave">> >>, built, depth + 1, deep, c)
<1> DEFINE T == Top[2]
           z == c.bytes
           f == c.deep
<1>1. /\ IsList(built) /\ depth \in 0..MaxDepth /\ deep \in {0, 1}
      /\ z \in Seq(Byte) /\ f \in {0, 1} /\ ToCome(pos) \in Seq(Byte)
    BY ForetoldAt
<1>2. T \in Guarded /\ \E v : Arriving(T, v, 0, deep, c)
    BY NextValue
<1>3. PICK v : Arriving(T, v, 0, deep, c)
    BY <1>2
<1>4. /\ <<T, v>> \in Values
      /\ ToCome(pos) = Encoded(v, T) \o z
      /\ c = At(Atop(built, T, Received(v, T)), z, depth, f)
      /\ deep = 1 <=> f = 1 \/ depth + Nesting(v, T) - 0 > MaxDepth
    BY <1>3 DEF Arriving
<1> HIDE DEF T, z, f
<1>5. Nesting(v, T) \in Nat /\ Nesting(v, T) >= 1
    <2> DEFINE parts == Payload(v, T)
               below == {0} \cup {Nesting(parts[i][2], parts[i][1]) : i \in DOMAIN parts}
               guard == IF T \in Guarded THEN 1 ELSE 0
    <2>1. Nests(v, T) /\ Nesting(v, T) \in Nat
        BY <1>4, ValueFacts
    <2>2. PICK n \in below : (\A m \in below : m <= n) /\ Nesting(v, T) = n + guard
        BY <2>1 DEF Nests
    <2>3. 0 <= n /\ guard = 1
        BY <1>2, <2>2
    <2>4. n \in Nat
        <3>1. CASE n = 0
            BY <3>1
        <3>2. CASE n # 0
            <4>1. PICK i \in DOMAIN parts : n = Nesting(parts[i][2], parts[i][1])
                BY <2>2, <3>2
            <4>2. parts[i] \in Values
                BY <1>4, ValueFacts
            <4> QED BY <4>1, <4>2, ValuesAssumption
        <3> QED BY <3>1, <3>2
    <2> QED BY <2>1, <2>2, <2>3, <2>4
<1>6. MaxDepth \in Nat
    BY WireAssumption
<1>7. depth = MaxDepth => deep = 1
    BY <1>1, <1>4, <1>5, <1>6
<1>8. ASSUME depth # MaxDepth
      PROVE  Allowed /\ Leads(<< <<"read", T>>, <<"leave">> >>, built, depth + 1, deep, c)
    <2>1. Width = 0 /\ ContentError = "none"
        BY DEF Width, ContentError
    <2>2. TakeError = "none" /\ ToCome(pos + Width) = ToCome(pos)
        BY <2>1, NoneTaken
    <2> DEFINE d == depth + 1
               stack == Atop(built, T, Received(v, T))
               first == At(built, ToCome(pos), d, deep)
               second == At(stack, z, d, f)
               reads == <<"read", T>>
               leaves == <<"leave">>
    <2>3. reads[1] = "read" /\ reads[2] = T /\ leaves[1] = "leave"
        OBVIOUS
    <2>4. d \in 0..MaxDepth /\ d - 1 = depth
        BY <1>1, <1>6, <1>8
    <2>5. IsList(stack)
        BY <1>1, ListAppend DEF Atop
    <2> HIDE DEF stack, reads, leaves, d
    <2>6. IsAt(first) /\ IsAt(second) /\ IsAt(c)
        <3>1. IsAt(first) /\ IsAt(second)
            BY <1>1, <2>4, <2>5, AtIsAt
        <3>2. IsAt(c)
            <4>1. IsAt(At(stack, z, depth, f))
                BY <1>1, <2>5, AtIsAt
            <4> QED BY <1>4, <4>1 DEF stack
        <3> QED BY <3>1, <3>2
    <2>7. /\ first.stack = built /\ first.bytes = ToCome(pos)
          /\ first.depth = d /\ first.deep = deep
          /\ second.stack = stack /\ second.bytes = z /\ second.depth = d /\ second.deep = f
          /\ c.stack = stack /\ c.bytes = z /\ c.depth = depth /\ c.deep = f
        <3>1. c = At(stack, z, depth, f)
            BY <1>4 DEF stack
        <3> QED BY <3>1, AtIs
    <2> HIDE DEF first, second
    <2>8. Answered("sent", kind, reads, first, second)
        <3>1. deep = 1 <=> f = 1 \/ d + Nesting(v, T) - 1 > MaxDepth
            BY <1>1, <1>4, <1>5, <1>6 DEF d
        <3>2. Reaches(reads, first, second, v)
            BY <1>2, <1>4, <2>3, <2>7, <3>1 DEF Reaches, stack
        <3>3. Foretells(kind, reads, first, second)
            BY <2>3, <2>6, <2>7, <3>2 DEF Foretells
        <3> QED BY <3>3 DEF Answered
    <2>9. Answered("sent", kind, leaves, second, c)
        <3>1. Foretells(kind, leaves, second, c)
            BY <2>3, <2>4, <2>6, <2>7 DEF Foretells
        <3> QED BY <3>1 DEF Answered
    <2>10. first = Then(built, d, deep)
        BY <2>2 DEF Then, first
    <2>11. Follows("sent", kind, <<reads, leaves>>, Then(built, d, deep), c)
        BY <2>8, <2>9, <2>10, FollowsTwo
    <2> QED BY <2>1, <2>2, <2>11 DEF Leads, Allowed, reads, leaves, d
<1> QED BY <1>7, <1>8 DEF T

LEMMA LeaveForeseen ==
    ASSUME NEW deep, NEW c, Foretold(deep, c), Top[1] = "leave"
    PROVE  Allowed /\ Leads(<<>>, built, Drop(depth), deep, c)
<1>1. ToCome(pos) = c.bytes /\ c.stack = built
    BY Forecast
<1>2. /\ c = At(c.stack, c.bytes, c.depth, c.deep) /\ c.depth = depth - 1 /\ c.deep = deep
      /\ c.depth \in 0..MaxDepth /\ depth \in 0..MaxDepth
    BY ForetoldAt
<1>3. Drop(depth) = c.depth
    BY <1>2, WireAssumption DEF Drop
<1>4. Width = 0 /\ ContentError = "none"
    BY DEF Width, ContentError
<1>5. TakeError = "none" /\ ToCome(pos + Width) = ToCome(pos)
    BY <1>4, NoneTaken
<1>6. Then(built, Drop(depth), deep) = c
    BY <1>1, <1>2, <1>3, <1>5 DEF Then
<1> QED BY <1>4, <1>5, <1>6, FollowsNone DEF Leads, Allowed

\* A step that succeeds leads on to all that is foretold of it.
Foresees(deep) ==
    \E calls, values, d :
        /\ IsList(calls) /\ Step(calls, values) /\ depth' = d
        /\ \A c : Foretold(deep, c) => Leads(calls, values, d, deep, c)

LEMMA FrameForesees ==
    ASSUME Frame \/ Enter \/ Leave, NEW deep
    PROVE  Foresees(deep)
<1>1. CASE Frame
    <2>1. PICK item \in {"magic", "version", "end"} : Goes(item)
        BY <1>1 DEF Frame
    <2>2. Step(<<>>, built) /\ depth' = depth /\ Top[1] \in {"magic", "version", "end"}
        BY <1>1, <2>1 DEF Frame, Goes
    <2> QED BY <2>2, FrameForeseen, EmptyList DEF Foresees
<1>2. CASE Enter
    <2> DEFINE calls == << <<"read", Top[2]>>, <<"leave">> >>
               d == depth + 1
    <2>1. Goes("enter") /\ Step(calls, built) /\ depth' = d
        BY <1>2 DEF Enter
    <2>2. Top[1] = "enter" /\ depth # MaxDepth
        BY <2>1 DEF Goes, Refusal
    <2>3. \A c : Foretold(deep, c) => Leads(calls, built, d, deep, c)
        BY <2>2, EnterForeseen
    <2>4. IsList(calls)
        BY Tuples
    <2> HIDE DEF calls, d
    <2> QED BY <2>1, <2>3, <2>4 DEF Foresees
<1>3. CASE Leave
    <2> DEFINE d == Drop(depth)
    <2>1. Step(<<>>, built) /\ depth' = d /\ Top[1] = "leave"
        BY <1>3 DEF Leave, Goes
    <2>2. \A c : Foretold(deep, c) => Leads(<<>>, built, d, deep, c)
        BY <2>1, LeaveForeseen
    <2> HIDE DEF d
    <2> QED BY <2>1, <2>2, EmptyList DEF Foresees
<1> QED BY <1>1, <1>2, <1>3

LEMMA ReadForesees ==
    ASSUME WireInv, ReadSum \/ ReadStructure \/ ReadOption \/ ReadCount, NEW deep
    PROVE  Foresees(deep)
<1> DEFINE T == Top[2]
           values == Append(built, <<"list", <<>>>>)
<1>1. depth' = depth /\ Top[1] = "read" /\ Goes("read")
    BY DEF ReadSum, ReadStructure, ReadOption, ReadCount, Goes
<1>2. ASSUME NEW calls, IsList(calls), NEW stack, Step(calls, stack),
             \A c : Foretold(deep, c) => Leads(calls, stack, depth, deep, c)
      PROVE  Foresees(deep)
    BY <1>1, <1>2 DEF Foresees
<1>3. CASE ReadSum
    <2> DEFINE calls == Produce(Sums[T][Number + 1])
    <2>1. T \in DOMAIN Sums /\ Step(calls, built)
        BY <1>3 DEF ReadSum
    <2>2. Number + 1 \in 1..Len(Sums[T])
        BY <1>1, <2>1, ReadBytes
    <2>3. IsList(calls)
        BY <2>1, <2>2, ProduceIsList
    <2>4. \A c : Foretold(deep, c) => Leads(calls, built, depth, deep, c)
        BY <1>1, <2>1, SumForeseen
    <2> HIDE DEF calls
    <2> QED BY <1>2, <2>1, <2>3, <2>4
<1>4. CASE ReadStructure
    <2> DEFINE calls == Produce(Structures[T])
    <2>1. T \in DOMAIN Structures /\ Step(calls, built)
        BY <1>4 DEF ReadStructure
    <2>2. IsList(calls)
        BY <2>1, ProduceIsList
    <2>3. \A c : Foretold(deep, c) => Leads(calls, built, depth, deep, c)
        BY <1>1, <2>1, StructureForeseen
    <2> HIDE DEF calls
    <2> QED BY <1>2, <2>1, <2>2, <2>3
<1>5. CASE ReadOption
    <2> DEFINE X == Read(Optional[T])
               calls == IF Number = 1 THEN <<X, <<"keep">>>> ELSE <<>>
    <2>1. T \in DOMAIN Optional /\ Step(calls, values)
        BY <1>5 DEF ReadOption
    <2>2. \A c : Foretold(deep, c) => Leads(calls, values, depth, deep, c)
        BY <1>1, <2>1, OptionForeseen
    <2>3. IsList(calls)
        <3> HIDE DEF X
        <3> QED BY Tuples, EmptyList
    <2> HIDE DEF calls, values
    <2> QED BY <1>2, <2>1, <2>2, <2>3
<1>6. CASE ReadCount
    <2> DEFINE call == <<"repeat", Listed[T], Number>>
               calls == <<call>>
    <2>1. T \in DOMAIN Listed /\ Step(calls, values)
        BY <1>6 DEF ReadCount
    <2>2. \A c : Foretold(deep, c) => Leads(calls, values, depth, deep, c)
        BY <1>1, <2>1, CountForeseen
    <2>3. IsList(calls)
        <3> HIDE DEF call
        <3> QED BY Singleton
    <2> HIDE DEF calls, values
    <2> QED BY <1>2, <2>1, <2>2, <2>3
<1> QED BY <1>3, <1>4, <1>5, <1>6

LEMMA BuildForesees ==
    ASSUME Repeat \/ Keep \/ ReadBool \/ ReadWord \/ ReadLength \/ ReadText \/ Node, NEW deep
    PROVE  Foresees(deep)
<1>1. depth' = depth
    BY DEF Repeat, Keep, ReadBool, ReadWord, ReadLength, ReadText, Node
<1>2. ASSUME NEW calls, IsList(calls), NEW stack, Step(calls, stack),
             \A c : Foretold(deep, c) => Leads(calls, stack, depth, deep, c)
      PROVE  Foresees(deep)
    BY <1>1, <1>2 DEF Foresees
<1>3. CASE Repeat
    <2> DEFINE X == Read(Top[2])
               next == <<"repeat", Top[2], Top[3] - 1>>
               calls == IF Top[3] = 0 THEN <<>> ELSE <<X, <<"keep">>, next>>
    <2>1. Top[1] = "repeat" /\ Step(calls, built)
        BY <1>3 DEF Repeat, Goes
    <2>2. \A c : Foretold(deep, c) => Leads(calls, built, depth, deep, c)
        BY <2>1, RepeatForeseen
    <2>3. IsList(calls)
        <3> HIDE DEF X, next
        <3> QED BY Tuples, EmptyList
    <2> HIDE DEF calls
    <2> QED BY <1>2, <2>1, <2>2, <2>3
<1>4. CASE Keep
    <2>1. Top[1] = "keep" /\ Step(<<>>, Kept(built))
        BY <1>4 DEF Keep, Kept, Goes
    <2>2. \A c : Foretold(deep, c) => Leads(<<>>, Kept(built), depth, deep, c)
        BY <2>1, BuildForeseen
    <2> QED BY <1>2, <2>1, <2>2, EmptyList
<1>5. CASE Node
    <2>1. Top[1] = "node" /\ Step(<<>>, Bound(built, Top[2], Top[3]))
        BY <1>5 DEF Node, Bound, Goes
    <2>2. \A c : Foretold(deep, c) =>
              Leads(<<>>, Bound(built, Top[2], Top[3]), depth, deep, c)
        BY <2>1, BuildForeseen
    <2> QED BY <1>2, <2>1, <2>2, EmptyList
<1>6. CASE ReadText
    <2>1. Top[1] = "text" /\ Step(<<>>, Append(built, <<"text", Taken>>))
        BY <1>6 DEF ReadText, Goes
    <2>2. \A c : Foretold(deep, c) =>
              Leads(<<>>, Append(built, <<"text", Taken>>), depth, deep, c)
        BY <2>1, BuildForeseen
    <2> QED BY <1>2, <2>1, <2>2, EmptyList
<1>7. CASE ReadBool
    <2> DEFINE stack == Append(built, <<"bool", Number = 1>>)
    <2>1. Top[1] = "read" /\ Top[2] = "bool" /\ Step(<<>>, stack)
        BY <1>7 DEF ReadBool, Goes
    <2>2. \A c : Foretold(deep, c) => Leads(<<>>, stack, depth, deep, c)
        BY <2>1, ScalarForeseen
    <2> HIDE DEF stack
    <2> QED BY <1>2, <2>1, <2>2, EmptyList
<1>8. CASE ReadWord
    <2> DEFINE stack == Append(built, <<"word", Number>>)
    <2>1. Top[1] = "read" /\ Top[2] = "word" /\ Step(<<>>, stack)
        BY <1>8 DEF ReadWord, Goes
    <2>2. \A c : Foretold(deep, c) => Leads(<<>>, stack, depth, deep, c)
        BY <2>1, ScalarForeseen
    <2> HIDE DEF stack
    <2> QED BY <1>2, <2>1, <2>2, EmptyList
<1>9. CASE ReadLength
    <2> DEFINE call == <<"text", Number>>
               calls == <<call>>
    <2>1. Top[1] = "read" /\ Top[2] = "str" /\ Step(calls, built)
        BY <1>9 DEF ReadLength, Goes
    <2>2. \A c : Foretold(deep, c) => Leads(calls, built, depth, deep, c)
        BY <2>1, LengthForeseen
    <2>3. IsList(calls)
        <3> HIDE DEF call
        <3> QED BY Singleton
    <2> HIDE DEF calls
    <2> QED BY <1>2, <2>1, <2>2, <2>3
<1> QED BY <1>3, <1>4, <1>5, <1>6, <1>7, <1>8, <1>9

\* What is foretold is not refused, but for its depth.
LEMMA RefusedTooDeep ==
    ASSUME NEW deep, NEW c, Foretold(deep, c), Refusal # "none"
    PROVE  Refusal = "TooDeep" /\ deep = 1
<1>1. Top \in Items
    BY ForetoldAt
<1>2. CASE Top[1] = "enter" /\ depth = MaxDepth
    BY <1>2, EnterForeseen DEF Refusal
<1>3. CASE ~(Top[1] = "enter" /\ depth = MaxDepth)
    <2>1. Allowed
        <3>1. CASE Top[1] = "enter"
            BY <1>3, <3>1, EnterForeseen
        <3>2. CASE Top[1] = "read"
            <4>1. Top[2] \in Types
                BY <1>1, <3>2, ItemShape
            <4>2. \/ Top[2] \in DOMAIN Sums \/ Top[2] \in DOMAIN Structures
                  \/ Top[2] \in DOMAIN Optional \/ Top[2] \in DOMAIN Listed
                  \/ Top[2] = "bool" \/ Top[2] = "word" \/ Top[2] = "str"
                BY <4>1 DEF Types
            <4>3. CASE Top[2] \in DOMAIN Sums
                BY <3>2, <4>3, SumForeseen
            <4>4. CASE Top[2] \in DOMAIN Structures
                BY <3>2, <4>4, StructureForeseen
            <4>5. CASE Top[2] \in DOMAIN Optional
                BY <3>2, <4>5, OptionForeseen
            <4>6. CASE Top[2] \in DOMAIN Listed
                BY <3>2, <4>6, CountForeseen
            <4>7. CASE Top[2] \in {"bool", "word"}
                BY <3>2, <4>7, ScalarForeseen
            <4>8. CASE Top[2] = "str"
                BY <3>2, <4>8, LengthForeseen
            <4> QED BY <4>2, <4>3, <4>4, <4>5, <4>6, <4>7, <4>8
        <3>3. CASE Top[1] \in {"magic", "version", "end"}
            BY <3>3, FrameForeseen
        <3>4. CASE Top[1] \in {"keep", "node", "text"}
            BY <3>4, BuildForeseen
        <3>5. CASE Top[1] = "leave"
            BY <3>5, LeaveForeseen
        <3>6. CASE Top[1] = "repeat"
            BY <3>6, RepeatForeseen
        <3>7. Top[1] \in {"magic", "version", "end", "keep", "leave", "read", "enter",
                          "text", "repeat", "node"}
            BY <1>1 DEF Items
        <3> QED BY <3>1, <3>2, <3>3, <3>4, <3>5, <3>6, <3>7
    <2> QED BY <1>3, <2>1 DEF Allowed, Refusal
<1> QED BY <1>2, <1>3

\* The next of the calls that lead to f is foretold.
LEMMA NextForetold ==
    ASSUME WireInv, out = "running", todo # <<>>, Len(input) <= UsizeMax, NEW deep, NEW f,
           Follows("sent", kind, todo, Here(deep), f)
    PROVE  \E c : Foretold(deep, c) /\ Follows("sent", kind, Rest, c, f)
<1>1. todo \in Seq(Items)
    BY DEF WireInv, WireTypeOK
<1> DEFINE a == Here(deep)
<1> HIDE DEF a
<1>2. Follows("sent", kind, todo, a, f)
    BY DEF a
<1>3. PICK c : Answered("sent", kind, todo[1], a, c) /\ Follows("sent", kind, Tail(todo), c, f)
    BY <1>1, <1>2, FollowsNext
<1>4. Foretells(kind, Top, a, c)
    BY <1>3 DEF Answered, Top
<1> QED BY <1>3, <1>4 DEF Foretold, Rest, a

LEMMA StepForeseen ==
    ASSUME WireInv, out = "running", todo # <<>>, Len(input) <= UsizeMax, NEW deep, NEW f,
           Follows("sent", kind, todo, Here(deep), f), Foresees(deep)
    PROVE  out' = "running" /\ Follows("sent", kind, todo', Here(deep)', f)
<1>1. PICK calls, values, d :
          /\ IsList(calls) /\ Step(calls, values) /\ depth' = d
          /\ \A c : Foretold(deep, c) => Leads(calls, values, d, deep, c)
    BY DEF Foresees
<1>2. PICK c : Foretold(deep, c) /\ Follows("sent", kind, Rest, c, f)
    BY NextForetold
<1>3. Follows("sent", kind, calls, Then(values, d, deep), c)
    BY <1>1, <1>2 DEF Leads
<1>4. /\ todo' = calls \o Rest /\ built' = values /\ input' = input /\ pos' = pos + Width
      /\ out' = "running"
    BY <1>1 DEF Step
<1>5. IsList(Rest)
    <2>1. todo \in Seq(Items)
        BY DEF WireInv, WireTypeOK
    <2>2. IsList(todo) /\ Len(todo) \in Nat \ {0}
        BY <2>1, SeqIsList, EmptySeq
    <2> QED BY <2>2, ListTail DEF Rest
<1> DEFINE a == Then(values, d, deep)
<1> HIDE DEF a
<1>6. Follows("sent", kind, calls \o Rest, a, f)
    BY <1>1, <1>2, <1>3, <1>5, FollowsConcat DEF a
<1>7. Here(deep)' = a
    BY <1>1, <1>4 DEF Here, Then, ToCome, a
<1> QED BY <1>4, <1>6, <1>7

\* What is sent, as it is before any of it is read.
LEMMA StreamForetold ==
    ASSUME NEW k \in Kinds, NEW T, T = Root[k], NEW v, <<T, v>> \in Values, NEW deep \in {0, 1},
           deep = 1 <=> Nesting(v, T) > MaxDepth
    PROVE  Follows("sent", k, << <<"magic">>, <<"version">>, Read(T), <<"end">> >>,
                   At(<<>>, ToWire(k, v), 0, deep),
                   At(<< <<"node", Received(v, T)>> >>, <<>>, 0, 0))
<1> DEFINE g == Magic[k]
           body == Encoded(v, T)
           none == <<>>
           first == <<g>>
           second == <<Version>>
           rest == second \o body
           all == first \o rest
           top == << <<"node", Received(v, T)>> >>
<1>1. body \in Seq(Byte) /\ Nesting(v, T) \in Nat
    BY ValueFacts
<1>2. first \in Seq(Byte) /\ second \in Seq(Byte) /\ none \in Seq(Byte)
    <2>1. \A n \in Kinds : Magic[n] \in Byte
        BY DEF Kinds, Magic, Byte
    <2>2. g \in Byte /\ Version \in Byte
        BY <2>1 DEF Version, Byte
    <2> HIDE DEF g
    <2> QED BY <2>2
<1> HIDE DEF g, body
<1>3. ToWire(k, v) = all
    <2>1. <<g>> \o <<Version>> = <<g, Version>>
        BY TuplesJoined
    <2> HIDE DEF first, second
    <2>2. (first \o second) \o body = first \o (second \o body)
        BY <1>1, <1>2, Regrouped
    <2>3. first \o second = <<g, Version>>
        BY <2>1 DEF first, second
    <2> QED BY <2>2, <2>3 DEF ToWire, g, body
<1>4. rest \in Seq(Byte) /\ all \in Seq(Byte) /\ body \o none = body
    <2> HIDE DEF first, second, rest
    <2>1. rest \in Seq(Byte)
        BY <1>1, <1>2, Strings DEF rest
    <2>2. first \o rest \in Seq(Byte)
        BY <1>2, <2>1, Strings
    <2>3. body \o <<>> = body
        BY <1>1, Strings
    <2> QED BY <2>1, <2>2, <2>3
<1>5. T \in DOMAIN Sums \cup DOMAIN Structures
    BY DEF Root, Kinds, Sums, Structures
<1>6. KindOf(T) = "node"
    BY <1>5, Classes DEF KindOf, Scalars
<1>7. Atop(none, T, Received(v, T)) = top
    BY <1>6 DEF Atop
<1>8. IsList(none) /\ IsList(top) /\ 0 \in 0..MaxDepth /\ 0 \in {0, 1}
    <2> DEFINE x == <<"node", Received(v, T)>>
    <2> HIDE DEF x
    <2>1. IsList(<<x>>)
        BY Singleton
    <2> QED BY <2>1, EmptyList, WireAssumption DEF x
<1> DEFINE magic == <<"magic">>
           version == <<"version">>
           call == Read(T)
           end == <<"end">>
           a == At(none, all, 0, deep)
           b == At(none, rest, 0, deep)
           c == At(none, body, 0, deep)
           d == At(top, none, 0, 0)
<1> HIDE DEF none, all, rest, top
<1>9. /\ IsAt(a) /\ IsAt(b) /\ IsAt(c) /\ IsAt(d)
    BY <1>1, <1>2, <1>4, <1>8, AtIsAt
<1>10. /\ a.stack = none /\ a.bytes = all /\ a.depth = 0 /\ a.deep = deep
       /\ b.stack = none /\ b.bytes = rest /\ b.depth = 0 /\ b.deep = deep
       /\ c.stack = none /\ c.bytes = body /\ c.depth = 0 /\ c.deep = deep
       /\ d.stack = top /\ d.bytes = none /\ d.depth = 0 /\ d.deep = 0
    BY AtIs
<1>11. Answered("sent", k, call, c, d)
    <2>1. deep = 1 <=> 0 = 1 \/ 0 + Nesting(v, T) > MaxDepth
        BY <1>1
    <2>2. Answered("sent", k, Read(T), At(none, Encoded(v, T) \o none, 0, deep),
                   At(Atop(none, T, Received(v, T)), none, 0, 0))
        BY <1>2, <1>8, <2>1, ReadTold
    <2> QED BY <1>4, <1>7, <2>2 DEF body
<1> HIDE DEF a, b, c, d, call
<1>12. Answered("sent", k, magic, a, b)
    <2>1. magic[1] = "magic"
        OBVIOUS
    <2> HIDE DEF magic
    <2>2. a.bytes = <<Magic[k]>> \o b.bytes /\ b.stack = a.stack
        BY <1>10 DEF all, g
    <2>3. Foretells(k, magic, a, b)
        BY <1>9, <1>10, <2>1, <2>2 DEF Foretells
    <2> QED BY <2>3 DEF Answered
<1>13. Answered("sent", k, version, b, c)
    <2>1. version[1] = "version"
        OBVIOUS
    <2> HIDE DEF version
    <2>2. b.bytes = <<Version>> \o c.bytes /\ c.stack = b.stack
        BY <1>10 DEF rest
    <2>3. Foretells(k, version, b, c)
        BY <1>9, <1>10, <2>1, <2>2 DEF Foretells
    <2> QED BY <2>3 DEF Answered
<1>14. Answered("sent", k, end, d, d)
    <2>1. end[1] = "end"
        OBVIOUS
    <2> HIDE DEF end
    <2>2. Foretells(k, end, d, d)
        BY <1>9, <1>10, <2>1 DEF Foretells, none
    <2> QED BY <2>2 DEF Answered
<1> HIDE DEF magic, version, end
<1>15. Follows("sent", k, <<magic, version, call, end>>, a, d)
    <2> DEFINE x == <<magic, version>>
               y == <<call, end>>
    <2>1. IsList(x) /\ IsList(y) /\ x \o y = <<magic, version, call, end>>
        BY Tuples, TuplesJoined
    <2>2. Follows("sent", k, x, a, c) /\ Follows("sent", k, y, c, d)
        BY <1>11, <1>12, <1>13, <1>14, FollowsTwo
    <2>3. Follows("sent", k, x \o y, a, d)
        <3> HIDE DEF x, y
        <3> QED BY <2>1, <2>2, FollowsConcat
    <2> QED BY <2>1, <2>3
<1> QED BY <1>3, <1>15 DEF magic, version, call, end, a, d, none, top

\* A value that is sent to its own decoder, whether it nests too deep, and what
\* the decoder has to end with.
AsSent == stage = "received" /\ intact /\ kind = sent.kind
Deep == IF Nesting(sent.value, Root[kind]) > MaxDepth THEN 1 ELSE 0
End == At(<< <<"node", Received(sent.value, Root[kind])>> >>, <<>>, 0, 0)

\* All along, the calls under way lead there, or the value nests too deep.
Foreseen ==
    /\ out = "idle" => built = <<>>
    /\ AsSent /\ out = "running" => Follows("sent", kind, todo, Here(Deep), End)
    /\ AsSent /\ out = "Ok" => Deep = 0 /\ built = << <<"node", Received(sent.value, Root[kind])>> >>
    /\ AsSent /\ out \in Errors => Deep = 1 /\ out = "TooDeep"

LEMMA DecodeForeseen ==
    ASSUME WireInv, TransferInv, Foreseen, Decode,
           UNCHANGED <<stage, text, meant, sent, carried, intact>>
    PROVE  Foreseen'
<1>1. out # "idle" /\ out' # "idle" /\ kind' = kind /\ input' = input
    <2>1. out # "idle"
        BY DEF Decode, Frame, Enter, Leave, ReadSum, ReadStructure, ReadOption, ReadCount,
               Repeat, Keep, ReadBool, ReadWord, ReadLength, ReadText, Node, Goes,
               Refuse, Unwind, Return, Errors
    <2>2. Refusal # "idle"
        BY DEF Refusal, TakeError, ContentError
    <2>3. out' = out \/ out' = Refusal \/ out' = "Ok"
        BY DEF Decode, Frame, Enter, Leave, ReadSum, ReadStructure, ReadOption, ReadCount,
               Repeat, Keep, ReadBool, ReadWord, ReadLength, ReadText, Node, Step,
               Refuse, Unwind, Return
    <2> QED BY <2>1, <2>2, <2>3, DecodeReads
<1>2. (AsSent' <=> AsSent) /\ Deep' = Deep /\ End' = End
    BY <1>1 DEF AsSent, Deep, End
<1> SUFFICES ASSUME AsSent PROVE Foreseen'
    BY <1>1, <1>2 DEF Foreseen
<1>3. Len(input) <= UsizeMax
    BY TransferAssumption DEF AsSent, TransferInv
<1>4. PICK deep, f, top :
          /\ deep = Deep /\ f = End /\ top = << <<"node", Received(sent.value, Root[kind])>> >>
    OBVIOUS
<1>5. /\ out = "running" => Follows("sent", kind, todo, Here(deep), f)
      /\ out = "Ok" => deep = 0 /\ built = top
      /\ out \in Errors => deep = 1 /\ out = "TooDeep"
      /\ deep = Deep' /\ f = End'
      /\ top = << <<"node", Received(sent'.value, Root[kind'])>> >>
    BY <1>1, <1>2, <1>4 DEF Foreseen
<1>6. CASE \/ Frame \/ Enter \/ Leave
           \/ ReadSum \/ ReadStructure \/ ReadOption \/ ReadCount \/ Repeat \/ Keep
           \/ ReadBool \/ ReadWord \/ ReadLength \/ ReadText \/ Node
    <2>1. out = "running" /\ todo # <<>>
        BY <1>6 DEF Frame, Enter, Leave, ReadSum, ReadStructure, ReadOption, ReadCount,
               Repeat, Keep, ReadBool, ReadWord, ReadLength, ReadText, Node, Goes
    <2>2. Foresees(deep)
        BY <1>6, FrameForesees, ReadForesees, BuildForesees
    <2>3. out' = "running" /\ Follows("sent", kind, todo', Here(deep)', f)
        BY <1>3, <1>5, <2>1, <2>2, StepForeseen
    <2>4. Follows("sent", kind', todo', Here(Deep)', End')
        BY <1>1, <1>5, <2>3 DEF Here
    <2> QED BY <2>3, <2>4 DEF Foreseen, Errors
<1>7. CASE Refuse
    <2>1. out = "running" /\ todo # <<>> /\ Refusal # "none" /\ out' = Refusal
        BY <1>7 DEF Refuse
    <2>2. PICK c : Foretold(deep, c)
        BY <1>3, <1>5, <2>1, NextForetold
    <2>3. out' = "TooDeep" /\ deep = 1
        BY <2>1, <2>2, RefusedTooDeep
    <2> QED BY <1>5, <2>3 DEF Foreseen
<1>8. CASE Unwind
    <2>1. out' = out /\ out \in Errors
        BY <1>8 DEF Unwind
    <2> QED BY <1>5, <2>1 DEF Foreseen, Errors
<1>9. CASE Return
    <2>1. out = "running" /\ todo = <<>> /\ out' = "Ok" /\ built' = built
        BY <1>9 DEF Return
    <2>2. Here(deep) = f
        BY <1>5, <2>1, FollowsNone
    <2>3. built = f.stack /\ deep = f.deep
        BY <2>2, AtIs DEF Here
    <2>4. f.stack = top /\ f.deep = 0
        BY <1>4, AtIs DEF End
    <2> QED BY <1>5, <2>1, <2>3, <2>4 DEF Foreseen, Errors
<1> QED BY <1>6, <1>7, <1>8, <1>9 DEF Decode

LEMMA ReceiveForeseen ==
    ASSUME WireInv, TransferInv, Foreseen, Receive
    PROVE  Foreseen'
<1>1. PICK k \in Kinds : (intact \/ k = sent.kind) /\ Start(k, carried)
    BY DEF Receive
<1> DEFINE T == Root[k]
           v == sent.value
           stream == << <<"magic">>, <<"version">>, Read(T), <<"end">> >>
<1>2. /\ out = "idle" /\ kind' = k /\ input' = carried /\ todo' = stream /\ out' = "running"
      /\ pos' = 0 /\ depth' = 0 /\ built' = <<>>
      /\ sent' = sent /\ intact' = intact /\ stage' = "received" /\ stage = "wire"
    BY <1>1 DEF Start, Receive, WireInv, Foreseen
<1> SUFFICES ASSUME AsSent' PROVE Foreseen'
    BY <1>2 DEF Foreseen, Errors
<1>3. k = sent.kind /\ carried = ToWire(k, v) /\ sent \in Sendable /\ carried \in Seq(Byte)
    BY <1>2 DEF AsSent, TransferInv
<1>4. <<T, v>> \in Values
    BY <1>3, ValuesAssumption
<1>5. PICK deep : deep = Deep'
    OBVIOUS
<1>6. Here(deep)' = At(<<>>, ToWire(k, v), 0, deep)
    <2>1. SubSeq(carried, 1, Len(carried)) = carried
        <3> DEFINE n == Len(carried)
        <3>1. IsList(carried) /\ n \in Int /\ n <= Len(carried) /\ n >= 0
            BY <1>3, SeqIsList, LenProperties
        <3>2. /\ IsList(SubSeq(carried, 1, n)) /\ Len(SubSeq(carried, 1, n)) = n
              /\ \A i \in 1..n : SubSeq(carried, 1, n)[i] = carried[i]
            <4> HIDE DEF n
            <4> QED BY <3>1, ListPrefix
        <3> QED BY <3>1, <3>2, SameList
    <2>2. ToCome(pos)' = carried
        BY <1>2, <2>1 DEF ToCome
    <2> QED BY <1>2, <1>3, <2>2 DEF Here
<1>7. End' = At(<< <<"node", Received(v, T)>> >>, <<>>, 0, 0)
    BY <1>2 DEF End
<1>8. Follows("sent", k, stream, Here(Deep)', End')
    <2>1. deep \in {0, 1} /\ (deep = 1 <=> Nesting(v, T) > MaxDepth)
        BY <1>2, <1>5 DEF Deep
    <2>2. T = Root[k]
        OBVIOUS
    <2>3. Here(Deep)' = At(<<>>, ToWire(k, v), 0, deep)
        BY <1>5, <1>6 DEF Here
    <2> HIDE DEF T, v
    <2>4. Follows("sent", k, stream, At(<<>>, ToWire(k, v), 0, deep),
                  At(<< <<"node", Received(v, T)>> >>, <<>>, 0, 0))
        BY <1>4, <2>1, <2>2, StreamForetold
    <2> QED BY <1>7, <2>3, <2>4
<1> HIDE DEF stream
<1> QED BY <1>2, <1>8 DEF Foreseen, Errors

LEMMA ForeseenKept ==
    WireInv /\ TransferInv /\ Foreseen /\ [TransferNext]_transferVars => Foreseen'
<1> SUFFICES ASSUME WireInv, TransferInv, Foreseen, [TransferNext]_transferVars
             PROVE  Foreseen'
    OBVIOUS
<1>1. CASE Decode /\ UNCHANGED <<stage, text, meant, sent, carried, intact>>
    BY <1>1, DecodeForeseen
<1>2. CASE Receive
    BY <1>2, ReceiveForeseen
<1>3. CASE Parse \/ Send \/ Damage
    <2>1. stage' # "received" /\ out' = out /\ built' = built
        BY <1>3 DEF Parse, Send, Damage, wireVars
    <2> QED BY <2>1 DEF Foreseen, AsSent
<1>4. CASE UNCHANGED transferVars
    BY <1>4 DEF transferVars, wireVars, Foreseen, AsSent, Deep, End, Here, ToCome
<1> QED BY <1>1, <1>2, <1>3, <1>4 DEF TransferNext

\* Every value that is sent and arrives intact at its own decoder is returned as
\* it was but for its verbs, and TooDeep is the answer if, and only if, it nests
\* deeper than MaxDepth (OnlyVerbIsLost; wire.rs:37, 972-974).
THEOREM AllButTheVerbArrives == TransferSpec => []OnlyVerbIsLost
<1>1. TransferInit => Foreseen
    BY DEF TransferInit, WireInit, FromText, FromTree, Foreseen, AsSent, Errors
<1>2. TransferInv /\ Foreseen => OnlyVerbIsLost
    <2> SUFFICES ASSUME TransferInv, Foreseen, stage = "received", Done, intact,
                        kind = sent.kind
                 PROVE  IF Nesting(sent.value, Root[kind]) <= MaxDepth
                        THEN Arrived(Received(sent.value, Root[kind]))
                        ELSE out = "TooDeep"
        BY DEF OnlyVerbIsLost
    <2>1. AsSent /\ (out = "Ok" \/ out \in Errors) /\ "Ok" \notin Errors
        BY DEF AsSent, Done, Errors
    <2>2. Nesting(sent.value, Root[kind]) \in Nat /\ MaxDepth \in Nat
        <3>1. sent \in Sendable
            BY DEF TransferInv
        <3>2. <<Root[kind], sent.value>> \in Values
            BY <3>1, ValuesAssumption
        <3> QED BY <3>2, ValueFacts, WireAssumption
    <2> DEFINE n == Nesting(sent.value, Root[kind])
    <2>3. Deep = IF n > MaxDepth THEN 1 ELSE 0
        BY DEF Deep
    <2> HIDE DEF n
    <2>4. CASE out = "Ok"
        <3>1. Deep = 0 /\ built = << <<"node", Received(sent.value, Root[kind])>> >>
            BY <2>1, <2>4 DEF Foreseen
        <3>2. n <= MaxDepth
            BY <2>2, <2>3, <3>1 DEF n
        <3> QED BY <2>4, <3>1, <3>2 DEF Arrived, n
    <2>5. CASE out \in Errors
        <3>1. Deep = 1 /\ out = "TooDeep"
            BY <2>1, <2>5 DEF Foreseen
        <3>2. ~(n <= MaxDepth)
            BY <2>2, <2>3, <3>1 DEF n
        <3> QED BY <3>1, <3>2 DEF n
    <2> QED BY <2>1, <2>4, <2>5
<1>3. TransferSpec => []WireInv
    <2>1. WireInit => WireInv
        BY WireInitInv
    <2> QED BY <2>1, WireInvKept, TransferDecodes, PTL DEF WireSpec
<1> QED
    BY <1>1, <1>2, <1>3, ForeseenKept, TransferInitInv, TransferInvKept, PTL DEF TransferSpec
=============================================================================
