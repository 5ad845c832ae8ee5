----------------------------- MODULE Induction -----------------------------
(***************************************************************************)
(* Induction over the natural numbers with a set in place of a predicate,  *)
(* and the function that a recursion over them defines.                    *)
(***************************************************************************)
EXTENDS Naturals, WellFoundedInduction, TLAPS

\* A set that holds 0 and the successor of each of its numbers holds them all:
\* otherwise there would be a least number outside it.
LEMMA SetInduction ==
    ASSUME NEW T, 0 \in T, \A n \in Nat : n \in T => n + 1 \in T
    PROVE  \A n \in Nat : n \in T
<1> SUFFICES ASSUME NEW k \in Nat, k \notin T PROVE FALSE
    OBVIOUS
<1> DEFINE Missing == {n \in Nat : n \notin T}
           Below == {p \in Nat \X Nat : p[1] < p[2]}
<1>1. IsWellFoundedOn(Below, Nat)
    BY NatLessThanWellFounded DEF OpToRel
<1>2. PICK m \in Missing : \A n \in Missing : <<n, m>> \notin Below
    <2>1. Missing \subseteq Nat /\ Missing # {}
        OBVIOUS
    <2> HIDE DEF Missing, Below
    <2> QED BY <1>1, <2>1, WFMin
<1>3. m # 0 /\ m \in Nat /\ m \notin T
    BY <1>2
<1>4. m - 1 \in Nat /\ <<m - 1, m>> \in Below
    BY <1>3
<1>5. m - 1 \in T
    BY <1>2, <1>4
<1> QED BY <1>3, <1>4, <1>5

\* A step that may look at the number reached, and a sequence it leads to.
IsStep(step, T) == step \in [Nat \X T -> T]

Recurs(f, base, step, T) ==
    /\ f \in [Nat -> T]
    /\ f[0] = base
    /\ \A n \in Nat : f[n + 1] = step[<<n, f[n]>>]

\* A recursion has a solution.
LEMMA RecursionDefines ==
    ASSUME NEW T, NEW base \in T, NEW step, IsStep(step, T)
    PROVE  \E f : Recurs(f, base, step, T)
<1> USE DEF IsStep
<1> DEFINE Solves(g, n) ==
        /\ g \in [Nat -> T]
        /\ g[0] = base
        /\ \A i \in Nat : i < n => g[i + 1] = step[<<i, g[i]>>]
<1>1. \A n \in Nat : \E g : Solves(g, n)
    <2> DEFINE Reached == {n \in Nat : \E g : Solves(g, n)}
    <2>1. 0 \in Reached
        <3>1. Solves([i \in Nat |-> base], 0)
            OBVIOUS
        <3> QED BY <3>1
    <2>2. ASSUME NEW n \in Nat, n \in Reached PROVE n + 1 \in Reached
        <3>1. PICK g : Solves(g, n)
            BY <2>2
        <3> DEFINE h == [g EXCEPT ![n + 1] = step[<<n, g[n]>>]]
        <3>2. h \in [Nat -> T] /\ h[0] = base
            BY <3>1
        <3>3. \A i \in Nat : i <= n => h[i] = g[i]
            BY <3>1
        <3>4. h[n + 1] = step[<<n, g[n]>>]
            BY <3>1
        <3>5. ASSUME NEW i \in Nat, i < n + 1 PROVE h[i + 1] = step[<<i, h[i]>>]
            <4>1. CASE i < n
                <5>1. i + 1 <= n /\ h[i + 1] = g[i + 1] /\ h[i] = g[i]
                    BY <3>3, <4>1
                <5> QED BY <3>1, <4>1, <5>1
            <4>2. CASE i = n
                BY <3>3, <3>4, <4>2
            <4> QED BY <3>5, <4>1, <4>2
        <3> HIDE DEF h
        <3>6. Solves(h, n + 1)
            BY <3>2, <3>5
        <3> QED BY <3>6
    <2> HIDE DEF Reached
    <2>3. \A n \in Nat : n \in Reached
        BY <2>1, <2>2, SetInduction
    <2> QED BY <2>3 DEF Reached
<1>2. ASSUME NEW n \in Nat, NEW g, NEW h, Solves(g, n), Solves(h, n)
      PROVE  g[n] = h[n]
    <2> DEFINE Agree == {i \in Nat : i <= n => g[i] = h[i]}
    <2>1. 0 \in Agree
        BY <1>2
    <2>2. ASSUME NEW i \in Nat, i \in Agree PROVE i + 1 \in Agree
        <3> SUFFICES ASSUME i + 1 <= n PROVE g[i + 1] = h[i + 1]
            OBVIOUS
        <3>1. i < n /\ g[i] = h[i]
            BY <2>2
        <3>2. g[i + 1] = step[<<i, g[i]>>] /\ h[i + 1] = step[<<i, h[i]>>]
            BY <1>2, <3>1
        <3> QED BY <3>1, <3>2
    <2> HIDE DEF Agree
    <2>3. \A i \in Nat : i \in Agree
        BY <2>1, <2>2, SetInduction
    <2> QED BY <2>3 DEF Agree
<1> DEFINE Solution(n) == CHOOSE g : Solves(g, n)
<1>3. ASSUME NEW n \in Nat PROVE Solves(Solution(n), n)
    <2>1. \E g : Solves(g, n)
        BY <1>1
    <2> HIDE DEF Solves
    <2> QED BY <2>1
<1> HIDE DEF Solution
<1> DEFINE f == [n \in Nat |-> Solution(n)[n]]
<1>4. f \in [Nat -> T] /\ f[0] = base
    BY <1>3
<1>5. ASSUME NEW n \in Nat PROVE f[n + 1] = step[<<n, f[n]>>]
    <2>1. Solves(Solution(n + 1), n + 1) /\ Solves(Solution(n), n)
        BY <1>3
    <2>2. Solution(n + 1)[n + 1] = step[<<n, Solution(n + 1)[n]>>]
        BY <2>1
    <2>3. Solution(n + 1)[n] = Solution(n)[n]
        <3>1. Solves(Solution(n + 1), n)
            BY <2>1
        <3> HIDE DEF Solves
        <3> QED BY <1>2, <2>1, <3>1
    <2> QED BY <2>2, <2>3
<1> HIDE DEF f
<1> QED BY <1>4, <1>5 DEF Recurs
=============================================================================
