----------------------------- MODULE TreeWalks -----------------------------
(***************************************************************************)
(* The walks over trees that Transfer knows by their equations.            *)
(***************************************************************************)
EXTENDS WireEncode

RECURSIVE Put(_, _), PutAll(_), Forget(_, _), ForgetAll(_), Deepest(_, _), Inside(_, _)

\* The enc_ functions, one for each type.
Put(v, T) == Header(v, T) \o PutAll(Payload(v, T))

PutAll(parts) ==
    IF parts = <<>> THEN <<>> ELSE Put(parts[1][2], parts[1][1]) \o PutAll(Tail(parts))

\* What a value is once its verbs are forgotten.
Forget(v, T) ==
    CASE T = "Verb" -> DecVerb
      [] T \in DOMAIN Optional \cup DOMAIN Listed -> ForgetAll(Payload(v, T))
      [] T \in DOMAIN Tags \cup (DOMAIN Fields \ {"Verb"}) -> <<v[1]>> \o ForgetAll(Payload(v, T))
      [] OTHER -> v

ForgetAll(parts) ==
    IF parts = <<>> THEN <<>> ELSE <<Forget(parts[1][2], parts[1][1])>> \o ForgetAll(Tail(parts))

\* The guarded nodes on the longest path down a value.
Deepest(v, T) ==
    LET parts == Payload(v, T)
        below == {0} \cup {Deepest(parts[i][2], parts[i][1]) : i \in DOMAIN parts}
    IN (CHOOSE n \in below : \A m \in below : m <= n) + (IF T \in Guarded THEN 1 ELSE 0)

\* A value and everything in it, each with its type.
Inside(v, T) ==
    LET parts == Payload(v, T) IN
        {<<T, v>>} \cup UNION {Inside(parts[i][2], parts[i][1]) : i \in DOMAIN parts}
=============================================================================
