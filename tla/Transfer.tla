------------------------------ MODULE Transfer ------------------------------
(***************************************************************************)
(* An operation on its way to the certifier: its text is parsed, the tree  *)
(* encoded, the bytes carried over the seam, and decoded.  The seam is not *)
(* part of the repository: it may hand the bytes to any of the three       *)
(* decoders, and may change, drop or add some.                             *)
(***************************************************************************)
EXTENDS WireEncode

CONSTANTS
    Texts,         \* [text, meant]: token sequences, and the tree each stands for
    Trees,         \* [kind, value]: trees that are encoded without a text
    Answer(_),     \* what parse_op answers to a text: whether it is ok, and the tree
    Damaged(_),    \* the bytes that a damaged byte string may become
    Encoded(_, _), \* the bytes that are written for a value of a type
    Received(_, _), \* the value without its verbs
    Nesting(_, _),  \* the guarded nodes on the longest path down the value
    Within(_, _)    \* a value and everything in it, each with its type

NoTree == <<>>

\* to_wire, to_wire_op, to_wire_schema.
ToWire(k, v) == <<Magic[k], Version>> \o Encoded(v, Root[k])

\* All that may be sent: the trees that are given, and those that are parsed.
Sendable ==
    Trees \cup {[kind |-> "VCLT", value |-> Answer(t.text).value] :
                   t \in {t \in Texts : Answer(t.text).ok}}

\* All values in them.
Values == UNION {Within(s.value, Root[s.kind]) : s \in Sendable}

\* An encoder writes bytes, as many as a slice can hold, and the seam carries
\* nothing else.
ASSUME TransferAssumption ==
    \A s \in Sendable :
        /\ s.kind \in Kinds
        /\ Encoded(s.value, Root[s.kind]) \in Seq(Byte)
        /\ Len(ToWire(s.kind, s.value)) <= UsizeMax
        /\ Damaged(ToWire(s.kind, s.value)) \subseteq Seq(Byte)

\* The equations of the three walks.
Writes(v, T) ==
    LET parts == Payload(v, T) IN
        Encoded(v, T) =
            Header(v, T) \o Joined([i \in DOMAIN parts |-> Encoded(parts[i][2], parts[i][1])])

Forgets(v, T) ==
    LET parts == Payload(v, T)
        received == [i \in DOMAIN parts |-> Received(parts[i][2], parts[i][1])]
    IN Received(v, T) =
           CASE T = "Verb" -> DecVerb
             [] T \in DOMAIN Optional \cup DOMAIN Listed -> received
             [] T \in DOMAIN Tags \cup (DOMAIN Fields \ {"Verb"}) -> <<v[1]>> \o received
             [] OTHER -> v

Nests(v, T) ==
    LET parts == Payload(v, T)
        below == {0} \cup {Nesting(parts[i][2], parts[i][1]) : i \in DOMAIN parts}
        guard == IF T \in Guarded THEN 1 ELSE 0
    IN \E n \in below : (\A m \in below : m <= n) /\ Nesting(v, T) = n + guard

ASSUME ValuesAssumption ==
    /\ \A s \in Sendable : <<Root[s.kind], s.value>> \in Values
    /\ \A x \in Values : LET T == x[1]  v == x[2] IN
           /\ IsValue(v, T)
           /\ \A i \in DOMAIN Payload(v, T) : Payload(v, T)[i] \in Values
           /\ Encoded(v, T) \in Seq(Byte) /\ Nesting(v, T) \in Nat
           /\ Writes(v, T) /\ Forgets(v, T) /\ Nests(v, T)

VARIABLES
    stage,    \* "text", "refused", "tree", "wire" or "received"
    text,     \* the tokens, if there was a text
    meant,    \* the operation they were written for, or NoTree
    sent,     \* the tree to be sent, and the stream it goes by
    carried,  \* the bytes on the seam
    intact    \* whether they are those that were sent

transferVars == <<stage, text, meant, sent, carried, intact, wireVars>>

FromText ==
    /\ stage = "text"
    /\ \E t \in Texts : text = t.text /\ meant = t.meant
    /\ sent = [kind |-> "VCLT", value |-> NoTree]

FromTree ==
    /\ stage = "tree"
    /\ text = <<>> /\ meant = NoTree
    /\ sent \in Trees

TransferInit ==
    /\ WireInit /\ kind = "VCLW"
    /\ FromText \/ FromTree
    /\ carried = <<>> /\ intact = TRUE

\* parse_op.
Parse ==
    /\ stage = "text"
    /\ LET answer == Answer(text) IN
           /\ stage' = IF answer.ok THEN "tree" ELSE "refused"
           /\ sent' = IF answer.ok THEN [sent EXCEPT !.value = answer.value] ELSE sent
    /\ UNCHANGED <<text, meant, carried, intact, wireVars>>

Send ==
    /\ stage = "tree"
    /\ carried' = ToWire(sent.kind, sent.value)
    /\ stage' = "wire"
    /\ UNCHANGED <<text, meant, sent, intact, wireVars>>

Damage ==
    /\ stage = "wire" /\ intact
    /\ carried' \in Damaged(carried)
    /\ intact' = FALSE
    /\ UNCHANGED <<stage, text, meant, sent, wireVars>>

Receive ==
    /\ stage = "wire"
    /\ \E k \in Kinds : (intact \/ k = sent.kind) /\ Start(k, carried)
    /\ stage' = "received"
    /\ UNCHANGED <<text, meant, sent, carried, intact>>

TransferNext ==
    \/ Parse \/ Send \/ Damage \/ Receive
    \/ Decode /\ UNCHANGED <<stage, text, meant, sent, carried, intact>>

\* One process parses, encodes and decodes and waits for nobody; that bytes
\* are handed over at all is up to the seam.
TransferSpec ==
    /\ TransferInit /\ [][TransferNext]_transferVars
    /\ WF_<<todo, out>>(Decode /\ UNCHANGED <<stage, text, meant, sent, carried, intact>>)

-----------------------------------------------------------------------------
(* Properties.                                                             *)

Arrived(v) == stage = "received" /\ Done /\ out = "Ok" /\ built = <<<<"node", v>>>>

\* A stream given to another decoder than its own is refused at its first
\* bytes, never parsed as something else (wire.rs:18-24).
MixUpRefused ==
    stage = "received" /\ Done /\ intact /\ kind # sent.kind =>
        out = "BadMagic"

\* Whatever is sent intact arrives as it was but for its verbs, unless it is
\* nested deeper than the decoder goes: then, and only then, the answer is
\* TooDeep.  The parser's limit is another and the encoder has none (wire.rs:37;
\* of the verb, wire.rs:972-974).
OnlyVerbIsLost ==
    stage = "received" /\ Done /\ intact /\ kind = sent.kind =>
        IF Nesting(sent.value, Root[kind]) <= MaxDepth
        THEN Arrived(Received(sent.value, Root[kind]))
        ELSE out = "TooDeep"

\* "Exactly one byte string per value": what the decoder accepts, damaged or
\* not, is what the encoder writes for the value it returns.
Canonical == Done /\ out = "Ok" => ToWire(kind, built[1][2]) = input

\* from_wire is total: every call ends with a value or a WireError.
DecoderReturns == (stage = "received") ~> Done

\* "from_wire(to_wire(s)) == s for every Statement" (WIRE-FORMAT.adoc, the
\* totality contract).
RoundTrip ==
    stage = "received" /\ Done /\ intact /\ kind = sent.kind => Arrived(sent.value)
=============================================================================
