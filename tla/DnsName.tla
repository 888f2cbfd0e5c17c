------------------------------- MODULE DnsName -------------------------------
(***************************************************************************)
(* The walk of the DNS detector over the labels of the first question      *)
(* (extract_dns_query_name in src/ids/dns.rs), on bytes from the wire.     *)
(* `payload` is the message behind its 12 bytes of header, of which only   *)
(* the question count matters; pos is 0 at its first byte.                 *)
(***************************************************************************)
EXTENDS Integers, Sequences

CONSTANTS
    Bytes,           \* the bytes a message is made of
    MaxMessage       \* bound: bytes behind the header

ASSUME DnsAssumption == Bytes \subseteq 0..255 /\ MaxMessage \in Nat

VARIABLES
    payload,    \* the message behind its header
    question,   \* qdcount is not zero, in a header that is there
    pos, labels,
    walk        \* "walking", "none" or "name"

dnsVars == <<payload, question, pos, labels, walk>>

Messages == UNION {[1..n -> Bytes] : n \in 0..MaxMessage}

DnsInit ==
    /\ payload \in Messages
    /\ question \in BOOLEAN
    /\ pos = 0
    /\ labels = <<>>
    /\ walk = IF question THEN "walking" ELSE "none"

LenAt == payload[pos + 1]
\* A byte of zero, or the two high bits of a compression pointer.
EndsName(len) == len = 0 \/ len >= 192
AtEnd == pos >= Len(payload)

DnsStop ==
    /\ walk = "walking" /\ ~AtEnd
    /\ EndsName(LenAt)
    /\ walk' = IF labels = <<>> THEN "none" ELSE "name"
    /\ UNCHANGED <<payload, question, pos, labels>>

Fits(len) == pos + 1 + len <= Len(payload)

\* Mutant: the length byte is taken for a part of the label.
DnsLabelWithLength ==
    /\ walk = "walking" /\ ~AtEnd
    /\ ~EndsName(LenAt) /\ Fits(LenAt)
    /\ labels' = Append(labels, SubSeq(payload, pos + 1, pos + LenAt))
    /\ pos' = pos + 1 + LenAt
    /\ UNCHANGED <<payload, question, walk>>
DnsLabel ==
    /\ walk = "walking" /\ ~AtEnd
    /\ ~EndsName(LenAt) /\ Fits(LenAt)
    /\ labels' = Append(labels, SubSeq(payload, pos + 2, pos + 1 + LenAt))
    /\ pos' = pos + 1 + LenAt
    /\ UNCHANGED <<payload, question, walk>>

\* The message ends inside the name.
DnsTruncated ==
    /\ walk = "walking"
    /\ AtEnd \/ (~AtEnd /\ ~EndsName(LenAt) /\ ~Fits(LenAt))
    /\ walk' = "none"
    /\ UNCHANGED <<payload, question, pos, labels>>

DnsNext == DnsStop \/ DnsLabel \/ DnsTruncated

DnsSpec == DnsInit /\ [][DnsNext]_dnsVars
-----------------------------------------------------------------------------
\* Labels as they are sent: each behind its length.
Wire(ls) ==
    LET sent[n \in 0..Len(ls)] ==
            IF n = 0 THEN <<>> ELSE sent[n - 1] \o (<<Len(ls[n])>> \o ls[n])
    IN  sent[Len(ls)]

\* The message begins with a name: from its first byte, the length of a
\* label, one gets from length to length and to an end without leaving it.
BeginsWithName ==
    \E lengths \in SUBSET (0..(Len(payload) - 1)) :
        /\ 0 \in lengths /\ ~EndsName(payload[1])
        /\ \A p \in lengths : EndsName(payload[p + 1]) \/ p + 1 + payload[p + 1] \in lengths

\* What was walked over is the labels, none lost, none cut short.
LabelsAreTheWire == pos <= Len(payload) /\ Wire(labels) = SubSeq(payload, 1, pos)

(***************************************************************************)
(* The walk never leaves the message, the labels it has are what the bytes *)
(* up to it say (dns.rs:157-175), and it ends with a name exactly for the  *)
(* messages that have a question and begin with a whole name (146-180).    *)
(***************************************************************************)
NameIsOnTheWire ==
    /\ LabelsAreTheWire
    /\ walk # "walking" => (walk = "name" <=> question /\ BeginsWithName)
=============================================================================
