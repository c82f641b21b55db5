------------------------------ MODULE DnsMessage ------------------------------
(***************************************************************************)
(* The DNS messages of dns/DnsHelper.cpp and dns/DNSProbe.h: the parser of *)
(* names and the two builders of replies, as operators on bytes.           *)
(*                                                                         *)
(* A message is its counts, its response code and rest, the bytes behind   *)
(* the header of 12.  A query always has response code 0 and no answer.    *)
(***************************************************************************)
EXTENDS Naturals, Sequences, SequencesExt

CONSTANTS
    DomainSize,    \* the buffer of _udpCallbackRaw for a name
    ResponseSize,  \* its buffer for a reply
    Probe,         \* ALL_PROBES, in lower case
    Address        \* the access point's address, four bytes

ASSUME SizeAssumption == DomainSize \in Nat \ {0} /\ ResponseSize \in Nat
ASSUME AddressAssumption == Address \in Seq(0..255) /\ Len(Address) = 4

HeaderSize == 12
Length(query) == HeaderSize + Len(query.rest)

(* A byte with one of its two high bits set is taken for a pointer. *)
IsPointer(byte) == byte >= 64

-----------------------------------------------------------------------------
(* parseDomainName.                                                        *)

NoName == [ok |-> FALSE, labels |-> <<>>, pointer |-> FALSE]
EndOfName(viaPointer) == [ok |-> TRUE, labels |-> <<>>, pointer |-> viaPointer]

Dot == 46

(* What the loop writes: each label with a dot behind it. *)
Dotted(labels) == FlattenSeq([i \in DOMAIN labels |-> Append(labels[i], Dot)])

(* Fault: the dot is not counted. *)
TextSizeWithoutDots(labels) == Len(FlattenSeq(labels))

TextSize(labels) == Len(Dotted(labels))

(* The loop over the labels from position p.  It also ends, with success,  *)
(* where the data ends.                                                    *)
Walk(rest) ==
    LET at[p \in 1..Len(rest) + 1] ==
        IF p > Len(rest) THEN EndOfName(FALSE)
        ELSE IF IsPointer(rest[p]) THEN
            IF p < Len(rest) THEN EndOfName(TRUE) ELSE NoName
        ELSE IF rest[p] = 0 THEN EndOfName(FALSE)
        ELSE IF p + rest[p] > Len(rest) THEN NoName
        ELSE LET label == SubSeq(rest, p + 1, p + rest[p])
                 tail == at[p + rest[p] + 1]
             IN [tail EXCEPT !.labels = <<label>> \o @]
    IN at[1]

(* The name, unless it is broken off, or too long for the buffer. *)
ParseName(rest) ==
    LET name == Walk(rest)
    IN IF rest # <<>> /\ name.ok /\ TextSize(name.labels) < DomainSize THEN name ELSE NoName

(* The string in the buffer: the last dot is overwritten at the end of a   *)
(* name, but not behind a pointer, and a byte 0 in a label ends it.        *)
Text(name) ==
    LET dotted == Dotted(name.labels)
        joined == IF dotted = <<>> \/ name.pointer THEN dotted ELSE Front(dotted)
    IN SubSeq(joined, 1, SelectInSeq(joined \o <<0>>, LAMBDA byte : byte = 0) - 1)

-----------------------------------------------------------------------------
(* isCaptiveProbe: a probe anywhere in the text, in upper or lower case.   *)

(* Fault: strstr, which looks at the case. *)
LowerNot(byte) == byte

Lower(byte) == IF byte \in 65..90 THEN byte + 32 ELSE byte

IsCaptiveProbe(text) ==
    \E probe \in Probe : \E i \in 0..Len(text) :
        /\ i + Len(probe) <= Len(text)
        /\ \A j \in 1..Len(probe) : Lower(text[i + j]) = probe[j]

-----------------------------------------------------------------------------
(* buildDNSRedirect and buildDNS_NXDOMAIN.                                 *)

NoReply == [none |-> TRUE]

(* Where the type of the question begins; behind the data if the name does *)
(* not end in it.                                                          *)
TypeAt(rest) ==
    LET at[p \in Nat \ {0}] ==
        IF p > Len(rest) THEN Len(rest) + 1
        ELSE IF rest[p] = 0 THEN p + 1
        ELSE IF IsPointer(rest[p]) THEN p + 2
        ELSE at[p + rest[p] + 1]
    IN at[1]

(* A pointer to the name in the question, type A, class IN, 60 seconds. *)
Answer == <<192, HeaderSize, 0, 1, 0, 1, 0, 0, 0, 60, 0, 4>> \o Address

(* Fault: everything behind the header is copied. *)
CopiedAll(query, end) == query.rest

Copied(query, end) == SubSeq(query.rest, 1, end)

(* Fault: no look at the size of the buffer. *)
FitsAlways(query, more) == TRUE

Fits(query, more) == ResponseSize >= Length(query) + more

(* Only a single question of type A and class IN is answered. *)
Redirect(query) ==
    LET at == TypeAt(query.rest)
    IN IF /\ query.qdcount = 1
          /\ Fits(query, 16)
          /\ at \in 1..Len(query.rest) - 3
          /\ SubSeq(query.rest, at, at + 3) = <<0, 1, 0, 1>>
       THEN [qdcount |-> 1, ancount |-> 1, rcode |-> 0,
             rest |-> Copied(query, at + 3) \o Answer]
       ELSE NoReply

(* The query again, with other flags and counts. *)
NxDomain(query) ==
    IF Fits(query, 0)
    THEN [qdcount |-> query.qdcount, ancount |-> 0, rcode |-> 3, rest |-> query.rest]
    ELSE NoReply
=============================================================================
