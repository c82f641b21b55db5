------------------------------- MODULE Address -------------------------------
(***************************************************************************)
(* IPv4 addresses as IPConfig.h keeps, reads and writes them.  A uint32_t  *)
(* is the sequence of its four bytes, the lowest first, which on the ESP32 *)
(* is their order in memory; the network's order, the one lwIP wants, has  *)
(* the first octet of an address first in memory too.                      *)
(* A text is a sequence of characters: 0..9 the digits, Dot, or any other. *)
(***************************************************************************)
EXTENDS Integers, Sequences, FiniteSets

CONSTANT Loose    \* what lwIP makes of the texts it reads that are no dotted quads

Byte == 0..255
Address == [1..4 -> Byte]
Dot == 10
Zero == <<0, 0, 0, 0>>

(* The variables of parseString's loop; bad: it has returned 0. *)
Reading(octets, segment, value) ==
    [octets |-> octets, segment |-> segment, value |-> value, bad |-> value > 255]

(* One character of the loop. *)
Scanned(s, c) ==
    IF s.bad THEN s
    ELSE IF c \in 0..9 THEN Reading(s.octets, s.segment, 10 * s.value + c)
    ELSE IF c = Dot /\ s.segment <= 2
      THEN Reading([s.octets EXCEPT ![s.segment + 1] = s.value], s.segment + 1, 0)
    ELSE [s EXCEPT !.bad = TRUE]

(* The variables behind each number of characters. *)
Scan(text) ==
    LET at[p \in 0..Len(text)] ==
        IF p = 0 THEN Reading(Zero, 0, 0) ELSE Scanned(at[p - 1], text[p])
    IN at

(* parseString: 0 unless there are three dots; an empty segment counts as 0. *)
ParseString(text) ==
    LET end == Scan(text)[Len(text)]
    IN  IF end.bad \/ end.segment # 3 THEN Zero ELSE [end.octets EXCEPT ![4] = end.value]

(* %d of a byte *)
Digits(n) ==
    IF n >= 100 THEN <<n \div 100, (n \div 10) % 10, n % 10>>
    ELSE IF n >= 10 THEN <<n \div 10, n % 10>>
    ELSE <<n>>

ExportToString(a) ==
    Digits(a[1]) \o <<Dot>> \o Digits(a[2]) \o <<Dot>> \o Digits(a[3]) \o <<Dot>> \o Digits(a[4])

(* getLwIP: the bytes change places, first and last, second and third. *)
GetLwIP(a) == <<a[4], a[3], a[2], a[1]>>

-----------------------------------------------------------------------------
(* A reference for the parser: digits with three dots among them, and no   *)
(* number above 255.  Between two dots there may be nothing.               *)
AllDigits(text, p, q) == \A k \in p..q : text[k] \in 0..9

Above255(text, p) ==
    \/ /\ p + 2 <= Len(text) /\ AllDigits(text, p, p + 2)
       /\ 100 * text[p] + 10 * text[p + 1] + text[p + 2] > 255
    \/ p + 3 <= Len(text) /\ AllDigits(text, p, p + 3) /\ text[p] > 0

IsQuad(text) ==
    /\ \A p \in DOMAIN text : text[p] \in 0..9 \cup {Dot}
    /\ Cardinality({p \in DOMAIN text : text[p] = Dot}) = 3
    /\ ~\E p \in DOMAIN text : Above255(text, p)

-----------------------------------------------------------------------------
(* An IPConfig object, and what lwIP and the interfaces hold, is a record  *)
(* of addresses; dns has the primary and the secondary server.             *)
IPConfig == [ip : Address, subnet : Address, gateway : Address, dns : Address \X Address]

Cloudflare == <<1, 1, 1, 1>>
Google == <<8, 8, 8, 8>>

(* a & m = b & m *)
Bit(n, k) == (n \div 2^k) % 2
SameNet(a, b, m) ==
    \A o \in 1..4, k \in 0..7 : Bit(m[o], k) = 1 => Bit(a[o], k) = Bit(b[o], k)

IsValidSubnet(c) == c.subnet # Zero /\ SameNet(c.ip, c.gateway, c.subnet)

(* An unset server gets a public one. *)
OrElse(a, unset, default) == IF a = unset THEN default ELSE a

GetLwIP_DNS(c) ==
    << OrElse(GetLwIP(c.dns[1]), GetLwIP(Zero), Cloudflare),
       OrElse(GetLwIP(c.dns[2]), GetLwIP(Zero), Google) >>

(* getLwIP_IP and its like: what setSTAIP and setAPIP take from an IPConfig. *)
LwIP(c) ==
    [ip |-> GetLwIP(c.ip), subnet |-> GetLwIP(c.subnet), gateway |-> GetLwIP(c.gateway),
     dns |-> GetLwIP_DNS(c)]

(* The texts of a configuration; a server that is not set is left out. *)
TextOf(c) ==
    LET Server(a) == IF a = Zero THEN <<>> ELSE ExportToString(a)
    IN  [ip |-> ExportToString(c.ip), subnet |-> ExportToString(c.subnet),
         gateway |-> ExportToString(c.gateway), dns |-> <<Server(c.dns[1]), Server(c.dns[2])>>]

(* The constructor from texts, and the setters that take one. *)
FromText(t) ==
    [ip |-> ParseString(t.ip), subnet |-> ParseString(t.subnet),
     gateway |-> ParseString(t.gateway),
     dns |-> <<ParseString(t.dns[1]), ParseString(t.dns[2])>>]

-----------------------------------------------------------------------------
(* lwIP's ipaddr_addr: a dotted quad without leading zeros means itself;   *)
(* of the other forms it knows (one to three numbers, octal, hexadecimal,  *)
(* blanks at the end) Loose says what they mean.  What it cannot read is   *)
(* IpNone, an address like any other.                                      *)
IpNone == <<255, 255, 255, 255>>

IpAddr(text) ==
    LET a == ParseString(text)
    IN  IF ExportToString(a) = text THEN a
        ELSE IF text \in DOMAIN Loose THEN Loose[text] ELSE IpNone

ASSUME LooseAssumption == \A text \in DOMAIN Loose : Loose[text] \in Address
=============================================================================
