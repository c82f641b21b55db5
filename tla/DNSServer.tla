------------------------------ MODULE DNSServer ------------------------------
(***************************************************************************)
(* The DNS server NeuDNSServer (dns/NeuDNSServer.cpp).  The application    *)
(* calls init, onQuery and stop; the receive task of its NeuUDP calls      *)
(* _udpCallbackRaw for each query, which answers while it runs; page loads *)
(* and DHCP change the set of tracked clients.                             *)
(*                                                                         *)
(* Of NeuUDP there is what the callback depends on: the task reads running *)
(* before it opens the socket and again before the callback, stop closes   *)
(* the socket under the mutex, and a reply goes to the last sender stored. *)
(* A closed socket may be opened again at any time while running: module   *)
(* UDP says when.  One receive task at a time: init is called when the     *)
(* last one has ended; what two of them do to the socket is in UDP.  The   *)
(* lookup in the tracker is a step: ClientTracker shows that its answer    *)
(* was true at a moment of the lookup.                                     *)
(***************************************************************************)
EXTENDS DnsMessage

CONSTANTS
    Client,
    Query,    \* the queries clients send
    Name,     \* names, as sequences of labels: a reference for the parser
    None

ASSUME NoneAssumption == None \notin Client \cup Query
ASSUME QueryAssumption == Query \subseteq [qdcount : Nat, rest : Seq(0..255)]
(* RFC 1035, 2.3.4; no name people use has a byte 0 in it. *)
ASSUME NameAssumption ==
    \A labels \in Name : /\ labels \in Seq(Seq(1..255))
                         /\ \A i \in DOMAIN labels : Len(labels[i]) \in 1..63

VARIABLES
    enabled,      \* _dnsEnabled
    callback,     \* _onQuery is set
    dnsActive,    \* SharedState's flag
    running,      \* NeuUDP: _running
    open,         \* NeuUDP: _socketActive and a netconn
    lastSender,   \* NeuUDP: _lastSender
    tracked,      \* the clients the tracker holds
    apc,          \* where the application's call is
    tpc,          \* where the receive task is
    query, from,  \* the packet it handles
    reply,        \* what it is about to send
    sent, to,     \* the last reply sent for the packet, and to whom
    fault         \* a null callback was called

dnsVars == <<enabled, callback, dnsActive>>
udpVars == <<running, open, lastSender>>
packetVars == <<query, from, reply, sent, to>>
vars == <<dnsVars, udpVars, tracked, apc, tpc, packetVars, fault>>

Init ==
    /\ enabled = FALSE /\ callback = FALSE /\ dnsActive = FALSE
    /\ running = FALSE /\ open = FALSE /\ lastSender = None
    /\ tracked = {}
    /\ apc = "idle"
    /\ tpc = "none"
    /\ query = None /\ from = None /\ reply = NoReply
    /\ sent = NoReply /\ to = None
    /\ fault = FALSE

-----------------------------------------------------------------------------
(* The application.                                                        *)

AppGoto(label) == apc' = label

CallInit ==
    /\ apc = "idle" /\ ~running /\ tpc = "none"
    /\ enabled' = TRUE
    /\ AppGoto("create")
    /\ UNCHANGED <<callback, dnsActive, udpVars, tracked, tpc, packetVars, fault>>

(* NeuUDP's init: the receive task is created, or is not. *)
CreateTask ==
    /\ apc = "create"
    /\ \/ /\ running' = TRUE /\ tpc' = "loop"
          /\ AppGoto("announce")
          /\ UNCHANGED <<enabled, dnsActive>>
       \/ /\ enabled' = FALSE /\ dnsActive' = FALSE
          /\ AppGoto("idle")
          /\ UNCHANGED <<running, tpc>>
    /\ UNCHANGED <<callback, open, lastSender, tracked, packetVars, fault>>

Announce ==
    /\ apc = "announce"
    /\ dnsActive' = TRUE
    /\ AppGoto("idle")
    /\ UNCHANGED <<enabled, callback, udpVars, tracked, tpc, packetVars, fault>>

OnQuery ==
    /\ apc = "idle" /\ ~callback
    /\ callback' = TRUE
    /\ UNCHANGED <<enabled, dnsActive, udpVars, tracked, apc, tpc, packetVars, fault>>

(* stop does all of its work whatever the flag was, ... *)
CallStop ==
    /\ apc = "idle"
    /\ enabled' = FALSE
    /\ AppGoto("end")
    /\ UNCHANGED <<callback, dnsActive, udpVars, tracked, tpc, packetVars, fault>>

(* ... but NeuUDP's stop nothing if it does not run.  Else running falls, ... *)
EndTask ==
    /\ apc = "end"
    /\ running' = FALSE
    /\ AppGoto(IF running THEN "lock" ELSE "forget")
    /\ UNCHANGED <<dnsVars, open, lastSender, tracked, tpc, packetVars, fault>>

(* ... the mutex is taken ... *)
LockSocket ==
    /\ apc = "lock"
    /\ AppGoto("close")
    /\ UNCHANGED <<dnsVars, udpVars, tracked, tpc, packetVars, fault>>

(* Fault: it only waits for the task, which may be in its callback. *)
OpenAfterStopStill == open

OpenAfterStop == FALSE

(* ... and the socket is closed under it. *)
CloseSocket ==
    /\ apc = "close"
    /\ open' = OpenAfterStop
    /\ AppGoto("forget")
    /\ UNCHANGED <<dnsVars, running, lastSender, tracked, tpc, packetVars, fault>>

Forget ==
    /\ apc = "forget"
    /\ callback' = FALSE
    /\ AppGoto("withdraw")
    /\ UNCHANGED <<enabled, dnsActive, udpVars, tracked, tpc, packetVars, fault>>

Withdraw ==
    /\ apc = "withdraw"
    /\ dnsActive' = FALSE
    /\ AppGoto("idle")
    /\ UNCHANGED <<enabled, callback, udpVars, tracked, tpc, packetVars, fault>>

AppStep ==
    \/ CallInit
    \/ CreateTask
    \/ Announce
    \/ OnQuery
    \/ CallStop
    \/ EndTask
    \/ LockSocket
    \/ CloseSocket
    \/ Forget
    \/ Withdraw

-----------------------------------------------------------------------------
(* The receive task of NeuUDP.                                             *)

Goto(label) == tpc' = label
MutexFree == apc # "close"

Check ==
    /\ tpc = "loop"
    /\ Goto(IF running THEN "open" ELSE "exit")
    /\ UNCHANGED <<dnsVars, udpVars, tracked, apc, packetVars, fault>>

(* The socket is opened, or closed, or left alone. *)
OpenSocket ==
    /\ tpc = "open" /\ MutexFree
    /\ open' \in BOOLEAN
    /\ Goto("receive")
    /\ UNCHANGED <<dnsVars, running, lastSender, tracked, apc, packetVars, fault>>

(* A packet, or a timeout or an error; then running is read again. *)
Receive(q, c) ==
    /\ tpc = "receive" /\ running /\ open
    /\ query' = q /\ from' = c
    /\ reply' = NoReply /\ sent' = NoReply /\ to' = None
    /\ Goto("store")
    /\ UNCHANGED <<dnsVars, udpVars, tracked, apc, fault>>

ReceiveNothing ==
    /\ tpc = "receive"
    /\ Goto("loop")
    /\ UNCHANGED <<dnsVars, udpVars, tracked, apc, packetVars, fault>>

(* Fault: only the first sender is stored. *)
SenderAfterFirst == IF lastSender = None THEN from ELSE lastSender

SenderAfter == from

(* The sender is stored if the mutex is free within 10 ms. *)
StoreSender ==
    /\ tpc = "store"
    /\ lastSender' = IF MutexFree THEN SenderAfter ELSE lastSender
    /\ Goto("enter")
    /\ UNCHANGED <<dnsVars, running, open, tracked, apc, packetVars, fault>>

Exit ==
    /\ tpc = "exit" /\ MutexFree
    /\ open' = FALSE
    /\ Goto("none")
    /\ UNCHANGED <<dnsVars, running, lastSender, tracked, apc, packetVars, fault>>

-----------------------------------------------------------------------------
(* _udpCallbackRaw.                                                        *)

Parsed == ParseName(query.rest)

(* A disabled server, and a name that cannot be parsed, get no answer. *)
Enter ==
    /\ tpc = "enter"
    /\ Goto(IF enabled /\ Parsed.ok THEN "test" ELSE "loop")
    /\ UNCHANGED <<dnsVars, udpVars, tracked, apc, packetVars, fault>>

TestCallback ==
    /\ tpc = "test"
    /\ Goto(IF callback THEN "call" ELSE "lookup")
    /\ UNCHANGED <<dnsVars, udpVars, tracked, apc, packetVars, fault>>

(* The pointer is read again for the call. *)
CallCallback ==
    /\ tpc = "call"
    /\ fault' = (fault \/ ~callback)
    /\ Goto("lookup")
    /\ UNCHANGED <<dnsVars, udpVars, tracked, apc, packetVars>>

(* Probes and tracked clients are redirected, all others get NXDOMAIN. *)
Lookup ==
    /\ tpc = "lookup"
    /\ reply' = IF IsCaptiveProbe(Text(Parsed)) \/ from \in tracked
                THEN Redirect(query) ELSE NxDomain(query)
    /\ Goto(IF reply' = NoReply THEN "loop" ELSE "reply")
    /\ UNCHANGED <<dnsVars, udpVars, tracked, apc, query, from, sent, to, fault>>

(* NeuUDP's reply: it needs the mutex, an open socket and a sender. *)
Reply ==
    /\ tpc = "reply" /\ MutexFree
    /\ IF open /\ lastSender # None
       THEN sent' = reply /\ to' = lastSender
       ELSE UNCHANGED <<sent, to>>
    /\ reply' = NoReply
    /\ Goto("loop")
    /\ UNCHANGED <<dnsVars, udpVars, tracked, apc, query, from, fault>>

(* The mutex stays taken for 50 ms. *)
ReplyTimesOut ==
    /\ tpc = "reply" /\ ~MutexFree
    /\ reply' = NoReply
    /\ Goto("loop")
    /\ UNCHANGED <<dnsVars, udpVars, tracked, apc, query, from, sent, to, fault>>

TaskStep ==
    \/ Check
    \/ OpenSocket
    \/ \E q \in Query, c \in Client : Receive(q, c)
    \/ ReceiveNothing
    \/ StoreSender
    \/ Exit
    \/ Enter
    \/ TestCallback
    \/ CallCallback
    \/ Lookup
    \/ Reply
    \/ ReplyTimesOut

(* DHCP registers a client, a page load removes it. *)
Track ==
    /\ \E c \in Client : tracked' \in {tracked \cup {c}, tracked \ {c}}
    /\ UNCHANGED <<dnsVars, udpVars, apc, tpc, packetVars, fault>>

Next == AppStep \/ TaskStep \/ Track

Spec == Init /\ [][Next]_vars

(* A state constraint: the runs do not look beyond the call of a null.     *)
NotCorrupted == ~fault

-----------------------------------------------------------------------------
TypeOK ==
    /\ {enabled, callback, dnsActive, running, open, fault} \subseteq BOOLEAN
    /\ {lastSender, from, to} \subseteq Client \cup {None}
    /\ tracked \subseteq Client
    /\ apc \in {"idle", "create", "announce", "end", "lock", "close", "forget", "withdraw"}
    /\ tpc \in {"none", "loop", "open", "receive", "store", "exit", "enter", "test", "call",
                "lookup", "reply"}
    /\ query \in Query \cup {None}
    /\ \A message \in {reply, sent} \ {NoReply} : HeaderSize + Len(message.rest) <= ResponseSize

(* How a name is written in a message (RFC 1035, 3.1). *)
Encode(labels) == FlattenSeq([i \in DOMAIN labels |-> <<Len(labels[i])>> \o labels[i]]) \o <<0>>

(* The query asks for this name. *)
AsksFor(labels) == query # None /\ IsPrefix(Encode(labels), query.rest)

(* The parser finds exactly the name that was written, or none if its text *)
(* with the closing 0 does not fit the buffer, at every length up to the   *)
(* limit (DnsHelper.cpp:21-71).                                            *)
ParseRight ==
    \A labels \in Name : AsksFor(labels) =>
        IF Len(Encode(labels)) <= DomainSize
        THEN Parsed.ok /\ Parsed.labels = labels
        ELSE ~Parsed.ok

(* A redirect that is sent repeats the question, and has behind it one     *)
(* answer for the name at its beginning and nothing else, whatever the     *)
(* query had there (DnsHelper.cpp:74-170).                                 *)
RedirectRight ==
    \A labels \in Name : AsksFor(labels) /\ sent # NoReply /\ sent.ancount = 1 =>
        LET question == Encode(labels) \o <<0, 1, 0, 1>>
            answer == SubSeq(sent.rest, Len(question) + 1, Len(sent.rest))
        IN /\ sent.qdcount = 1 /\ IsPrefix(question, sent.rest)
           /\ Len(answer) = 16
           /\ SubSeq(answer, 1, 2) = <<192, HeaderSize>>
           /\ SubSeq(answer, 13, 16) = Address

(* How a name is read by people: labels with dots between. *)
Written(labels) ==
    LET dotted == FlattenSeq([i \in DOMAIN labels |-> <<Dot>> \o labels[i]])
    IN IF dotted = <<>> THEN dotted ELSE Tail(dotted)

ToLower(text) == [i \in DOMAIN text |-> IF text[i] \in 65..90 THEN text[i] + 32 ELSE text[i]]

(* No probe of an operating system is answered with NXDOMAIN, in whichever *)
(* case it is asked and across labels (DNSProbe.h:43-55,                   *)
(* NeuDNSServer.cpp:192).                                                  *)
ProbesRedirected ==
    \A labels \in Name : AsksFor(labels) /\ sent # NoReply /\ sent.rcode = 3 =>
        \A probe \in Probe : ~\E before, after \in 0..Len(Written(labels)) :
            SubSeq(ToLower(Written(labels)), before + 1, after) = probe

(* A reply goes to the client that asked, although NeuUDP stores the       *)
(* sender only if it gets the mutex, which stop() may hold                 *)
(* (NeuUDP.cpp:375-379, NeuDNSServer.cpp:112-113).                         *)
ReplyToAsker == sent # NoReply => to = from

(* When stop() has returned nothing is sent until the next init(), even if *)
(* the task was in the middle of a callback or just opened its socket      *)
(* again (NeuDNSServer.cpp:112-113).                                       *)
SilentWhenStopped == [][sent' # sent /\ sent' # NoReply => apc # "idle" \/ enabled]_vars
=============================================================================
