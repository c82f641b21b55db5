------------------------------- MODULE Portal -------------------------------
(***************************************************************************)
(* The captive portal as a whole: what a client's browser meets when the   *)
(* DHCP event (wifi/NeuWiFi_Core.cpp), the DNS server's decision           *)
(* (dns/NeuDNSServer.cpp), the page handlers (http/NeuHttpServer_Core.cpp) *)
(* and the 404 handler (http/NeuHttpServer_Helper.cpp) work on one client  *)
(* tracker (SystemState/SharedState.cpp).                                  *)
(*                                                                         *)
(* Each component is taken at the level its own module justifies: the      *)
(* tracker is the window of ClientWindow, a DNS query is one step          *)
(* (DNSServer), the HTTP server is there with its routes or is not         *)
(* (HttpServer), and it has one task, which handles a request at a time.   *)
(* A handler's steps are separate: the registration of clients and the     *)
(* start and stop of the DNS server come between them.                     *)
(***************************************************************************)
EXTENDS Integers, FiniteSets, FiniteSetsExt

CONSTANTS
    Client,      \* stations of the access point, each with its address
    Slots,       \* NEU_MAX_TRACKED_CLIENTS
    Route,       \* the paths with a page, registered before the server starts
    Form,        \* those whose handler calls getPostParam
    BodySize,    \* content_len of a form's request
    BufferSize,  \* NEU_SERVER_POST_BUF_SIZE
    None

Path == {"/", "/form", "/else"}

(* Names: one that holds a captive probe, that of the portal, any other.   *)
Host == {"probe", "neu.portal", "other"}

ASSUME SlotsAssumption == Slots \in Nat \ {0}
ASSUME RouteAssumption == Form \subseteq Route /\ Route \subseteq Path /\ "/" \in Route
ASSUME SizeAssumption == BodySize \in Nat /\ BufferSize \in Nat \ {0}
ASSUME NoneAssumption == None \notin Client

VARIABLES
    window,   \* the tracker: window[Slots] is the latest registration
    dns,      \* DNS server: "off", "starting", "on" or "stopping"
    up,       \* an HTTP server runs
    at,       \* where each browser is
    host, path,  \* what it asks for
    task,     \* the client whose request the server's task handles
    tpc,      \* where its handler is
    got,      \* how much of the body it has received
    pushed,   \* history: clients the tracker lost to later registrations
    renewed   \* history: clients registered since their last page

browserVars == <<at, host, path>>
taskVars == <<task, tpc, got>>
historyVars == <<pushed, renewed>>
vars == <<window, dns, up, browserVars, taskVars, historyVars>>

Tracked == {window[k] : k \in 1..Slots} \ {None}

(* The flag of SharedState: init sets it last, and stop clears it last. *)
DnsActive == dns \in {"on", "stopping"}

Init ==
    /\ window = [k \in 1..Slots |-> None]
    /\ dns = "off"
    /\ up = FALSE
    /\ at = [c \in Client |-> "away"]
    /\ host = [c \in Client |-> "other"]
    /\ path = [c \in Client |-> "/"]
    /\ task = None /\ tpc = "idle" /\ got = 0
    /\ pushed = {} /\ renewed = {}

-----------------------------------------------------------------------------
(* The access point: a client gets, renews or abandons its address.        *)

(* markClientAsNewAPUser *)
Register(c) ==
    /\ IF c \in Tracked
       THEN UNCHANGED <<window, pushed>>
       ELSE /\ window' = [k \in 1..Slots |-> IF k = Slots THEN c ELSE window[k + 1]]
            /\ pushed' = (pushed \cup {window[1]}) \ {c, None}
    /\ renewed' = renewed \cup {c}

Join(c) ==
    /\ at[c] = "away"
    /\ at' = [at EXCEPT ![c] = "rest"]
    /\ Register(c)
    /\ UNCHANGED <<dns, up, host, path, taskVars>>

Renew(c) ==
    /\ at[c] # "away"
    /\ Register(c)
    /\ UNCHANGED <<dns, up, browserVars, taskVars>>

(* The browser of c is where it was not under way to anything. *)
Settle(c, place) ==
    /\ at' = [at EXCEPT ![c] = place]
    /\ host' = [host EXCEPT ![c] = "other"]
    /\ path' = [path EXCEPT ![c] = "/"]

(* Nothing tells the tracker. *)
Leave(c) ==
    /\ at[c] # "away"
    /\ Settle(c, "away")
    /\ UNCHANGED <<window, dns, up, taskVars, historyVars>>

-----------------------------------------------------------------------------
(* The browser.                                                            *)

Open(c, h, p) ==
    /\ at[c] \in {"rest", "page"}
    /\ at' = [at EXCEPT ![c] = "ask"]
    /\ host' = [host EXCEPT ![c] = h]
    /\ path' = [path EXCEPT ![c] = p]
    /\ UNCHANGED <<window, dns, up, taskVars, historyVars>>

(* The decision of the DNS server: to the device, or NXDOMAIN. *)
Redirected(c) == host[c] = "probe" \/ c \in Tracked

(* From now on a probe is a name like any other. *)
Resolve(c) ==
    /\ at[c] = "ask"
    /\ dns \in {"starting", "on"} /\ Redirected(c)
    /\ at' = [at EXCEPT ![c] = "go"]
    /\ host' = [host EXCEPT ![c] = IF @ = "probe" THEN "other" ELSE @]
    /\ UNCHANGED <<window, dns, up, path, taskVars, historyVars>>

(* NXDOMAIN, or no answer. *)
ResolveNot(c) ==
    /\ at[c] = "ask"
    /\ dns # "on" \/ ~Redirected(c)
    /\ Settle(c, "rest")
    /\ UNCHANGED <<window, dns, up, taskVars, historyVars>>

-----------------------------------------------------------------------------
(* The server's task.                                                      *)

Goto(label) == tpc' = label

Accept(c) ==
    /\ at[c] = "go" /\ up /\ task = None
    /\ at' = [at EXCEPT ![c] = "wait"]
    /\ task' = c
    /\ Goto(IF path[c] \in Route THEN "clear" ELSE "missing")
    /\ UNCHANGED <<window, dns, up, host, path, got, historyVars>>

(* clearClientFromTracker leaves a hole. *)
Cleared(c) == [k \in 1..Slots |-> IF window[k] = c THEN None ELSE window[k]]

(* Fault: the tracker is not told of a form. *)
ClearedNotForForms(c) == IF path[c] \in Form THEN window ELSE Cleared(c)

ClearedByPage(c) == Cleared(c)

(* _static_handler, _internal_handler and the handshake of a WebSocket     *)
(* start with it.  getpeername knows a client that is still there.         *)
Clear ==
    /\ tpc = "clear"
    /\ \/ /\ window' = ClearedByPage(task)
          /\ renewed' = renewed \ {task}
       \/ /\ at[task] = "away"
          /\ UNCHANGED <<window, renewed>>
    /\ Goto(IF path[task] \in Form THEN "body" ELSE "answer")
    /\ UNCHANGED <<dns, up, browserVars, task, got, pushed>>

(* Fault: no place for the 0. *)
ExpectedAll == Min({BodySize, BufferSize})

(* getPostParam: at most what the buffer holds with a 0 behind it. *)
Expected == Min({BodySize, BufferSize - 1})

(* httpd_req_recv returns a piece of it; after a timeout it is called again. *)
ReceivePiece ==
    /\ tpc = "body" /\ got < Expected
    /\ \E n \in 1..(Expected - got) : got' = got + n
    /\ UNCHANGED <<window, dns, up, browserVars, task, tpc, historyVars>>

(* The body is there, or the client closed the connection. *)
BodyOver ==
    /\ tpc = "body"
    /\ got = Expected \/ at[task] = "away"
    /\ got' = 0
    /\ Goto("answer")
    /\ UNCHANGED <<window, dns, up, browserVars, task, historyVars>>

(* Who left, or left and came back, gets no answer. *)
Waits(c) == at[c] = "wait"

AnswerPage ==
    /\ tpc = "answer"
    /\ IF Waits(task) THEN Settle(task, "page") ELSE UNCHANGED browserVars
    /\ task' = None
    /\ Goto("idle")
    /\ UNCHANGED <<window, dns, up, got, historyVars>>

(* The 404 handler: to the portal by its name, if the DNS server runs and  *)
(* the browser is not there yet; else to the root of the same host.        *)
ToPortal(c) == DnsActive /\ host[c] # "neu.portal"

(* Fault: the path is kept. *)
MissingKeepsPath ==
    /\ tpc = "missing"
    /\ IF Waits(task)
       THEN /\ at' = [at EXCEPT ![task] = IF ToPortal(task) THEN "ask" ELSE "go"]
            /\ host' = [host EXCEPT ![task] = IF ToPortal(task) THEN "neu.portal" ELSE @]
            /\ UNCHANGED path
       ELSE UNCHANGED browserVars
    /\ task' = None
    /\ Goto("idle")
    /\ UNCHANGED <<window, dns, up, got, historyVars>>

Missing ==
    /\ tpc = "missing"
    /\ IF Waits(task)
       THEN /\ at' = [at EXCEPT ![task] = IF ToPortal(task) THEN "ask" ELSE "go"]
            /\ host' = [host EXCEPT ![task] = IF ToPortal(task) THEN "neu.portal" ELSE @]
            /\ path' = [path EXCEPT ![task] = "/"]
       ELSE UNCHANGED browserVars
    /\ task' = None
    /\ Goto("idle")
    /\ UNCHANGED <<window, dns, up, got, historyVars>>

TaskStep ==
    \/ \E c \in Client : Accept(c)
    \/ Clear
    \/ ReceivePiece
    \/ BodyOver
    \/ AnswerPage
    \/ Missing

-----------------------------------------------------------------------------
(* The services.                                                           *)

DnsInit ==
    /\ dns = "off" /\ dns' = "starting"
    /\ UNCHANGED <<window, up, browserVars, taskVars, historyVars>>

(* _udp.init succeeds, or fails. *)
DnsReady ==
    /\ dns = "starting" /\ dns' \in {"on", "off"}
    /\ UNCHANGED <<window, up, browserVars, taskVars, historyVars>>

DnsStop ==
    /\ dns = "on" /\ dns' = "stopping"
    /\ UNCHANGED <<window, up, browserVars, taskVars, historyVars>>

DnsStopped ==
    /\ dns = "stopping" /\ dns' = "off"
    /\ UNCHANGED <<window, up, browserVars, taskVars, historyVars>>

DnsStep == DnsInit \/ DnsReady \/ DnsStop \/ DnsStopped

ServerStart ==
    /\ ~up /\ up' = TRUE
    /\ UNCHANGED <<window, dns, browserVars, taskVars, historyVars>>

(* httpd_stop waits for the handler. *)
ServerStop ==
    /\ up /\ task = None
    /\ up' = FALSE
    /\ UNCHANGED <<window, dns, browserVars, taskVars, historyVars>>

Next ==
    \/ \E c \in Client :
         \/ Join(c)
         \/ Renew(c)
         \/ Leave(c)
         \/ \E h \in Host, p \in Path : Open(c, h, p)
         \/ Resolve(c)
         \/ ResolveNot(c)
    \/ TaskStep
    \/ DnsStep
    \/ ServerStart
    \/ ServerStop

(* Every query is answered or given up, and a server that is up and idle   *)
(* again and again takes each of the requests in the end.  A handler goes  *)
(* on but for its wait for a body, which may be for ever, and a server     *)
(* that was stopped may never be started again.                            *)
Fairness ==
    /\ \A c \in Client : WF_vars(Resolve(c) \/ ResolveNot(c)) /\ SF_vars(Accept(c))
    /\ WF_vars(Clear) /\ WF_vars(AnswerPage) /\ WF_vars(Missing)

Spec == Init /\ [][Next]_vars /\ Fairness

-----------------------------------------------------------------------------
(* A form's body leaves room for the 0 behind it. *)
TypeOK ==
    /\ window \in [1..Slots -> Client \cup {None}]
    /\ dns \in {"off", "starting", "on", "stopping"}
    /\ up \in BOOLEAN
    /\ at \in [Client -> {"away", "rest", "ask", "go", "wait", "page"}]
    /\ host \in [Client -> Host] /\ path \in [Client -> Path]
    /\ task \in Client \cup {None}
    /\ tpc \in {"idle", "clear", "body", "answer", "missing"}
    /\ got \in 0..(BufferSize - 1)
    /\ {pushed, renewed} \subseteq SUBSET Client

(* What the code does not see to: a network event starts the server again, *)
(* and that start succeeds (NeuHttpServer_Core.cpp:70-84); the client of a *)
(* form sends its body or closes the connection                            *)
(* (NeuHttpServer_Helper.cpp:280-292).                                     *)
ServerComesBack == []<>up
BodiesEnd == []<>(tpc # "body")

(* A client that is tracked and looks any name up while the DNS server is  *)
(* on gets to a page: no chain of redirects, restart of the server or slow *)
(* form of another client keeps it from one for ever, if the server comes  *)
(* back and no client holds it for ever.  It may leave, the                *)
(* DNS server may go, and too many registrations may push it out of the    *)
(* tracker; no request of a former stay may be in the hands of the server, *)
(* for its page clears the tracker of the new stay (NeuDNSServer.cpp:192,  *)
(* NeuHttpServer_Helper.cpp:104, 285, NeuHttpServer_Core.cpp:250).         *)
PortalReached == ServerComesBack /\ BodiesEnd =>
    \A c \in Client :
        (at[c] = "ask" /\ c \in Tracked /\ dns = "on" /\ task # c)
            ~> (at[c] \in {"page", "away"} \/ dns # "on" \/ c \in pushed)

(* Whoever sees a page is free of the tracker, unless it has renewed its   *)
(* address while the page was being made: a form's body may take long      *)
(* (NeuHttpServer_Core.cpp:250, 274, wifi/NeuWiFi_Core.cpp:257).           *)
Released == \A c \in Client : at[c] = "page" => c \notin Tracked \/ c \in renewed
=============================================================================
