------------------------------ MODULE HttpServer ------------------------------
(***************************************************************************)
(* The life cycle of NeuHttpServer (http/NeuHttpServer_Core.cpp) and the   *)
(* broadcast of its WebSocket layer (http/NeuHttpServer_WS.cpp).  init     *)
(* starts nothing: it registers a listener with SharedState, which starts, *)
(* restarts and stops the server of ESP-IDF in the task that reports a     *)
(* change of the network.  The application may call stop and wsBroadcast   *)
(* at any time, and page handlers run in the server's own task.            *)
(*                                                                         *)
(* Granularity.  Each load and store of _server is a step of its own, each *)
(* route is registered in one, and httpd_stop is one step that waits for   *)
(* the running page.  At most one server runs: it has the port.            *)
(***************************************************************************)
EXTENDS SharedState, Integers, Sequences

CONSTANTS
    Handle,    \* the servers ESP-IDF can allocate; a handle may be used again
    None,      \* a null _server
    Uri,       \* what routes are for
    MaxPages,  \* NEU_MAX_HTTP_ROUTES
    MaxSockets \* NEU_MAX_WS_ROUTES

ASSUME NoneAssumption == None \notin Handle
ASSUME RoutesAssumption == MaxPages \in Nat /\ MaxSockets \in Nat

Kind == {"page", "socket"}  \* _saved_routes and _saved_ws_routes
Capacity(kind) == IF kind = "page" THEN MaxPages ELSE MaxSockets

VARIABLES
    running,     \* _is_running
    listening,   \* the listener is registered with SharedState
    server,      \* _server
    saved,       \* per array of saved routes, its first _route_count entries
    alive,       \* ESP-IDF: the servers that run
    busy,        \* ... that run a page handler
    work,        \* ... that have a broadcast in their queue
    served,      \* the routes of the server that runs
    event, epc,  \* the change being reported and where its report is
    lpc, held,   \* where the listener is, and the handle it has read
    i,           \* the place of the route it registers next
    apc, aheld,  \* where the application's call is, and the handle it has read
    fault,       \* a server that no longer runs was used
    excuse,      \* history: why there may be no server although there is a network
    late,        \* history: routes saved since the server was started
    known,       \* history: routes ever saved
    dropped      \* history: of these, the ones that stop() forgot and that were not saved again

handleVars == <<running, listening, server>>
espVars == <<alive, busy, work, served>>
listenerVars == <<lpc, held, i>>
appVars == <<apc, aheld>>
routeHistory == <<late, known, dropped>>
historyVars == <<excuse, routeHistory>>
vars == <<sharedVars, handleVars, saved, espVars, event, epc, listenerVars, appVars, fault,
          historyVars>>

Event == {"STA_READY", "STA_DOWN", "AP_READY", "AP_DOWN", "MODE_CHANGED"}
NetworkReady == staReady \/ apReady

Routes(kind) == {<<kind, saved[kind][k]>> : k \in DOMAIN saved[kind]}

Init ==
    /\ SharedInit
    /\ running = FALSE /\ listening = FALSE /\ server = None
    /\ saved = [kind \in Kind |-> << >>]
    /\ alive = {} /\ busy = {} /\ work = {} /\ served = {}
    /\ event = "MODE_CHANGED" /\ epc = "idle"
    /\ lpc = "idle" /\ held = None /\ i = 1
    /\ apc = "idle" /\ aheld = None
    /\ fault = FALSE
    /\ excuse = "none"
    /\ late = {} /\ known = {} /\ dropped = {}

-----------------------------------------------------------------------------
(* The report of a change: setStaReady or setApReady with the listener in  *)
(* emit, and once more if updateAutoMode changes the mode.                 *)

IsSta == event \in {"STA_READY", "STA_DOWN"}

(* The listener is called for e, or nobody is. *)
Emit(e) ==
    /\ event' = e
    /\ lpc' = IF listening THEN "enter" ELSE "idle"

NetChange ==
    /\ epc = "idle"
    /\ \/ StoreStaReady("event", ~staReady) /\ Emit(IF staReady THEN "STA_DOWN" ELSE "STA_READY")
       \/ StoreApReady("event", ~apReady) /\ Emit(IF apReady THEN "AP_DOWN" ELSE "AP_READY")
    /\ epc' = "emit"
    /\ excuse' = IF staReady' \/ apReady' THEN excuse ELSE "none"
    /\ UNCHANGED <<handleVars, saved, espVars, held, i, appVars, fault, routeHistory>>

ListenerDone == lpc = "idle"

Stamp ==
    /\ epc = "emit" /\ ListenerDone
    /\ IF IsSta THEN EmitSta("event", staReady) ELSE EmitAp("event", apReady)
    /\ epc' = "auto"
    /\ UNCHANGED <<handleVars, saved, espVars, event, listenerVars, appVars, fault, historyVars>>

ReportMode ==
    /\ epc = "auto"
    /\ UpdateAutoMode
    /\ epc' = "mode"
    /\ IF mode' # mode THEN Emit("MODE_CHANGED") ELSE UNCHANGED <<event, lpc>>
    /\ UNCHANGED <<handleVars, saved, espVars, held, i, appVars, fault, historyVars>>

ReportOver ==
    /\ epc = "mode" /\ ListenerDone
    /\ epc' = "idle"
    /\ event' = "MODE_CHANGED"
    /\ UNCHANGED <<sharedVars, handleVars, saved, espVars, listenerVars, appVars, fault,
                   historyVars>>

ReportStep == Stamp \/ ReportMode \/ ReportOver

-----------------------------------------------------------------------------
(* httpd_stop(h) returns when the page is done; what is queued is dropped. *)
StopServer(h) ==
    /\ h \notin busy
    /\ alive' = alive \ {h}
    /\ work' = work \ {h}
    /\ served' = {}
    /\ fault' = (fault \/ h \notin alive)
    /\ UNCHANGED busy

(* _server is handed to ESP-IDF, which refuses a null. *)
UseServer == fault' = (fault \/ server \notin alive \cup {None})

(* Fault: a station that is lost takes the server down, whatever remains. *)
MustStopAlways == event \in {"STA_DOWN", "AP_DOWN"}

(* With the last interface the server goes. *)
MustStop == event \in {"STA_DOWN", "AP_DOWN"} /\ ~NetworkReady

MustStart == event \in {"STA_READY", "AP_READY", "MODE_CHANGED"}

ListenerGoto(label) == lpc' = label

(* The listener: a server that is there is stopped first in either case. *)
ListenerEnter ==
    /\ lpc = "enter"
    /\ \/ /\ MustStop \/ MustStart
          /\ server # None
          /\ held' = server
          /\ ListenerGoto("stop")
       \/ /\ ~((MustStop \/ MustStart) /\ server # None)
          /\ ListenerGoto(IF MustStart THEN "start" ELSE "idle")
          /\ UNCHANGED held
    /\ UNCHANGED <<sharedVars, handleVars, saved, espVars, event, epc, i, appVars, fault,
                   historyVars>>

(* Fault: the handle is cleared, and the server runs on. *)
ListenerStopForgets ==
    /\ lpc = "stop"
    /\ server' = None
    /\ ListenerGoto("clear")
    /\ UNCHANGED <<sharedVars, running, listening, saved, espVars, event, epc, held, i, appVars,
                   fault, historyVars>>

ListenerStop ==
    /\ lpc = "stop"
    /\ StopServer(held)
    /\ ListenerGoto("clear")
    /\ UNCHANGED <<sharedVars, handleVars, saved, event, epc, held, i, appVars, historyVars>>

ListenerClear ==
    /\ lpc = "clear"
    /\ server' = None
    /\ held' = None
    /\ ListenerGoto(IF MustStart THEN "start" ELSE "idle")
    /\ UNCHANGED <<sharedVars, running, listening, saved, espVars, event, epc, i, appVars, fault,
                   historyVars>>

(* Fault: a start that fails is tried until it succeeds. *)
ListenerStartInsists ==
    /\ lpc = "start"
    /\ \/ /\ alive = {}
          /\ \E h \in Handle : alive' = {h} /\ server' = h
          /\ excuse' = "none"
          /\ late' = {}
          /\ ListenerGoto("errors")
       \/ /\ excuse' = "failed"
          /\ UNCHANGED <<alive, server, late, lpc>>
    /\ UNCHANGED <<sharedVars, running, listening, saved, busy, work, served, event, epc, held, i,
                   appVars, fault, known, dropped>>

(* httpd_start: no memory, or the port still taken, or a new server. *)
ListenerStart ==
    /\ lpc = "start"
    /\ \/ /\ alive = {}
          /\ \E h \in Handle : alive' = {h} /\ server' = h
          /\ excuse' = "none"
          /\ late' = {}
          /\ ListenerGoto("errors")
       \/ /\ excuse' = "failed"
          /\ ListenerGoto("idle")
          /\ UNCHANGED <<alive, server, late>>
    /\ UNCHANGED <<sharedVars, running, listening, saved, busy, work, served, event, epc, held, i,
                   appVars, fault, known, dropped>>

(* What follows is registered with whatever _server is now: the handlers   *)
(* of errors, ...                                                          *)
RegisterErrors ==
    /\ lpc = "errors"
    /\ UseServer
    /\ i' = 1
    /\ ListenerGoto("page")
    /\ UNCHANGED <<sharedVars, handleVars, saved, espVars, event, epc, held, appVars, historyVars>>

(* ... the pages and then the sockets, as many as are saved by now.        *)
RegisterRoute(kind) ==
    /\ lpc = kind /\ i <= Len(saved[kind])
    /\ UseServer
    /\ served' = IF server = None THEN served ELSE served \cup {<<kind, saved[kind][i]>>}
    /\ i' = i + 1
    /\ UNCHANGED <<sharedVars, handleVars, saved, alive, busy, work, event, epc, lpc, held,
                   appVars, historyVars>>

(* Fault: the second loop goes on where the first one ended. *)
EndOfRoutesKeepsIndex(kind) ==
    /\ lpc = kind /\ i > Len(saved[kind])
    /\ ListenerGoto(IF kind = "page" THEN "socket" ELSE "idle")
    /\ UNCHANGED <<sharedVars, handleVars, saved, espVars, event, epc, held, i, appVars, fault,
                   historyVars>>

EndOfRoutes(kind) ==
    /\ lpc = kind /\ i > Len(saved[kind])
    /\ i' = 1
    /\ ListenerGoto(IF kind = "page" THEN "socket" ELSE "idle")
    /\ UNCHANGED <<sharedVars, handleVars, saved, espVars, event, epc, held, appVars, fault,
                   historyVars>>

ListenerStep ==
    \/ ListenerEnter
    \/ ListenerStop
    \/ ListenerClear
    \/ ListenerStart
    \/ RegisterErrors
    \/ \E kind \in Kind : RegisterRoute(kind) \/ EndOfRoutes(kind)

-----------------------------------------------------------------------------
(* The application's calls.                                                *)

AppGoto(label) == apc' = label

(* on and onWS: a route more than the array has places for is forgotten.   *)
SaveRoute(kind, uri) ==
    /\ apc = "idle" /\ Len(saved[kind]) < Capacity(kind)
    /\ saved' = [saved EXCEPT ![kind] = Append(@, uri)]
    /\ late' = IF server = None THEN late ELSE late \cup {<<kind, uri>>}
    /\ known' = known \cup {<<kind, uri>>}
    /\ dropped' = dropped \ {<<kind, uri>>}
    /\ UNCHANGED <<sharedVars, handleVars, espVars, event, epc, listenerVars, appVars, fault,
                   excuse>>

(* init: passive, and without effect while running. *)
CallInit ==
    /\ apc = "idle" /\ ~running
    /\ running' = TRUE
    /\ listening' = TRUE
    /\ excuse' = IF NetworkReady /\ server = None THEN "late" ELSE excuse
    /\ UNCHANGED <<sharedVars, server, saved, espVars, event, epc, listenerVars, appVars, fault,
                   routeHistory>>

(* stop: it ends the server, but the listener stays. *)
CallStop ==
    /\ apc = "idle" /\ running
    /\ running' = FALSE
    /\ aheld' = server
    /\ AppGoto(IF server = None THEN "page" ELSE "stop")
    /\ UNCHANGED <<sharedVars, listening, server, saved, espVars, event, epc, listenerVars, fault,
                   historyVars>>

AppStop ==
    /\ apc = "stop"
    /\ StopServer(aheld)
    /\ AppGoto("clear")
    /\ UNCHANGED <<sharedVars, handleVars, saved, event, epc, listenerVars, aheld, historyVars>>

AppClear ==
    /\ apc = "clear"
    /\ server' = None
    /\ aheld' = None
    /\ AppGoto("page")
    /\ excuse' = IF NetworkReady THEN "stopped" ELSE excuse
    /\ UNCHANGED <<sharedVars, running, listening, saved, espVars, event, epc, listenerVars, fault,
                   routeHistory>>

(* The two counts are set to 0. *)
ForgetRoutes(kind) ==
    /\ apc = kind
    /\ saved' = [saved EXCEPT ![kind] = << >>]
    /\ dropped' = dropped \cup Routes(kind)
    /\ AppGoto(IF kind = "page" THEN "socket" ELSE "idle")
    /\ UNCHANGED <<sharedVars, handleVars, espVars, event, epc, listenerVars, aheld, fault,
                   excuse, late, known>>

(* wsBroadcast, wsSendToFd, wsSendPing, closeAllClients and getClients     *)
(* test _server, ...                                                       *)
CallServer ==
    /\ apc = "idle" /\ server # None
    /\ \E label \in {"queue", "use"} : AppGoto(label)
    /\ UNCHANGED <<sharedVars, handleVars, saved, espVars, event, epc, listenerVars, aheld, fault,
                   historyVars>>

(* Fault: a null is queued to, as if there were a server. *)
QueueWorkOfNone ==
    /\ apc = "queue"
    /\ UseServer
    /\ work' = work \cup {server}
    /\ AppGoto("idle")
    /\ UNCHANGED <<sharedVars, handleVars, saved, alive, busy, served, event, epc, listenerVars,
                   aheld, historyVars>>

(* ... and read it again for httpd_queue_work, ...                         *)
QueueWork ==
    /\ apc = "queue"
    /\ UseServer
    /\ work' = work \cup (alive \cap {server})
    /\ AppGoto("idle")
    /\ UNCHANGED <<sharedVars, handleVars, saved, alive, busy, served, event, epc, listenerVars,
                   aheld, historyVars>>

(* ... or for what they ask of the server themselves.                      *)
AskServer ==
    /\ apc = "use"
    /\ UseServer
    /\ AppGoto("idle")
    /\ UNCHANGED <<sharedVars, handleVars, saved, espVars, event, epc, listenerVars, aheld,
                   historyVars>>

AppStep ==
    \/ AppStop
    \/ AppClear
    \/ \E kind \in Kind : ForgetRoutes(kind)
    \/ QueueWork
    \/ AskServer

-----------------------------------------------------------------------------
(* The server's task.  One that is being stopped takes no new request.     *)
Stopping(h) == (lpc = "stop" /\ held = h) \/ (apc = "stop" /\ aheld = h)

PageStart(h) ==
    /\ h \in alive \ busy /\ ~Stopping(h)
    /\ busy' = busy \cup {h}
    /\ UNCHANGED <<sharedVars, handleVars, saved, alive, work, served, event, epc, listenerVars,
                   appVars, fault, historyVars>>

PageEnd(h) ==
    /\ h \in busy
    /\ busy' = busy \ {h}
    /\ UNCHANGED <<sharedVars, handleVars, saved, alive, work, served, event, epc, listenerVars,
                   appVars, fault, historyVars>>

(* _ws_broadcast_worker: the sockets it asks for are those of _server. *)
Broadcast(h) ==
    /\ h \in work \ busy
    /\ UseServer
    /\ work' = work \ {h}
    /\ UNCHANGED <<sharedVars, handleVars, saved, alive, busy, served, event, epc, listenerVars,
                   appVars, historyVars>>

ClockStep ==
    /\ Elapse
    /\ UNCHANGED <<handleVars, saved, espVars, event, epc, listenerVars, appVars, fault,
                   historyVars>>

Next ==
    \/ NetChange
    \/ ReportStep
    \/ ListenerStep
    \/ \E kind \in Kind, uri \in Uri : SaveRoute(kind, uri)
    \/ CallInit
    \/ CallStop
    \/ CallServer
    \/ AppStep
    \/ \E h \in Handle : PageStart(h) \/ PageEnd(h) \/ Broadcast(h)
    \/ ClockStep

(* The event task and the listener it calls go on.  Of a page handler      *)
(* nothing is assumed: it may never return.                                *)
Fairness == WF_vars(ReportStep) /\ WF_vars(ListenerStep)

Spec == Init /\ [][Next]_vars /\ Fairness

(* A state constraint: the runs do not look beyond a use of a freed server. *)
NotCorrupted == ~fault

-----------------------------------------------------------------------------
TypeOK ==
    /\ SharedTypeOK
    /\ running \in BOOLEAN /\ listening \in BOOLEAN /\ fault \in BOOLEAN
    /\ server \in Handle \cup {None}
    /\ saved \in [Kind -> Seq(Uri)]
    /\ \A kind \in Kind : Len(saved[kind]) <= Capacity(kind)
    /\ alive \subseteq Handle /\ busy \subseteq alive /\ work \subseteq alive
    /\ {served, late, known, dropped} \subseteq SUBSET (Kind \X Uri)
    /\ event \in Event /\ epc \in {"idle", "emit", "auto", "mode"}
    /\ lpc \in {"idle", "enter", "stop", "clear", "start", "errors"} \cup Kind
    /\ apc \in {"idle", "stop", "clear", "queue", "use"} \cup Kind
    /\ {held, aheld} \subseteq Handle \cup {None}
    /\ i \in 1..(MaxPages + MaxSockets + 1)
    /\ excuse \in {"none", "late", "stopped", "failed"}

Quiet == epc = "idle" /\ apc = "idle"

(* While an interface is ready there is a server, through every loss of    *)
(* the other interface, change of mode and restart, unless one of three    *)
(* things happened: init() was called with the interface up already and no *)
(* change came since, stop() was called since, or httpd_start failed       *)
(* (NeuHttpServer_Core.cpp:70-130).  The first is the order of the         *)
(* sketches, startAP and then server.init (HTTP_Minimal.ino:22-30).        *)
ServerUp == Quiet /\ listening /\ NetworkReady /\ excuse = "none" => server \in alive

ServerIdle == ~fault /\ lpc = "idle" /\ server \in alive

(* A server that runs serves every page and socket that was ever saved,    *)
(* through restarts, and when routes are saved or forgotten while the      *)
(* listener walks the arrays, but for those saved since it was started, as *)
(* the sketches may do (HTTP_Minimal.ino:24-27), and those that stop()     *)
(* forgot (NeuHttpServer_Core.cpp:98-120, 154).                            *)
RoutesServed == ServerIdle => known \subseteq served \cup late \cup dropped

(* Of stop() NeuHttpServer_Core.cpp:145 says that it "does not remove      *)
(* registered routes - they will be re-applied when server restarts".      *)
RoutesReapplied == ServerIdle => known \subseteq served \cup late

(* Whatever server runs can still be stopped: _server is its handle, also  *)
(* when stop() and the listener overlap (NeuHttpServer_Core.cpp:80, 150).  *)
NoLostServer == ~fault => \A h \in alive : server = h

(* When a queued broadcast runs, _server is the server in whose task it    *)
(* runs, also in the middle of a restart: the worker sends to the sockets  *)
(* of no other server (NeuHttpServer_WS.cpp:295).                          *)
BroadcastOwn == ~fault => \A h \in work : server = h

(* Every page handler returns, the running one of each server in time.     *)
PagesReturn == \A h \in Handle : []<>(h \notin busy)

(* The event task comes back from every report of a change, though the     *)
(* listener it calls waits for a page in httpd_stop, if that page's        *)
(* handler returns; nothing else can hold it (NeuHttpServer_Core.cpp:79-84,*)
(* NeuHttpServer_Helper.cpp:280-292).                                      *)
ReportEnds == PagesReturn => (epc # "idle" ~> epc = "idle")
=============================================================================
