--------------------------------- MODULE UDP ---------------------------------
(***************************************************************************)
(* The UDP service NeuUDP (udp/NeuUDP.cpp): an application task that calls *)
(* init and stop, the receive tasks that init creates, and a sender that   *)
(* holds the mutex while it sends.  The receive task polls the network     *)
(* flags of SharedState and opens, closes and reopens the socket by itself.*)
(*                                                                         *)
(* Granularity.  _closeSocket and _initSocket run under the mutex and are  *)
(* one step with it; what the receive task reads outside the mutex         *)
(* (_running, _socketActive, the network flags) it reads in steps of its   *)
(* own, the tests that decide to take the mutex among them.  A send is two *)
(* steps, so that others find the mutex taken and may wait in vain for it. *)
(*                                                                         *)
(* Two history variables record what the code does not guard against; no   *)
(* action depends on them, and the properties name them.                   *)
(***************************************************************************)
EXTENDS Naturals, FiniteSets

CONSTANTS
    Task,      \* the receive tasks there can be at a time
    Conn,      \* the netconns lwIP can hand out
    Port,
    None       \* a null netconn; no port

ASSUME NoneAssumption == None \notin Conn /\ None \notin Port

VARIABLES
    running,       \* _running
    socketActive,  \* _socketActive
    conn,          \* _conn
    port,          \* _port
    bound,         \* lwIP: the port each netconn is bound to, None when it is free
    udpActive,     \* SharedState's _isUdpActive
    net,           \* the interfaces SharedState reports ready
    pc,            \* where each receive task is
    seen,          \* lastStaState and lastApState; {"first"} before the first check
    ref,           \* current_conn
    apc,           \* where the application's call is
    sending,       \* a sender holds the mutex
    overlap,       \* history: init() was called while a receive task was alive
    skipped        \* history: who gave up the last close for want of the mutex: "stop", "exit"

flagVars == <<running, socketActive, port>>
connVars == <<conn, bound, udpActive>>
taskVars == <<pc, seen, ref>>
history == <<overlap, skipped>>
vars == <<running, socketActive, port, conn, bound, udpActive, net, pc, seen, ref, apc, sending,
          overlap, skipped>>

Interface == {"sta", "ap"}
Alive == {k \in Task : pc[k] # "none"}
Goto(k, label) == pc' = [pc EXCEPT ![k] = label]

Init ==
    /\ running = FALSE /\ socketActive = FALSE
    /\ conn = None /\ port = None
    /\ bound = [c \in Conn |-> None]
    /\ udpActive = FALSE
    /\ net = {}
    /\ pc = [k \in Task |-> "none"]
    /\ seen = [k \in Task |-> {"first"}]
    /\ ref = [k \in Task |-> None]
    /\ apc = "idle"
    /\ sending = FALSE
    /\ overlap = FALSE /\ skipped = {}

-----------------------------------------------------------------------------
(* The socket, under the mutex.                                            *)

Free == {c \in Conn : bound[c] = None}

(* _closeSocket: whatever _conn is now, and the flags in any case. *)
CloseSocket ==
    /\ conn' = None
    /\ bound' = [c \in Conn |-> IF c = conn THEN None ELSE bound[c]]
    /\ socketActive' = FALSE
    /\ udpActive' = FALSE

(* _initSocket overwrites _conn first.  A netconn that lwIP gives and      *)
(* binds is announced.                                                     *)
NewSocket ==
    /\ port \notin {bound[c] : c \in Conn}
    /\ \E c \in Free :
         /\ conn' = c
         /\ bound' = [bound EXCEPT ![c] = port]
    /\ socketActive' = TRUE
    /\ udpActive' = TRUE

(* But netconn_new may find no memory and netconn_bind may fail, at any    *)
(* time: then what was new is deleted, and _conn is null.                  *)
NoSocket ==
    /\ conn' = None
    /\ UNCHANGED <<bound, socketActive, udpActive>>

(* Fault: the flag is raised before the bind is known to have succeeded. *)
InitSocketFlagsFirst ==
    \/ NewSocket
    \/ conn' = None /\ socketActive' = TRUE /\ UNCHANGED <<bound, udpActive>>

InitSocket == NewSocket \/ NoSocket

Untouched == UNCHANGED <<socketActive, connVars>>

(* xSemaphoreTake with a timeout, which may run out while a send is slow. *)
UnderMutex(Body) ==
    \/ ~sending /\ Body
    \/ sending /\ Untouched

-----------------------------------------------------------------------------
(* _run, the receive task.                                                 *)

(* Faults: the task deletes itself in the loop, without the close behind   *)
(* it; it returns, which FreeRTOS forbids; it continues instead.           *)
AtExitNothing == "none"
AtExitReturn == "returned"
AtExitContinue == "loop"

AtExit == "exit"

(* The head of the loop reads _running and the network flags. *)
Check(k) ==
    /\ pc[k] = "loop"
    /\ \/ /\ ~running
          /\ Goto(k, AtExit)
          /\ UNCHANGED seen
       \/ /\ running
          /\ seen' = [seen EXCEPT ![k] = net]
          /\ Goto(k, IF net = {} \/ seen[k] \notin {{"first"}, net} THEN "heal" ELSE "open")
    /\ UNCHANGED <<flagVars, connVars, net, ref, apc, sending, history>>

(* The network changed or is gone: is there a socket to close? *)
Heal(k) ==
    /\ pc[k] = "heal"
    /\ Goto(k, IF socketActive THEN "unplug" ELSE "open")
    /\ UNCHANGED <<flagVars, connVars, net, seen, ref, apc, sending, history>>

Unplug(k) ==
    /\ pc[k] = "unplug"
    /\ UnderMutex(CloseSocket)
    /\ Goto(k, "open")
    /\ UNCHANGED <<running, port, net, seen, ref, apc, sending, history>>

(* The network is there: is the socket not? *)
Open(k) ==
    /\ pc[k] = "open"
    /\ Goto(k, IF seen[k] # {} /\ ~socketActive THEN "plug" ELSE "poll")
    /\ UNCHANGED <<flagVars, connVars, net, seen, ref, apc, sending, history>>

Plug(k) ==
    /\ pc[k] = "plug"
    /\ UnderMutex(InitSocket)
    /\ Goto(k, "poll")
    /\ UNCHANGED <<running, port, net, seen, ref, apc, sending, history>>

(* Without a socket the task sleeps and starts over. *)
Poll(k) ==
    /\ pc[k] = "poll"
    /\ Goto(k, IF socketActive THEN "take" ELSE "loop")
    /\ UNCHANGED <<flagVars, connVars, net, seen, ref, apc, sending, history>>

(* The netconn to receive on is read under the mutex, and used outside it. *)
TakeConn(k) ==
    /\ pc[k] = "take"
    /\ \/ /\ ~sending
          /\ ref' = [ref EXCEPT ![k] = conn]
          /\ Goto(k, IF conn = None THEN "loop" ELSE "recv")
       \/ /\ sending
          /\ Goto(k, "loop")
          /\ UNCHANGED ref
    /\ UNCHANGED <<flagVars, connVars, net, seen, apc, sending, history>>

(* netconn_recv returns: a packet, a timeout, or an error, which a netconn *)
(* closed by another task gives at once.  Then _running is read again.     *)
Receive(k) ==
    /\ pc[k] = "recv"
    /\ \/ ~running /\ Goto(k, AtExit)
       \/ /\ running /\ bound[ref[k]] # None
          /\ \/ Goto(k, IF socketActive THEN "deliver" ELSE "loop")
             \/ Goto(k, "loop")
       \/ running /\ Goto(k, "fail")
    /\ ref' = [ref EXCEPT ![k] = None]
    /\ UNCHANGED <<flagVars, connVars, net, seen, apc, sending, history>>

(* The user's callbacks run. *)
Deliver(k) ==
    /\ pc[k] = "deliver"
    /\ Goto(k, "loop")
    /\ UNCHANGED <<flagVars, connVars, net, seen, ref, apc, sending, history>>

(* After an error the current socket is closed, to be opened again. *)
Fail(k) ==
    /\ pc[k] = "fail"
    /\ UnderMutex(CloseSocket)
    /\ Goto(k, "loop")
    /\ UNCHANGED <<running, port, net, seen, ref, apc, sending, history>>

(* Behind the loop it closes once more, if it gets the mutex in time. *)
Exit(k) ==
    /\ pc[k] = "exit"
    /\ \/ ~sending /\ CloseSocket /\ UNCHANGED skipped
       \/ sending /\ Untouched /\ skipped' = skipped \cup {"exit"}
    /\ Goto(k, "none")
    /\ UNCHANGED <<running, port, net, seen, ref, apc, sending, overlap>>

TaskStep(k) ==
    \/ Check(k)
    \/ Heal(k)
    \/ Unplug(k)
    \/ Open(k)
    \/ Plug(k)
    \/ Poll(k)
    \/ TakeConn(k)
    \/ Receive(k)
    \/ Deliver(k)
    \/ Fail(k)
    \/ Exit(k)

-----------------------------------------------------------------------------
(* The application's calls.                                                *)

(* init: nothing if it runs on that port already; else it starts over, and *)
(* forgets about a socket without closing it.                              *)
CallInit(p) ==
    /\ apc = "idle" /\ ~sending
    /\ ~(running /\ port = p)
    /\ port' = p
    /\ running' = TRUE
    /\ socketActive' = FALSE
    /\ apc' = "create"
    /\ overlap' = (overlap \/ Alive # {})
    /\ UNCHANGED <<connVars, net, taskVars, sending, skipped>>

CreateTask ==
    /\ apc = "create"
    /\ \/ \E k \in Task \ Alive :
            /\ Goto(k, "loop")
            /\ seen' = [seen EXCEPT ![k] = {"first"}]
            /\ ref' = [ref EXCEPT ![k] = None]
            /\ UNCHANGED running
       \/ running' = FALSE /\ UNCHANGED taskVars
    /\ apc' = "idle"
    /\ UNCHANGED <<socketActive, port, connVars, net, sending, history>>

CallStop ==
    /\ apc = "idle" /\ running
    /\ running' = FALSE
    /\ apc' = "close"
    /\ UNCHANGED <<socketActive, port, connVars, net, taskVars, sending, history>>

(* Fault: the socket is closed without the mutex. *)
StopClosesUnlocked == CloseSocket /\ UNCHANGED skipped

(* stop() closes, if it gets the mutex in time. *)
StopCloses ==
    \/ ~sending /\ CloseSocket /\ UNCHANGED skipped
    \/ sending /\ Untouched /\ skipped' = skipped \cup {"stop"}

StopClose ==
    /\ apc = "close"
    /\ StopCloses
    /\ apc' = "wait"
    /\ UNCHANGED <<running, port, net, taskVars, sending, overlap>>

(* It waits for _socketActive to fall, 500 ms at most, and clears it. *)
StopReturns ==
    /\ apc = "wait"
    /\ socketActive' = FALSE
    /\ apc' = "idle"
    /\ UNCHANGED <<running, port, connVars, net, taskVars, sending, history>>

AppStep == CreateTask \/ StopClose \/ StopReturns

-----------------------------------------------------------------------------
(* sendTo holds the mutex from its checks to the end of netconn_sendto.    *)
SendTake ==
    /\ ~sending /\ socketActive /\ conn # None
    /\ sending' = TRUE
    /\ UNCHANGED <<flagVars, connVars, net, taskVars, apc, history>>

SendGive ==
    /\ sending
    /\ sending' = FALSE
    /\ UNCHANGED <<flagVars, connVars, net, taskVars, apc, history>>

(* The Wi-Fi engine reports other interfaces ready. *)
NetChange ==
    /\ \E ready \in SUBSET Interface : ready # net /\ net' = ready
    /\ UNCHANGED <<flagVars, connVars, taskVars, apc, sending, history>>

Next ==
    \/ \E p \in Port : CallInit(p)
    \/ CallStop
    \/ AppStep
    \/ \E k \in Task : TaskStep(k)
    \/ SendTake
    \/ SendGive
    \/ NetChange

Spec == Init /\ [][Next]_vars

(* Every task is scheduled, and no wait for the mutex is for ever.  Of     *)
(* lwIP it is asked that it does not refuse for ever a socket that it is   *)
(* asked for again and again, and could give.                              *)
Fairness ==
    /\ WF_vars(AppStep)
    /\ \A k \in Task : WF_vars(TaskStep(k)) /\ SF_vars(Plug(k) /\ NewSocket)
    /\ WF_vars(SendGive)

FairSpec == Spec /\ Fairness

-----------------------------------------------------------------------------
TypeOK ==
    /\ running \in BOOLEAN /\ socketActive \in BOOLEAN
    /\ conn \in Conn \cup {None}
    /\ port \in Port \cup {None}
    /\ bound \in [Conn -> Port \cup {None}]
    /\ udpActive \in BOOLEAN
    /\ net \subseteq Interface
    /\ pc \in [Task -> {"none", "loop", "heal", "unplug", "open", "plug", "poll", "take",
                        "recv", "deliver", "fail", "exit"}]
    /\ seen \in [Task -> (SUBSET Interface) \cup {{"first"}}]
    /\ ref \in [Task -> Conn \cup {None}]
    /\ apc \in {"idle", "create", "close", "wait"}
    /\ sending \in BOOLEAN
    /\ overlap \in BOOLEAN /\ skipped \subseteq {"stop", "exit"}

(* A netconn is lost, bound to its port with nobody left to close it, only *)
(* if init() was called while an earlier receive task was alive, or if a   *)
(* slow send made stop() or a task that ends give up its close             *)
(* (NeuUDP.cpp:49, 70, 92, 416): otherwise what lwIP holds bound is what   *)
(* _conn points to.                                                        *)
NoLeak == ~overlap /\ skipped = {} => \A c \in Conn : bound[c] # None => c = conn

(* A send never has its netconn closed under it. *)
SendSafe == sending => conn # None /\ bound[conn] # None

(* When stop() is over and the receive tasks too, _conn is closed and      *)
(* SharedState knows, even if a task opened it once more after stop() had  *)
(* closed it, or stop() had not got the mutex, and however many tasks      *)
(* there were: each closes as it ends, unless a slow send prevents that    *)
(* (NeuUDP.cpp:62-85, 416-420).                                            *)
StoppedMeansClosed ==
    "exit" \notin skipped /\ ~running /\ Alive = {} /\ apc = "idle" => conn = None /\ ~udpActive

Serving == conn # None /\ socketActive /\ udpActive

Recovers == running /\ net # {} ~> Serving \/ ~running \/ net = {}

(* A state constraint: the run does not look beyond two mishaps (one is an *)
(* init() beside a living task, two are slow sends that prevent a close of *)
(* stop() and one of a task), nor beyond one that is an init() when the    *)
(* access point is ready: the station is, or is not.                       *)
OneMishap ==
    IF overlap THEN skipped = {} /\ "ap" \notin net ELSE skipped # {"stop", "exit"}

(* The service comes back by itself while the network is there, through    *)
(* every close and every open that fails for want of memory or at the bind *)
(* (NeuUDP.cpp:93-108, 312-337), if no netconn can have been lost.         *)
SelfHeals == [](~overlap /\ skipped = {}) => Recovers

(* After stop() the receive task ends, whoever else holds the mutex.       *)
TaskEnds == ~running ~> Alive = {} \/ running

(* NeuUDP.cpp:35 promises it after any sequence of init() and stop().  (A  *)
(* close that a slow send prevents is another matter.)                     *)
ImmuneToMess == [](skipped = {}) => Recovers
=============================================================================
