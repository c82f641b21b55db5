--------------------------------- MODULE MDNS ---------------------------------
(***************************************************************************)
(* The mDNS service NeuMDNSClass (mdns/NeuMDNS.cpp).  A worker task brings *)
(* up the mDNS stack of ESP-IDF when there is a network, announces the     *)
(* service and queries.  The application starts and stops it; every event  *)
(* of SharedState runs local_mdns_network_event_cb in the event task,      *)
(* which ends the service and initialises it again.  The three actors only *)
(* share plain flags: s_task_created, s_stop_requested, _is_initialized.   *)
(*                                                                         *)
(* Granularity.  One load or store of such a flag is a step; mdns_init     *)
(* with what is announced after it, and end()'s freeing, are one each.     *)
(* Waits have no length: a timeout may come before any answer.             *)
(***************************************************************************)
EXTENDS Naturals, FiniteSets

CONSTANT Worker  \* the worker tasks there can be at a time

VARIABLES
    inited,     \* _is_initialized
    listening,  \* s_callback_registered
    created,    \* s_task_created
    stopReq,    \* s_stop_requested
    oneShot,    \* s_discovery_config.interval_ms == 0
    net,        \* SharedState's isNetworkReady
    stack,      \* ESP-IDF: the mDNS stack is up and announces the service
    pc, up,     \* where each worker is, and its internal_mdns_running
    epc,        \* where each caller of end() is
    late,       \* history: an end() gave up waiting for the worker
    asked,      \* history: what the application asked for last
    lost        \* history: an event took the stack away while it was wanted

flagVars == <<inited, listening, created, stopReq, oneShot>>
workerVars == <<pc, up>>
historyVars == <<late, asked, lost>>
vars == <<flagVars, net, stack, workerVars, epc, historyVars>>

Ender == {"app", "event"}
Active == {k \in Worker : pc[k] \notin {"none", "retract"}}
Goto(k, label) == pc' = [pc EXCEPT ![k] = label]
EnderGoto(c, label) == epc' = [epc EXCEPT ![c] = label]

Init ==
    /\ inited = FALSE /\ listening = FALSE
    /\ created = FALSE /\ stopReq = FALSE /\ oneShot = FALSE
    /\ net = FALSE
    /\ stack = FALSE
    /\ pc = [k \in Worker |-> "none"]
    /\ up = [k \in Worker |-> FALSE]
    /\ epc = [c \in Ender |-> "idle"]
    /\ late = FALSE /\ asked = "nothing" /\ lost = FALSE

-----------------------------------------------------------------------------
(* mdns_discovery_worker_task.                                             *)

(* The head of the loop: a stop that was asked for ends it. *)
CheckStop(k) ==
    /\ pc[k] = "head"
    /\ Goto(k, IF stopReq THEN "clear" ELSE "net")
    /\ UNCHANGED <<flagVars, net, stack, up, epc, historyVars>>

(* Without a network the worker frees what it brought up, and sleeps 2 s. *)
CheckNet(k) ==
    /\ pc[k] = "net"
    /\ Goto(k, IF ~net THEN (IF up[k] THEN "free" ELSE "head")
                       ELSE (IF up[k] THEN "query" ELSE "start"))
    /\ UNCHANGED <<flagVars, net, stack, up, epc, historyVars>>

FreeStack(k) ==
    /\ pc[k] = "free"
    /\ stack' = FALSE
    /\ up' = [up EXCEPT ![k] = FALSE]
    /\ Goto(k, "head")
    /\ UNCHANGED <<flagVars, net, epc, historyVars>>

(* mdns_init, which does nothing on a stack that is up, and the service   *)
(* that addService stored before discovery was started.                    *)
StartStack(k) ==
    /\ pc[k] = "start"
    /\ stack' = TRUE
    /\ up' = [up EXCEPT ![k] = TRUE]
    /\ lost' = FALSE
    /\ Goto(k, "query")
    /\ UNCHANGED <<flagVars, net, epc, late, asked>>

(* mdns_init had no memory: again in a second. *)
StartFails(k) ==
    /\ pc[k] = "start"
    /\ Goto(k, "head")
    /\ UNCHANGED <<flagVars, net, stack, up, epc, historyVars>>

(* One query cycle; then a single discovery, or a stopped one, ends. *)
Query(k) ==
    /\ pc[k] = "query"
    /\ Goto(k, IF oneShot \/ stopReq THEN "clear" ELSE "head")
    /\ UNCHANGED <<flagVars, net, stack, up, epc, historyVars>>

(* The two flags are cleared, in this order, and the task deletes itself. *)
ClearCreated(k) ==
    /\ pc[k] = "clear"
    /\ created' = FALSE
    /\ Goto(k, "retract")
    /\ UNCHANGED <<inited, listening, stopReq, oneShot, net, stack, up, epc,
                   historyVars>>

(* Fault: the task function returns. *)
WorkerGoneReturned == "returned"

WorkerGone == "none"

Retract(k) ==
    /\ pc[k] = "retract"
    /\ stopReq' = FALSE
    /\ up' = [up EXCEPT ![k] = FALSE]
    /\ Goto(k, WorkerGone)
    /\ UNCHANGED <<inited, listening, created, oneShot, net, stack, epc,
                   historyVars>>

WorkerStep(k) ==
    \/ CheckStop(k)
    \/ CheckNet(k)
    \/ FreeStack(k)
    \/ StartStack(k)
    \/ StartFails(k)
    \/ Query(k)
    \/ ClearCreated(k)
    \/ Retract(k)

-----------------------------------------------------------------------------
(* end(), called by the application and by the event callback.             *)

(* It fails if the service is not initialised; ... *)
Enter(c) ==
    /\ epc[c] = "enter"
    /\ EnderGoto(c, IF inited THEN "test" ELSE "out")
    /\ UNCHANGED <<flagVars, net, stack, workerVars, historyVars>>

Test(c) ==
    /\ epc[c] = "test"
    /\ EnderGoto(c, IF created THEN "ask" ELSE "free")
    /\ UNCHANGED <<flagVars, net, stack, workerVars, historyVars>>

(* Fault: nothing waits for the worker. *)
AfterAskFree == "free"

AfterAsk == "wait"

(* ... asks a worker that is there to stop ... *)
Ask(c) ==
    /\ epc[c] = "ask"
    /\ stopReq' = TRUE
    /\ EnderGoto(c, AfterAsk)
    /\ UNCHANGED <<inited, listening, created, oneShot, net, stack, workerVars,
                   historyVars>>

Answered(c) ==
    /\ epc[c] = "wait" /\ ~created
    /\ EnderGoto(c, "free")
    /\ UNCHANGED <<flagVars, net, stack, workerVars, historyVars>>

(* Fault: a wait without an end. *)
GivesUpNever(c) == FALSE

GivesUp(c) == epc[c] = "wait" /\ created

(* ... and after a second without an answer clears both flags itself. *)
GiveUp(c) ==
    /\ GivesUp(c)
    /\ created' = FALSE
    /\ late' = TRUE
    /\ EnderGoto(c, "withdraw")
    /\ UNCHANGED <<inited, listening, stopReq, oneShot, net, stack, workerVars,
                   asked, lost>>

Withdraw(c) ==
    /\ epc[c] = "withdraw"
    /\ stopReq' = FALSE
    /\ EnderGoto(c, "free")
    /\ UNCHANGED <<inited, listening, created, oneShot, net, stack, workerVars,
                   historyVars>>

(* The stack is freed in any case. *)
Free(c) ==
    /\ epc[c] = "free"
    /\ stack' = FALSE
    /\ inited' = FALSE
    /\ asked' = IF c = "app" THEN "ended" ELSE asked
    /\ lost' = (lost \/ (c = "event" /\ stack /\ asked = "discovery"))
    /\ EnderGoto(c, "out")
    /\ UNCHANGED <<listening, created, stopReq, oneShot, net, workerVars, late>>

(* The application is done; the callback initialises if there is a network. *)
Out(c) ==
    /\ epc[c] = "out"
    /\ inited' = (inited \/ (c = "event" /\ net))
    /\ EnderGoto(c, "idle")
    /\ UNCHANGED <<listening, created, stopReq, oneShot, net, stack, workerVars,
                   historyVars>>

EnderStep(c) ==
    \/ Enter(c)
    \/ Test(c)
    \/ Ask(c)
    \/ Answered(c)
    \/ GiveUp(c)
    \/ Withdraw(c)
    \/ Free(c)
    \/ Out(c)

-----------------------------------------------------------------------------
(* SharedState announces a change of an interface or of the mode; its flag *)
(* changes only while no earlier change is being announced.                *)
NetEvent ==
    /\ epc["event"] = "idle"
    /\ \E ready \in BOOLEAN : (net \/ ready) /\ net' = ready
    /\ IF listening THEN EnderGoto("event", "enter") ELSE UNCHANGED epc
    /\ UNCHANGED <<flagVars, stack, workerVars, historyVars>>

(* The application's other calls; one at a time. *)
AppIdle == epc["app"] = "idle"

Asks(what) ==
    /\ asked' = what
    /\ lost' = (lost /\ what = "discovery")

CallInit ==
    /\ AppIdle /\ ~inited
    /\ inited' = TRUE /\ listening' = TRUE
    /\ UNCHANGED <<created, stopReq, oneShot, net, stack, workerVars, epc,
                   historyVars>>

(* Fault: a worker for every call. *)
MayCreateAlways == TRUE

MayCreate == ~created

AsksDiscovery(once) == Asks(IF once THEN "nothing" ELSE "discovery")

(* startDiscovery stores the configuration, which a running worker sees;   *)
(* when there is no memory for a new worker, that is all it does.          *)
StartDiscovery(once) ==
    /\ AppIdle
    /\ oneShot' = once
    /\ \/ /\ MayCreate
          /\ \E k \in Worker : pc[k] = "none" /\ Goto(k, "head")
          /\ EnderGoto("app", "mark")
          /\ AsksDiscovery(once)
       \/ MayCreate /\ UNCHANGED <<pc, epc, asked, lost>>
       \/ ~MayCreate /\ AsksDiscovery(once) /\ UNCHANGED <<pc, epc>>
    /\ UNCHANGED <<inited, listening, created, stopReq, net, stack, up, late>>

(* s_task_created is set after the task was created, and maybe has run. *)
MarkCreated ==
    /\ epc["app"] = "mark"
    /\ created' = TRUE
    /\ EnderGoto("app", "idle")
    /\ UNCHANGED <<inited, listening, stopReq, oneShot, net, stack, workerVars,
                   historyVars>>

(* stopDiscovery asks a worker that is there to stop. *)
StopDiscovery ==
    /\ AppIdle /\ created
    /\ EnderGoto("app", "stop")
    /\ UNCHANGED <<flagVars, net, stack, workerVars, historyVars>>

RequestStop ==
    /\ epc["app"] = "stop"
    /\ stopReq' = TRUE
    /\ Asks("nothing")
    /\ EnderGoto("app", "idle")
    /\ UNCHANGED <<inited, listening, created, oneShot, net, stack, workerVars,
                   late>>

CallEnd ==
    /\ AppIdle
    /\ Asks("nothing")
    /\ EnderGoto("app", "enter")
    /\ UNCHANGED <<flagVars, net, stack, workerVars, late>>

AppStep == MarkCreated \/ RequestStop

Next ==
    \/ \E k \in Worker : WorkerStep(k)
    \/ \E c \in Ender : EnderStep(c)
    \/ NetEvent
    \/ CallInit
    \/ \E once \in BOOLEAN : StartDiscovery(once)
    \/ StopDiscovery
    \/ CallEnd
    \/ AppStep

Spec == Init /\ [][Next]_vars

(* Whoever calls end() is scheduled.  A worker may be starved, or wait for *)
(* ever: end() has a timeout of its own.                                   *)
EnderFairness == \A c \in Ender : WF_vars(EnderStep(c))

EnderSpec == Spec /\ EnderFairness

(* Every task that runs code is scheduled, and mdns_init, tried again and  *)
(* again, gets its memory in the end.                                      *)
Fairness ==
    /\ EnderFairness
    /\ \A k \in Worker : WF_vars(WorkerStep(k)) /\ SF_vars(StartStack(k))
    /\ WF_vars(AppStep)

FairSpec == Spec /\ Fairness

-----------------------------------------------------------------------------
TypeOK ==
    /\ {inited, listening, created, stopReq, oneShot, net} \subseteq BOOLEAN
    /\ {stack, late, lost} \subseteq BOOLEAN
    /\ asked \in {"nothing", "discovery", "ended"}
    /\ pc \in [Worker -> {"none", "head", "net", "free", "start", "query", "clear",
                          "retract"}]
    /\ up \in [Worker -> BOOLEAN]
    /\ epc \in [Ender -> {"idle", "enter", "test", "ask", "wait", "withdraw", "free", "out",
                          "mark", "stop"}]

(* As long as no end() lost patience, s_task_created keeps two workers     *)
(* from running, although it is set late and cleared by two actors, and    *)
(* stale stops end workers early (NeuMDNS.cpp:245, 288-296).               *)
OneWorker == ~late => Cardinality(Active) <= 1

(* After the application's end() nobody brings the stack up again, unless  *)
(* it gave up waiting: the worker has ended, not only been asked to, when  *)
(* the stack is freed (NeuMDNS.cpp:453-472, "release all allocated         *)
(* resources", _NeuMDNS.h:104).                                             *)
EndReleases == asked = "ended" /\ ~late => ~stack /\ Active = {}

(* end() returns even if its stop request was lost, or the flag it waits   *)
(* for belongs to no worker any more: it may run in the event task, on     *)
(* which every other service depends (NeuMDNS.cpp:457-461).                *)
EndReturns == \A c \in Ender : epc[c] = "enter" ~> epc[c] = "idle"

(* A service that a network event took away is announced again while there *)
(* is a network and discovery was not stopped: "When the network recovers, *)
(* the intact s_saved_txt_responder will be ready to regenerate its        *)
(* service" (NeuMDNS.cpp:488).                                             *)
ServiceReturns == (lost /\ net) ~> (~lost \/ ~net)
=============================================================================
