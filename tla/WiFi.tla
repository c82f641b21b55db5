-------------------------------- MODULE WiFi --------------------------------
(***************************************************************************)
(* The Wi-Fi engine NeuWiFiClass (wifi/NeuWiFi_Core.cpp, _STA.cpp, _AP.cpp)*)
(* with the flags of SharedState it drives.  Four kinds of actors step     *)
(* independently:                                                          *)
(*   - the application task, which calls init, startSTA, startAP,          *)
(*     startHybrid, setAutoReconnect and stop;                             *)
(*   - the system event task, which takes driver events from a queue and   *)
(*     runs eventHandler on them;                                          *)
(*   - the reconnect tasks that eventHandler creates;                      *)
(*   - the Wi-Fi driver and the network (outside src/): they make, refuse  *)
(*     and lose connections and post the events.                           *)
(* A call is cut into steps where another actor can come in between.       *)
(* What reconnectTask does with the number of attempts is in Backoff; here *)
(* its delay is some time.                                                 *)
(***************************************************************************)
EXTENDS Naturals, Sequences, SharedState

CONSTANTS
    Task,         \* the reconnect tasks there can be at a time
    NoTask,       \* a null _reconnect_task_handle
    MaxQueue      \* events that wait for the event task

ASSUME NoTaskAssumption == NoTask \notin Task
ASSUME BoundsAssumption == MaxQueue \in Nat

VARIABLES
    group,       \* _event_group is not null: init() was called, stop() not
    bits,        \* the bits of _event_group
    registered,  \* the event bases eventHandler is registered for
    auto,        \* _auto_reconnect
    handle,      \* _reconnect_task_handle
    task,        \* where each reconnect task is
    event, epc,  \* the event being handled and where its handler is
    apc,         \* where the application's call is
    held,        \* the handle stop() has read
    fault,       \* a task that no longer exists was deleted
    crossed,     \* stop() cleared the handle of another task than it deleted
    driver, wmode, link, queue  \* the driver, its mode, its STA link, its events

coreVars == <<group, bits, registered, auto, handle, task>>
eventVars == <<event, epc>>
appVars == <<apc, held, fault, crossed>>
driverVars == <<driver, wmode, link, queue>>
vars == <<sharedVars, coreVars, eventVars, appVars, driverVars>>

WMode == {"STA", "AP", "APSTA"}
Event == {"STA_START", "STA_DISCONNECTED", "AP_START", "AP_STOP", "GOT_IP"}
HasSta(m) == m \in {"STA", "APSTA"}
HasAp(m) == m \in {"AP", "APSTA"}
StaChange == {"STA_DISCONNECTED", "GOT_IP"}
Base(e) == IF e = "GOT_IP" THEN "IP" ELSE "WIFI"

Init ==
    /\ SharedInit
    /\ group = FALSE /\ bits = {} /\ registered = {}
    /\ auto = TRUE
    /\ handle = NoTask /\ task = [k \in Task |-> "none"]
    /\ event = "STA_START" /\ epc = "idle"
    /\ apc = "idle" /\ held = NoTask /\ fault = FALSE /\ crossed = FALSE
    /\ driver = "off" /\ wmode = "STA" /\ link = "down" /\ queue = <<>>

-----------------------------------------------------------------------------
(* The driver.                                                             *)

Room == Len(queue) + 2 <= MaxQueue
Post(e) == queue' = Append(queue, e)
If(b, e) == IF b THEN <<e>> ELSE <<>>

(* esp_wifi_connect: without effect unless started, with a STA, unconnected. *)
Connect ==
    link' = IF driver = "started" /\ HasSta(wmode) /\ link = "down" THEN "trying" ELSE link

(* esp_wifi_stop: ends the link and the AP, and says so. *)
StopDriver ==
    /\ driver' = "stopped"
    /\ link' = "down"
    /\ queue' = queue \o If(link # "down", "STA_DISCONNECTED")
                      \o If(driver = "started" /\ HasAp(wmode), "AP_STOP")

(* esp_wifi_start *)
StartDriver ==
    /\ driver' = "started"
    /\ queue' = queue \o If(HasSta(wmode), "STA_START") \o If(HasAp(wmode), "AP_START")
    /\ UNCHANGED <<wmode, link>>

LinkUp ==
    /\ link = "trying" /\ Room
    /\ link' = "up"
    /\ Post("GOT_IP")
    /\ UNCHANGED <<sharedVars, coreVars, eventVars, appVars, driver, wmode>>

(* An attempt fails, or a connection is lost. *)
LinkDown ==
    /\ link # "down" /\ Room
    /\ link' = "down"
    /\ Post("STA_DISCONNECTED")
    /\ UNCHANGED <<sharedVars, coreVars, eventVars, appVars, driver, wmode>>

-----------------------------------------------------------------------------
(* eventHandler, run by the event task.                                    *)

EventGoto(label) ==
    /\ epc' = label
    /\ event' = IF label = "idle" THEN "STA_START" ELSE event

(* Fault: a station that will reconnect stays ready. *)
StaUpWhileRetrying(e) == e = "GOT_IP" \/ auto

StaUp(e) == e = "GOT_IP"

(* The loop takes the next event; without a registration it drops it. *)
Dispatch ==
    /\ epc = "idle" /\ queue # <<>>
    /\ queue' = Tail(queue)
    /\ \/ /\ Base(Head(queue)) \in registered
          /\ event' = Head(queue)
          /\ epc' = "enter"
       \/ /\ Base(Head(queue)) \notin registered
          /\ UNCHANGED eventVars
    /\ UNCHANGED <<sharedVars, coreVars, appVars, driver, wmode, link>>

OnStaStart ==
    /\ epc = "enter" /\ event = "STA_START"
    /\ Connect
    /\ EventGoto("idle")
    /\ UNCHANGED <<sharedVars, coreVars, appVars, driver, wmode, queue>>

(* Both connection events change the bits before the flags. *)
OnStaChange ==
    /\ epc = "enter" /\ event \in StaChange
    /\ bits' = IF event = "GOT_IP" THEN (bits \cup {"CONNECTED"}) \ {"FAIL"}
                                   ELSE (bits \cup {"FAIL"}) \ {"CONNECTED"}
    /\ EventGoto("flag")
    /\ UNCHANGED <<sharedVars, group, registered, auto, handle, task,
                   appVars, driverVars>>

HandlerStores ==
    /\ \/ epc = "flag" /\ StoreStaReady("event", StaUp(event))
       \/ /\ epc = "enter" /\ event \in {"AP_START", "AP_STOP"}
          /\ StoreApReady("event", event = "AP_START")
    /\ EventGoto("emit")
    /\ UNCHANGED <<coreVars, appVars, driverVars>>

HandlerEmits ==
    /\ epc = "emit"
    /\ \/ event \in StaChange /\ EmitSta("event", StaUp(event))
       \/ event \notin StaChange /\ EmitAp("event", event = "AP_START")
    /\ EventGoto("auto")
    /\ UNCHANGED <<coreVars, appVars, driverVars>>

HandlerUpdatesMode ==
    /\ epc = "auto"
    /\ UpdateAutoMode
    /\ EventGoto(IF event \in StaChange THEN "finish" ELSE "idle")
    /\ UNCHANGED <<coreVars, appVars, driverVars>>

(* The address of a connection follows the flag. *)
OnGotIP ==
    /\ epc = "finish" /\ event = "GOT_IP"
    /\ SetStaIP("set")
    /\ EventGoto("idle")
    /\ UNCHANGED <<group, bits, registered, auto, handle, task, appVars, driverVars>>

(* Fault: a task for every disconnection. *)
MayCreateAlways == auto

MayCreate == auto /\ handle = NoTask

(* A disconnection starts the reconnect task, unless one is there. *)
OnDisconnected ==
    /\ epc = "finish" /\ event = "STA_DISCONNECTED"
    /\ SetStaIP("none")
    /\ \/ /\ MayCreate
          /\ \E k \in Task :
               /\ task[k] = "none" /\ k # held
               /\ task' = [task EXCEPT ![k] = "delay"]
               /\ handle' = k
       \/ ~MayCreate /\ UNCHANGED <<task, handle>>
    /\ EventGoto("idle")
    /\ UNCHANGED <<group, bits, registered, auto, appVars, driverVars>>

EventStep ==
    \/ Dispatch
    \/ OnStaStart
    \/ OnStaChange
    \/ HandlerStores
    \/ HandlerEmits
    \/ HandlerUpdatesMode
    \/ OnGotIP
    \/ OnDisconnected

-----------------------------------------------------------------------------
(* reconnectTask.                                                          *)

(* The backoff delay is over. *)
Wake(k) ==
    /\ task[k] = "delay"
    /\ task' = [task EXCEPT ![k] = "connect"]
    /\ UNCHANGED <<sharedVars, group, bits, registered, auto, handle, eventVars, appVars,
                   driverVars>>

Retry(k) ==
    /\ task[k] = "connect"
    /\ IF auto THEN Connect ELSE UNCHANGED link
    /\ task' = [task EXCEPT ![k] = "clear"]
    /\ UNCHANGED <<sharedVars, group, bits, registered, auto, handle, eventVars,
                   appVars, driver, wmode, queue>>

(* Fault: the handle is not given up. *)
GiveUpNothing(k) ==
    /\ task[k] = "clear"
    /\ task' = [task EXCEPT ![k] = "end"]
    /\ UNCHANGED <<sharedVars, group, bits, registered, auto, handle, eventVars, appVars,
                   driverVars>>

(* The handle is given up ... *)
GiveUp(k) ==
    /\ task[k] = "clear"
    /\ handle' = NoTask
    /\ task' = [task EXCEPT ![k] = "end"]
    /\ UNCHANGED <<sharedVars, group, bits, registered, auto, eventVars, appVars, driverVars>>

(* ... and the task deletes itself: until then two may be there. *)
Finish(k) ==
    /\ task[k] = "end"
    /\ task' = [task EXCEPT ![k] = "none"]
    /\ UNCHANGED <<sharedVars, group, bits, registered, auto, handle, eventVars, appVars,
                   driverVars>>

ReconnectStep(k) == Wake(k) \/ Retry(k) \/ GiveUp(k) \/ Finish(k)

-----------------------------------------------------------------------------
(* The application's calls.                                                *)

AppGoto(label) == apc' = label

CallInit ==
    /\ apc = "idle" /\ ~group
    /\ group' = TRUE
    /\ driver' = "stopped"
    /\ registered' = {"WIFI", "IP"}
    /\ UNCHANGED <<sharedVars, bits, auto, handle, task, eventVars, appVars,
                   wmode, link, queue>>

SetAutoReconnect(enable) ==
    /\ apc = "idle"
    /\ auto' = enable
    /\ UNCHANGED <<sharedVars, group, bits, registered, handle, task, eventVars,
                   appVars, driverVars>>

(* startSTA, startAP and startHybrid stop the driver and set its mode ... *)
CallStart(m) ==
    /\ apc = "idle" /\ group /\ Room
    /\ StopDriver
    /\ wmode' = m
    /\ AppGoto("start")
    /\ UNCHANGED <<sharedVars, coreVars, eventVars, held, fault, crossed>>

(* ... and start it.  startAP ends here. *)
Start ==
    /\ apc = "start" /\ Room
    /\ StartDriver
    /\ AppGoto(CASE wmode = "STA" -> "clear" [] wmode = "AP" -> "idle" [] OTHER -> "connect")
    /\ UNCHANGED <<sharedVars, coreVars, eventVars, held, fault, crossed>>

(* startSTA forgets what the bits said so far. *)
ClearBits ==
    /\ apc = "clear"
    /\ bits' = {}
    /\ AppGoto("connect")
    /\ UNCHANGED <<sharedVars, group, registered, auto, handle, task, eventVars,
                   held, fault, crossed, driverVars>>

(* startHybrid ends with the connect, startSTA waits for an outcome. *)
ConnectCall ==
    /\ apc = "connect"
    /\ Connect
    /\ AppGoto(IF wmode = "STA" THEN "wait" ELSE "idle")
    /\ UNCHANGED <<sharedVars, coreVars, eventVars, held, fault, crossed, driver, wmode, queue>>

(* xEventGroupWaitBits returns on a bit or on its timeout. *)
WaitOver ==
    /\ apc = "wait"
    /\ AppGoto("idle")
    /\ UNCHANGED <<sharedVars, coreVars, eventVars, held, fault, crossed, driverVars>>

(* stop() looks at the handle once, ... *)
CallStop ==
    /\ apc = "idle" /\ group
    /\ held' = handle
    /\ AppGoto(IF handle = NoTask THEN "halt" ELSE "kill")
    /\ UNCHANGED <<sharedVars, coreVars, eventVars, fault, crossed, driverVars>>

(* ... deletes that task, which must still be there (a deletion of one that *)
(* is gone may go unnoticed, which is modelled, or crash the program), ... *)
DeleteTask ==
    /\ apc = "kill"
    /\ fault' = (fault \/ task[held] = "none")
    /\ task' = [task EXCEPT ![held] = "none"]
    /\ AppGoto("forget")
    /\ UNCHANGED <<sharedVars, group, bits, registered, auto, handle, eventVars,
                   held, crossed, driverVars>>

(* ... and clears the handle, which may be that of a younger task by now. *)
ForgetTask ==
    /\ apc = "forget"
    /\ handle' = NoTask
    /\ held' = NoTask
    /\ crossed' = (crossed \/ handle \notin {held, NoTask})
    /\ AppGoto("halt")
    /\ UNCHANGED <<sharedVars, group, bits, registered, auto, task, eventVars,
                   fault, driverVars>>

(* Fault: the handlers stay registered. *)
AfterHaltFlags == "downSta"

AfterHalt == "unregister"

Halt ==
    /\ apc = "halt" /\ Room
    /\ StopDriver
    /\ UNCHANGED wmode
    /\ AppGoto(AfterHalt)
    /\ UNCHANGED <<sharedVars, group, bits, registered, auto, handle, task, eventVars,
                   held, fault, crossed>>

(* The event loop's mutex: nothing is unregistered while a handler runs. *)
HandlerIsOut == epc = "idle"

UnregisterWiFi ==
    /\ apc = "unregister" /\ "WIFI" \in registered /\ HandlerIsOut
    /\ registered' = registered \ {"WIFI"}
    /\ UNCHANGED <<sharedVars, group, bits, auto, handle, task, eventVars, appVars,
                   driverVars>>

UnregisterIP ==
    /\ apc = "unregister" /\ registered = {"IP"} /\ HandlerIsOut
    /\ registered' = {}
    /\ driver' = "off"
    /\ AppGoto("downSta")
    /\ UNCHANGED <<sharedVars, group, bits, auto, handle, task, eventVars,
                   held, fault, crossed, wmode, link, queue>>

(* setStaReady(false), then setApReady(false) *)
StopStores ==
    /\ \/ apc = "downSta" /\ StoreStaReady("app", FALSE) /\ AppGoto("emitSta")
       \/ apc = "downAp" /\ StoreApReady("app", FALSE) /\ AppGoto("emitAp")
    /\ UNCHANGED <<coreVars, eventVars, held, fault, crossed, driverVars>>

StopEmits ==
    /\ \/ apc = "emitSta" /\ EmitSta("app", FALSE) /\ AppGoto("autoSta")
       \/ apc = "emitAp" /\ EmitAp("app", FALSE) /\ AppGoto("autoAp")
    /\ UNCHANGED <<coreVars, eventVars, held, fault, crossed, driverVars>>

StopUpdatesMode ==
    /\ apc \in {"autoSta", "autoAp"}
    /\ UpdateAutoMode
    /\ AppGoto(IF apc = "autoSta" THEN "downAp" ELSE "delete")
    /\ UNCHANGED <<coreVars, eventVars, held, fault, crossed, driverVars>>

DeleteGroup ==
    /\ apc = "delete"
    /\ group' = FALSE
    /\ bits' = {}
    /\ AppGoto("idle")
    /\ UNCHANGED <<sharedVars, registered, auto, handle, task, eventVars, 
                   held, fault, crossed, driverVars>>

StartStep == Start \/ ClearBits \/ ConnectCall \/ WaitOver
StopStep ==
    \/ DeleteTask
    \/ ForgetTask
    \/ Halt
    \/ UnregisterWiFi
    \/ UnregisterIP
    \/ StopStores
    \/ StopEmits
    \/ StopUpdatesMode
    \/ DeleteGroup

Call ==
    \/ CallInit
    \/ \E enable \in BOOLEAN : SetAutoReconnect(enable)
    \/ \E m \in WMode : CallStart(m)
    \/ CallStop

-----------------------------------------------------------------------------
ClockStep ==
    /\ Elapse
    /\ UNCHANGED <<coreVars, eventVars, appVars, driverVars>>

Next ==
    \/ Call
    \/ StartStep
    \/ StopStep
    \/ EventStep
    \/ \E k \in Task : ReconnectStep(k)
    \/ LinkUp
    \/ LinkDown
    \/ ClockStep

Spec == Init /\ [][Next]_vars

(* Running tasks are scheduled and the driver answers; nobody is obliged to *)
(* call, and no connection is obliged to succeed or to be lost.            *)
Fairness ==
    /\ WF_vars(EventStep)
    /\ WF_vars(StartStep \/ StopStep)
    /\ \A k \in Task : WF_vars(ReconnectStep(k))

FairSpec == Spec /\ Fairness

(* A state constraint: the run does not look beyond a corrupted kernel, nor *)
(* beyond a stop() that deletes one task and clears the handle of another. *)
Orderly == ~fault /\ ~crossed

-----------------------------------------------------------------------------
TypeOK ==
    /\ SharedTypeOK
    /\ group \in BOOLEAN
    /\ bits \subseteq {"CONNECTED", "FAIL"}
    /\ registered \subseteq {"WIFI", "IP"}
    /\ auto \in BOOLEAN
    /\ handle \in Task \cup {NoTask}
    /\ task \in [Task -> {"none", "delay", "connect", "clear", "end"}]
    /\ event \in Event
    /\ epc \in {"idle", "enter", "flag", "emit", "auto", "finish"}
    /\ apc \in {"idle", "start", "clear", "connect", "wait", "kill", "forget", "halt",
               "unregister", "downSta", "emitSta", "autoSta", "downAp", "emitAp", "autoAp",
               "delete"}
    /\ held \in Task \cup {NoTask}
    /\ fault \in BOOLEAN
    /\ crossed \in BOOLEAN
    /\ driver \in {"off", "stopped", "started"}
    /\ wmode \in WMode
    /\ link \in {"down", "trying", "up"}
    /\ queue \in Seq(Event)

Quiet == epc = "idle" /\ apc = "idle" /\ queue = <<>>

(* Once every event is handled and no call is in progress, the flags the   *)
(* HTTP, DNS, mDNS and UDP services go by say what the radio does, and a   *)
(* connected station has its address published (NeuWiFi_Core.cpp:156-216). *)
FlagsTruthful ==
    Quiet /\ group =>
        /\ staReady <=> link = "up"
        /\ apReady <=> driver = "started" /\ HasAp(wmode)
        /\ staReady => staIP = "set"

(* From the end of stop() to the next init() nothing is reported ready: no *)
(* event that was still queued or being handled undoes the reset of        *)
(* NeuWiFi_Core.cpp:448-449, and no handler is left to use the event group *)
(* that 451 deletes.                                                       *)
StoppedMeansDown == ~group => ~staReady /\ ~apReady /\ epc = "idle"

(* Between calls the listeners know the flags as they are: no notification *)
(* of one task overtakes that of the other (SharedState.cpp:137-141).      *)
ListenersTold ==
    /\ epc # "emit" /\ apc # "emitSta" => heard.sta = staReady
    /\ epc # "emit" /\ apc # "emitAp" => heard.ap = apReady

(* A task that has not yet given the handle up may still connect. *)
Working(k) == task[k] \in {"delay", "connect", "clear"}

(* However disconnections, wake-ups and stop() interleave, no two tasks    *)
(* wait for their attempt or make it ("reconnect task guarded",            *)
(* _NeuWiFi.h:86), although the next one may be created before the last is *)
(* deleted (NeuWiFi_Core.cpp:361-362).  The exception is a stop() that     *)
(* deleted one task and cleared the handle of another (423-424).           *)
OneReconnectTask ==
    Orderly => \A j, k \in Task : Working(j) /\ Working(k) => j = k

(* A disconnection is handled while the task that made its attempt still   *)
(* holds the handle: none is created (NeuWiFi_Core.cpp:165, 358-361).      *)
Missed ==
    /\ epc = "finish" /\ event = "STA_DISCONNECTED"
    /\ handle # NoTask /\ task[handle] = "clear"

(* A station that is started, unconnected and allowed to reconnect tries:  *)
(* all disconnections lead to an attempt, however it ends, unless one was  *)
(* missed.                                                                 *)
Reconnects ==
    [](auto /\ Orderly /\ ~Missed) =>
        (driver = "started" /\ HasSta(wmode) /\ link = "down"
           ~> link # "down" \/ driver # "started" \/ ~HasSta(wmode))

(* "Automatic Switch" (SharedState.cpp:102): long after the last change    *)
(* the mode follows the station's flag.                                    *)
ModeFollowsSta ==
    Quiet /\ ~recent => mode = (IF staReady THEN "STA" ELSE "AP")
=============================================================================
