------------------------------ MODULE WiFiProofs ------------------------------
(***************************************************************************)
(* Proofs about WiFi, for any number of reconnect tasks and any bound on   *)
(* the queue, and about Backoff.  None of WiFi's four safety properties is *)
(* inductive:                                                              *)
(*   - StoppedMeansDown and ListenersTold speak of the calls of setStaReady*)
(*     and setApReady, which are cut into steps: SilentWhenDown and Told   *)
(*     say how far a call is and who is in one;                            *)
(*   - OneReconnectTask does not say whose the handle is: Guarded does;    *)
(*   - FlagsTruthful speaks of quiet states only.  In between, the truth   *)
(*     about the radio is on its way: Known says that it is the last       *)
(*     event of its kind in the queue, or else the event being handled, or *)
(*     else the flag.                                                      *)
(***************************************************************************)
EXTENDS WiFi, Backoff, SequenceTheorems, TLAPS

(* stop() from the flags on: the handlers are unregistered. *)
After == {"downSta", "emitSta", "autoSta", "downAp", "emitAp", "autoAp", "delete"}

(* No handler is registered and none runs. *)
Down == ~group \/ apc \in After

(* Handlers are registered, and stop() has not begun to unregister them. *)
Up == group /\ apc \notin After \cup {"unregister"}

ApChange == {"AP_START", "AP_STOP"}

(* Where a handler is says what it handles. *)
Handling ==
    /\ epc \in {"flag", "finish"} => event \in StaChange
    /\ epc \in {"emit", "auto"} => event \in StaChange \cup ApChange

-----------------------------------------------------------------------------
(* The handle is that of the only reconnect task at work.  What stop()     *)
(* deleted is gone when it clears the handle, but the handle may be        *)
(* another's by then.                                                      *)
Guarded ==
    /\ apc \in {"kill", "forget"} => held \in Task
    /\ apc = "forget" => task[held] = "none"
    /\ ~fault /\ ~crossed => \A k \in Task : Working(k) => handle = k

-----------------------------------------------------------------------------
SilentWhenDown ==
    /\ apc # "idle" => group
    /\ Down => registered = {} /\ epc = "idle"
    /\ Up => registered = {"WIFI", "IP"}
    /\ ~group \/ apc \in After \ {"downSta"} => ~staReady
    /\ ~group \/ apc \in {"emitAp", "autoAp", "delete"} => ~apReady

(* What the listeners heard differs from the flag only as long as the      *)
(* setter that changed it has still to tell them.                          *)
ToldSta ==
    CASE epc = "emit" /\ event \in StaChange ->
            /\ staReady = StaUp(event)
            /\ changed["event"] <=> heard.sta # staReady
      [] apc = "emitSta" -> changed["app"] <=> heard.sta # staReady
      [] OTHER -> heard.sta = staReady

ToldAp ==
    CASE epc = "emit" /\ event \in ApChange ->
            /\ apReady = (event = "AP_START")
            /\ changed["event"] <=> heard.ap # apReady
      [] apc = "emitAp" -> changed["app"] <=> heard.ap # apReady
      [] OTHER -> heard.ap = apReady

-----------------------------------------------------------------------------
(* The events of a kind that wait: none, or the last of them is e.         *)
NoneWaits(q, kind) == \A i \in 1..Len(q) : q[i] \notin kind

LastIs(q, kind, e) ==
    \A i \in 1..Len(q) :
        q[i] \in kind /\ (\A j \in 1..Len(q) : j > i => q[j] \notin kind) => q[i] = e

(* What the radio does, and the event that says so. *)
StaRuns == link = "up"
ApRuns == driver = "started" /\ HasAp(wmode)
StaNews == IF StaRuns THEN "GOT_IP" ELSE "STA_DISCONNECTED"
ApNews == IF ApRuns THEN "AP_START" ELSE "AP_STOP"

(* The driver is stopped when its handlers are not all registered. *)
StoppedFirst == ~Up => link = "down" /\ driver # "started"

Reported == LastIs(queue, StaChange, StaNews) /\ LastIs(queue, ApChange, ApNews)

(* What the engine makes of the events it has taken. *)
StaView ==
    IF epc \in {"enter", "flag"} /\ event \in StaChange THEN event
    ELSE IF staReady THEN "GOT_IP" ELSE "STA_DISCONNECTED"

ApView ==
    IF epc = "enter" /\ event \in ApChange THEN event
    ELSE IF apReady THEN "AP_START" ELSE "AP_STOP"

Known ==
    /\ Up /\ NoneWaits(queue, StaChange) => StaView = StaNews
    /\ Up /\ NoneWaits(queue, ApChange) => ApView = ApNews

(* The handler is between the store of the flag and that of the address. *)
Publishing == epc \in {"emit", "auto", "finish"} /\ event \in StaChange

Published ==
    /\ Publishing => staReady = StaUp(event)
    /\ staReady /\ ~Publishing => staIP = "set"

-----------------------------------------------------------------------------
Inv ==
    /\ TypeOK
    /\ Handling
    /\ Guarded
    /\ SilentWhenDown
    /\ ToldSta /\ ToldAp
    /\ StoppedFirst /\ Reported /\ Known
    /\ Published
-----------------------------------------------------------------------------
(* The queue.                                                              *)

(* An event that is posted is the last of its kind.                        *)
LEMMA AppendNews ==
    ASSUME NEW q \in Seq(Event), NEW e \in Event, NEW kind, NEW old, NEW new,
           LastIs(q, kind, old), new = IF e \in kind THEN e ELSE old
    PROVE  /\ LastIs(Append(q, e), kind, new)
           /\ NoneWaits(Append(q, e), kind) <=> NoneWaits(q, kind) /\ e \notin kind
<1> DEFINE r == Append(q, e)
<1>1. /\ Len(q) \in Nat /\ Len(r) = Len(q) + 1 /\ r[Len(q) + 1] = e
      /\ \A i \in 1..Len(q) : r[i] = q[i]
  BY AppendProperties, LenProperties
<1>2. 1..Len(r) = 1..Len(q) \cup {Len(q) + 1} /\ \A i \in 1..Len(q) : i < Len(q) + 1
  BY <1>1
<1> HIDE DEF r
<1>3. NoneWaits(r, kind) <=> NoneWaits(q, kind) /\ e \notin kind
  BY <1>1, <1>2 DEF NoneWaits
<1>4. ASSUME NEW i \in 1..Len(r), r[i] \in kind, \A j \in 1..Len(r) : j > i => r[j] \notin kind
      PROVE  r[i] = new
  <2>1. CASE i = Len(q) + 1
    BY <1>1, <1>4, <2>1
  <2>2. CASE i \in 1..Len(q)
    <3>1. e \notin kind
      BY <1>1, <1>2, <1>4, <2>2
    <3>2. \A j \in 1..Len(q) : j > i => q[j] \notin kind
      BY <1>1, <1>2, <1>4
    <3> QED
      BY <1>1, <1>4, <2>2, <3>1, <3>2 DEF LastIs
  <2> QED
    BY <1>2, <2>1, <2>2
<1>5. LastIs(r, kind, new)
  BY <1>4 DEF LastIs
<1> QED
  BY <1>3, <1>5 DEF r

(* The event that is taken is the last of its kind if none waits behind it.*)
LEMMA TailNews ==
    ASSUME NEW q \in Seq(Event), q # <<>>, NEW kind, NEW e, LastIs(q, kind, e)
    PROVE  /\ LastIs(Tail(q), kind, e)
           /\ NoneWaits(q, kind) <=> NoneWaits(Tail(q), kind) /\ Head(q) \notin kind
           /\ NoneWaits(Tail(q), kind) /\ Head(q) \in kind => Head(q) = e
<1> DEFINE r == Tail(q)
<1>1. /\ Len(q) \in Nat /\ Len(q) >= 1 /\ Head(q) = q[1] /\ Len(r) = Len(q) - 1
      /\ \A i \in 1..Len(r) : r[i] = q[i + 1]
  BY HeadTailProperties, LenProperties
<1>2. \A i \in 1..Len(q) : i = 1 \/ (i - 1 \in 1..Len(r) /\ r[i - 1] = q[i])
  BY <1>1
<1>3. \A i \in 1..Len(r) : i + 1 \in 1..Len(q)
  BY <1>1
<1> HIDE DEF r
<1>4. NoneWaits(q, kind) <=> NoneWaits(r, kind) /\ Head(q) \notin kind
  BY <1>1, <1>2, <1>3 DEF NoneWaits
<1>5. ASSUME NEW i \in 1..Len(r), r[i] \in kind, \A j \in 1..Len(r) : j > i => r[j] \notin kind
      PROVE  r[i] = e
  <2>1. \A j \in 1..Len(q) : j > i + 1 => q[j] \notin kind
    BY <1>1, <1>2, <1>5
  <2> QED
    BY <1>1, <1>3, <1>5, <2>1 DEF LastIs
<1>6. NoneWaits(r, kind) /\ Head(q) \in kind => Head(q) = e
  <2>1. NoneWaits(r, kind) => \A j \in 1..Len(q) : j > 1 => q[j] \notin kind
    BY <1>1, <1>2 DEF NoneWaits
  <2> QED
    BY <1>1, <2>1 DEF LastIs
<1> QED
  BY <1>4, <1>5, <1>6 DEF LastIs, r

(* What the driver says only if it has something to say.                   *)
LEMMA PostIf ==
    ASSUME NEW q \in Seq(Event), NEW b \in BOOLEAN, NEW e \in Event
    PROVE  q \o If(b, e) = IF b THEN Append(q, e) ELSE q
BY AppendIsConcat, ConcatEmptySeq DEF If

(* Both in one: the news of a kind after the driver posted e if b.         *)
LEMMA PostNews ==
    ASSUME NEW q \in Seq(Event), NEW b \in BOOLEAN, NEW e \in Event, NEW kind, NEW old,
           LastIs(q, kind, old)
    PROVE  /\ q \o If(b, e) \in Seq(Event)
           /\ LastIs(q \o If(b, e), kind, IF b /\ e \in kind THEN e ELSE old)
           /\ NoneWaits(q \o If(b, e), kind) <=> NoneWaits(q, kind) /\ ~(b /\ e \in kind)
<1>1. Append(q, e) \in Seq(Event)
  BY AppendProperties
<1>2. CASE b
  <2> DEFINE new == IF e \in kind THEN e ELSE old
  <2>1. /\ LastIs(Append(q, e), kind, new)
        /\ NoneWaits(Append(q, e), kind) <=> NoneWaits(q, kind) /\ e \notin kind
    BY AppendNews
  <2>2. q \o If(b, e) = Append(q, e) /\ (IF b /\ e \in kind THEN e ELSE old) = new
    BY <1>2, PostIf
  <2> QED
    BY <1>1, <1>2, <2>1, <2>2
<1>3. CASE ~b
  BY <1>3, PostIf
<1> QED
  BY <1>2, <1>3

(* esp_wifi_stop tells of what it ended.                                   *)
LEMMA StopNews ==
    ASSUME TypeOK, Reported, StopDriver
    PROVE  /\ queue' \in Seq(Event)
           /\ LastIs(queue', StaChange, "STA_DISCONNECTED")
           /\ LastIs(queue', ApChange, "AP_STOP")
           /\ NoneWaits(queue', StaChange) => NoneWaits(queue, StaChange) /\ ~StaRuns
           /\ NoneWaits(queue', ApChange) => NoneWaits(queue, ApChange) /\ ~ApRuns
<1> DEFINE lost == link # "down"
           q == queue \o If(lost, "STA_DISCONNECTED")
<1>1. queue' = q \o If(ApRuns, "AP_STOP")
  BY DEF StopDriver, ApRuns
<1>2. /\ queue \in Seq(Event) /\ lost \in BOOLEAN /\ ApRuns \in BOOLEAN
      /\ "STA_DISCONNECTED" \in Event /\ "AP_STOP" \in Event
  BY DEF TypeOK, Event, ApRuns
<1>3. /\ q \in Seq(Event)
      /\ LastIs(q, StaChange, "STA_DISCONNECTED")
      /\ NoneWaits(q, StaChange) => NoneWaits(queue, StaChange) /\ ~StaRuns
  <2>1. "STA_DISCONNECTED" \in StaChange /\ (StaRuns => lost)
    BY DEF StaRuns, StaChange
  <2>2. (IF lost THEN "STA_DISCONNECTED" ELSE StaNews) = "STA_DISCONNECTED"
    BY DEF StaNews, StaRuns
  <2> HIDE DEF lost
  <2> QED
    BY <1>2, <2>1, <2>2, PostNews DEF Reported
<1>4. /\ LastIs(q, ApChange, ApNews)
      /\ NoneWaits(q, ApChange) => NoneWaits(queue, ApChange)
  <2>1. LastIs(queue, ApChange, ApNews) /\ "STA_DISCONNECTED" \notin ApChange
    BY DEF Reported, ApChange
  <2> HIDE DEF lost
  <2> QED
    BY <1>2, <2>1, PostNews
<1> HIDE DEF q, lost
<1>5. /\ queue' \in Seq(Event)
      /\ LastIs(queue', StaChange, "STA_DISCONNECTED")
      /\ NoneWaits(queue', StaChange) => NoneWaits(q, StaChange)
  <2>1. "AP_STOP" \notin StaChange
    BY DEF StaChange
  <2> HIDE DEF ApRuns
  <2> QED
    BY <1>1, <1>2, <1>3, <2>1, PostNews
<1>6. /\ LastIs(queue', ApChange, "AP_STOP")
      /\ NoneWaits(queue', ApChange) => NoneWaits(q, ApChange) /\ ~ApRuns
  <2>1. /\ "AP_STOP" \in ApChange
        /\ (IF ApRuns THEN "AP_STOP" ELSE ApNews) = "AP_STOP"
    BY DEF ApNews, ApChange
  <2> QED
    BY <1>1, <1>2, <1>3, <1>4, <2>1, PostNews
<1> QED
  BY <1>3, <1>4, <1>5, <1>6

(* esp_wifi_start tells of the AP.                                         *)
LEMMA StartNews ==
    ASSUME TypeOK, Reported, StartDriver
    PROVE  /\ queue' \in Seq(Event)
           /\ LastIs(queue', StaChange, StaNews)
           /\ LastIs(queue', ApChange, IF HasAp(wmode) THEN "AP_START" ELSE ApNews)
           /\ NoneWaits(queue', StaChange) => NoneWaits(queue, StaChange)
           /\ NoneWaits(queue', ApChange) => NoneWaits(queue, ApChange) /\ ~HasAp(wmode)
<1> DEFINE q == queue \o If(HasSta(wmode), "STA_START")
<1>1. queue' = q \o If(HasAp(wmode), "AP_START")
  BY DEF StartDriver
<1>2. /\ queue \in Seq(Event) /\ HasSta(wmode) \in BOOLEAN /\ HasAp(wmode) \in BOOLEAN
      /\ "STA_START" \in Event /\ "AP_START" \in Event
  BY DEF TypeOK, Event, HasSta, HasAp
<1>3. /\ q \in Seq(Event)
      /\ LastIs(q, StaChange, StaNews) /\ LastIs(q, ApChange, ApNews)
      /\ NoneWaits(q, StaChange) => NoneWaits(queue, StaChange)
      /\ NoneWaits(q, ApChange) => NoneWaits(queue, ApChange)
  BY <1>2, PostNews, ZenonT(30) DEF Reported, StaChange, ApChange
<1> HIDE DEF q
<1>4. /\ queue' \in Seq(Event)
      /\ LastIs(queue', StaChange, StaNews)
      /\ NoneWaits(queue', StaChange) => NoneWaits(q, StaChange)
  BY <1>1, <1>2, <1>3, PostNews DEF StaChange
<1>5. /\ LastIs(queue', ApChange, IF HasAp(wmode) THEN "AP_START" ELSE ApNews)
      /\ NoneWaits(queue', ApChange) => NoneWaits(q, ApChange) /\ ~HasAp(wmode)
  BY <1>1, <1>2, <1>3, PostNews DEF ApChange
<1> QED
  BY <1>3, <1>4, <1>5
-----------------------------------------------------------------------------
(* What a step does to the flags, the listeners and the clock keeps the    *)
(* types of SharedState.                                                   *)
LEMMA SharedStep == Inv /\ [Next]_vars => SharedTypeOK'
<1> SUFFICES ASSUME Inv, [Next]_vars PROVE SharedTypeOK'
  OBVIOUS
<1>0. SharedTypeOK
  BY DEF Inv, TypeOK
<1> USE <1>0 DEF SharedTypeOK, NetMode, Setter
<1>1. ASSUME NEW s \in Setter, NEW b \in BOOLEAN,
             StoreStaReady(s, b) \/ StoreApReady(s, b)
      PROVE  SharedTypeOK'
  <2>1. (staReady # b) \in BOOLEAN /\ (apReady # b) \in BOOLEAN
    OBVIOUS
  <2>2. CASE StoreStaReady(s, b)
    BY <2>1, <2>2 DEF StoreStaReady
  <2>3. CASE StoreApReady(s, b)
    BY <2>1, <2>3 DEF StoreApReady
  <2> QED
    BY <1>1, <2>2, <2>3
<1>2. ASSUME NEW s \in Setter, NEW b \in BOOLEAN, EmitSta(s, b) \/ EmitAp(s, b)
      PROVE  SharedTypeOK'
  <2>1. CASE EmitSta(s, b)
    BY <2>1 DEF EmitSta
  <2>2. CASE EmitAp(s, b)
    BY <2>2 DEF EmitAp
  <2> QED
    BY <1>2, <2>1, <2>2
<1>3. CASE UpdateAutoMode \/ Elapse
  BY <1>3 DEF UpdateAutoMode, Elapse
<1>4. CASE SetStaIP("set") \/ SetStaIP("none")
  BY <1>4 DEF SetStaIP
<1>5. CASE UNCHANGED sharedVars
  BY <1>5 DEF sharedVars
<1>6. StaUp(event) \in BOOLEAN /\ (event = "AP_START") \in BOOLEAN
  BY DEF StaUp
<1>7. CASE HandlerStores \/ StopStores
  BY <1>1, <1>6, <1>7 DEF HandlerStores, StopStores
<1>8. CASE HandlerEmits \/ StopEmits
  BY <1>2, <1>6, <1>8 DEF HandlerEmits, StopEmits
<1> HIDE DEF SharedTypeOK
<1>9. \/ HandlerStores \/ StopStores \/ HandlerEmits \/ StopEmits
      \/ UpdateAutoMode \/ Elapse
      \/ SetStaIP("set") \/ SetStaIP("none")
      \/ UNCHANGED sharedVars
  BY DEF Next, vars, Call, CallInit, SetAutoReconnect, CallStart, CallStop, StartStep, Start,
         ClearBits, ConnectCall, WaitOver, StopStep, DeleteTask, ForgetTask, Halt,
         UnregisterWiFi, UnregisterIP, StopUpdatesMode, DeleteGroup, EventStep, Dispatch,
         OnStaStart, OnStaChange, HandlerUpdatesMode, OnGotIP, OnDisconnected, ReconnectStep,
         Wake, Retry, GiveUp, Finish, LinkUp, LinkDown, ClockStep
<1> QED
  BY <1>3, <1>4, <1>5, <1>7, <1>8, <1>9

(* Every step keeps the variables in their types.                          *)
LEMMA TypeStep == Inv /\ [Next]_vars => TypeOK'
<1> SUFFICES ASSUME Inv, [Next]_vars PROVE TypeOK'
  OBVIOUS
<1>0. SharedTypeOK' /\ TypeOK
  BY SharedStep DEF Inv
<1>e. {"STA_START", "STA_DISCONNECTED", "GOT_IP"} \subseteq Event
  BY DEF Event
<1> USE <1>0 DEF TypeOK, coreVars, eventVars, appVars, driverVars, EventGoto, AppGoto
<1>1. CASE Call
  <2>1. CASE CallInit
    BY <2>1 DEF CallInit
  <2>2. ASSUME NEW enable \in BOOLEAN, SetAutoReconnect(enable) PROVE TypeOK'
    BY <2>2 DEF SetAutoReconnect
  <2>3. ASSUME NEW m \in WMode, CallStart(m) PROVE TypeOK'
    BY <2>3, StopNews DEF CallStart, StopDriver, Inv
  <2>4. CASE CallStop
    BY <2>4 DEF CallStop
  <2> QED
    BY <1>1, <2>1, <2>2, <2>3, <2>4 DEF Call
<1>2. CASE StartStep
  <2>1. CASE Start
    BY <2>1, StartNews DEF Start, StartDriver, Inv
  <2>2. CASE ClearBits
    BY <2>2 DEF ClearBits
  <2>3. CASE ConnectCall
    BY <2>3 DEF ConnectCall, Connect
  <2>4. CASE WaitOver
    BY <2>4 DEF WaitOver
  <2> QED
    BY <1>2, <2>1, <2>2, <2>3, <2>4 DEF StartStep
<1>3. CASE StopStep
  <2>1. CASE DeleteTask
    <3>1. fault' \in BOOLEAN
      <4> HIDE DEF TypeOK
      <4> QED
        BY <2>1 DEF DeleteTask
    <3>2. task' \in [Task -> {"none", "delay", "connect", "clear", "end"}]
      <4>1. task \in [Task -> {"none", "delay", "connect", "clear", "end"}]
        BY DEF TypeOK
      <4>2. task' = [task EXCEPT ![held] = "none"]
        BY <2>1 DEF DeleteTask
      <4> HIDE DEF TypeOK
      <4> QED
        BY <4>1, <4>2
    <3>3. /\ apc' = "forget"
          /\ UNCHANGED <<group, bits, registered, auto, handle, eventVars, held, crossed,
                         driverVars>>
      BY <2>1 DEF DeleteTask
    <3> QED
      BY <3>1, <3>2, <3>3
  <2>2. CASE ForgetTask
    BY <2>2 DEF ForgetTask
  <2>3. CASE Halt
    BY <2>3, StopNews, BoundsAssumption DEF Halt, StopDriver, AfterHalt, Inv
  <2>4. CASE UnregisterWiFi
    BY <2>4 DEF UnregisterWiFi
  <2>5. CASE UnregisterIP
    BY <2>5 DEF UnregisterIP
  <2>6. CASE StopStores
    <3>1. CASE AppGoto("emitSta")
      BY <2>6, <3>1 DEF StopStores
    <3>2. CASE AppGoto("emitAp")
      BY <2>6, <3>2 DEF StopStores
    <3> QED
      BY <2>6, <3>1, <3>2 DEF StopStores
  <2>7. CASE StopEmits
    <3>1. CASE AppGoto("autoSta")
      BY <2>7, <3>1 DEF StopEmits
    <3>2. CASE AppGoto("autoAp")
      BY <2>7, <3>2 DEF StopEmits
    <3> QED
      BY <2>7, <3>1, <3>2 DEF StopEmits
  <2>8. CASE StopUpdatesMode
    BY <2>8 DEF StopUpdatesMode
  <2>9. CASE DeleteGroup
    <3>1. group' \in BOOLEAN
      <4> HIDE DEF TypeOK
      <4> QED
        BY <2>9 DEF DeleteGroup
    <3>2. /\ bits' = {} /\ apc' = "idle"
          /\ UNCHANGED <<registered, auto, handle, task, eventVars, held, fault, crossed,
                         driverVars>>
      BY <2>9 DEF DeleteGroup
    <3> QED
      BY <3>1, <3>2
  <2> QED
    BY <1>3, <2>1, <2>2, <2>3, <2>4, <2>5, <2>6, <2>7, <2>8, <2>9 DEF StopStep
<1>4. CASE EventStep
  <2>1. CASE Dispatch
    <3>1. Tail(queue) \in Seq(Event) /\ Head(queue) \in Event
      BY <2>1, HeadTailProperties DEF Dispatch
    <3> QED
      BY <2>1, <3>1 DEF Dispatch
  <2>2. CASE OnStaStart
    BY <2>2, <1>e DEF OnStaStart, Connect
  <2>3. CASE OnStaChange
    BY <2>3, <1>e DEF OnStaChange
  <2>4. CASE HandlerStores
    BY <2>4, <1>e DEF HandlerStores
  <2>5. CASE HandlerEmits
    BY <2>5, <1>e DEF HandlerEmits
  <2>6. CASE HandlerUpdatesMode
    BY <2>6, <1>e DEF HandlerUpdatesMode
  <2>7. CASE OnGotIP
    BY <2>7, <1>e DEF OnGotIP
  <2>8. CASE OnDisconnected
    BY <2>8, <1>e DEF OnDisconnected
  <2> QED
    BY <1>4, <2>1, <2>2, <2>3, <2>4, <2>5, <2>6, <2>7, <2>8 DEF EventStep
<1>5. ASSUME NEW k \in Task, ReconnectStep(k) PROVE TypeOK'
  <2>1. CASE Wake(k)
    BY <2>1 DEF Wake
  <2>2. CASE Retry(k)
    BY <2>2 DEF Retry, Connect
  <2>3. CASE GiveUp(k)
    BY <2>3 DEF GiveUp
  <2>4. CASE Finish(k)
    BY <2>4 DEF Finish
  <2> QED
    BY <1>5, <2>1, <2>2, <2>3, <2>4 DEF ReconnectStep
<1>6. CASE LinkUp \/ LinkDown
  <2>1. Append(queue, "GOT_IP") \in Seq(Event) /\ Append(queue, "STA_DISCONNECTED") \in Seq(Event)
    BY <1>e, AppendProperties
  <2>2. CASE LinkUp
    BY <2>1, <2>2 DEF LinkUp, Post
  <2>3. CASE LinkDown
    BY <2>1, <2>3 DEF LinkDown, Post
  <2> QED
    BY <1>6, <2>2, <2>3
<1>7. CASE ClockStep
  BY <1>7 DEF ClockStep
<1>8. CASE UNCHANGED vars
  BY <1>8 DEF vars
<1> QED
  BY <1>1, <1>2, <1>3, <1>4, <1>5, <1>6, <1>7, <1>8 DEF Next

(* A handler comes to each of its places with an event it handles there.   *)
LEMMA HandlingStep == Inv /\ [Next]_vars => Handling'
<1> SUFFICES ASSUME Inv, [Next]_vars PROVE Handling'
  OBVIOUS
<1> USE DEF Inv, TypeOK, Event, StaChange, ApChange, Handling, EventGoto, eventVars
<1>1. CASE EventStep
  BY <1>1 DEF EventStep, Dispatch, OnStaStart, OnStaChange, HandlerStores, HandlerEmits,
              HandlerUpdatesMode, OnGotIP, OnDisconnected
<1>2. CASE UNCHANGED eventVars
  BY <1>2
<1> HIDE DEF Inv, Handling
<1> QED
  BY <1>1, <1>2
     DEF Next, vars, Call, CallInit, SetAutoReconnect, CallStart, CallStop, StartStep, Start,
         ClearBits, ConnectCall, WaitOver, StopStep, DeleteTask, ForgetTask, Halt,
         UnregisterWiFi, UnregisterIP, StopStores, StopEmits, StopUpdatesMode, DeleteGroup,
         ReconnectStep, Wake, Retry, GiveUp, Finish, LinkUp, LinkDown, ClockStep

(* Creating, ending and deleting a reconnect task go with its handle.      *)
LEMMA GuardedStep == Inv /\ [Next]_vars => Guarded'
<1> SUFFICES ASSUME Inv, [Next]_vars PROVE Guarded'
  OBVIOUS
<1>0. /\ handle \in Task \cup {NoTask} /\ task \in [Task -> {"none", "delay", "connect", "clear", "end"}]
      /\ held \in Task \cup {NoTask} /\ fault \in BOOLEAN /\ crossed \in BOOLEAN /\ Guarded
  BY DEF Inv, TypeOK
<1> USE <1>0, NoTaskAssumption DEF Guarded, Working, coreVars, appVars, AppGoto
<1>1. CASE CallStop
  BY <1>1 DEF CallStop
<1>2. CASE DeleteTask
  BY <1>2 DEF DeleteTask
<1>3. CASE ForgetTask
  BY <1>3 DEF ForgetTask
<1>4. CASE OnDisconnected
  BY <1>4 DEF OnDisconnected, MayCreate
<1>5. ASSUME NEW k \in Task, ReconnectStep(k) PROVE Guarded'
  BY <1>5 DEF ReconnectStep, Wake, Retry, GiveUp, Finish
<1>6. CASE /\ UNCHANGED <<handle, task, held, fault, crossed>>
           /\ apc' = apc \/ apc' \notin {"kill", "forget"}
  BY <1>6
<1> HIDE DEF Guarded
<1> QED
  BY <1>1, <1>2, <1>3, <1>4, <1>5, <1>6
     DEF Next, vars, driverVars, Call, CallInit, SetAutoReconnect, CallStart, StartStep, Start,
         ClearBits, ConnectCall, WaitOver, StopStep, Halt, AfterHalt, UnregisterWiFi,
         UnregisterIP, StopStores, StopEmits, StopUpdatesMode, DeleteGroup, EventStep, Dispatch,
         OnStaStart, OnStaChange, HandlerStores, HandlerEmits, HandlerUpdatesMode, OnGotIP,
         LinkUp, LinkDown, ClockStep
(* stop() takes the flags back where no handler can set them again.        *)
LEMMA SilentStep == Inv /\ [Next]_vars => SilentWhenDown'
<1> SUFFICES ASSUME Inv, [Next]_vars PROVE SilentWhenDown'
  OBVIOUS
<1>0. SilentWhenDown /\ group \in BOOLEAN
  BY DEF Inv, TypeOK
<1> USE <1>0 DEF SilentWhenDown, Down, Up, After, AppGoto
<1>1. CASE CallInit
  BY <1>1 DEF CallInit, sharedVars, eventVars, appVars
<1>2. CASE CallStop
  BY <1>2 DEF CallStop, sharedVars, coreVars, eventVars
<1>3. ASSUME NEW m \in WMode, CallStart(m) PROVE SilentWhenDown'
  BY <1>3 DEF CallStart, sharedVars, coreVars, eventVars
<1>4. CASE StartStep
  BY <1>4 DEF StartStep, Start, ClearBits, ConnectCall, WaitOver, sharedVars, coreVars,
              eventVars
<1>5. CASE DeleteTask \/ ForgetTask \/ Halt
  BY <1>5 DEF DeleteTask, ForgetTask, Halt, AfterHalt, sharedVars, coreVars, eventVars
<1>6. CASE UnregisterWiFi \/ UnregisterIP
  BY <1>6 DEF UnregisterWiFi, UnregisterIP, HandlerIsOut, sharedVars, eventVars, appVars
<1>7. CASE StopStores
  <2>0. UNCHANGED <<group, registered, epc>>
    BY <1>7 DEF StopStores, coreVars, eventVars
  <2>1. CASE apc = "downSta" /\ StoreStaReady("app", FALSE) /\ apc' = "emitSta"
    BY <2>0, <2>1 DEF StoreStaReady
  <2>2. CASE apc = "downAp" /\ StoreApReady("app", FALSE) /\ apc' = "emitAp"
    BY <2>0, <2>2 DEF StoreApReady
  <2> QED
    BY <1>7, <2>1, <2>2 DEF StopStores
<1>8. CASE StopEmits \/ StopUpdatesMode
  BY <1>8 DEF StopEmits, EmitSta, EmitAp, StopUpdatesMode, UpdateAutoMode, coreVars,
              eventVars
<1>9. CASE DeleteGroup
  BY <1>9 DEF DeleteGroup, sharedVars, eventVars
<1>10. CASE Dispatch
  BY <1>10 DEF Dispatch, sharedVars, coreVars, eventVars, appVars
<1>11. CASE ~Down /\ EventStep
  BY <1>11 DEF EventStep, Dispatch, OnStaStart, OnStaChange, HandlerStores, HandlerEmits,
               HandlerUpdatesMode, OnGotIP, OnDisconnected, sharedVars, coreVars, appVars
<1>12. CASE UNCHANGED <<apc, group, registered, epc, staReady, apReady>>
  BY <1>12
<1> HIDE DEF SilentWhenDown
<1>13. EventStep => Dispatch \/ epc # "idle"
  BY DEF EventStep, OnStaStart, OnStaChange, HandlerStores, HandlerEmits,
         HandlerUpdatesMode, OnGotIP, OnDisconnected
<1>14. CASE EventStep
  BY <1>10, <1>11, <1>13, <1>14 DEF SilentWhenDown
<1> QED
  BY <1>1, <1>2, <1>3, <1>4, <1>5, <1>6, <1>7, <1>8, <1>9, <1>12, <1>14
     DEF Next, vars, sharedVars, coreVars, eventVars, appVars, Call, SetAutoReconnect, StopStep,
         ReconnectStep, Wake, Retry, GiveUp, Finish, LinkUp, LinkDown, ClockStep, Elapse

(* No setter of one task comes between the steps of a setter of the other. *)
LEMMA ToldStep == Inv /\ [Next]_vars => ToldSta' /\ ToldAp'
<1> SUFFICES ASSUME Inv, [Next]_vars PROVE ToldSta' /\ ToldAp'
  OBVIOUS
<1>0. /\ changed \in [Setter -> BOOLEAN] /\ heard \in [sta : BOOLEAN, ap : BOOLEAN]
      /\ staReady \in BOOLEAN /\ apReady \in BOOLEAN
      /\ ToldSta /\ ToldAp /\ Handling
  BY DEF Inv, TypeOK, SharedTypeOK
<1>a. apc \in After => epc = "idle"
  BY DEF Inv, SilentWhenDown, Down
<1> USE <1>0, <1>a DEF ToldSta, ToldAp, Handling, Setter, StaChange, ApChange, After, AppGoto,
        EventGoto
<1>1. CASE HandlerStores
  <2>1. CASE epc = "flag" /\ StoreStaReady("event", StaUp(event)) /\ epc' = "emit"
             /\ UNCHANGED <<event, apc>>
    BY <2>1 DEF StoreStaReady, StaUp
  <2>2. CASE epc = "enter" /\ event \in ApChange /\ StoreApReady("event", event = "AP_START")
             /\ epc' = "emit" /\ UNCHANGED <<event, apc>>
    BY <2>2 DEF StoreApReady
  <2> QED
    BY <1>1, <2>1, <2>2 DEF HandlerStores, appVars
<1>2. CASE HandlerEmits
  <2>1. CASE epc = "emit" /\ event \in StaChange /\ EmitSta("event", StaUp(event))
             /\ epc' = "auto" /\ UNCHANGED <<event, apc>>
    BY <2>1 DEF EmitSta, StaUp
  <2>2. CASE epc = "emit" /\ event \in ApChange /\ EmitAp("event", event = "AP_START")
             /\ epc' = "auto" /\ UNCHANGED <<event, apc>>
    BY <2>2 DEF EmitAp
  <2> QED
    BY <1>2, <2>1, <2>2 DEF HandlerEmits, appVars
<1>3. CASE StopStores
  BY <1>3 DEF StopStores, StoreStaReady, StoreApReady, eventVars
<1>4. CASE StopEmits
  <2>0. UNCHANGED <<epc, event>>
    BY <1>4 DEF StopEmits, eventVars
  <2>f. (apc = "emitSta" => ~staReady) /\ (apc = "emitAp" => ~apReady)
    BY DEF Inv, SilentWhenDown
  <2>1. CASE apc = "emitSta" /\ EmitSta("app", FALSE) /\ apc' = "autoSta"
    BY <2>0, <2>f, <2>1 DEF EmitSta
  <2>2. CASE apc = "emitAp" /\ EmitAp("app", FALSE) /\ apc' = "autoAp"
    BY <2>0, <2>f, <2>2 DEF EmitAp
  <2> QED
    BY <1>4, <2>1, <2>2 DEF StopEmits
<1>5. CASE /\ UNCHANGED <<staReady, apReady, changed, heard>>
           /\ UNCHANGED <<epc, event>> \/ (epc # "emit" /\ epc' # "emit")
           /\ apc' = apc \/ (apc \notin {"emitSta", "emitAp"} /\ apc' \notin {"emitSta", "emitAp"})
  BY <1>5
<1> HIDE DEF ToldSta, ToldAp
<1> QED
  BY <1>1, <1>2, <1>3, <1>4, <1>5
     DEF Next, vars, sharedVars, coreVars, eventVars, appVars, driverVars, Call, CallInit,
         SetAutoReconnect, CallStart, CallStop, StartStep, Start, ClearBits, ConnectCall,
         WaitOver, StopStep, DeleteTask, ForgetTask, Halt, AfterHalt, UnregisterWiFi,
         UnregisterIP, StopUpdatesMode, UpdateAutoMode, DeleteGroup, EventStep, Dispatch,
         OnStaStart, OnStaChange, HandlerUpdatesMode, OnGotIP, OnDisconnected, SetStaIP,
         ReconnectStep, Wake, Retry, GiveUp, Finish, LinkUp, LinkDown, ClockStep, Elapse
-----------------------------------------------------------------------------
(* The radio.                                                              *)

(* A step that asks for a connection at most.                              *)
Tries ==
    /\ UNCHANGED <<driver, wmode, queue>>
    /\ link' = link \/ (driver = "started" /\ link = "down" /\ link' = "trying")

(* What the steps do to the driver and its queue.                          *)
LEMMA RadioStep ==
    ASSUME [Next]_vars
    PROVE  \/ CallInit
           \/ \E m \in WMode : CallStart(m)
           \/ Start
           \/ Halt
           \/ UnregisterIP
           \/ LinkUp
           \/ LinkDown
           \/ Dispatch
           \/ Tries
BY DEF Tries, Next, vars, driverVars, appVars, Call, SetAutoReconnect, CallStop, StartStep,
       ClearBits, ConnectCall, Connect, WaitOver, StopStep, DeleteTask, ForgetTask,
       UnregisterWiFi, StopStores, StopEmits, StopUpdatesMode, DeleteGroup, EventStep,
       OnStaStart, OnStaChange, HandlerStores, HandlerEmits, HandlerUpdatesMode, OnGotIP,
       OnDisconnected, ReconnectStep, Wake, Retry, GiveUp, Finish, ClockStep

(* Where stop() is only changes with a step of its own.                    *)
LEMMA UpStep ==
    ASSUME Inv, [Next]_vars
    PROVE  Up' = Up \/ CallInit \/ Halt
<1> DEFINE Quits(label) == label \in After \cup {"unregister"}
<1>1. CASE group' = group /\ (apc' = apc \/ (~Quits(apc) /\ ~Quits(apc')) \/ (Quits(apc) /\ Quits(apc')))
  BY <1>1 DEF Up
<1>2. CASE DeleteGroup
  BY <1>2 DEF DeleteGroup, Up, After
<1>3. CASE Call
  BY <1>1, <1>3 DEF Call, SetAutoReconnect, CallStart, CallStop, AppGoto, After, coreVars, appVars
<1>4. CASE StartStep
  BY <1>1, <1>4 DEF StartStep, Start, ClearBits, ConnectCall, WaitOver, AppGoto, After, coreVars
<1>5. CASE DeleteTask \/ ForgetTask
  BY <1>1, <1>5 DEF DeleteTask, ForgetTask, AppGoto, After
<1>6. CASE UnregisterWiFi \/ UnregisterIP
  BY <1>1, <1>6 DEF UnregisterWiFi, UnregisterIP, AppGoto, After, appVars
<1>7. CASE StopStores \/ StopEmits \/ StopUpdatesMode
  BY <1>1, <1>7 DEF StopStores, StopEmits, StopUpdatesMode, AppGoto, After, coreVars
<1>8. CASE EventStep
  BY <1>1, <1>8 DEF EventStep, Dispatch, OnStaStart, OnStaChange, HandlerStores, HandlerEmits,
                    HandlerUpdatesMode, OnGotIP, OnDisconnected, coreVars, appVars
<1>9. CASE UNCHANGED <<group, apc>>
  BY <1>1, <1>9
<1> QED
  BY <1>2, <1>3, <1>4, <1>5, <1>6, <1>7, <1>8, <1>9
     DEF Next, StopStep, vars, coreVars, appVars, ReconnectStep, Wake, Retry, GiveUp, Finish, LinkUp,
         LinkDown, ClockStep

(* The driver is stopped before the first handler is unregistered, and     *)
(* started only by calls that find them registered.                        *)
LEMMA StoppedStep == Inv /\ [Next]_vars => StoppedFirst'
<1> SUFFICES ASSUME Inv, [Next]_vars PROVE StoppedFirst'
  OBVIOUS
<1>0. StoppedFirst /\ SilentWhenDown
  BY DEF Inv
<1>1. CASE CallInit \/ Halt
  BY <1>0, <1>1 DEF CallInit, Halt, StopDriver, StoppedFirst, Up, After
<1>2. CASE Up' = Up
  <2>1. CASE \E m \in WMode : CallStart(m)
    BY <2>1 DEF CallStart, StopDriver, StoppedFirst
  <2>2. CASE Start
    BY <1>0, <1>2, <2>2 DEF Start, SilentWhenDown, StoppedFirst, Up, After
  <2>3. CASE UnregisterIP
    BY <1>0, <1>2, <2>3 DEF UnregisterIP, StoppedFirst, Up, After
  <2>4. CASE LinkUp \/ LinkDown \/ Dispatch \/ Tries
    BY <1>0, <1>2, <2>4 DEF LinkUp, LinkDown, Dispatch, Tries, StoppedFirst
  <2> QED
    BY <1>1, <2>1, <2>2, <2>3, <2>4, RadioStep
<1> QED
  BY <1>1, <1>2, UpStep

(* What the radio does and what it last told of stay the same.             *)
LEMMA ReportedStep == Inv /\ [Next]_vars => Reported'
<1> SUFFICES ASSUME Inv, [Next]_vars PROVE Reported'
  OBVIOUS
<1>0. TypeOK /\ Reported /\ StoppedFirst
  BY DEF Inv
<1> USE DEF Reported, StaNews, StaRuns, ApNews, ApRuns
<1>1. CASE CallInit
  <2>1. ~ApRuns
    BY <1>0, <1>1 DEF CallInit, StoppedFirst, Up
  <2> QED
    BY <1>0, <1>1, <2>1 DEF CallInit
<1>2. CASE (\E m \in WMode : CallStart(m)) \/ Halt
  <2>1. StopDriver
    BY <1>2 DEF CallStart, Halt
  <2>2. link' = "down" /\ driver' = "stopped"
    BY <2>1 DEF StopDriver
  <2> QED
    BY <1>0, <2>1, <2>2, StopNews
<1>3. CASE Start
  <2>1. StartDriver /\ driver' = "started" /\ UNCHANGED <<wmode, link>>
    BY <1>3 DEF Start, StartDriver
  <2> QED
    BY <1>0, <2>1, StartNews
<1>4. CASE UnregisterIP
  <2>1. ~ApRuns
    BY <1>0, <1>4 DEF UnregisterIP, StoppedFirst, Up
  <2> QED
    BY <1>0, <1>4, <2>1 DEF UnregisterIP
<1>5. CASE LinkUp
  <2>1. queue' = Append(queue, "GOT_IP") /\ link' = "up" /\ UNCHANGED <<driver, wmode>>
    BY <1>5 DEF LinkUp, Post
  <2>2. queue \in Seq(Event) /\ "GOT_IP" \in Event
    BY <1>0 DEF TypeOK, Event
  <2>3. LastIs(queue', StaChange, "GOT_IP") /\ LastIs(queue', ApChange, ApNews)
    BY <1>0, <2>1, <2>2, AppendNews DEF StaChange, ApChange
  <2> QED
    BY <2>1, <2>3
<1>6. CASE LinkDown
  <2>1. /\ queue' = Append(queue, "STA_DISCONNECTED") /\ link' = "down"
        /\ UNCHANGED <<driver, wmode>>
    BY <1>6 DEF LinkDown, Post
  <2>2. queue \in Seq(Event) /\ "STA_DISCONNECTED" \in Event
    BY <1>0 DEF TypeOK, Event
  <2>3. LastIs(queue', StaChange, "STA_DISCONNECTED") /\ LastIs(queue', ApChange, ApNews)
    BY <1>0, <2>1, <2>2, AppendNews DEF StaChange, ApChange
  <2> QED
    BY <2>1, <2>3
<1>7. CASE Dispatch
  <2>1. queue \in Seq(Event) /\ queue # <<>> /\ queue' = Tail(queue)
        /\ UNCHANGED <<driver, wmode, link>>
    BY <1>0, <1>7 DEF TypeOK, Dispatch
  <2>2. LastIs(queue', StaChange, StaNews) /\ LastIs(queue', ApChange, ApNews)
    BY <1>0, <2>1, TailNews
  <2> QED
    BY <2>1, <2>2
<1>8. CASE Tries
  BY <1>0, <1>8 DEF Tries
<1> QED
  BY <1>1, <1>2, <1>3, <1>4, <1>5, <1>6, <1>7, <1>8, RadioStep

(* No step but the event task's next event changes what the engine makes   *)
(* of the events it has taken, while its handlers are registered.          *)
LEMMA ViewStep ==
    ASSUME Inv, [Next]_vars, Up, Up', ~Dispatch
    PROVE  StaView' = StaView /\ ApView' = ApView
<1>0. Handling /\ staReady \in BOOLEAN /\ apReady \in BOOLEAN
  BY DEF Inv, TypeOK, SharedTypeOK
<1> USE <1>0 DEF Handling, StaView, ApView, StaChange, ApChange, EventGoto
<1>1. CASE OnStaStart
  BY <1>1 DEF OnStaStart, sharedVars
<1>2. CASE OnStaChange
  BY <1>2 DEF OnStaChange, sharedVars
<1>3. CASE HandlerStores
  <2>1. CASE epc = "flag" /\ StoreStaReady("event", StaUp(event)) /\ epc' = "emit"
    BY <2>1 DEF StoreStaReady, StaUp
  <2>2. CASE epc = "enter" /\ event \in ApChange /\ StoreApReady("event", event = "AP_START")
             /\ epc' = "emit"
    BY <2>2 DEF StoreApReady
  <2> QED
    BY <1>3, <2>1, <2>2 DEF HandlerStores
<1>4. CASE /\ epc \in {"emit", "auto", "finish"} /\ epc' \in {"auto", "finish", "idle"}
           /\ UNCHANGED <<staReady, apReady>>
  BY <1>4
<1>5. CASE UNCHANGED <<staReady, apReady, epc, event>>
  BY <1>5
<1>6. StopStep => DeleteTask \/ ForgetTask \/ Halt \/ UnregisterWiFi
  BY DEF StopStep, UnregisterIP, StopStores, StopEmits, StopUpdatesMode, DeleteGroup, Up, After
<1> HIDE DEF StaView, ApView
<1> QED
  BY <1>1, <1>2, <1>3, <1>4, <1>5, <1>6
     DEF Next, vars, sharedVars, eventVars, Call, CallInit, SetAutoReconnect, CallStart,
         CallStop, StartStep, Start, ClearBits, ConnectCall, WaitOver, DeleteTask, ForgetTask,
         Halt, UnregisterWiFi, EventStep, HandlerEmits, EmitSta, EmitAp, HandlerUpdatesMode,
         UpdateAutoMode, OnGotIP, OnDisconnected, SetStaIP, ReconnectStep, Wake, Retry, GiveUp, Finish,
         LinkUp, LinkDown, ClockStep, Elapse

(* Nor does any step change what the radio does without an event.          *)
LEMMA NewsStep ==
    ASSUME Inv, [Next]_vars, Up, ~Dispatch
    PROVE  /\ NoneWaits(queue', StaChange) => NoneWaits(queue, StaChange) /\ StaNews' = StaNews
           /\ NoneWaits(queue', ApChange) => NoneWaits(queue, ApChange) /\ ApNews' = ApNews
<1>0. TypeOK /\ Reported
  BY DEF Inv
<1> USE DEF StaNews, StaRuns, ApNews, ApRuns
<1>1. ~CallInit /\ ~UnregisterIP
  BY DEF CallInit, UnregisterIP, Up
<1>2. CASE (\E m \in WMode : CallStart(m)) \/ Halt
  <2>1. StopDriver
    BY <1>2 DEF CallStart, Halt
  <2>2. link' = "down" /\ driver' = "stopped"
    BY <2>1 DEF StopDriver
  <2> QED
    BY <1>0, <2>1, <2>2, StopNews
<1>3. CASE Start
  <2>1. StartDriver /\ driver' = "started" /\ UNCHANGED <<wmode, link>>
    BY <1>3 DEF Start, StartDriver
  <2> QED
    BY <1>0, <2>1, StartNews
<1>4. CASE LinkUp \/ LinkDown
  <2>1. \E e \in StaChange : queue' = Append(queue, e) /\ UNCHANGED <<driver, wmode>>
    BY <1>4 DEF LinkUp, LinkDown, Post, StaChange
  <2>2. queue \in Seq(Event) /\ StaChange \subseteq Event /\ StaChange \cap ApChange = {}
    BY <1>0 DEF TypeOK, Event, StaChange, ApChange
  <2>3. /\ ~NoneWaits(queue', StaChange)
        /\ NoneWaits(queue', ApChange) => NoneWaits(queue, ApChange)
    BY <1>0, <2>1, <2>2, AppendNews DEF Reported
  <2> QED
    BY <2>1, <2>3
<1>5. CASE Tries
  BY <1>5 DEF Tries
<1> QED
  BY <1>1, <1>2, <1>3, <1>4, <1>5, RadioStep

(* The truth reaches the flags.                                            *)
LEMMA KnownStep == Inv /\ [Next]_vars => Known'
<1> SUFFICES ASSUME Inv, [Next]_vars, Up' PROVE Known'
  BY DEF Known
<1>0. TypeOK /\ Reported /\ Known /\ SilentWhenDown /\ StoppedFirst
  BY DEF Inv
<1>1. CASE CallInit
  <2>1. epc = "idle" /\ ~staReady /\ ~apReady /\ link = "down" /\ driver' = "stopped"
        /\ UNCHANGED <<epc, staReady, apReady, link>>
    BY <1>0, <1>1 DEF CallInit, SilentWhenDown, Down, StoppedFirst, Up, sharedVars, eventVars
  <2> QED
    BY <2>1 DEF Known, StaView, ApView, StaNews, ApNews, StaRuns, ApRuns
<1>2. CASE Up /\ Dispatch
  <2>1. /\ queue \in Seq(Event) /\ queue # <<>> /\ queue' = Tail(queue)
        /\ Base(Head(queue)) \in registered
        /\ epc = "idle" /\ epc' = "enter" /\ event' = Head(queue)
        /\ UNCHANGED <<staReady, apReady, driver, wmode, link>>
    BY <1>0, <1>2 DEF TypeOK, Dispatch, SilentWhenDown, Base, sharedVars
  <2>2. StaNews' = StaNews /\ ApNews' = ApNews
    BY <2>1 DEF StaNews, ApNews, StaRuns, ApRuns
  <2>3. NoneWaits(queue', StaChange) => StaView' = StaNews
    <3>1. CASE Head(queue) \in StaChange
      BY <1>0, <2>1, <3>1, TailNews DEF Reported, StaView
    <3>2. CASE Head(queue) \notin StaChange
      <4>1. StaView' = StaView
        BY <2>1, <3>2 DEF StaView
      <4> QED
        BY <1>0, <1>2, <2>1, <3>2, <4>1, TailNews DEF Reported, Known
    <3> QED
      BY <3>1, <3>2
  <2>4. NoneWaits(queue', ApChange) => ApView' = ApNews
    <3>1. CASE Head(queue) \in ApChange
      BY <1>0, <2>1, <3>1, TailNews DEF Reported, ApView
    <3>2. CASE Head(queue) \notin ApChange
      <4>1. ApView' = ApView
        BY <2>1, <3>2 DEF ApView
      <4> QED
        BY <1>0, <1>2, <2>1, <3>2, <4>1, TailNews DEF Reported, Known
    <3> QED
      BY <3>1, <3>2
  <2> QED
    BY <2>2, <2>3, <2>4 DEF Known
<1>3. CASE Up /\ ~Dispatch
  BY <1>0, <1>3, ViewStep, NewsStep DEF Known
<1>4. ~Halt
  BY DEF Halt, AfterHalt, AppGoto, Up
<1> QED
  BY <1>1, <1>2, <1>3, <1>4, UpStep

(* The address follows the flag within one handler.                        *)
LEMMA PublishedStep == Inv /\ [Next]_vars => Published'
<1> SUFFICES ASSUME Inv, [Next]_vars PROVE Published'
  OBVIOUS
<1>0. Published /\ Handling /\ staReady \in BOOLEAN
  BY DEF Inv, TypeOK, SharedTypeOK
<1> USE <1>0 DEF Published, Publishing, Handling, StaChange, StaUp, EventGoto
<1>1. CASE Dispatch
  BY <1>1 DEF Dispatch, sharedVars, eventVars
<1>2. CASE OnStaStart \/ OnStaChange
  BY <1>2 DEF OnStaStart, OnStaChange, sharedVars
<1>3. CASE HandlerStores
  BY <1>3 DEF HandlerStores, StoreStaReady, StoreApReady
<1>4. CASE HandlerEmits
  BY <1>4 DEF HandlerEmits, EmitSta, EmitAp
<1>5. CASE HandlerUpdatesMode
  BY <1>5 DEF HandlerUpdatesMode, UpdateAutoMode
<1>6. CASE OnGotIP
  BY <1>6 DEF OnGotIP, SetStaIP
<1>7. CASE OnDisconnected
  BY <1>7 DEF OnDisconnected, SetStaIP
<1>8. CASE StopStores
  <2>1. epc = "idle"
    BY <1>8 DEF StopStores, Inv, SilentWhenDown, Down, After
  <2>2. CASE StoreStaReady("app", FALSE)
    BY <1>8, <2>1, <2>2 DEF StopStores, StoreStaReady, eventVars
  <2>3. CASE StoreApReady("app", FALSE)
    BY <1>8, <2>1, <2>3 DEF StopStores, StoreApReady, eventVars
  <2> QED
    BY <1>8, <2>2, <2>3 DEF StopStores
<1>9. CASE UNCHANGED <<staReady, staIP, epc, event>>
  BY <1>9
<1> HIDE DEF Published
<1> QED
  BY <1>1, <1>2, <1>3, <1>4, <1>5, <1>6, <1>7, <1>8, <1>9
     DEF Next, vars, sharedVars, eventVars, Call, CallInit, SetAutoReconnect, CallStart,
         CallStop, StartStep, Start, ClearBits, ConnectCall, WaitOver, StopStep, DeleteTask,
         ForgetTask, Halt, UnregisterWiFi, UnregisterIP, StopEmits, EmitSta, EmitAp,
         StopUpdatesMode, UpdateAutoMode, DeleteGroup, EventStep, ReconnectStep, Wake, Retry,
         GiveUp, Finish, LinkUp, LinkDown, ClockStep, Elapse

-----------------------------------------------------------------------------
(* The invariant holds in every state.                                     *)
LEMMA Invariance == Spec => []Inv
<1>1. Init => Inv
  <2> SUFFICES ASSUME Init PROVE Inv
    OBVIOUS
  <2>1. TypeOK
    <3>1. SharedTypeOK
      BY DEF Init, SharedInit, SharedTypeOK, NetMode
    <3>2. queue \in Seq(Event) /\ event \in Event /\ wmode \in WMode
      BY DEF Init, Event, WMode
    <3> QED
      BY <3>1, <3>2 DEF Init, TypeOK
  <2>2. Handling /\ Guarded /\ SilentWhenDown /\ StoppedFirst /\ Published
    BY DEF Init, SharedInit, Handling, Guarded, Working, SilentWhenDown, Down, Up, After, StoppedFirst,
           Published, Publishing
  <2>3. ToldSta /\ ToldAp
    BY DEF Init, SharedInit, ToldSta, ToldAp
  <2>4. Reported /\ Known
    BY DEF Init, Reported, LastIs, Known, Up
  <2> QED
    BY <2>1, <2>2, <2>3, <2>4 DEF Inv
<1>2. Inv /\ [Next]_vars => Inv'
  BY TypeStep, HandlingStep, GuardedStep, SilentStep, ToldStep, StoppedStep, ReportedStep,
     KnownStep, PublishedStep DEF Inv
<1> QED
  BY <1>1, <1>2, PTL DEF Spec

(* Every variable keeps its type, SharedState's too.                       *)
THEOREM TypeCorrect == Spec => []TypeOK
<1>1. Inv => TypeOK
  BY DEF Inv
<1> QED
  BY <1>1, Invariance, PTL

(* Once every event is handled and no call is in progress, the flags the   *)
(* services go by say what the radio does, and a station with a connection *)
(* has published its address: no order of connections, losses, restarts    *)
(* and stops leaves a flag behind (NeuWiFi_Core.cpp:156-216).              *)
THEOREM FlagsAreTrue == Spec => []FlagsTruthful
<1>1. Inv => FlagsTruthful
  <2> SUFFICES ASSUME Inv, Quiet, group PROVE FlagsTruthful
    BY DEF FlagsTruthful
  <2>1. Up /\ epc = "idle" /\ ~Publishing
    BY DEF Quiet, Up, After, Publishing
  <2>2. NoneWaits(queue, StaChange) /\ NoneWaits(queue, ApChange)
    BY DEF Quiet, NoneWaits
  <2>3. StaView = StaNews /\ ApView = ApNews
    BY <2>1, <2>2 DEF Inv, Known
  <2> QED
    BY <2>1, <2>3 DEF StaView, ApView, StaNews, ApNews, StaRuns, ApRuns, Inv, TypeOK,
                      SharedTypeOK, Published, FlagsTruthful
<1> QED
  BY <1>1, Invariance, PTL

(* From the end of stop() to the next init() nothing is reported ready and *)
(* no handler runs, whatever was queued when stop() was called             *)
(* (NeuWiFi_Core.cpp:418-452).                                             *)
THEOREM StopIsFinal == Spec => []StoppedMeansDown
<1>1. Inv => StoppedMeansDown
  BY DEF Inv, SilentWhenDown, Down, StoppedMeansDown
<1> QED
  BY <1>1, Invariance, PTL

(* Between the calls of the setters the listeners know the flags as they   *)
(* are: the event task and stop() never notify across each other           *)
(* (SharedState.cpp:137-141).                                              *)
THEOREM ListenersKnow == Spec => []ListenersTold
<1>1. Inv => ListenersTold
  BY DEF Inv, ToldSta, ToldAp, ListenersTold
<1> QED
  BY <1>1, Invariance, PTL

(* However disconnections, wake-ups and stop() interleave, no two tasks    *)
(* are on the way to an attempt or making it, although several may be      *)
(* there, unless stop() deleted one that was gone already or cleared the   *)
(* handle of another than it deleted (NeuWiFi_Core.cpp:163-176, 354-362,   *)
(* 421-425; "reconnect task guarded", _NeuWiFi.h:86).                      *)
THEOREM OneReconnects == Spec => []OneReconnectTask
<1>1. Inv => OneReconnectTask
  BY DEF Inv, Guarded, OneReconnectTask, Orderly
<1> QED
  BY <1>1, Invariance, PTL

-----------------------------------------------------------------------------
(* The delay of reconnectTask.                                             *)

(* The attempts whose product counts wait for two seconds at least.        *)
LEMMA ProductInRange ==
    ASSUME NEW tries \in Nat, NEW delay \in Product(tries)
    PROVE  delay \in Nat /\ (tries <= 10 => delay >= 2000)
<1>1. CASE tries > 10
  BY <1>1, SMT DEF Product
<1>2. CASE tries <= 10
  <2>1. tries \in {0, 1, 2, 3, 4, 5, 6, 7, 8, 9, 10}
    BY <1>2, SMT
  <2>2. Power[tries + 1] \in Nat /\ Power[tries + 1] >= 1
    BY <2>1, SMT DEF Power
  <2> QED
    BY <1>2, <2>2, SMT DEF Product, BASE_DELAY_MS
<1> QED
  BY <1>1, <1>2, SMT

(* Between a and b.                                                        *)
Within(n, a, b) == n \in Int /\ a <= n /\ n <= b

(* A sixth of a capped delay is not zero, and adding or subtracting less   *)
(* than that keeps it in bounds.                                           *)
LEMMA Sixth ==
    ASSUME NEW d \in Int, Within(d, 2000, 60000)
    PROVE  d \div 6 \in Nat /\ d \div 6 > 0 /\ 6 * (d \div 6) <= d
BY SMT DEF Within

LEMMA Jitter ==
    ASSUME NEW d \in Int, Within(d, 2000, 60000), NEW k \in Nat, k > 0, 6 * k <= d,
           NEW random \in Nat
    PROVE  Within(d + (random % k), 1668, 69999) /\ Within(d - (random % k), 1668, 69999)
<1>1. random % k \in Int /\ 0 <= random % k /\ random % k < k
  BY SMT
<1>2. ASSUME NEW j \in Int, 0 <= j, j < k
      PROVE  Within(d + j, 1668, 69999) /\ Within(d - j, 1668, 69999)
  <2>1. j + 1 <= 10000 /\ 6 * (j + 1) <= d
    BY <1>2, SMT DEF Within
  <2>2. d + j <= 69999 /\ 1668 <= d + j
    BY <1>2, <2>1, SMT DEF Within
  <2>3. 1668 <= d - j /\ d - j <= 69999
    BY <1>2, <2>1, SMT DEF Within
  <2> QED
    BY <1>2, <2>2, <2>3, SMT DEF Within
<1> QED
  BY <1>1, <1>2

(* However many attempts failed, and whatever the shift and the product    *)
(* then yield, the task divides by no zero and waits for 1.7 to 70 seconds *)
(* (NeuWiFi_Core.cpp:340-352): no storm of attempts, and no attempt that   *)
(* is put off for ever.                                                    *)
THEOREM WaitBounded ==
    ASSUME NEW tries \in Nat, NEW delay \in Product(tries),
           NEW random \in Nat, NEW coin \in Nat
    PROVE  /\ Spread(tries, delay) > 0
           /\ Within(Wait(tries, delay, random, coin), 1668, 69999)
<1>1. delay \in Nat /\ (tries <= 10 => delay >= 2000)
  BY ProductInRange
<1>2. Within(Capped(tries, delay), 2000, 60000)
  BY <1>1, SMT DEF Capped, MAX_DELAY_MS, Within
<1>3. /\ Spread(tries, delay) \in Nat /\ Spread(tries, delay) > 0
      /\ 6 * Spread(tries, delay) <= Capped(tries, delay)
  BY <1>2, Sixth DEF Spread, Within
<1>4. /\ Within(Capped(tries, delay) + (random % Spread(tries, delay)), 1668, 69999)
      /\ Within(Capped(tries, delay) - (random % Spread(tries, delay)), 1668, 69999)
  BY <1>2, <1>3, Jitter DEF Within
<1> QED
  BY <1>3, <1>4 DEF Wait
=============================================================================
