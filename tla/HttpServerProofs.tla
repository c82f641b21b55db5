--------------------------- MODULE HttpServerProofs ---------------------------
(***************************************************************************)
(* Proofs about HttpServer, for any number of handles and without a bound  *)
(* on how often a handle is used again.  NoLostServer is not inductive: it *)
(* does not say what the listener and stop() rely on between httpd_stop    *)
(* and the store of _server.  Owned adds that.  Nor is RoutesServed: while *)
(* the listener walks the arrays only what lies behind it is registered.   *)
(* Walked says that.                                                       *)
(***************************************************************************)
EXTENDS HttpServer, TLAPS

(* Only the server of _server runs. *)
One == alive \subseteq {server}

(* The listener that is about to clear or to replace _server loses no      *)
(* server by it, nor does it overtake a stop() that is as far.             *)
ListenerOwns == lpc \in {"clear", "start"} => alive = {} /\ apc # "clear"

(* Nor does stop(); and _server is still what it has stopped. *)
AppOwns == apc = "clear" => alive = {} /\ server # None

Owned == ~fault => One /\ ListenerOwns /\ AppOwns

(* The route at place k has had its turn. *)
Behind(kind, k) == lpc # "errors" /\ (lpc = "page" => kind = "page") /\ (lpc = kind => k < i)

Walked ==
    ~fault /\ alive # {} =>
        \A kind \in Kind : \A k \in DOMAIN saved[kind] :
            Behind(kind, k) => <<kind, saved[kind][k]>> \in served \cup late

(* A route that was ever saved is saved now, or stop() forgot it. *)
Remembered == known \subseteq Routes("page") \cup Routes("socket") \cup dropped

(* The listener runs within a report only. *)
Reporting == lpc # "idle" => epc \in {"emit", "mode"}

Inv == TypeOK /\ Owned /\ Reporting /\ Walked /\ Remembered

-----------------------------------------------------------------------------
(* The setters of SharedState keep its flags in their types.               *)
LEMMA SharedTypes ==
    ASSUME SharedTypeOK, NEW s \in Setter, NEW b \in BOOLEAN,
           \/ StoreStaReady(s, b)
           \/ StoreApReady(s, b)
           \/ EmitSta(s, b)
           \/ EmitAp(s, b)
           \/ UpdateAutoMode
           \/ Elapse
           \/ UNCHANGED sharedVars
    PROVE  SharedTypeOK'
<1> USE DEF SharedTypeOK, NetMode
<1>1. CASE StoreStaReady(s, b)
  <2>1. (staReady # b) \in BOOLEAN
    OBVIOUS
  <2> QED
    BY <1>1, <2>1 DEF StoreStaReady
<1>2. CASE StoreApReady(s, b)
  <2>1. (apReady # b) \in BOOLEAN
    OBVIOUS
  <2> QED
    BY <1>2, <2>1 DEF StoreApReady
<1>3. CASE EmitSta(s, b)
  BY <1>3 DEF EmitSta
<1>4. CASE EmitAp(s, b)
  BY <1>4 DEF EmitAp
<1>5. CASE UpdateAutoMode
  BY <1>5 DEF UpdateAutoMode
<1>6. CASE Elapse
  BY <1>6 DEF Elapse
<1>7. CASE UNCHANGED sharedVars
  BY <1>7 DEF sharedVars
<1> QED
  BY <1>1, <1>2, <1>3, <1>4, <1>5, <1>6, <1>7

(* Each step of the server and its callers goes with one of those.         *)
LEMMA SharedStep == SharedTypeOK /\ [Next]_vars => SharedTypeOK'
<1> SUFFICES ASSUME SharedTypeOK, [Next]_vars PROVE SharedTypeOK'
  OBVIOUS
<1>0. "event" \in Setter /\ staReady \in BOOLEAN /\ apReady \in BOOLEAN
      /\ (~staReady) \in BOOLEAN /\ (~apReady) \in BOOLEAN
  BY DEF Setter, SharedTypeOK
<1>1. CASE NetChange
  BY <1>0, <1>1, SharedTypes DEF NetChange
<1>2. CASE Stamp
  BY <1>0, <1>2, SharedTypes DEF Stamp
<1>3. CASE ReportMode
  BY <1>0, <1>3, SharedTypes DEF ReportMode
<1>4. CASE ClockStep
  BY <1>0, <1>4, SharedTypes DEF ClockStep
<1>5. CASE UNCHANGED sharedVars
  BY <1>0, <1>5, SharedTypes
<1>6. NetChange \/ Stamp \/ ReportMode \/ ClockStep \/ UNCHANGED sharedVars
  BY DEF Next, vars, ReportStep, ReportOver, ListenerStep, ListenerEnter, ListenerStop,
         ListenerClear, ListenerStart, RegisterErrors, RegisterRoute, EndOfRoutes, SaveRoute,
         CallInit, CallStop, CallServer, AppStep, AppStop, AppClear, ForgetRoutes, QueueWork,
         AskServer, PageStart, PageEnd, Broadcast
<1> QED
  BY <1>1, <1>2, <1>3, <1>4, <1>5, <1>6

(* Without a fault httpd_stop ends the one server that runs.               *)
LEMMA StopLeavesNone ==
    ASSUME NEW h, StopServer(h), One, ~fault'
    PROVE  alive' = {} /\ h \in alive
BY DEF StopServer, One

(* A fault is for ever.                                                    *)
LEMMA FaultStays == [Next]_vars /\ ~fault' => ~fault
BY DEF Next, vars, NetChange, ReportStep, Stamp, ReportMode, ReportOver, ListenerStep,
       ListenerEnter, ListenerStop, ListenerClear, ListenerStart, RegisterErrors,
       RegisterRoute, EndOfRoutes, SaveRoute, CallInit, CallStop, CallServer, AppStep, AppStop,
       AppClear, ForgetRoutes, QueueWork, AskServer, PageStart, PageEnd, Broadcast, ClockStep,
       StopServer, UseServer

-----------------------------------------------------------------------------
(* Every step keeps the variables in their types, and the servers that are *)
(* busy or have work among those that run.                                 *)
LEMMA TypeStep == TypeOK /\ [Next]_vars => TypeOK'
<1> SUFFICES ASSUME TypeOK, [Next]_vars PROVE TypeOK'
  OBVIOUS
<1>0. SharedTypeOK'
  BY SharedStep DEF TypeOK
<1> USE <1>0 DEF TypeOK, Event, Kind, handleVars, espVars, listenerVars, appVars, historyVars, routeHistory,
                 ListenerGoto, AppGoto
<1>a. MaxPages \in Nat /\ MaxSockets \in Nat
      /\ \A kind \in Kind : Capacity(kind) \in 0..(MaxPages + MaxSockets)
  BY RoutesAssumption DEF Capacity
<1>1. CASE NetChange
  BY <1>1 DEF NetChange, Emit
<1>2. CASE Stamp
  BY <1>2 DEF Stamp
<1>3. CASE ReportMode
  BY <1>3 DEF ReportMode, Emit
<1>4. CASE ReportOver
  BY <1>4 DEF ReportOver
<1>5. CASE ListenerEnter
  BY <1>5 DEF ListenerEnter
<1>6. CASE ListenerStop
  BY <1>6 DEF ListenerStop, StopServer
<1>7. CASE ListenerClear
  BY <1>7 DEF ListenerClear
<1>8. CASE ListenerStart
  BY <1>8 DEF ListenerStart
<1>9. CASE RegisterErrors
  BY <1>9, <1>a DEF RegisterErrors, UseServer
<1>10. ASSUME NEW kind \in Kind, RegisterRoute(kind) \/ EndOfRoutes(kind) PROVE TypeOK'
  <2>1. CASE RegisterRoute(kind)
    <3>1. saved[kind] \in Seq(Uri) /\ Len(saved[kind]) <= Capacity(kind)
      OBVIOUS
    <3>2. i \in 1..Len(saved[kind]) /\ Len(saved[kind]) \in Nat
      BY <2>1, <3>1 DEF RegisterRoute
    <3>3. saved[kind][i] \in Uri /\ i + 1 \in 1..(MaxPages + MaxSockets + 1)
      BY <3>1, <3>2, <1>a
    <3> QED
      BY <2>1, <3>3 DEF RegisterRoute, UseServer
  <2>2. CASE EndOfRoutes(kind)
    BY <2>2, <1>a DEF EndOfRoutes
  <2> QED
    BY <1>10, <2>1, <2>2
<1>11. ASSUME NEW kind \in Kind, NEW uri \in Uri, SaveRoute(kind, uri) PROVE TypeOK'
  <2>1. saved[kind] \in Seq(Uri) /\ Append(saved[kind], uri) \in Seq(Uri)
        /\ Len(Append(saved[kind], uri)) = Len(saved[kind]) + 1
    OBVIOUS
  <2>2. Len(saved[kind]) + 1 <= Capacity(kind)
    BY <1>11, <2>1, <1>a DEF SaveRoute
  <2>3. saved' \in [Kind -> Seq(Uri)] /\ \A other \in Kind : Len(saved'[other]) <= Capacity(other)
    BY <1>11, <2>1, <2>2 DEF SaveRoute
  <2> QED
    BY <1>11, <2>3 DEF SaveRoute
<1>12. CASE CallInit
  BY <1>12 DEF CallInit
<1>13. CASE CallStop
  <2>1. apc' \in {"idle", "stop", "clear", "queue", "use"} \cup Kind
        /\ {held', aheld'} \subseteq Handle \cup {None}
    BY <1>13 DEF CallStop
  <2>2. running' = FALSE /\ UNCHANGED <<listening, server, saved, alive, busy, work, served, event,
                                        epc, lpc, held, i, fault, excuse, late, known, dropped>>
    BY <1>13 DEF CallStop
  <2>3. (running \in BOOLEAN /\ listening \in BOOLEAN /\ fault \in BOOLEAN)'
    BY <2>2
  <2>4. (\A kind \in Kind : Len(saved[kind]) <= Capacity(kind))'
    BY <2>2
  <2> QED
    BY <2>1, <2>2, <2>3, <2>4
<1>14. CASE CallServer
  BY <1>14 DEF CallServer
<1>15. CASE AppStop
  BY <1>15 DEF AppStop, StopServer
<1>16. CASE AppClear
  BY <1>16 DEF AppClear
<1>17. ASSUME NEW kind \in Kind, ForgetRoutes(kind) PROVE TypeOK'
  <2>1. << >> \in Seq(Uri) /\ Len(<< >>) = 0
    OBVIOUS
  <2>2. saved' \in [Kind -> Seq(Uri)] /\ \A other \in Kind : Len(saved'[other]) <= Capacity(other)
    BY <1>17, <2>1, <1>a DEF ForgetRoutes
  <2>3. Routes(kind) \subseteq Kind \X Uri
    BY DEF Routes
  <2>4. {served, late, known, dropped'} \subseteq SUBSET (Kind \X Uri)
    BY <1>17, <2>3 DEF ForgetRoutes
  <2> QED
    BY <1>17, <2>2, <2>4 DEF ForgetRoutes
<1>18. CASE QueueWork \/ AskServer
  <2>1. fault' \in BOOLEAN
    BY <1>18 DEF QueueWork, AskServer, UseServer
  <2>2. CASE QueueWork
    BY <2>1, <2>2 DEF QueueWork
  <2>3. CASE AskServer
    BY <2>1, <2>3 DEF AskServer
  <2> QED
    BY <1>18, <2>2, <2>3
<1>19. ASSUME NEW h \in Handle, PageStart(h) \/ PageEnd(h) \/ Broadcast(h) PROVE TypeOK'
  <2>1. CASE PageStart(h)
    BY <2>1 DEF PageStart
  <2>2. CASE PageEnd(h)
    BY <2>2 DEF PageEnd
  <2>3. CASE Broadcast(h)
    BY <2>3 DEF Broadcast, UseServer
  <2> QED
    BY <1>19, <2>1, <2>2, <2>3
<1>20. CASE ClockStep
  BY <1>20 DEF ClockStep
<1>21. CASE UNCHANGED vars
  BY <1>21 DEF vars
<1> QED
  BY <1>1, <1>2, <1>3, <1>4, <1>5, <1>6, <1>7, <1>8, <1>9, <1>10, <1>11, <1>12, <1>13, <1>14,
     <1>15, <1>16, <1>17, <1>18, <1>19, <1>20, <1>21 DEF Next, ReportStep, ListenerStep, AppStep

(* Owned, one step per action that moves a server, _server, the listener   *)
(* or the application's call; the other actions come last.                 *)
LEMMA OwnedStep == TypeOK /\ Owned /\ [Next]_vars => Owned'
<1> SUFFICES ASSUME TypeOK, Owned, [Next]_vars, ~fault' PROVE (One /\ ListenerOwns /\ AppOwns)'
  BY DEF Owned
<1>0. ~fault /\ One /\ ListenerOwns /\ AppOwns
  BY FaultStays DEF Owned
<1> USE <1>0 DEF One, ListenerOwns, AppOwns, Kind, handleVars, espVars, listenerVars, appVars,
                 ListenerGoto, AppGoto
<1>1. CASE NetChange
  BY <1>1 DEF NetChange, Emit
<1>2. CASE ReportMode
  BY <1>2 DEF ReportMode, Emit
<1>3. CASE ListenerEnter
  \* to "start" only when _server is null: then nothing runs
  <2>1. lpc' = "start" => server = None
    BY <1>3 DEF ListenerEnter
  <2>2. server = None => alive = {}
    BY NoneAssumption DEF TypeOK
  <2>3. lpc' \in {"start", "stop", "idle"}
    BY <1>3 DEF ListenerEnter
  <2> QED
    BY <1>3, <2>1, <2>2, <2>3 DEF ListenerEnter
<1>4. CASE ListenerStop
  \* a stop() about to clear has ended every server: then this one is a fault
  <2>1. alive' = {} /\ held \in alive
    BY <1>4, StopLeavesNone DEF ListenerStop
  <2> QED
    BY <1>4, <2>1 DEF ListenerStop
<1>5. CASE ListenerClear
  BY <1>5 DEF ListenerClear
<1>6. CASE ListenerStart
  BY <1>6, NoneAssumption DEF ListenerStart, TypeOK
<1>7. CASE CallStop
  BY <1>7 DEF CallStop
<1>8. CASE AppStop
  <2>1. alive' = {} /\ aheld \in alive
    BY <1>8, StopLeavesNone DEF AppStop
  <2>2. server # None
    BY <2>1, NoneAssumption DEF TypeOK
  <2> QED
    BY <1>8, <2>1, <2>2 DEF AppStop
<1>9. CASE AppClear
  BY <1>9 DEF AppClear
<1>10. CASE RegisterErrors \/ CallServer \/ QueueWork \/ AskServer \/ CallInit
  BY <1>10 DEF RegisterErrors, CallServer, QueueWork, AskServer, CallInit
<1>11. ASSUME NEW kind \in Kind, RegisterRoute(kind) \/ EndOfRoutes(kind) \/ ForgetRoutes(kind)
       PROVE  (One /\ ListenerOwns /\ AppOwns)'
  BY <1>11 DEF RegisterRoute, EndOfRoutes, ForgetRoutes
<1>12. ASSUME NEW kind \in Kind, NEW uri \in Uri, SaveRoute(kind, uri)
       PROVE  (One /\ ListenerOwns /\ AppOwns)'
  BY <1>12 DEF SaveRoute
<1>13. CASE Stamp \/ ReportOver \/ ClockStep \/ UNCHANGED vars
  BY <1>13 DEF Stamp, ReportOver, ClockStep, vars
<1>14. ASSUME NEW h \in Handle, PageStart(h) \/ PageEnd(h) \/ Broadcast(h)
       PROVE  (One /\ ListenerOwns /\ AppOwns)'
  BY <1>14 DEF PageStart, PageEnd, Broadcast
<1> QED
  BY <1>1, <1>2, <1>3, <1>4, <1>5, <1>6, <1>7, <1>8, <1>9, <1>10, <1>11, <1>12, <1>13, <1>14
     DEF Next, ReportStep, ListenerStep, AppStep

(* Reporting: a report waits for the listener it has called.               *)
LEMMA ReportingStep == Reporting /\ [Next]_vars => Reporting'
<1> SUFFICES ASSUME Reporting, [Next]_vars PROVE Reporting'
  OBVIOUS
<1> USE DEF Reporting, listenerVars, ListenerGoto, Kind
<1>1. CASE NetChange \/ ReportMode
  BY <1>1 DEF NetChange, ReportMode, Emit
<1>2. CASE Stamp \/ ReportOver
  BY <1>2 DEF Stamp, ReportOver, ListenerDone
<1>3. CASE ListenerStep
  BY <1>3 DEF ListenerStep, ListenerEnter, ListenerStop, ListenerClear, ListenerStart,
              RegisterErrors, RegisterRoute, EndOfRoutes
<1>4. CASE UNCHANGED <<lpc, epc>>
  BY <1>4
<1>5. NetChange \/ ReportStep \/ ListenerStep \/ UNCHANGED <<lpc, epc>>
  BY DEF Next, vars, SaveRoute, CallInit, CallStop, CallServer, AppStep, AppStop, AppClear,
         ForgetRoutes, QueueWork, AskServer, PageStart, PageEnd, Broadcast, ClockStep
<1> QED
  BY <1>1, <1>2, <1>3, <1>4, <1>5 DEF ReportStep

(* Walked.  A server is there, so a route that is saved now is late; and   *)
(* none is there while the listener starts one.                            *)
LEMMA WalkedStep == Inv /\ [Next]_vars => Walked'
<1> SUFFICES ASSUME Inv, [Next]_vars, ~fault', alive' # {},
                    NEW kind \in Kind, NEW k \in DOMAIN saved'[kind], Behind(kind, k)'
             PROVE  <<kind, saved'[kind][k]>> \in served' \cup late'
  BY DEF Walked
<1> DEFINE Kept == <<kind, saved'[kind][k]>> \in served' \cup late'
<1>0. TypeOK /\ ~fault /\ One /\ ListenerOwns /\ Reporting
  BY FaultStays DEF Inv, Owned
<1>1. ASSUME alive # {}, k \in DOMAIN saved[kind], saved'[kind][k] = saved[kind][k],
             Behind(kind, k), served \subseteq served', late \subseteq late'
      PROVE  Kept
  BY <1>0, <1>1 DEF Inv, Walked
<1> USE DEF handleVars, espVars, listenerVars, appVars, historyVars, routeHistory, ListenerGoto, AppGoto, Behind
<1>2. CASE NetChange
  BY <1>0, <1>1, <1>2 DEF NetChange, Emit, Reporting, Kind
<1>3. CASE ReportMode
  BY <1>0, <1>1, <1>3 DEF ReportMode, Emit, Reporting, Kind
<1>4. CASE Stamp \/ ReportOver \/ ClockStep \/ UNCHANGED vars
  BY <1>1, <1>4 DEF Stamp, ReportOver, ClockStep, vars
<1>5. CASE ListenerEnter
  BY <1>1, <1>5 DEF ListenerEnter, Kind
<1>6. CASE ListenerStop \/ AppStop
  BY <1>0, <1>6, StopLeavesNone DEF ListenerStop, AppStop
<1>7. CASE ListenerClear
  BY <1>0, <1>7 DEF ListenerClear, ListenerOwns
<1>8. CASE ListenerStart
  BY <1>0, <1>8 DEF ListenerStart, ListenerOwns
<1>9. CASE RegisterErrors
  \* no route is behind the start
  <2>1. i' = 1 /\ lpc' = "page"
    BY <1>9 DEF RegisterErrors
  <2>2. k \in Nat \ {0}
    BY <1>0, <1>9 DEF RegisterErrors, TypeOK
  <2> QED
    BY <2>1, <2>2
<1>10. ASSUME NEW now \in Kind, RegisterRoute(now) PROVE Kept
  <2>1. alive # {} /\ server # None
    BY <1>0, <1>10, NoneAssumption DEF RegisterRoute, One, TypeOK
  <2>2. CASE kind = now /\ k = i
    BY <1>10, <2>1, <2>2 DEF RegisterRoute
  <2>3. CASE ~(kind = now /\ k = i)
    <3>1. k \in Nat /\ i \in Nat
      BY <1>0, <1>10 DEF RegisterRoute, TypeOK
    <3>2. Behind(kind, k)
      BY <1>10, <2>3, <3>1 DEF RegisterRoute
    <3> QED
      BY <1>1, <1>10, <2>1, <3>2 DEF RegisterRoute
  <2> QED
    BY <2>2, <2>3
<1>11. ASSUME NEW now \in Kind, EndOfRoutes(now) PROVE Kept
  <2>1. k \in 1..Len(saved[kind]) /\ i \in Nat /\ Len(saved[kind]) \in Nat
    BY <1>0, <1>11 DEF EndOfRoutes, TypeOK
  <2>2. Behind(kind, k)
    BY <1>11, <2>1 DEF EndOfRoutes, Kind
  <2> QED
    BY <1>1, <1>11, <2>2 DEF EndOfRoutes
<1>12. ASSUME NEW now \in Kind, NEW uri \in Uri, SaveRoute(now, uri) PROVE Kept
  <2>1. alive # {} /\ server # None
    BY <1>0, <1>12, NoneAssumption DEF SaveRoute, One, TypeOK
  <2>2. saved[kind] \in Seq(Uri) /\ saved[now] \in Seq(Uri)
    BY <1>0 DEF TypeOK
  <2>3. CASE kind = now /\ k = Len(saved[now]) + 1
    BY <1>12, <2>1, <2>2, <2>3, <1>0 DEF SaveRoute, TypeOK
  <2>4. CASE ~(kind = now /\ k = Len(saved[now]) + 1)
    <3>1. k \in DOMAIN saved[kind] /\ saved'[kind][k] = saved[kind][k]
      BY <1>12, <2>2, <2>4, <1>0 DEF SaveRoute, TypeOK
    <3> QED
      BY <1>1, <1>12, <2>1, <3>1 DEF SaveRoute
  <2> QED
    BY <2>3, <2>4
<1>13. ASSUME NEW now \in Kind, ForgetRoutes(now) PROVE Kept
  <2>1. kind # now
    BY <1>0, <1>13 DEF ForgetRoutes, TypeOK
  <2> QED
    BY <1>0, <1>1, <1>13, <2>1 DEF ForgetRoutes, TypeOK
<1>14. CASE CallInit \/ CallStop \/ CallServer \/ AppClear \/ QueueWork \/ AskServer
  BY <1>1, <1>14 DEF CallInit, CallStop, CallServer, AppClear, QueueWork, AskServer
<1>15. ASSUME NEW h \in Handle, PageStart(h) \/ PageEnd(h) \/ Broadcast(h) PROVE Kept
  BY <1>1, <1>15 DEF PageStart, PageEnd, Broadcast
<1> QED
  BY <1>2, <1>3, <1>4, <1>5, <1>6, <1>7, <1>8, <1>9, <1>10, <1>11, <1>12, <1>13, <1>14, <1>15
     DEF Next, ReportStep, ListenerStep, AppStep

(* Remembered.  Only on, onWS and stop() touch what is saved.              *)
LEMMA RememberedStep == TypeOK /\ Remembered /\ [Next]_vars => Remembered'
<1> SUFFICES ASSUME TypeOK, Remembered, [Next]_vars PROVE Remembered'
  OBVIOUS
<1> USE DEF Remembered, Routes
<1>1. ASSUME NEW kind \in Kind, NEW uri \in Uri, SaveRoute(kind, uri) PROVE Remembered'
  <2>1. /\ saved[kind] \in Seq(Uri) /\ saved' = [saved EXCEPT ![kind] = Append(@, uri)]
        /\ known' = known \cup {<<kind, uri>>} /\ dropped' = dropped \ {<<kind, uri>>}
    BY <1>1 DEF SaveRoute, TypeOK
  <2>2. Routes(kind) \cup {<<kind, uri>>} \subseteq Routes(kind)'
    <3>1. \A k \in DOMAIN saved[kind] : k \in DOMAIN saved'[kind] /\ saved'[kind][k] = saved[kind][k]
      BY <2>1 DEF TypeOK
    <3>2. Len(saved[kind]) + 1 \in DOMAIN saved'[kind]
          /\ saved'[kind][Len(saved[kind]) + 1] = uri
      BY <2>1 DEF TypeOK
    <3> QED
      BY <3>1, <3>2
  <2>3. \A other \in Kind : other # kind => Routes(other)' = Routes(other)
    BY <2>1 DEF TypeOK
  <2> HIDE DEF Routes
  <2> QED
    BY <2>1, <2>2, <2>3 DEF Kind
<1>2. ASSUME NEW kind \in Kind, ForgetRoutes(kind) PROVE Remembered'
  <2>1. \A other \in Kind : other # kind => Routes(other)' = Routes(other)
    BY <1>2 DEF ForgetRoutes, TypeOK
  <2>2. known' = known /\ dropped' = dropped \cup Routes(kind)
    BY <1>2 DEF ForgetRoutes
  <2> HIDE DEF Routes
  <2> QED
    BY <2>1, <2>2 DEF Kind
<1>3. CASE UNCHANGED <<saved, known, dropped>>
  BY <1>3
<1>4. \/ \E kind \in Kind, uri \in Uri : SaveRoute(kind, uri)
      \/ \E kind \in Kind : ForgetRoutes(kind)
      \/ UNCHANGED <<saved, known, dropped>>
  BY DEF Next, vars, historyVars, routeHistory, NetChange, ReportStep, Stamp, ReportMode,
         ReportOver, ListenerStep, ListenerEnter, ListenerStop, ListenerClear, ListenerStart,
         RegisterErrors, RegisterRoute, EndOfRoutes, CallInit, CallStop, CallServer, AppStep,
         AppStop, AppClear, QueueWork, AskServer, PageStart, PageEnd, Broadcast, ClockStep
<1> QED
  BY <1>1, <1>2, <1>3, <1>4

-----------------------------------------------------------------------------
(* Inv holds in every reachable state: at most one server runs, it is that *)
(* of _server, neither the listener nor stop() (Core.cpp:80-150) takes     *)
(* away or replaces a _server whose server runs, and the routes behind the *)
(* listener are registered; no saved route but one that stop() forgot is   *)
(* missing from the arrays.                                                *)
THEOREM Invariance == Spec => []Inv
<1>1. Init => Inv
  <2> SUFFICES ASSUME Init PROVE Inv
    OBVIOUS
  <2>1. SharedTypeOK
    BY DEF Init, SharedInit, SharedTypeOK, NetMode, Setter
  <2>2. saved \in [Kind -> Seq(Uri)] /\ \A kind \in Kind : Len(saved[kind]) <= Capacity(kind)
    BY RoutesAssumption DEF Init, Capacity
  <2>3. i \in 1..(MaxPages + MaxSockets + 1)
    BY RoutesAssumption DEF Init
  <2> QED
    BY <2>1, <2>2, <2>3 DEF Init, Inv, TypeOK, Event, Owned, One, ListenerOwns, AppOwns,
       Reporting, Walked, Remembered
<1>2. Inv /\ [Next]_vars => Inv'
  BY TypeStep, OwnedStep, ReportingStep, WalkedStep, RememberedStep DEF Inv
<1> QED
  BY <1>1, <1>2, PTL DEF Spec

(* Every variable stays in its type; a server that answers a page or has a *)
(* broadcast queued is one that runs, and no more routes are saved than    *)
(* the arrays hold.                                                        *)
THEOREM TypeCorrect == Spec => []TypeOK
<1>1. Inv => TypeOK
  BY DEF Inv
<1> QED
  BY <1>1, Invariance, PTL

(* No server is ever lost, whatever the order of the steps of stop() and   *)
(* of the listener (NeuHttpServer_Core.cpp:80, 150).                       *)
THEOREM ServerNeverLost == Spec => []NoLostServer
<1>1. Inv => NoLostServer
  BY DEF Inv, Owned, One, NoLostServer
<1> QED
  BY <1>1, Invariance, PTL

(* A broadcast that is queued belongs to the server of _server, so that    *)
(* the worker asks its own server for the sockets (NeuHttpServer_WS.cpp:295). *)
THEOREM BroadcastToOwnSockets == Spec => []BroadcastOwn
<1>1. Inv => BroadcastOwn
  BY DEF Inv, TypeOK, Owned, One, BroadcastOwn
<1> QED
  BY <1>1, Invariance, PTL

(* A running server serves every route that was ever saved, but for those  *)
(* saved since it was started and those that stop() forgot and nobody      *)
(* saved again, for arrays of any size and whatever is saved or forgotten  *)
(* during the walk (NeuHttpServer_Core.cpp:98-120, 154).                   *)
THEOREM RoutesAreServed == Spec => []RoutesServed
<1>1. Inv => RoutesServed
  BY DEF Inv, RoutesServed, ServerIdle, Remembered, Walked, Behind, Routes, Kind
<1> QED
  BY <1>1, Invariance, PTL

-----------------------------------------------------------------------------
(* ServerUp.  It speaks of quiet states; in between a missing server is    *)
(* somebody's business: Covered says whose.                                *)

(* stop() has ended the server and is about to say so, or the listener has *)
(* been called for an event after which it starts one.                     *)
Covered ==
    ~fault /\ listening /\ NetworkReady /\ excuse = "none" =>
        \/ server \in alive
        \/ apc = "clear"
        \/ lpc \in {"enter", "stop", "clear", "start"} /\ MustStart

(* The listener ends a server for one of two reasons.                      *)
Ending == lpc \in {"stop", "clear"} => MustStop \/ MustStart

(* Before the first init nothing happens.                                  *)
Passive == ~listening => server = None /\ lpc = "idle"

ServerInv == Covered /\ Ending /\ Passive

(* Every step keeps these; the ones that bear on them come first.          *)
LEMMA ServerStep == Inv /\ ServerInv /\ [Next]_vars => ServerInv'
<1> SUFFICES ASSUME Inv, ServerInv, [Next]_vars PROVE ServerInv'
  OBVIOUS
<1>0. /\ TypeOK /\ Reporting
      /\ ~fault' => ~fault /\ One /\ ListenerOwns /\ AppOwns
  BY FaultStays DEF Inv, Owned
<1> USE DEF ServerInv, Covered, Ending, Passive, NetworkReady, MustStop, MustStart,
        handleVars, espVars, listenerVars, appVars, historyVars, routeHistory, ListenerGoto, AppGoto
<1>1. CASE NetChange
  <2>1. lpc = "idle"
    BY <1>0, <1>1 DEF NetChange, Reporting
  <2>2. staReady \in BOOLEAN /\ apReady \in BOOLEAN
    BY <1>0 DEF TypeOK, SharedTypeOK
  <2>3. CASE StoreStaReady("event", ~staReady)
             /\ Emit(IF staReady THEN "STA_DOWN" ELSE "STA_READY")
    BY <1>0, <1>1, <2>1, <2>2, <2>3 DEF NetChange, StoreStaReady, Emit
  <2>4. CASE StoreApReady("event", ~apReady)
             /\ Emit(IF apReady THEN "AP_DOWN" ELSE "AP_READY")
    BY <1>0, <1>1, <2>1, <2>2, <2>4 DEF NetChange, StoreApReady, Emit
  <2> QED
    BY <1>1, <2>3, <2>4 DEF NetChange
<1>2. CASE Stamp
  BY <1>0, <1>2 DEF Stamp, EmitSta, EmitAp
<1>3. CASE ReportMode
  <2>1. lpc = "idle"
    BY <1>0, <1>3 DEF ReportMode, Reporting
  <2> QED
    BY <1>0, <1>3, <2>1 DEF ReportMode, UpdateAutoMode, Emit
<1>4. CASE ReportOver
  BY <1>0, <1>4 DEF ReportOver, ListenerDone, sharedVars
<1>5. CASE ListenerEnter
  BY <1>0, <1>5 DEF ListenerEnter, sharedVars
<1>6. CASE ListenerStop
  BY <1>0, <1>6 DEF ListenerStop, StopServer, sharedVars
<1>7. CASE ListenerClear
  BY <1>0, <1>7 DEF ListenerClear, ListenerOwns, sharedVars
<1>8. CASE ListenerStart
  BY <1>0, <1>8 DEF ListenerStart, sharedVars
<1>9. CASE RegisterErrors
  BY <1>0, <1>9 DEF RegisterErrors, sharedVars
<1>10. ASSUME NEW kind \in Kind, RegisterRoute(kind) \/ EndOfRoutes(kind) PROVE ServerInv'
  BY <1>0, <1>10 DEF RegisterRoute, EndOfRoutes, Kind, sharedVars
<1>11. CASE CallInit
  BY <1>0, <1>11 DEF CallInit, sharedVars
<1>12. CASE AppStop
  BY <1>0, <1>12 DEF AppStop, StopServer, sharedVars
<1>13. CASE AppClear
  BY <1>0, <1>13 DEF AppClear, sharedVars
<1>14. ASSUME NEW kind \in Kind, NEW uri \in Uri, SaveRoute(kind, uri) PROVE ServerInv'
  BY <1>0, <1>14 DEF SaveRoute, sharedVars
<1>15. CASE CallStop \/ CallServer \/ QueueWork \/ AskServer
  BY <1>0, <1>15 DEF CallStop, CallServer, QueueWork, AskServer, sharedVars
<1>16. ASSUME NEW kind \in Kind, ForgetRoutes(kind) PROVE ServerInv'
  BY <1>0, <1>16 DEF ForgetRoutes, Kind, sharedVars
<1>17. ASSUME NEW h \in Handle, PageStart(h) \/ PageEnd(h) \/ Broadcast(h) PROVE ServerInv'
  BY <1>0, <1>17 DEF PageStart, PageEnd, Broadcast, sharedVars
<1>18. CASE ClockStep \/ UNCHANGED vars
  BY <1>0, <1>18 DEF ClockStep, Elapse, vars, sharedVars
<1> QED
  BY <1>1, <1>2, <1>3, <1>4, <1>5, <1>6, <1>7, <1>8, <1>9, <1>10, <1>11, <1>12, <1>13, <1>14,
     <1>15, <1>16, <1>17, <1>18 DEF Next, ReportStep, ListenerStep, AppStep

(* While an interface is ready a server runs, through every loss of the    *)
(* other interface, change of mode and restart, unless the listener came   *)
(* too late, stop() was called since, or httpd_start failed, and as long   *)
(* as no freed server was used (NeuHttpServer_Core.cpp:70-130).            *)
THEOREM ServerIsUp == Spec => [](~fault => ServerUp)
<1>1. Init => ServerInv
  BY DEF Init, SharedInit, ServerInv, Covered, Ending, Passive
<1>2. Inv /\ ServerInv /\ [Next]_vars => ServerInv'
  BY ServerStep
<1>3. Inv /\ ServerInv => (~fault => ServerUp)
  BY DEF Inv, Reporting, ServerInv, Covered, ServerUp, Quiet
<1> QED
  BY <1>1, <1>2, <1>3, Invariance, PTL DEF Spec
=============================================================================
