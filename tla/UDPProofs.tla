------------------------------- MODULE UDPProofs -------------------------------
(***************************************************************************)
(* Proofs about UDP, whatever the application does, for any number of      *)
(* tasks, netconns and ports.                                              *)
(*                                                                         *)
(* NoLeak is not inductive: _initSocket overwrites _conn, and nothing in   *)
(* NoLeak says that _conn is null then.  The receive task knows it from    *)
(* _socketActive, which it reads outside the mutex, and which stop()       *)
(* clears at the end of its wait whoever opened a socket in between.       *)
(* Follows says why the flag can be relied on all the same, as long as     *)
(* there is one task and nobody gave up the close that it relies on.       *)
(***************************************************************************)
EXTENDS UDP, TLAPS

(* A receive task knows the port, and so does init() before it creates it. *)
PortKnown == Alive # {} \/ apc = "create" => port # None

(* _conn is a netconn that lwIP holds bound. *)
ConnBound == conn # None => bound[conn] # None

SafeInv == TypeOK /\ PortKnown /\ ConnBound /\ SendSafe

(* stop() has told the receive tasks to end. *)
Told == apc \in {"close", "wait"} => ~running

(* The last task to go leaves the socket closed, if it closes at all.      *)
GoneMeansClosed == Alive = {} /\ "exit" \notin skipped => conn = None /\ ~udpActive

ClosedInv == Told /\ GoneMeansClosed

Orderly == ~overlap /\ skipped = {}

(* One receive task at a time, and none while init() creates one. *)
OneTask ==
    /\ \A j, k \in Alive : j = k
    /\ apc = "create" => Alive = {}

(* While the service runs, and while a task decides whether to close and   *)
(* open, a netconn means that _socketActive is set; what stop() has closed *)
(* that task has not opened yet.  A task that has decided to open finds    *)
(* none.                                                                   *)
Follows ==
    /\ running /\ conn # None => socketActive
    /\ \A k \in Task :
          /\ pc[k] \in {"heal", "unplug", "open"} /\ conn # None => socketActive /\ apc # "wait"
          /\ pc[k] = "plug" => conn = None

SocketInv == NoLeak /\ (Orderly => OneTask /\ Follows)

-----------------------------------------------------------------------------
(* The part of TypeOK that is about the socket.                            *)
SocketTypes ==
    /\ conn \in Conn \cup {None} /\ bound \in [Conn -> Port \cup {None}]
    /\ socketActive \in BOOLEAN /\ udpActive \in BOOLEAN

(* Closing keeps the types, and lets go of _conn with its netconn.         *)
LEMMA CloseSafe ==
    ASSUME SafeInv, CloseSocket
    PROVE  SocketTypes' /\ ConnBound'
BY DEF SocketTypes, SafeInv, TypeOK, CloseSocket, ConnBound

(* A socket is opened on the port that init() was called with.             *)
LEMMA InitSafe ==
    ASSUME SafeInv, InitSocket, port # None
    PROVE  SocketTypes' /\ ConnBound'
<1>1. CASE NewSocket
  BY <1>1 DEF SocketTypes, SafeInv, TypeOK, NewSocket, ConnBound, Free
<1>2. CASE NoSocket
  BY <1>2 DEF SocketTypes, SafeInv, TypeOK, NoSocket, ConnBound
<1> QED
  BY <1>1, <1>2 DEF InitSocket

(* So does a wait for the mutex that runs out.                             *)
LEMMA UntouchedSafe ==
    ASSUME SafeInv, Untouched
    PROVE  SocketTypes' /\ ConnBound'
BY DEF SocketTypes, SafeInv, TypeOK, Untouched, connVars, ConnBound

(* Every step keeps the variables in their types and a send safe.          *)
LEMMA SafeStep == SafeInv /\ [Next]_vars => SafeInv'
<1> SUFFICES ASSUME SafeInv, [Next]_vars PROVE SafeInv'
  OBVIOUS
<1> USE NoneAssumption DEF SafeInv, TypeOK, PortKnown, ConnBound, SendSafe, Alive, Interface,
        SocketTypes, flagVars, connVars, taskVars, history, Goto, AtExit
<1>1. ASSUME NEW p \in Port, CallInit(p) PROVE SafeInv'
  BY <1>1 DEF CallInit
<1>2. CASE CallStop
  BY <1>2 DEF CallStop
<1>3. CASE CreateTask
  BY <1>3 DEF CreateTask
<1>4. CASE StopClose
  BY <1>4, CloseSafe, UntouchedSafe DEF StopClose, StopCloses, Untouched
<1>5. CASE StopReturns
  BY <1>5 DEF StopReturns
<1>6. ASSUME NEW k \in Task, TaskStep(k) PROVE SafeInv'
  <2>1. CASE Check(k)
    BY <2>1 DEF Check
  <2>2. CASE Heal(k)
    BY <2>2 DEF Heal
  <2>10. CASE Unplug(k)
    BY <2>10, CloseSafe, UntouchedSafe DEF Unplug, UnderMutex, Untouched
  <2>3. CASE Open(k)
    BY <2>3 DEF Open
  <2>11. CASE Plug(k)
    BY <2>11, InitSafe, UntouchedSafe DEF Plug, UnderMutex, Untouched
  <2>4. CASE Poll(k)
    BY <2>4 DEF Poll
  <2>5. CASE TakeConn(k)
    BY <2>5 DEF TakeConn
  <2>6. CASE Receive(k)
    BY <2>6 DEF Receive
  <2>7. CASE Deliver(k)
    BY <2>7 DEF Deliver
  <2>8. CASE Fail(k)
    BY <2>8, CloseSafe, UntouchedSafe DEF Fail, UnderMutex, Untouched
  <2>9. CASE Exit(k)
    BY <2>9, CloseSafe, UntouchedSafe DEF Exit, Untouched
  <2> QED
    BY <1>6, <2>1, <2>2, <2>3, <2>4, <2>5, <2>6, <2>7, <2>8, <2>9, <2>10, <2>11 DEF TaskStep
<1>7. CASE SendTake
  BY <1>7 DEF SendTake
<1>8. CASE SendGive
  BY <1>8 DEF SendGive
<1>9. CASE NetChange
  BY <1>9 DEF NetChange
<1>10. CASE UNCHANGED vars
  BY <1>10 DEF vars
<1> QED
  BY <1>1, <1>2, <1>3, <1>4, <1>5, <1>6, <1>7, <1>8, <1>9, <1>10 DEF Next, AppStep

(* The safety of a send, and what it needs, always holds.                  *)
LEMMA SafeInvariance == Spec => []SafeInv
<1>1. Init => SafeInv
  BY NoneAssumption DEF Init, SafeInv, TypeOK, PortKnown, ConnBound, SendSafe, Alive
<1> QED
  BY <1>1, SafeStep, PTL DEF Spec

(* Every variable keeps its type (NeuUDP.cpp).                             *)
THEOREM TypeCorrect == Spec => []TypeOK
<1>1. SafeInv => TypeOK
  BY DEF SafeInv
<1> QED
  BY <1>1, SafeInvariance, PTL

(* A send never has its netconn closed under it: it holds the mutex, and   *)
(* whoever closes takes it, or gives up (NeuUDP.cpp:70-73, 164-200).       *)
THEOREM SendsAreSafe == Spec => []SendSafe
<1>1. SafeInv => SendSafe
  BY DEF SafeInv
<1> QED
  BY <1>1, SafeInvariance, PTL

-----------------------------------------------------------------------------
(* stop(), and the last task.                                              *)

(* Every step keeps that the last task to go has closed the socket.        *)
LEMMA ClosedStep == SafeInv /\ ClosedInv /\ [Next]_vars => ClosedInv'
<1> SUFFICES ASSUME SafeInv, ClosedInv, [Next]_vars PROVE ClosedInv'
  OBVIOUS
<1> USE DEF ClosedInv, Told, GoneMeansClosed, Alive, SafeInv, TypeOK, flagVars, connVars,
        taskVars, history, Goto, AtExit
<1>1. ASSUME NEW p \in Port, CallInit(p) PROVE ClosedInv'
  BY <1>1 DEF CallInit
<1>2. CASE CallStop
  BY <1>2 DEF CallStop
<1>3. CASE CreateTask
  BY <1>3 DEF CreateTask
<1>4. CASE StopClose
  BY <1>4 DEF StopClose, StopCloses, CloseSocket, Untouched
<1>5. CASE StopReturns
  BY <1>5 DEF StopReturns
<1>6. ASSUME NEW k \in Task, TaskStep(k) PROVE ClosedInv'
  <2>1. pc[k] # "none"
    BY <1>6 DEF TaskStep, Check, Heal, Unplug, Open, Plug, Poll, TakeConn, Receive, Deliver,
                Fail, Exit
  <2>2. UNCHANGED <<running, apc>>
    BY <1>6 DEF TaskStep, Check, Heal, Unplug, Open, Plug, Poll, TakeConn, Receive, Deliver,
                Fail, Exit
  <2>3. CASE Exit(k)
    BY <2>2, <2>3 DEF Exit, CloseSocket, Untouched
  <2>4. CASE ~Exit(k)
    <3>1. pc'[k] # "none"
      BY <1>6, <2>4 DEF TaskStep, Check, Heal, Unplug, Open, Plug, Poll, TakeConn, Receive,
                        Deliver, Fail
    <3> QED
      BY <2>2, <3>1
  <2> QED
    BY <2>3, <2>4
<1>7. CASE SendTake
  BY <1>7 DEF SendTake
<1>8. CASE SendGive
  BY <1>8 DEF SendGive
<1>9. CASE NetChange
  BY <1>9 DEF NetChange
<1>10. CASE UNCHANGED vars
  BY <1>10 DEF vars
<1> QED
  BY <1>1, <1>2, <1>3, <1>4, <1>5, <1>6, <1>7, <1>8, <1>9, <1>10 DEF Next, AppStep

(* So it holds in every state.                                             *)
LEMMA ClosedInvariance == Spec => [](SafeInv /\ ClosedInv)
<1>1. Init => SafeInv /\ ClosedInv
  BY NoneAssumption DEF Init, SafeInv, TypeOK, PortKnown, ConnBound, SendSafe, Alive, ClosedInv,
     Told, GoneMeansClosed
<1> QED
  BY <1>1, SafeStep, ClosedStep, PTL DEF Spec

(* When stop() is over and the receive tasks too, nothing is open and      *)
(* SharedState knows, even if a task opened the socket after stop() had    *)
(* closed it, and whatever init() was called in between; only a send that  *)
(* holds the mutex for longer than a task waits as it ends prevents that   *)
(* (NeuUDP.cpp:62-85, 416-420).                                            *)
THEOREM StopClosesAll == Spec => []StoppedMeansClosed
<1>1. ClosedInv => StoppedMeansClosed
  BY DEF ClosedInv, GoneMeansClosed, StoppedMeansClosed
<1> QED
  BY <1>1, ClosedInvariance, PTL

-----------------------------------------------------------------------------
(* The netconns.                                                           *)

(* Closing loses no netconn, for _conn is the only one there is.           *)
LEMMA CloseKeeps ==
    ASSUME SafeInv, NoLeak, Orderly, CloseSocket
    PROVE  conn' = None /\ NoLeak'
BY DEF SafeInv, NoLeak, Orderly, TypeOK, CloseSocket

(* Nor does opening, when _conn is null, whether it succeeds or fails.     *)
LEMMA InitKeeps ==
    ASSUME SafeInv, NoLeak, Orderly, InitSocket, conn = None
    PROVE  /\ NoLeak'
           /\ conn' # None => socketActive'
BY NoneAssumption
   DEF SafeInv, NoLeak, Orderly, TypeOK, InitSocket, NewSocket, NoSocket, Free

(* Every step keeps what stop() and the receive task rely on.              *)
LEMMA SocketStep ==
    ASSUME SafeInv, ClosedInv, SocketInv, [Next]_vars
    PROVE  SocketInv'
<1>1. Orderly' => Orderly
  <2> USE DEF Orderly, history
  <2>1. ASSUME NEW p \in Port, CallInit(p) PROVE Orderly' => Orderly
    BY <2>1 DEF CallInit
  <2>2. ASSUME NEW k \in Task, TaskStep(k) PROVE Orderly' => Orderly
    BY <2>2 DEF TaskStep, Check, Heal, Unplug, Open, Plug, Poll, TakeConn, Receive, Deliver,
                Fail, Exit
  <2>3. CASE CallStop \/ AppStep
    BY <2>3 DEF CallStop, AppStep, CreateTask, StopClose, StopCloses, StopReturns
  <2> QED
    BY <2>1, <2>2, <2>3 DEF Next, SendTake, SendGive, NetChange, vars
<1>2. CASE ~Orderly'
  BY <1>2 DEF SocketInv, NoLeak, Orderly
<1>3. CASE Orderly'
  <2>0. Orderly /\ NoLeak /\ OneTask /\ Follows
    BY <1>1, <1>3 DEF SocketInv
  <2> SUFFICES (NoLeak /\ OneTask /\ Follows)'
    BY DEF SocketInv
  <2> USE <2>0 DEF OneTask, Follows, ClosedInv, Told, GoneMeansClosed, Alive, SafeInv, TypeOK,
          flagVars, connVars, taskVars, history, Goto, AtExit, Orderly
  <2>1. ASSUME NEW p \in Port, CallInit(p) PROVE (NoLeak /\ OneTask /\ Follows)'
    BY <1>3, <2>1 DEF CallInit, NoLeak
  <2>2. CASE CallStop
    BY <2>2 DEF CallStop, NoLeak
  <2>3. CASE CreateTask
    BY <2>3 DEF CreateTask, NoLeak
  <2>4. CASE StopClose
    <3>1. CloseSocket
      BY <1>3, <2>4 DEF StopClose, StopCloses
    <3> QED
      BY <2>4, <3>1, CloseKeeps DEF StopClose
  <2>5. CASE StopReturns
    BY <2>5 DEF StopReturns, NoLeak
  <2>6. ASSUME NEW k \in Task, TaskStep(k) PROVE (NoLeak /\ OneTask /\ Follows)'
    <3>0. \A j \in Task : pc[j] # "none" /\ pc[k] # "none" => j = k
      OBVIOUS
    <3>1. CASE Check(k)
      BY <3>0, <3>1 DEF Check, NoLeak
    <3>2. CASE Heal(k)
      BY <3>0, <3>2 DEF Heal, NoLeak
    <3>3. CASE Unplug(k)
      <4>1. CASE CloseSocket
        BY <3>0, <3>3, <4>1, CloseKeeps DEF Unplug
      <4>2. CASE Untouched
        BY <3>0, <3>3, <4>2 DEF Unplug, Untouched, NoLeak
      <4> QED
        BY <3>3, <4>1, <4>2 DEF Unplug, UnderMutex
    <3>4. CASE Open(k)
      BY <3>0, <3>4 DEF Open, NoLeak
    <3>5. CASE Plug(k)
      <4>1. conn = None
        BY <3>5 DEF Plug
      <4>2. pc'[k] = "poll" /\ \A j \in Task : j # k => pc'[j] = "none"
        BY <3>0, <3>5 DEF Plug
      <4>3. CASE InitSocket
        BY <3>5, <4>1, <4>2, <4>3, InitKeeps DEF Plug
      <4>4. CASE Untouched
        BY <3>5, <4>2, <4>4 DEF Plug, Untouched, NoLeak
      <4> QED
        BY <3>5, <4>3, <4>4 DEF Plug, UnderMutex
    <3>6. CASE Poll(k)
      BY <3>0, <3>6 DEF Poll, NoLeak
    <3>7. CASE TakeConn(k)
      BY <3>0, <3>7 DEF TakeConn, NoLeak
    <3>8. CASE Receive(k)
      BY <3>0, <3>8 DEF Receive, NoLeak
    <3>9. CASE Deliver(k)
      BY <3>0, <3>9 DEF Deliver, NoLeak
    <3>10. CASE Fail(k)
      <4>1. CASE CloseSocket
        BY <3>0, <3>10, <4>1, CloseKeeps DEF Fail
      <4>2. CASE Untouched
        BY <3>0, <3>10, <4>2 DEF Fail, Untouched, NoLeak
      <4> QED
        BY <3>10, <4>1, <4>2 DEF Fail, UnderMutex
    <3>11. CASE Exit(k)
      <4>1. CloseSocket
        BY <1>3, <3>11 DEF Exit
      <4> QED
        BY <3>0, <3>11, <4>1, CloseKeeps DEF Exit
    <3> QED
      BY <2>6, <3>1, <3>2, <3>3, <3>4, <3>5, <3>6, <3>7, <3>8, <3>9, <3>10, <3>11 DEF TaskStep
  <2>7. CASE SendTake
    BY <2>7 DEF SendTake, NoLeak
  <2>8. CASE SendGive
    BY <2>8 DEF SendGive, NoLeak
  <2>9. CASE NetChange
    BY <2>9 DEF NetChange, NoLeak
  <2>10. CASE UNCHANGED vars
    BY <2>10 DEF vars, NoLeak
  <2> QED
    BY <2>1, <2>2, <2>3, <2>4, <2>5, <2>6, <2>7, <2>8, <2>9, <2>10 DEF Next, AppStep
<1> QED
  BY <1>2, <1>3

(* A netconn is lost only if init() was called while an earlier receive    *)
(* task was alive or a slow send made someone give up its last close.      *)
(* Else what is open can be closed, and its port be bound again, although  *)
(* _initSocket overwrites _conn and may fail, and the receive task reads   *)
(* _socketActive outside the mutex (NeuUDP.cpp:90-131, 306-330).           *)
THEOREM NothingLeaks == Spec => []NoLeak
<1>1. Init => SocketInv
  BY NoneAssumption
     DEF Init, Alive, SocketInv, OneTask, Follows, NoLeak
<1>2. SocketInv => NoLeak
  BY DEF SocketInv
<1>3. (SafeInv /\ ClosedInv) /\ SocketInv /\ [Next]_vars => SocketInv'
  BY SocketStep
<1> QED
  BY <1>1, <1>2, <1>3, ClosedInvariance, PTL DEF Spec
=============================================================================
