------------------------------ MODULE MDNSProofs ------------------------------
(***************************************************************************)
(* Proofs about MDNS, for any number of workers and whatever network       *)
(* events and timeouts do.  Neither property is inductive.  OneWorker does *)
(* not say what s_task_created tells startDiscovery: that it is set, or    *)
(* about to be, while a worker runs.  EndReleases does not say what        *)
(* the application's end() has found out when it frees the stack.          *)
(***************************************************************************)
EXTENDS MDNS, FiniteSetTheorems, TLAPS

(* No second worker is created while one runs: the flag shows it, or its   *)
(* creator has not yet come to set the flag and is nowhere else.           *)
Shown ==
    /\ \A j, k \in Active : j = k
    /\ Active # {} => created \/ epc["app"] = "mark"

(* end() frees the stack when no worker runs.                              *)
FreesLast == epc["app"] = "free" => Active = {}

(* What end() has released stays so.                                       *)
Released == asked = "ended" => ~stack /\ Active = {}

(* All of that while every end() had the patience to wait for the worker.  *)
Inv ==
    /\ TypeOK
    /\ \A c \in Ender : epc[c] = "withdraw" => late
    /\ ~late => Shown /\ FreesLast /\ Released

-----------------------------------------------------------------------------
(* Every step keeps the invariant.                                         *)
LEMMA InvStep == Inv /\ [Next]_vars => Inv'
<1> SUFFICES ASSUME Inv, [Next]_vars PROVE Inv'
  OBVIOUS
<1> USE DEF Inv, TypeOK, Shown, FreesLast, Released, Active, Ender, Goto, EnderGoto, AppIdle,
        Asks, flagVars, workerVars, historyVars
<1>1. ASSUME NEW k \in Worker, WorkerStep(k) PROVE Inv'
  <2>1. CASE CheckStop(k)
    BY <2>1 DEF CheckStop
  <2>2. CASE CheckNet(k)
    BY <2>2 DEF CheckNet
  <2>3. CASE FreeStack(k)
    BY <2>3 DEF FreeStack
  <2>4. CASE StartStack(k)
    BY <2>4 DEF StartStack
  <2>5. CASE StartFails(k)
    BY <2>5 DEF StartFails
  <2>6. CASE Query(k)
    BY <2>6 DEF Query
  <2>7. CASE ClearCreated(k)
    <3>1. late' = late /\ ~created' /\ UNCHANGED <<epc, stack, asked>>
          /\ k \in Active /\ pc' = [pc EXCEPT ![k] = "retract"]
      BY <2>7 DEF ClearCreated
    <3>2. ~late => Active' = {}
      BY <3>1
    <3>3. TypeOK'
      BY <2>7 DEF ClearCreated
    <3>4. ~late' => Shown' /\ FreesLast' /\ Released'
      <4>1. SUFFICES ASSUME ~late PROVE Shown' /\ FreesLast' /\ Released'
        BY <3>1
      <4>2. asked # "ended"
        BY <3>1, <4>1
      <4> QED
        BY <3>1, <3>2, <4>1, <4>2
    <3> QED
      BY <3>1, <3>3, <3>4
  <2>8. CASE Retract(k)
    <3>1. /\ UNCHANGED <<inited, listening, created, oneShot, net, stack, epc, historyVars>>
          /\ Active' = Active
      BY <2>8 DEF Retract, WorkerGone
    <3>2. TypeOK'
      BY <2>8 DEF Retract, WorkerGone
    <3> QED
      BY <3>1, <3>2
  <2> QED
    BY <1>1, <2>1, <2>2, <2>3, <2>4, <2>5, <2>6, <2>7, <2>8 DEF WorkerStep
<1>2. ASSUME NEW c \in Ender, EnderStep(c) PROVE Inv'
  <2>1. CASE Enter(c)
    BY <2>1 DEF Enter
  <2>2. CASE Test(c)
    BY <2>2 DEF Test
  <2>3. CASE Ask(c)
    BY <2>3 DEF Ask, AfterAsk
  <2>4. CASE Answered(c)
    BY <2>4 DEF Answered
  <2>5. CASE GiveUp(c)
    BY <2>5 DEF GiveUp, GivesUp
  <2>6. CASE Withdraw(c)
    BY <2>6 DEF Withdraw
  <2>7. CASE Free(c)
    BY <2>7 DEF Free
  <2>8. CASE Out(c)
    BY <2>8 DEF Out
  <2> QED
    BY <1>2, <2>1, <2>2, <2>3, <2>4, <2>5, <2>6, <2>7, <2>8 DEF EnderStep
<1>3. CASE NetEvent
  BY <1>3 DEF NetEvent
<1>4. CASE CallInit
  BY <1>4 DEF CallInit
<1>5. ASSUME NEW once \in BOOLEAN, StartDiscovery(once) PROVE Inv'
  <2>1. CASE MayCreate /\ UNCHANGED <<pc, epc, asked, lost>>
    BY <1>5, <2>1 DEF StartDiscovery
  <2>2. CASE ~MayCreate /\ AsksDiscovery(once) /\ UNCHANGED <<pc, epc>>
    BY <1>5, <2>2 DEF StartDiscovery, AsksDiscovery
  <2>3. CASE MayCreate /\ AsksDiscovery(once) /\ epc' # epc
    <3>1. PICK k \in Worker : pc[k] = "none" /\ pc' = [pc EXCEPT ![k] = "head"]
      BY <1>5, <2>3 DEF StartDiscovery, MayCreate
    <3>2. /\ epc["app"] = "idle" /\ epc' = [epc EXCEPT !["app"] = "mark"]
          /\ asked' # "ended" /\ ~created
          /\ UNCHANGED <<inited, listening, created, stopReq, net, stack, up, late>>
      BY <1>5, <2>3 DEF StartDiscovery, MayCreate, AsksDiscovery
    <3>3. TypeOK'
      BY <1>5, <2>3, <3>1, <3>2 DEF StartDiscovery, AsksDiscovery
    <3>4. ~late => Active' = {k}
      BY <3>1, <3>2
    <3> QED
      BY <3>1, <3>2, <3>3, <3>4
  <2> QED
    BY <1>5, <2>1, <2>2, <2>3 DEF StartDiscovery
<1>6. CASE StopDiscovery
  BY <1>6 DEF StopDiscovery
<1>7. CASE CallEnd
  BY <1>7 DEF CallEnd
<1>8. CASE MarkCreated
  BY <1>8 DEF MarkCreated
<1>9. CASE RequestStop
  BY <1>9 DEF RequestStop
<1>10. CASE UNCHANGED vars
  BY <1>10 DEF vars
<1> QED
  BY <1>1, <1>2, <1>3, <1>4, <1>5, <1>6, <1>7, <1>8, <1>9, <1>10 DEF Next, AppStep

(* So it holds in every state. *)
LEMMA Invariance == Spec => []Inv
<1>1. Init => Inv
  BY DEF Init, Inv, TypeOK, Shown, FreesLast, Released, Active, Ender
<1> QED
  BY <1>1, InvStep, PTL DEF Spec

(* Every variable keeps its type (mdns/NeuMDNS.cpp).                       *)
THEOREM TypeCorrect == Spec => []TypeOK
<1>1. Inv => TypeOK
  BY DEF Inv
<1> QED
  BY <1>1, Invariance, PTL

(* There is never a second worker, as long as no end() lost patience:      *)
(* s_task_created is set late and cleared by two actors, and still         *)
(* startDiscovery can go by it (NeuMDNS.cpp:245, 288-296).                 *)
THEOREM OneWorkerOnly == Spec => []OneWorker
<1>1. Inv => OneWorker
  <2> SUFFICES ASSUME Inv, ~late PROVE Cardinality(Active) <= 1
    BY DEF OneWorker
  <2>1. CASE Active = {}
    BY <2>1, FS_EmptySet
  <2>2. ASSUME NEW k \in Active PROVE Cardinality(Active) <= 1
    <3>1. Active = {k}
      BY <2>2 DEF Inv, Shown
    <3> QED
      BY <3>1, FS_Singleton
  <2> QED
    BY <2>1, <2>2
<1> QED
  BY <1>1, Invariance, PTL

(* After the application's end() the stack is down, no worker runs and     *)
(* none brings the stack up again, unless an end() gave up waiting         *)
(* (NeuMDNS.cpp:453-472).                                                  *)
THEOREM EndIsFinal == Spec => []EndReleases
<1>1. Inv => EndReleases
  BY DEF Inv, Released, EndReleases
<1> QED
  BY <1>1, Invariance, PTL
=============================================================================
