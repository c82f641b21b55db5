----------------------------- MODULE PortalProofs -----------------------------
(***************************************************************************)
(* Proofs about Portal, for any number of clients, places in the tracker   *)
(* and sizes of a form and its buffer.  Released is not inductive: a page  *)
(* clears the tracker when its handler begins and is answered when it      *)
(* ends, and clients register, leave and come back in between.  Handed     *)
(* says what the handler may rely on meanwhile.                            *)
(***************************************************************************)
EXTENDS Portal, TLAPS

(* A client that still waits for the page that is being made was cleared,  *)
(* and has at most registered again since.                                 *)
Handed ==
    tpc \in {"body", "answer"} /\ at[task] = "wait" => task \notin Tracked \/ task \in renewed

Inv == TypeOK /\ Handed /\ Released

-----------------------------------------------------------------------------
(* What getPostParam asks for leaves room for the 0                        *)
(* (NeuHttpServer_Helper.cpp:277).                                         *)
LEMMA ExpectedFits == Expected \in 0..(BufferSize - 1)
<1>1. BodySize \in Int /\ BufferSize - 1 \in Int /\ 0 <= BodySize /\ 0 <= BufferSize - 1
  BY SizeAssumption
<1>2. \E x \in {BodySize, BufferSize - 1} : \A y \in {BodySize, BufferSize - 1} : x <= y
  BY <1>1
<1>3. /\ Expected \in {BodySize, BufferSize - 1}
      /\ \A y \in {BodySize, BufferSize - 1} : Expected <= y
  BY <1>2 DEF Expected, Min
<1> QED
  BY <1>1, <1>3

(* A registration adds its client to the tracker and to those that renewed,*)
(* and nobody else.                                                        *)
LEMMA Registers ==
    ASSUME TypeOK, NEW c \in Client, Register(c)
    PROVE  /\ window' \in [1..Slots -> Client \cup {None}]
           /\ pushed' \subseteq Client /\ renewed' = renewed \cup {c}
           /\ Tracked' \subseteq Tracked \cup {c}
<1>1. CASE c \in Tracked
  BY <1>1 DEF Register, TypeOK, Tracked
<1>2. CASE c \notin Tracked
  <2>1. 1 \in 1..Slots /\ \A k \in 1..Slots : k # Slots => k + 1 \in 1..Slots
    BY SlotsAssumption
  <2>2. /\ window' = [k \in 1..Slots |-> IF k = Slots THEN c ELSE window[k + 1]]
        /\ pushed' = (pushed \cup {window[1]}) \ {c, None}
    BY <1>2 DEF Register
  <2>3. \A k \in 1..Slots : window'[k] = c \/ \E j \in 1..Slots : window'[k] = window[j]
    BY <2>1, <2>2
  <2>4. Tracked' \subseteq Tracked \cup {c}
    BY <2>3 DEF Tracked
  <2>5. window' \in [1..Slots -> Client \cup {None}]
    BY <2>1, <2>2 DEF TypeOK
  <2>6. window[1] \in Client \cup {None}
    BY <2>1 DEF TypeOK
  <2> QED
    BY <2>2, <2>4, <2>5, <2>6 DEF Register, TypeOK
<1> QED
  BY <1>1, <1>2

(* Clearing takes one client from the tracker.                             *)
LEMMA Clears ==
    ASSUME TypeOK, NEW c, window' = Cleared(c)
    PROVE  /\ window' \in [1..Slots -> Client \cup {None}]
           /\ Tracked' = Tracked \ {c}
BY DEF TypeOK, Cleared, Tracked

(* Every step keeps the invariant.                                         *)
LEMMA InvStep == Inv /\ [Next]_vars => Inv'
<1> SUFFICES ASSUME Inv, [Next]_vars PROVE Inv'
  OBVIOUS
<1> USE DEF Inv, TypeOK, Handed, Released, browserVars, taskVars, historyVars, Goto
<1>1. ASSUME NEW c \in Client, Join(c) PROVE Inv'
  <2>1. Register(c) /\ at' = [at EXCEPT ![c] = "rest"]
    BY <1>1 DEF Join
  <2> QED
    BY <1>1, <2>1, Registers DEF Join
<1>2. ASSUME NEW c \in Client, Renew(c) PROVE Inv'
  <2>1. Register(c)
    BY <1>2 DEF Renew
  <2> QED
    BY <1>2, <2>1, Registers DEF Renew
<1>3. ASSUME NEW c \in Client, Leave(c) PROVE Inv'
  BY <1>3 DEF Leave, Settle, Tracked, Host, Path
<1>4. ASSUME NEW c \in Client, NEW h \in Host, NEW p \in Path, Open(c, h, p) PROVE Inv'
  BY <1>4 DEF Open, Tracked
<1>5. ASSUME NEW c \in Client, Resolve(c) PROVE Inv'
  BY <1>5 DEF Resolve, Tracked, Host
<1>6. ASSUME NEW c \in Client, ResolveNot(c) PROVE Inv'
  BY <1>6 DEF ResolveNot, Settle, Tracked, Host, Path
<1>7. ASSUME NEW c \in Client, Accept(c) PROVE Inv'
  BY <1>7 DEF Accept, Tracked
<1>8. CASE Clear
  <2>1. CASE window' = Cleared(task) /\ renewed' = renewed \ {task}
    BY <1>8, <2>1, Clears DEF Clear
  <2>2. CASE at[task] = "away" /\ UNCHANGED <<window, renewed>>
    BY <1>8, <2>2 DEF Clear, Tracked
  <2> QED
    BY <1>8, <2>1, <2>2 DEF Clear, ClearedByPage
<1>9. CASE ReceivePiece
  <2>1. got' \in 0..(BufferSize - 1)
    BY <1>9, ExpectedFits, SizeAssumption DEF ReceivePiece
  <2> QED
    BY <1>9, <2>1 DEF ReceivePiece, Tracked
<1>10. CASE BodyOver
  BY <1>10, SizeAssumption DEF BodyOver, Tracked
<1>11. CASE AnswerPage
  <2>1. CASE Waits(task)
    BY <1>11, <2>1 DEF AnswerPage, Waits, Settle, Tracked, Host, Path
  <2>2. CASE ~Waits(task)
    BY <1>11, <2>2 DEF AnswerPage, Tracked
  <2> QED
    BY <2>1, <2>2
<1>12. CASE Missing
  <2>1. CASE Waits(task)
    BY <1>12, <2>1 DEF Missing, Tracked, Host, Path
  <2>2. CASE ~Waits(task)
    BY <1>12, <2>2 DEF Missing, Tracked
  <2> QED
    BY <2>1, <2>2
<1>13. CASE DnsStep \/ ServerStart \/ ServerStop
  BY <1>13 DEF DnsStep, DnsInit, DnsReady, DnsStop, DnsStopped, ServerStart, ServerStop, Tracked
<1>14. CASE UNCHANGED vars
  BY <1>14 DEF vars, Tracked
<1> QED
  BY <1>1, <1>2, <1>3, <1>4, <1>5, <1>6, <1>7, <1>8, <1>9, <1>10, <1>11, <1>12, <1>13, <1>14
     DEF Next, TaskStep

(* So it holds in every state.                                             *)
LEMMA Invariance == Spec => []Inv
<1>1. Init => Inv
  <2> SUFFICES ASSUME Init PROVE Inv
    OBVIOUS
  <2>1. 0 \in 0..(BufferSize - 1)
    BY SizeAssumption
  <2>2. TypeOK
    BY <2>1 DEF Init, TypeOK, Host, Path
  <2>3. Handed /\ Released
    BY DEF Init, Handed, Released
  <2> QED
    BY <2>2, <2>3 DEF Inv
<1> QED
  BY <1>1, InvStep, PTL DEF Spec

(* Every variable keeps its type; a form's body always leaves room for the *)
(* 0 behind it, however it is cut into pieces                              *)
(* (NeuHttpServer_Helper.cpp:277-291).                                     *)
THEOREM TypeCorrect == Spec => []TypeOK
<1>1. Inv => TypeOK
  BY DEF Inv
<1> QED
  BY <1>1, Invariance, PTL

(* Whoever sees a page is free of the tracker, unless it renewed its       *)
(* address while the page was made, whatever else is registered, evicted,  *)
(* started and stopped meanwhile (NeuHttpServer_Core.cpp:250, 274).        *)
THEOREM PageReleases == Spec => []Released
<1>1. Inv => Released
  BY DEF Inv
<1> QED
  BY <1>1, Invariance, PTL
=============================================================================
