------------------------- MODULE ClientTrackerProofs -------------------------
(***************************************************************************)
(* Proofs about ClientTracker, for every number of slots, clients and      *)
(* tasks.  Inv is inductive: the invariants the runs check are consequences*)
(* of it, but say too little about a slot between two stores to be         *)
(* preserved by themselves.                                                *)
(*                                                                         *)
(* The second part proves that ClientTracker implements ClientWindow.      *)
(* Inv is not enough for that: Going says whose address a half-written     *)
(* slot may still hold, and Lookups which answers a lookup that has gone   *)
(* past some slots has already been allowed to give.                       *)
(***************************************************************************)
EXTENDS ClientTracker, TLAPS

USE DEF Slot, Locker, Thread, Field

(* Which labels a thread of each kind can be at. *)
Roles ==
    /\ \A t \in Marker : pc[t] \in {"idle", "lock", "search", "bind", "insert"}
    /\ \A t \in Clearer : pc[t] \in {"idle", "lock", "search", "wipe", "leave"}
    /\ \A q \in Scanner : pc[q] \in {"idle", "scan", "yes", "no"}

(* The spinlock works: it is taken by the one thread in the critical section. *)
Exclusion ==
    /\ \A t, u \in Locker : InCritical(t) /\ InCritical(u) => t = u
    /\ \A t \in Locker : InCritical(t) => lock

(* A call has arguments. *)
Arguments ==
    \A t \in Locker : pc[t] # "idle" => client_ip[t] \in Ip /\ client_mac[t] \in Mac

Writing(s) ==
    \E t \in Locker : pc[t] \in {"insert", "wipe"} /\ at[t] = s

Whole(s) ==
    /\ is_allocated[s] <=> ip[s] # NoIp
    /\ is_allocated[s] <=> mac[s] # NoMac

(* A slot nobody is writing is whole, and one that is being written has    *)
(* its new value in every field that is no longer to be stored.            *)
Stores ==
    /\ \A s \in Slot : ~Writing(s) => Whole(s)
    /\ \A t \in Locker : pc[t] = "bind" => is_allocated[at[t]] /\ todo[t] \subseteq {"mac"}
    /\ \A t \in Locker : pc[t] = "insert" =>
         /\ "ip" \notin todo[t] => ip[at[t]] = client_ip[t]
         /\ "mac" \notin todo[t] => mac[at[t]] = client_mac[t]
         /\ "is_allocated" \notin todo[t] => is_allocated[at[t]]
    /\ \A t \in Locker : pc[t] = "wipe" =>
         /\ "ip" \notin todo[t] => ip[at[t]] = NoIp
         /\ "mac" \notin todo[t] => mac[at[t]] = NoMac
         /\ "is_allocated" \notin todo[t] => ~is_allocated[at[t]]

(* No two slots hold the same address, allocated or not, and the client    *)
(* that is being inserted is in no other slot.                             *)
Distinct ==
    /\ \A r, s \in Slot : ip[r] = ip[s] /\ ip[r] # NoIp => r = s
    /\ \A t \in Locker : pc[t] = "insert" =>
         \A s \in Slot : s # at[t] => ip[s] # client_ip[t]

Inv == TypeOK /\ Roles /\ Exclusion /\ Arguments /\ Stores /\ Distinct

-----------------------------------------------------------------------------
(* The answers a lookup may give stay a set of Booleans.                   *)
LEMMA ObserveType ==
    ASSUME may \in [Scanner -> SUBSET BOOLEAN], Abs!Observe
    PROVE  may' \in [Scanner -> SUBSET BOOLEAN]
<1>1. ASSUME NEW x PROVE Abs!Truth(x)' \subseteq BOOLEAN
  <2>1. (x \in Abs!Tracked') \in BOOLEAN
    BY SMT
  <2>2. Abs!Truth(x)' = IF x \in Busy' THEN BOOLEAN ELSE {(x \in Abs!Tracked')}
    BY DEF Abs!Truth
  <2> QED
    BY <2>1, <2>2
<1>2. ASSUME NEW q \in Scanner
      PROVE  (IF Status'[q] = "scan"
                THEN (IF Status[q] = "scan" THEN may[q] ELSE {}) \cup Abs!Truth(Target[q])'
                ELSE {}) \subseteq BOOLEAN
  BY <1>1
<1> QED
  BY <1>2 DEF Abs!Observe

(* A function stays in its set when one value is replaced by another of    *)
(* that set.                                                               *)
LEMMA ExceptType ==
    ASSUME NEW D, NEW R, NEW g \in [D -> R], NEW d \in D, NEW v \in R
    PROVE  [g EXCEPT ![d] = v] \in [D -> R]
OBVIOUS

(* What a search does, without LET: the two outcomes of each.              *)
LEMMA MarkSearchCases ==
    ASSUME NEW t \in Marker, MarkSearch(t)
    PROVE  \/ \E s \in Slot :
                /\ is_allocated[s] /\ ip[s] = client_ip[t]
                /\ at' = [at EXCEPT ![t] = s]
                /\ todo' = [todo EXCEPT ![t] = {"mac"}]
                /\ pc' = [pc EXCEPT ![t] = "bind"]
                /\ gone' = gone
           \/ /\ \A s \in Slot : ~(is_allocated[s] /\ ip[s] = client_ip[t])
              /\ at' = [at EXCEPT ![t] = index]
              /\ todo' = [todo EXCEPT ![t] = Field]
              /\ pc' = [pc EXCEPT ![t] = "insert"]
              /\ gone' = [gone EXCEPT ![t] = IF is_allocated[index] THEN {ip[index]} ELSE {}]
<1> DEFINE known == Matches(client_ip[t])
<1>1. \/ /\ \E s \in First(known) : at' = [at EXCEPT ![t] = s]
         /\ todo' = [todo EXCEPT ![t] = {"mac"}]
         /\ Goto(t, "bind")
         /\ UNCHANGED gone
      \/ /\ known = {}
         /\ at' = [at EXCEPT ![t] = index]
         /\ todo' = [todo EXCEPT ![t] = Field]
         /\ Goto(t, "insert")
         /\ gone' = [gone EXCEPT ![t] = IF is_allocated[index] THEN {ip[index]} ELSE {}]
  BY DEF MarkSearch
<1> QED
  BY <1>1 DEF Matches, First, Goto

LEMMA ClearSearchCases ==
    ASSUME NEW t \in Clearer, ClearSearch(t)
    PROVE  \/ \E s \in Slot :
                /\ is_allocated[s] /\ ip[s] = client_ip[t]
                /\ at' = [at EXCEPT ![t] = s]
                /\ todo' = [todo EXCEPT ![t] = Field]
                /\ pc' = [pc EXCEPT ![t] = "wipe"]
           \/ /\ pc' = [pc EXCEPT ![t] = "leave"]
              /\ at' = at /\ todo' = todo
<1> DEFINE known == Matches(client_ip[t])
<1>1. \/ /\ \E s \in First(known) : at' = [at EXCEPT ![t] = s]
         /\ todo' = [todo EXCEPT ![t] = Field]
         /\ Goto(t, "wipe")
      \/ /\ known = {}
         /\ Goto(t, "leave")
         /\ UNCHANGED <<at, todo>>
  BY DEF ClearSearch
<1> QED
  BY <1>1 DEF Matches, First, Goto

(* Every step keeps the variables in their types.                          *)
LEMMA TypeStep == TypeOK /\ [Next]_vars => TypeOK'
<1> SUFFICES ASSUME TypeOK, [Next]_vars PROVE TypeOK'
  OBVIOUS
<1> USE NAssumption, NoneAssumption DEF TypeOK, slotVars, Goto
<1>0. 0 \in Slot
  OBVIOUS
<1>a. /\ {} \in SUBSET Field /\ Field \in SUBSET Field
      /\ {"mac"} \in SUBSET Field /\ {"ip", "is_allocated"} \in SUBSET Field
  OBVIOUS
<1>b. \A t \in Thread, f \in Field : todo[t] \ {f} \in SUBSET Field
  OBVIOUS
<1>1. ASSUME NEW t \in Locker, NEW x \in Ip, NEW m \in Mac, Call(t, x, m) PROVE TypeOK'
  BY <1>1 DEF Call
<1>2. ASSUME NEW t \in Locker, Lock(t) PROVE TypeOK'
  BY <1>2 DEF Lock
<1>3. ASSUME NEW t \in Marker, MarkSearch(t) PROVE TypeOK'
  <2>1. may' \in [Scanner -> SUBSET BOOLEAN]
    BY <1>3, ObserveType DEF MarkSearch
  <2>2. (IF is_allocated[index] THEN {ip[index]} ELSE {}) \in SUBSET (Ip \cup {NoIp})
    OBVIOUS
  <2>3. /\ at' \in [Thread -> Slot] /\ todo' \in [Thread -> SUBSET Field]
        /\ pc' \in [Thread -> {"idle", "lock", "search", "bind", "insert", "wipe", "leave",
                              "scan", "yes", "no"}]
        /\ gone' \in [Marker -> SUBSET (Ip \cup {NoIp})]
    <3>1. CASE \E s \in Slot :
                 /\ at' = [at EXCEPT ![t] = s]
                 /\ todo' = [todo EXCEPT ![t] = {"mac"}]
                 /\ pc' = [pc EXCEPT ![t] = "bind"]
                 /\ gone' = gone
      BY <1>a, <3>1
    <3>2. CASE /\ at' = [at EXCEPT ![t] = index]
               /\ todo' = [todo EXCEPT ![t] = Field]
               /\ pc' = [pc EXCEPT ![t] = "insert"]
               /\ gone' = [gone EXCEPT ![t] = IF is_allocated[index] THEN {ip[index]} ELSE {}]
      BY <1>a, <2>2, <3>2
    <3> QED
      BY <1>3, <3>1, <3>2, MarkSearchCases
  <2>4. UNCHANGED <<ip, mac, is_allocated, index, lock, client_ip, client_mac>>
    BY <1>3 DEF MarkSearch
  <2> QED
    BY <2>1, <2>3, <2>4
<1>4. ASSUME NEW t \in Clearer, ClearSearch(t) PROVE TypeOK'
  <2>1. may' \in [Scanner -> SUBSET BOOLEAN]
    BY <1>4, ObserveType DEF ClearSearch
  <2>2. /\ at' \in [Thread -> Slot] /\ todo' \in [Thread -> SUBSET Field]
        /\ pc' \in [Thread -> {"idle", "lock", "search", "bind", "insert", "wipe", "leave",
                              "scan", "yes", "no"}]
    <3>1. CASE \E s \in Slot :
                 /\ at' = [at EXCEPT ![t] = s]
                 /\ todo' = [todo EXCEPT ![t] = Field]
                 /\ pc' = [pc EXCEPT ![t] = "wipe"]
      BY <1>a, <3>1
    <3>2. CASE pc' = [pc EXCEPT ![t] = "leave"] /\ at' = at /\ todo' = todo
      BY <3>2
    <3> QED
      BY <1>4, <3>1, <3>2, ClearSearchCases
  <2>3. UNCHANGED <<ip, mac, is_allocated, index, lock, client_ip, client_mac, gone>>
    BY <1>4 DEF ClearSearch
  <2> QED
    BY <2>1, <2>2, <2>3
<1>5. ASSUME NEW t \in Locker, NEW f \in Field, Store(t, f) PROVE TypeOK'
  BY <1>5 DEF Store
<1>6. ASSUME NEW t \in Locker, Unlock(t) PROVE TypeOK'
  <2>1. may' \in [Scanner -> SUBSET BOOLEAN]
    BY <1>6, ObserveType DEF Unlock
  <2>2. index' \in Slot
    BY <1>6 DEF Unlock, IndexAfter
  <2> QED
    BY <1>0, <1>6, <2>1, <2>2 DEF Unlock
<1>7. ASSUME NEW q \in Scanner, NEW x \in Ip, CallScan(q, x) PROVE TypeOK'
  BY <1>0, <1>7, ObserveType DEF CallScan
<1>8. ASSUME NEW q \in Scanner, NEW f \in Field, Read(q, f) PROVE TypeOK'
  <2>1. may' \in [Scanner -> SUBSET BOOLEAN]
    BY <1>8, ObserveType DEF Read
  <2>2. at' \in [Thread -> Slot]
    <3>1. (at[q] + 1) % N \in Slot
      OBVIOUS
    <3> QED
      BY <1>0, <1>8, <3>1 DEF Read, Leave
  <2>3. pc' \in [Thread -> {"idle", "lock", "search", "bind", "insert", "wipe", "leave",
                             "scan", "yes", "no"}]
    BY <1>8 DEF Read
  <2>4. \/ todo' = [todo EXCEPT ![q] = @ \ {f}]
        \/ todo' = [todo EXCEPT ![q] = {}]
        \/ todo' = [todo EXCEPT ![q] = {"ip", "is_allocated"}]
    BY <1>8 DEF Read, Leave
  <2>5. todo' \in [Thread -> SUBSET Field]
    <3>0. q \in Thread /\ todo \in [Thread -> SUBSET Field]
      OBVIOUS
    <3>1. CASE todo' = [todo EXCEPT ![q] = @ \ {f}]
      <4>1. todo' = [todo EXCEPT ![q] = todo[q] \ {f}]
        BY <3>1
      <4> HIDE DEF Thread, Field, TypeOK
      <4> QED
        BY <1>b, <3>0, <4>1, ExceptType
    <3>2. CASE todo' = [todo EXCEPT ![q] = {}]
      BY <1>a, <3>2, ExceptType
    <3>3. CASE todo' = [todo EXCEPT ![q] = {"ip", "is_allocated"}]
      BY <1>a, <3>3, ExceptType
    <3> QED
      BY <2>4, <3>1, <3>2, <3>3
  <2> QED
    BY <1>8, <2>1, <2>2, <2>3, <2>5 DEF Read
<1>9. ASSUME NEW q \in Scanner, Return(q) PROVE TypeOK'
  BY <1>9, ObserveType DEF Return
<1>10. CASE UNCHANGED vars
  BY <1>10 DEF vars
<1> QED
  BY <1>1, <1>2, <1>3, <1>4, <1>5, <1>6, <1>7, <1>8, <1>9, <1>10
     DEF Next, LockerStep, ScannerStep

(* The variables keep their types: in particular the index of the ring and *)
(* every slot a thread works on stay below N (SharedState.cpp:251-256).    *)
THEOREM TypeCorrect == Spec => []TypeOK
<1>1. Init => TypeOK
  <2> SUFFICES ASSUME Init PROVE TypeOK
    OBVIOUS
  <2>1. 0 \in Slot
    BY NAssumption
  <2> QED
    BY <2>1 DEF Init, TypeOK
<1> QED
  BY <1>1, TypeStep, PTL DEF Spec

-----------------------------------------------------------------------------
(* A step that leaves alone the slots, the lock and the Lockers preserves  *)
(* all that Inv says about them.                                           *)
LEMMA LookupFrame ==
    ASSUME Inv, UNCHANGED <<slotVars, lock, client_mac>>,
           \A t \in Locker : /\ pc'[t] = pc[t] /\ client_ip'[t] = client_ip[t]
                             /\ at'[t] = at[t] /\ todo'[t] = todo[t]
    PROVE  (Exclusion /\ Arguments /\ Stores /\ Distinct)'
<1> USE DEF Inv, slotVars
<1>1. Exclusion'
  BY DEF Exclusion, InCritical
<1>2. Arguments'
  BY DEF Arguments
<1>3. Stores'
  BY DEF Stores, Writing, Whole
<1>4. Distinct'
  BY DEF Distinct
<1> QED
  BY <1>1, <1>2, <1>3, <1>4

(* The lookups preserve Inv.                                               *)
LEMMA LookupStep ==
    ASSUME Inv, NEW q \in Scanner,
           (\E x \in Ip : CallScan(q, x)) \/ (\E f \in Field : Read(q, f)) \/ Return(q)
    PROVE  Inv'
<1>1. TypeOK'
  BY TypeStep DEF Inv, Next, ScannerStep
<1>2. /\ UNCHANGED <<slotVars, lock, client_mac>>
      /\ \A t \in Thread \ {q} : /\ pc'[t] = pc[t] /\ client_ip'[t] = client_ip[t]
                                 /\ at'[t] = at[t] /\ todo'[t] = todo[t]
  BY DEF CallScan, Read, Return, Leave, Goto, Inv, TypeOK
<1>3. pc'[q] \in {"idle", "scan", "yes", "no"}
  BY DEF CallScan, Read, Return, Goto, Inv, TypeOK, Roles
<1>4. \A t \in Locker : t # q
  BY ThreadAssumption
<1>5. Roles'
  BY <1>2, <1>3, <1>4 DEF Inv, Roles
<1> QED
  BY <1>1, <1>2, <1>4, <1>5, LookupFrame DEF Inv

(* What a step of the Locker t leaves alone of the other threads.          *)
OthersStay(t) ==
    \A u \in Thread \ {t} : /\ pc'[u] = pc[u] /\ client_ip'[u] = client_ip[u]
                            /\ at'[u] = at[u] /\ todo'[u] = todo[u]
                            /\ u \in Locker => client_mac'[u] = client_mac[u]

(* Calling, and taking the lock.                                           *)
LEMMA CallStep ==
    ASSUME Inv, NEW t \in Locker, NEW x \in Ip, NEW m \in Mac, Call(t, x, m)
    PROVE  Inv'
<1>1. TypeOK'
  BY TypeStep DEF Inv, Next
<1>2. /\ OthersStay(t) /\ UNCHANGED <<slotVars, lock, at, todo>>
      /\ pc[t] = "idle" /\ pc'[t] = "lock"
      /\ client_ip'[t] = x /\ client_mac'[t] = m
  BY DEF Call, Goto, Inv, TypeOK, OthersStay
<1> USE DEF Inv, OthersStay, slotVars
<1>3. Roles'
  BY <1>2, ThreadAssumption DEF Roles
<1>4. Exclusion'
  BY <1>2 DEF Exclusion, InCritical
<1>5. Arguments'
  BY <1>2 DEF Arguments
<1>6. Stores'
  BY <1>2 DEF Stores, Writing, Whole
<1>7. Distinct'
  BY <1>2 DEF Distinct
<1> QED
  BY <1>1, <1>3, <1>4, <1>5, <1>6, <1>7

(* The spinlock admits one locker (SharedState.h:86): taking a free lock   *)
(* preserves Inv.                                                          *)
LEMMA LockStep ==
    ASSUME Inv, NEW t \in Locker, Lock(t)
    PROVE  Inv'
<1>1. TypeOK'
  BY TypeStep DEF Inv, Next, LockerStep
<1>2. /\ OthersStay(t) /\ UNCHANGED <<slotVars, client_ip, client_mac, at, todo>>
      /\ ~lock /\ lock' /\ pc[t] = "lock" /\ pc'[t] = "search"
  BY DEF Lock, Goto, Inv, TypeOK, OthersStay
<1> USE DEF Inv, OthersStay, slotVars
<1>3. Roles'
  BY <1>2, ThreadAssumption DEF Roles
<1>4. Exclusion'
  BY <1>2 DEF Exclusion, InCritical
<1>5. Arguments'
  BY <1>2 DEF Arguments
<1>6. Stores'
  BY <1>2 DEF Stores, Writing, Whole
<1>7. Distinct'
  BY <1>2 DEF Distinct
<1> QED
  BY <1>1, <1>3, <1>4, <1>5, <1>6, <1>7

(* In a search nothing is being written: all slots are whole.              *)
LEMMA SearchWhole ==
    ASSUME Inv, NEW t \in Locker, pc[t] = "search"
    PROVE  \A s \in Slot : ~Writing(s) /\ Whole(s)
BY DEF Inv, Exclusion, InCritical, Stores, Writing

(* Choosing the slot of a registration preserves Inv: a client that no     *)
(* allocated slot holds has its address in no slot at all.                 *)
LEMMA MarkSearchStep ==
    ASSUME Inv, NEW t \in Marker, MarkSearch(t)
    PROVE  Inv'
<1>1. TypeOK'
  BY TypeStep DEF Inv, Next, LockerStep
<1>2. /\ OthersStay(t) /\ UNCHANGED <<slotVars, lock, client_ip, client_mac>>
      /\ pc[t] = "search"
  <2>1. /\ UNCHANGED <<slotVars, lock, client_ip, client_mac>>
        /\ pc[t] = "search"
    BY DEF MarkSearch
  <2>2. \A u \in Thread \ {t} : pc'[u] = pc[u] /\ at'[u] = at[u] /\ todo'[u] = todo[u]
    BY MarkSearchCases DEF Inv, TypeOK
  <2> QED
    BY <2>1, <2>2 DEF OthersStay
<1>3. \/ /\ pc'[t] = "bind" /\ is_allocated[at'[t]] /\ todo'[t] = {"mac"}
      \/ /\ \A s \in Slot : ~(is_allocated[s] /\ ip[s] = client_ip[t])
         /\ pc'[t] = "insert" /\ todo'[t] = Field
  BY MarkSearchCases DEF Inv, TypeOK
<1>4. client_ip[t] \in Ip
  BY <1>2 DEF Inv, Arguments
<1>5. \A u \in Locker : InCritical(u) => u = t
  BY <1>2 DEF Inv, Exclusion, InCritical
<1>6. \A s \in Slot : ~Writing(s) /\ Whole(s)
  BY <1>2, SearchWhole
<1> USE DEF Inv, OthersStay, slotVars
<1>7. Roles'
  BY <1>2, <1>3, ThreadAssumption DEF Roles
<1>8. Exclusion'
  BY <1>2, <1>3 DEF Exclusion, InCritical
<1>9. Arguments'
  BY <1>2 DEF Arguments
<1>10. Stores'
  <2>1. \A s \in Slot : Whole(s)'
    BY <1>2, <1>6 DEF Whole
  <2>2. \A u \in Locker : u # t => pc'[u] \notin {"bind", "insert", "wipe"}
    BY <1>2, <1>5 DEF InCritical
  <2> QED
    BY <1>2, <1>3, <2>1, <2>2 DEF Stores
<1>11. Distinct'
  <2>1. CASE pc'[t] = "bind"
    BY <1>2, <2>1 DEF Distinct
  <2>2. CASE pc'[t] = "insert"
    <3>1. \A s \in Slot : ip[s] # client_ip[t]
      BY <1>3, <1>4, <1>6, <2>2, NoneAssumption DEF Whole
    <3> QED
      BY <1>2, <3>1 DEF Distinct
  <2> QED
    BY <1>3, <2>1, <2>2
<1> QED
  BY <1>1, <1>7, <1>8, <1>9, <1>10, <1>11

(* Choosing the slot to erase preserves Inv.                               *)
LEMMA ClearSearchStep ==
    ASSUME Inv, NEW t \in Clearer, ClearSearch(t)
    PROVE  Inv'
<1>1. TypeOK'
  BY TypeStep DEF Inv, Next, LockerStep
<1>2. /\ OthersStay(t) /\ UNCHANGED <<slotVars, lock, client_ip, client_mac>>
      /\ pc[t] = "search"
  BY ClearSearchCases DEF ClearSearch, Inv, TypeOK, OthersStay
<1>3. \/ pc'[t] = "wipe" /\ todo'[t] = Field
      \/ pc'[t] = "leave"
  BY ClearSearchCases DEF Inv, TypeOK
<1>5. \A u \in Locker : InCritical(u) => u = t
  BY <1>2 DEF Inv, Exclusion, InCritical
<1>6. \A s \in Slot : ~Writing(s) /\ Whole(s)
  BY <1>2, SearchWhole
<1> USE DEF Inv, OthersStay, slotVars
<1>7. Roles'
  BY <1>2, <1>3, ThreadAssumption DEF Roles
<1>8. Exclusion'
  BY <1>2, <1>3 DEF Exclusion, InCritical
<1>9. Arguments'
  BY <1>2 DEF Arguments
<1>10. Stores'
  <2>1. \A s \in Slot : Whole(s)'
    BY <1>2, <1>6 DEF Whole
  <2>2. \A u \in Locker : u # t => pc'[u] \notin {"bind", "insert", "wipe"}
    BY <1>2, <1>5 DEF InCritical
  <2> QED
    BY <1>2, <1>3, <2>1, <2>2 DEF Stores
<1>11. Distinct'
  BY <1>2, <1>3 DEF Distinct
<1> QED
  BY <1>1, <1>7, <1>8, <1>9, <1>10, <1>11

(* One store of the holder of the lock.                                    *)
LEMMA StoreStep ==
    ASSUME Inv, NEW t \in Locker, NEW f \in Field, Store(t, f)
    PROVE  Inv'
<1>1. TypeOK'
  BY TypeStep DEF Inv, Next, LockerStep
<1> DEFINE a == at[t]
<1>2. /\ UNCHANGED <<lock, pc, client_ip, client_mac, at>>
      /\ pc[t] \in {"bind", "insert", "wipe"} /\ f \in todo[t] /\ a \in Slot
      /\ \A u \in Locker \ {t} : todo'[u] = todo[u]
      /\ todo'[t] = todo[t] \ {f}
  BY DEF Store, Inv, TypeOK
<1>3. \A s \in Slot :
         /\ ip'[s] = IF f = "ip" /\ s = a
                       THEN IF pc[t] = "wipe" THEN NoIp ELSE client_ip[t] ELSE ip[s]
         /\ mac'[s] = IF f = "mac" /\ s = a
                        THEN IF pc[t] = "wipe" THEN NoMac ELSE client_mac[t] ELSE mac[s]
         /\ is_allocated'[s] = IF f = "is_allocated" /\ s = a
                                 THEN pc[t] # "wipe" ELSE is_allocated[s]
  BY DEF Store, Inv, TypeOK
<1>4. \A u \in Locker : InCritical(u) => u = t
  BY <1>2 DEF Inv, Exclusion, InCritical
<1>5. client_ip[t] \in Ip /\ client_mac[t] \in Mac
  BY <1>2 DEF Inv, Arguments
<1>6. pc[t] = "bind" => f = "mac" /\ is_allocated[a] /\ ~Writing(a)
  BY <1>2, <1>4 DEF Inv, Stores, Writing, InCritical
<1> HIDE DEF a
<1> USE DEF Inv
<1>7. Roles'
  BY <1>2 DEF Roles
<1>8. Exclusion'
  BY <1>2 DEF Exclusion, InCritical
<1>9. Arguments'
  BY <1>2 DEF Arguments
<1>10. Stores'
  <2>1. ASSUME NEW s \in Slot, ~Writing(s)' PROVE Whole(s)'
    <3>1. ~Writing(s)
      BY <1>2, <2>1 DEF Writing
    <3>2. Whole(s)
      BY <3>1 DEF Stores
    <3>3. CASE s # a
      BY <1>3, <3>2, <3>3 DEF Whole
    <3>4. CASE s = a
      <4>1. pc[t] = "bind"
        BY <1>2, <3>1, <3>4 DEF Writing, a
      <4> QED
        BY <1>3, <1>5, <1>6, <3>2, <3>4, <4>1, NoneAssumption DEF Whole
    <3> QED
      BY <3>3, <3>4
  <2>2. ASSUME NEW u \in Locker, pc'[u] \in {"bind", "insert", "wipe"} PROVE u = t
    BY <1>2, <1>4, <2>2 DEF InCritical
  <2>3. pc'[t] = "bind" => is_allocated'[at'[t]] /\ todo'[t] \subseteq {"mac"}
    BY <1>2, <1>3, <1>6 DEF Stores, a
  <2>4. pc'[t] = "insert" =>
          /\ "ip" \notin todo'[t] => ip'[at'[t]] = client_ip'[t]
          /\ "mac" \notin todo'[t] => mac'[at'[t]] = client_mac'[t]
          /\ "is_allocated" \notin todo'[t] => is_allocated'[at'[t]]
    BY <1>2, <1>3 DEF Stores, a
  <2>5. pc'[t] = "wipe" =>
          /\ "ip" \notin todo'[t] => ip'[at'[t]] = NoIp
          /\ "mac" \notin todo'[t] => mac'[at'[t]] = NoMac
          /\ "is_allocated" \notin todo'[t] => ~is_allocated'[at'[t]]
    BY <1>2, <1>3 DEF Stores, a
  <2> QED
    BY <2>1, <2>2, <2>3, <2>4, <2>5 DEF Stores
<1>11. Distinct'
  <2>1. f = "ip" /\ pc[t] = "insert" => \A s \in Slot : s # a => ip[s] # client_ip[t]
    BY DEF Distinct, a
  <2>2. f = "ip" => pc[t] # "bind"
    BY <1>6
  <2>3. \A r, s \in Slot : ip'[r] = ip'[s] /\ ip'[r] # NoIp => r = s
    BY <1>2, <1>3, <2>1, <2>2 DEF Distinct
  <2>4. ASSUME NEW u \in Locker, pc'[u] = "insert", NEW s \in Slot, s # at'[u]
        PROVE  ip'[s] # client_ip'[u]
    <3>1. u = t
      BY <1>2, <1>4, <2>4 DEF InCritical
    <3> QED
      BY <1>2, <1>3, <2>4, <3>1 DEF Distinct, a
  <2> QED
    BY <2>3, <2>4 DEF Distinct
<1> QED
  BY <1>1, <1>7, <1>8, <1>9, <1>10, <1>11

(* Giving the lock back.                                                   *)
LEMMA UnlockStep ==
    ASSUME Inv, NEW t \in Locker, Unlock(t)
    PROVE  Inv'
<1>1. TypeOK'
  BY TypeStep DEF Inv, Next, LockerStep
<1>2. /\ OthersStay(t) /\ UNCHANGED <<slotVars, todo>>
      /\ pc[t] \in {"bind", "insert", "wipe", "leave"} /\ todo[t] = {}
      /\ pc'[t] = "idle"
  BY DEF Unlock, Unlocks, Goto, Inv, TypeOK, OthersStay
<1>3. \A u \in Locker : InCritical(u) => u = t
  BY <1>2 DEF Inv, Exclusion, InCritical
<1> USE DEF Inv, OthersStay, slotVars
<1>4. \A u \in Locker : ~InCritical(u)'
  BY <1>2, <1>3 DEF InCritical
<1>5. Roles'
  BY <1>2, ThreadAssumption DEF Roles
<1>6. Exclusion'
  BY <1>4 DEF Exclusion
<1>7. Arguments'
  BY <1>2 DEF Arguments
<1>8. Stores'
  <2>1. ASSUME NEW s \in Slot PROVE Whole(s)
    <3>1. CASE Writing(s)
      <4>1. pc[t] \in {"insert", "wipe"} /\ at[t] = s
        BY <1>3, <3>1 DEF Writing, InCritical
      <4>2. client_ip[t] \in Ip /\ client_mac[t] \in Mac
        BY <1>2 DEF Arguments
      <4> QED
        BY <1>2, <4>1, <4>2, NoneAssumption DEF Stores, Whole
    <3>2. CASE ~Writing(s)
      BY <3>2 DEF Stores
    <3> QED
      BY <3>1, <3>2
  <2> QED
    BY <1>2, <1>4, <2>1 DEF Stores, Whole, InCritical
<1>9. Distinct'
  BY <1>2, <1>4 DEF Distinct, InCritical
<1> QED
  BY <1>1, <1>5, <1>6, <1>7, <1>8, <1>9

(* Inv is inductive: every step of every thread preserves it.              *)
LEMMA InvStep == Inv /\ [Next]_vars => Inv'
<1> SUFFICES ASSUME Inv, [Next]_vars PROVE Inv'
  OBVIOUS
<1>1. CASE \E t \in Locker, x \in Ip, m \in Mac : Call(t, x, m)
  BY <1>1, CallStep
<1>2. CASE \E t \in Locker : LockerStep(t)
  BY <1>2, LockStep, MarkSearchStep, ClearSearchStep, StoreStep, UnlockStep DEF LockerStep
<1>3. CASE \E q \in Scanner, x \in Ip : CallScan(q, x)
  BY <1>3, LookupStep
<1>4. CASE \E q \in Scanner : ScannerStep(q)
  BY <1>4, LookupStep DEF ScannerStep
<1>5. CASE UNCHANGED vars
  <2>1. TypeOK'
    BY TypeStep DEF Inv
  <2>2. Roles'
    BY <1>5 DEF Inv, Roles, vars
  <2>3. (Exclusion /\ Arguments /\ Stores /\ Distinct)'
    BY <1>5, LookupFrame DEF vars, slotVars
  <2> QED
    BY <2>1, <2>2, <2>3 DEF Inv
<1> QED
  BY <1>1, <1>2, <1>3, <1>4, <1>5 DEF Next

(* At the start nobody is in a call and every slot is empty.               *)
LEMMA StartInv == Init => Inv
<1> SUFFICES ASSUME Init PROVE Inv
  OBVIOUS
<1>1. TypeOK
  <2>1. 0 \in Slot
    BY NAssumption
  <2> QED
    BY <2>1 DEF Init, TypeOK
<1>2. \A t \in Thread : pc[t] = "idle"
  BY DEF Init
<1>3. \A s \in Slot : ip[s] = NoIp /\ mac[s] = NoMac /\ is_allocated[s] = FALSE
  BY DEF Init
<1> QED
  BY <1>1, <1>2, <1>3 DEF Inv, Roles, Exclusion, InCritical, Arguments, Stores, Writing,
     Whole, Distinct

(* Inv holds always: mutual exclusion under the spinlock, slots that are   *)
(* whole except for the fields its holder has still to store, and no       *)
(* address in two slots (SharedState.cpp:234-305).                         *)
THEOREM Invariance == Spec => []Inv
BY StartInv, InvStep, PTL DEF Spec

(* No client ever occupies two slots, however registrations and removals   *)
(* interleave: clearClientFromTracker stops at the first match             *)
(* (SharedState.cpp:290), so a second one would never be erased.           *)
THEOREM OneSlotPerClient == Spec => []NoDuplicate
<1>1. Inv => NoDuplicate
  BY DEF Inv, Distinct, NoDuplicate
<1> QED
  BY <1>1, Invariance, PTL

(* Between the critical sections every slot is entirely set or entirely    *)
(* zero, whatever the order of the stores in them.                         *)
THEOREM WholeWhenUnlocked == Spec => []BindingsWhole
<1>1. Inv => BindingsWhole
  BY DEF Inv, Exclusion, InCritical, Stores, Writing, Whole, BindingsWhole
<1> QED
  BY <1>1, Invariance, PTL

-----------------------------------------------------------------------------
(* The refinement.  A step of ClientTracker is one of ClientWindow, or     *)
(* changes nothing there.  What Inv lacks for that is what the lookups     *)
(* rely on: what may still be in a slot that is being written, and what    *)
(* a lookup that has gone past some slots must have been allowed to say.   *)

(* An address that is still in a slot being written is the one that goes.  *)
Going ==
    /\ \A t \in Marker : pc[t] = "insert" /\ "ip" \in todo[t] => ip[at[t]] \in gone[t] \cup {NoIp}
    /\ \A t \in Clearer : pc[t] = "wipe" /\ "ip" \in todo[t] => ip[at[t]] = client_ip[t]

(* The slot s is that of x, and nobody is writing it. *)
Kept(x, s) == is_allocated[s] /\ ip[s] = x /\ ~Writing(s)

(* A lookup may answer what is true now.  It may say yes once it has seen  *)
(* the address, and it has not gone past the slot of a client whose        *)
(* presence has been the truth since the call.                             *)
Lookup(q) ==
    IF pc[q] = "scan"
    THEN /\ client_ip[q] \in Ip
         /\ Abs!Truth(client_ip[q]) \subseteq may[q]
         /\ "ip" \notin todo[q] => TRUE \in may[q]
         /\ FALSE \notin may[q] => \E s \in Slot : at[q] <= s /\ Kept(client_ip[q], s)
    ELSE may[q] = {}

Lookups == \A q \in Scanner : Lookup(q)

RefInv == Inv /\ Going /\ Lookups

-----------------------------------------------------------------------------
(* Walking round the ring.                                                 *)

LEMMA Turn ==
    ASSUME NEW i \in Slot, NEW k \in 0..N
    PROVE  (i + k) % N = IF i + k < N THEN i + k ELSE i + k - N
<1>1. CASE i + k < N
  BY <1>1, NAssumption
<1>2. CASE i + k >= N
  BY <1>2, NAssumption
<1> QED
  BY <1>1, <1>2, NAssumption

(* Every place of the window is a slot, and every slot has its place.      *)
LEMMA Places ==
    ASSUME NEW i \in Slot
    PROVE  /\ \A k \in 1..N : (i + k - 1) % N \in Slot
           /\ \A s \in Slot : \E k \in 1..N : (i + k - 1) % N = s
<1>1. ASSUME NEW k \in 1..N
      PROVE  (i + k - 1) % N = IF i + (k - 1) < N THEN i + (k - 1) ELSE i + (k - 1) - N
  <2>1. k - 1 \in 0..N /\ i + k - 1 = i + (k - 1)
    BY NAssumption
  <2> QED
    BY <2>1, Turn
<1>2. \A k \in 1..N : (i + k - 1) % N \in Slot
  BY <1>1, NAssumption
<1>3. ASSUME NEW s \in Slot PROVE \E k \in 1..N : (i + k - 1) % N = s
  <2> DEFINE k == IF i <= s THEN s - i + 1 ELSE s - i + 1 + N
  <2>1. k \in 1..N
    BY NAssumption
  <2>2. (i + k - 1) % N = s
    BY <1>1, <2>1, NAssumption
  <2> QED
    BY <2>1, <2>2
<1> QED
  BY <1>2, <1>3

(* The places after the index moves on: all come one nearer to the end,    *)
(* and the slot it was at has the last.                                    *)
LEMMA Moved ==
    ASSUME NEW i \in Slot
    PROVE  LET j == (i + 1) % N
           IN  /\ j \in Slot
               /\ \A k \in 1..N : k # N => (j + k - 1) % N = (i + (k + 1) - 1) % N
                                         /\ (j + k - 1) % N # i
               /\ (j + N - 1) % N = i
<1> DEFINE j == (i + 1) % N
<1>1. j = IF i + 1 < N THEN i + 1 ELSE 0
  <2>1. 1 \in 0..N
    BY NAssumption
  <2>2. j = IF i + 1 < N THEN i + 1 ELSE i + 1 - N
    BY <2>1, Turn
  <2> QED
    BY <2>2, NAssumption
<1>2. j \in Slot
  BY <1>1, NAssumption
<1> HIDE DEF j
<1>3. ASSUME NEW h \in Slot, NEW k \in 1..N
      PROVE  (h + k - 1) % N = IF h + (k - 1) < N THEN h + (k - 1) ELSE h + (k - 1) - N
  <2>1. k - 1 \in 0..N /\ h + k - 1 = h + (k - 1)
    BY NAssumption
  <2> QED
    BY <2>1, Turn
<1>4. ASSUME NEW k \in 1..N, k # N
      PROVE  (j + k - 1) % N = (i + (k + 1) - 1) % N /\ (j + k - 1) % N # i
  <2>1. k + 1 \in 1..N
    BY <1>4, NAssumption
  <2>2. (i + (k + 1) - 1) % N = IF i + k < N THEN i + k ELSE i + k - N
    BY <1>3, <2>1, NAssumption
  <2>3. (j + k - 1) % N = IF j + (k - 1) < N THEN j + (k - 1) ELSE j + (k - 1) - N
    BY <1>2, <1>3
  <2> QED
    BY <1>1, <1>4, <2>2, <2>3, NAssumption
<1>5. (j + N - 1) % N = i
  <2>1. N \in 1..N
    BY NAssumption
  <2>2. (j + N - 1) % N = IF j + (N - 1) < N THEN j + (N - 1) ELSE j + (N - 1) - N
    BY <1>2, <1>3, <2>1
  <2> QED
    BY <1>1, <2>2, NAssumption
<1> QED
  BY <1>2, <1>4, <1>5 DEF j

-----------------------------------------------------------------------------
(* What the refinement mapping makes of a state.                           *)
View ==
    /\ \A t \in Marker : pc[t] = "insert" =>
          /\ Entry(at[t]) = client_ip[t]
          /\ NextIndex = (index + 1) % N
          /\ Busy = {client_ip[t]} \cup gone[t]
    /\ \A t \in Clearer : pc[t] = "wipe" =>
          /\ Entry(at[t]) = NoIp
          /\ Busy = {client_ip[t]}
    /\ \A s \in Slot : ~Writing(s) => Entry(s) = ip[s]
    /\ (\A t \in Marker : pc[t] # "insert") => NextIndex = index
    /\ (\A t \in Locker : pc[t] \notin {"insert", "wipe"}) => Busy = {}
    /\ NextIndex \in Slot
    /\ \A x : x \in Abs!Tracked <=> x # NoIp /\ \E s \in Slot : Entry(s) = x

LEMMA ViewHolds == (Inv => View) /\ (Inv' => View')
<1>1. ASSUME Inv PROVE View
  <2> USE DEF Inv
  <2>1. \A t, u \in Locker : pc[t] \in {"insert", "wipe"} /\ pc[u] \in {"insert", "wipe"} => t = u
    BY <1>1 DEF Exclusion, InCritical
  <2>2. ASSUME NEW t \in Marker, pc[t] = "insert"
        PROVE  /\ Entry(at[t]) = client_ip[t]
               /\ NextIndex = (index + 1) % N
               /\ Busy = {client_ip[t]} \cup gone[t]
    <3>1. \A u \in Marker : pc[u] = "insert" /\ at[u] = at[t] <=> u = t
      BY <2>1, <2>2
    <3>2. (CHOOSE u \in Marker : pc[u] = "insert" /\ at[u] = at[t]) = t
      BY <3>1
    <3>3. Entry(at[t]) = client_ip[t]
      BY <2>2, <3>2 DEF Entry, Inserting
    <3>4. /\ {u \in Locker : pc[u] \in {"insert", "wipe"}} = {t}
          /\ {u \in Marker : pc[u] = "insert"} = {t}
      BY <2>1, <2>2
    <3>5. Busy = {client_ip[t]} \cup gone[t]
      BY <3>4 DEF Busy
    <3> QED
      BY <2>2, <3>3, <3>5 DEF NextIndex
  <2>3. ASSUME NEW t \in Clearer, pc[t] = "wipe"
        PROVE  Entry(at[t]) = NoIp /\ Busy = {client_ip[t]}
    <3>1. ~Inserting(at[t]) /\ Wiping(at[t])
      BY <1>1, <2>1, <2>3 DEF Inserting, Wiping
    <3>2. /\ {u \in Locker : pc[u] \in {"insert", "wipe"}} = {t}
          /\ {u \in Marker : pc[u] = "insert"} = {}
      BY <2>1, <2>3
    <3> QED
      BY <3>1, <3>2 DEF Entry, Busy
  <2>4. ASSUME NEW s \in Slot, ~Writing(s) PROVE Entry(s) = ip[s]
    <3>1. ~Inserting(s) /\ ~Wiping(s)
      BY <2>4 DEF Writing, Inserting, Wiping
    <3>2. is_allocated[s] <=> ip[s] # NoIp
      BY <1>1, <2>4 DEF Stores, Whole
    <3> QED
      BY <3>1, <3>2 DEF Entry
  <2>5. (\A t \in Marker : pc[t] # "insert") => NextIndex = index
    BY DEF NextIndex
  <2>6. (\A t \in Locker : pc[t] \notin {"insert", "wipe"}) => Busy = {}
    BY DEF Busy
  <2>7. NextIndex \in Slot
    <3>1. index \in Slot
      BY <1>1 DEF TypeOK
    <3>2. (index + 1) % N \in Slot
      BY <3>1, Moved
    <3> QED
      BY <3>1, <3>2 DEF NextIndex
  <2>8. ASSUME NEW x
        PROVE  x \in Abs!Tracked <=> x # NoIp /\ \E s \in Slot : Entry(s) = x
    <3>1. x \in Abs!Tracked <=> x # NoIp /\ \E k \in 1..N : Entry((NextIndex + k - 1) % N) = x
      BY DEF Abs!Tracked, Window
    <3> QED
      BY <2>7, <3>1, Places
  <2> QED
    BY <2>2, <2>3, <2>4, <2>5, <2>6, <2>7, <2>8 DEF View
<1>2. Inv => View
  BY <1>1
<1> QED
  BY <1>2, PTL

(* The mapped state is the same when no entry and no writer changes.       *)
LEMMA SameWindow ==
    ASSUME Inv, Inv', NextIndex' = NextIndex, \A s \in Slot : Entry(s)' = Entry(s)
    PROVE  Window' = Window
<1>1. NextIndex \in Slot
  BY ViewHolds DEF View
<1>2. \A k \in 1..N : Entry((NextIndex + k - 1) % N)' = Entry((NextIndex + k - 1) % N)
  BY <1>1, Places
<1> QED
  BY <1>2 DEF Window

(* What a lookup may be told does not change with the mapped state.        *)
LEMMA SameTruth ==
    ASSUME Window' = Window, Busy' = Busy
    PROVE  \A x : Abs!Truth(x)' = Abs!Truth(x)
BY DEF Abs!Truth, Abs!Tracked

(* Observing gives each running lookup the truth of the new state, and     *)
(* leaves the others nothing.                                              *)
LEMMA Observed ==
    ASSUME Abs!Observe, NEW q \in Scanner
    PROVE  IF pc'[q] = "scan"
           THEN may'[q] = (IF pc[q] = "scan" THEN may[q] ELSE {}) \cup Abs!Truth(client_ip[q])'
           ELSE may'[q] = {}
<1>1. Status'[q] = pc'[q] /\ Status[q] = pc[q] /\ Target'[q] = client_ip'[q]
  BY DEF Status, Target
<1>2. Abs!Truth(Target[q])' = Abs!Truth(client_ip[q])'
  BY <1>1 DEF Abs!Truth
<1>3. may'[q] = IF Status'[q] = "scan"
                  THEN (IF Status[q] = "scan" THEN may[q] ELSE {}) \cup Abs!Truth(Target[q])'
                  ELSE {}
  BY DEF Abs!Observe
<1> QED
  BY <1>1, <1>2, <1>3

(* In a state that changes nothing there is nothing new to observe.        *)
LEMMA NothingNew ==
    ASSUME RefInv, Abs!Observe, Window' = Window, Busy' = Busy, Status' = Status, Target' = Target
    PROVE  UNCHANGED Abs!vars
<1>1. \A q \in Scanner : pc'[q] = pc[q] /\ client_ip'[q] = client_ip[q]
  BY DEF Status, Target
<1>2. ASSUME NEW q \in Scanner PROVE may'[q] = may[q]
  <2>1. Abs!Truth(client_ip[q])' = Abs!Truth(client_ip[q])
    BY <1>1, SameTruth DEF Abs!Truth
  <2>2. IF pc[q] = "scan" THEN Abs!Truth(client_ip[q]) \subseteq may[q] ELSE may[q] = {}
    BY DEF RefInv, Lookups, Lookup
  <2> QED
    BY <1>1, <2>1, <2>2, Observed
<1>3. may \in [Scanner -> SUBSET BOOLEAN]
  BY DEF RefInv, Inv, TypeOK
<1>4. may' = [q \in Scanner |-> may'[q]]
  BY DEF Abs!Observe
<1>5. may' = may
  BY <1>2, <1>3, <1>4
<1> QED
  BY <1>5 DEF Abs!vars

-----------------------------------------------------------------------------
(* Most steps touch neither a writer nor a slot that nobody writes.        *)
WritersStay ==
    \A u \in Locker :
        /\ pc'[u] \in {"insert", "wipe"} <=> pc[u] \in {"insert", "wipe"}
        /\ pc[u] \in {"insert", "wipe"} =>
             /\ pc'[u] = pc[u] /\ at'[u] = at[u] /\ client_ip'[u] = client_ip[u]
             /\ "ip" \in todo'[u] => "ip" \in todo[u] /\ ip'[at[u]] = ip[at[u]]
             /\ u \in Marker => gone'[u] = gone[u]

SlotsStay ==
    \A s \in Slot : ~Writing(s) => ip'[s] = ip[s] /\ is_allocated'[s] = is_allocated[s]

(* Such a step is none of ClientWindow's.                                  *)
LEMMA Quiet ==
    ASSUME RefInv, Inv', index' = index, WritersStay, SlotsStay
    PROVE  /\ Window' = Window /\ Busy' = Busy /\ Going'
           /\ \A x : \A s \in Slot : Kept(x, s) => Kept(x, s)'
<1>1. View /\ View'
  BY ViewHolds DEF RefInv
<1>2. \A s \in Slot : Writing(s)' <=> Writing(s)
  BY DEF WritersStay, Writing
<1>3. \A t \in Marker : pc[t] # "wipe" /\ pc'[t] # "wipe"
  BY DEF RefInv, Inv, Roles
<1>4. \A t \in Clearer : pc[t] # "insert" /\ pc'[t] # "insert"
  BY DEF RefInv, Inv, Roles
<1>5. ASSUME NEW s \in Slot PROVE Entry(s)' = Entry(s)
  <2>1. CASE ~Writing(s)
    BY <1>1, <1>2, <2>1 DEF View, SlotsStay
  <2>2. ASSUME NEW t \in Marker, pc[t] = "insert", at[t] = s PROVE Entry(s)' = Entry(s)
    BY <1>1, <1>3, <2>2 DEF View, WritersStay
  <2>3. ASSUME NEW t \in Clearer, pc[t] = "wipe", at[t] = s PROVE Entry(s)' = Entry(s)
    BY <1>1, <1>4, <2>3 DEF View, WritersStay
  <2> QED
    BY <1>3, <1>4, <2>1, <2>2, <2>3 DEF Writing
<1>6. NextIndex' = NextIndex
  <2>1. CASE \E t \in Marker : pc[t] = "insert"
    BY <1>1, <1>3, <2>1 DEF View, WritersStay
  <2>2. CASE \A t \in Marker : pc[t] # "insert"
    BY <1>1, <1>3, <2>2 DEF View, WritersStay
  <2> QED
    BY <2>1, <2>2
<1>7. Window' = Window
  BY <1>5, <1>6, SameWindow DEF RefInv
<1>8. Busy' = Busy
  <2>1. ASSUME NEW t \in Marker, pc[t] = "insert" PROVE Busy' = Busy
    <3>1. pc'[t] = "insert" /\ client_ip'[t] = client_ip[t] /\ gone'[t] = gone[t]
      BY <2>1 DEF WritersStay
    <3>2. Busy = {client_ip[t]} \cup gone[t] /\ Busy' = {client_ip'[t]} \cup gone'[t]
      BY <1>1, <2>1, <3>1 DEF View
    <3> QED
      BY <3>1, <3>2
  <2>2. ASSUME NEW t \in Clearer, pc[t] = "wipe" PROVE Busy' = Busy
    <3>1. pc'[t] = "wipe" /\ client_ip'[t] = client_ip[t]
      BY <2>2 DEF WritersStay
    <3>2. Busy = {client_ip[t]} /\ Busy' = {client_ip'[t]}
      BY <1>1, <2>2, <3>1 DEF View
    <3> QED
      BY <3>1, <3>2
  <2>3. CASE \A t \in Locker : pc[t] \notin {"insert", "wipe"}
    BY <1>1, <2>3 DEF View, WritersStay
  <2> QED
    BY <1>3, <1>4, <2>1, <2>2, <2>3
<1>9. Going'
  BY <1>3, <1>4 DEF Going, RefInv, WritersStay
<1>10. \A x : \A s \in Slot : Kept(x, s) => Kept(x, s)'
  BY <1>2 DEF Kept, SlotsStay
<1> QED
  BY <1>7, <1>8, <1>9, <1>10

(* A step that a running lookup has no part in keeps what is said of it:   *)
(* either it sees the new state, or there is nothing new in it, and its    *)
(* client stays where it is or is the one that changes.                    *)
LEMMA LookupKept ==
    ASSUME RefInv, NEW q \in Scanner,
           pc'[q] = pc[q], client_ip'[q] = client_ip[q], at'[q] = at[q], todo'[q] = todo[q],
           Abs!Observe \/ (Window' = Window /\ Busy' = Busy /\ may' = may),
           \A x : \A s \in Slot : Kept(x, s) => Kept(x, s)' \/ x \in Busy'
    PROVE  Lookup(q)'
<1>1. CASE pc[q] # "scan"
  BY <1>1, Observed DEF RefInv, Lookups, Lookup
<1>2. CASE pc[q] = "scan"
  <2>1. Abs!Truth(client_ip[q])' \subseteq may'[q] /\ may[q] \subseteq may'[q]
    <3>1. CASE Abs!Observe
      BY <1>2, <3>1, Observed
    <3>2. CASE Window' = Window /\ Busy' = Busy /\ may' = may
      <4>1. Abs!Truth(client_ip[q])' = Abs!Truth(client_ip[q])
        BY <3>2 DEF Abs!Truth, Abs!Tracked
      <4> QED
        BY <1>2, <3>2, <4>1 DEF RefInv, Lookups, Lookup
    <3> QED
      BY <3>1, <3>2
  <2>2. /\ client_ip[q] \in Ip
        /\ "ip" \notin todo[q] => TRUE \in may[q]
        /\ FALSE \notin may[q] => \E s \in Slot : at[q] <= s /\ Kept(client_ip[q], s)
    BY <1>2 DEF RefInv, Lookups, Lookup
  <2>3. client_ip[q] \in Busy' => FALSE \in Abs!Truth(client_ip[q])'
    BY DEF Abs!Truth
  <2>4. ASSUME FALSE \notin may'[q]
        PROVE  \E s \in Slot : at'[q] <= s /\ Kept(client_ip[q], s)'
    <3>1. PICK s \in Slot : at[q] <= s /\ Kept(client_ip[q], s)
      BY <2>1, <2>2, <2>4
    <3>2. client_ip[q] \notin Busy'
      BY <2>1, <2>3, <2>4
    <3>3. Kept(client_ip[q], s)'
      BY <3>1, <3>2 DEF Kept
    <3> QED
      BY <3>1, <3>3
  <2> QED
    BY <1>2, <2>1, <2>2, <2>4 DEF Lookup
<1> QED
  BY <1>1, <1>2

(* What the answers that are true of x say about it.                       *)
LEMMA TruthIs ==
    ASSUME NEW x
    PROVE  /\ TRUE \in Abs!Truth(x) <=> x \in Busy \/ x \in Abs!Tracked
           /\ FALSE \in Abs!Truth(x) <=> x \in Busy \/ x \notin Abs!Tracked
<1> DEFINE held == x \in Abs!Tracked
<1>1. Abs!Truth(x) = IF x \in Busy THEN BOOLEAN ELSE {held}
  BY DEF Abs!Truth
<1>2. held => held = TRUE
  BY Zenon
<1>3. ~held => held = FALSE
  BY SMT
<1>4. held \/ ~held
  OBVIOUS
<1>5. held <=> x \in Abs!Tracked
  OBVIOUS
<1> HIDE DEF held
<1>6. CASE held
  BY <1>1, <1>2, <1>5, <1>6
<1>7. CASE ~held
  BY <1>1, <1>3, <1>5, <1>7
<1> QED
  BY <1>4, <1>6, <1>7

(* An address in a slot may be answered for.                               *)
LEMMA Seen ==
    ASSUME RefInv, NEW s \in Slot, ip[s] \in Ip
    PROVE  TRUE \in Abs!Truth(ip[s])
<1>1. View
  BY ViewHolds DEF RefInv
<1> SUFFICES ASSUME ip[s] \notin Busy PROVE ip[s] \in Abs!Tracked
  BY TruthIs
<1>2. Entry(s) = ip[s]
  <2>1. CASE ~Writing(s)
    BY <1>1, <2>1 DEF View
  <2>2. ASSUME NEW t \in Marker, pc[t] = "insert", at[t] = s PROVE FALSE
    <3>1. client_ip[t] \in Busy /\ gone[t] \subseteq Busy
      BY <1>1, <2>2 DEF View
    <3>2. ip[s] = client_ip[t] \/ ip[s] \in gone[t] \cup {NoIp}
      BY <2>2 DEF RefInv, Inv, Stores, Going
    <3> QED
      BY <3>1, <3>2, NoneAssumption
  <2>3. ASSUME NEW t \in Clearer, pc[t] = "wipe", at[t] = s PROVE FALSE
    <3>1. client_ip[t] \in Busy
      BY <1>1, <2>3 DEF View
    <3>2. ip[s] = client_ip[t] \/ ip[s] = NoIp
      BY <2>3 DEF RefInv, Inv, Stores, Going
    <3> QED
      BY <3>1, <3>2, NoneAssumption
  <2> QED
    BY <2>1, <2>2, <2>3 DEF Writing, RefInv, Inv, Roles
<1> QED
  BY <1>1, <1>2, NoneAssumption DEF View

(* A tracked client that nobody writes about has a slot.                   *)
LEMMA HasSlot ==
    ASSUME RefInv, NEW x \in Ip, x \in Abs!Tracked, x \notin Busy
    PROVE  \E s \in Slot : Kept(x, s)
<1>1. View
  BY ViewHolds DEF RefInv
<1>2. PICK s \in Slot : Entry(s) = x
  BY <1>1 DEF View
<1>3. ~Writing(s)
  <2>1. \A t \in Marker : ~(pc[t] = "insert" /\ at[t] = s)
    BY <1>1, <1>2 DEF View
  <2>2. \A t \in Clearer : ~(pc[t] = "wipe" /\ at[t] = s)
    BY <1>1, <1>2, NoneAssumption DEF View
  <2> QED
    BY <2>1, <2>2 DEF Writing, RefInv, Inv, Roles
<1>4. ip[s] = x
  BY <1>1, <1>2, <1>3 DEF View
<1>5. is_allocated[s]
  BY <1>3, <1>4, NoneAssumption DEF RefInv, Inv, Stores, Whole
<1> QED
  BY <1>3, <1>4, <1>5 DEF Kept

(* All lookups, in a step of a Locker.                                     *)
LEMMA LookupsKept ==
    ASSUME RefInv, NEW t \in Locker, OthersStay(t),
           Abs!Observe \/ (Window' = Window /\ Busy' = Busy /\ may' = may),
           \A x : \A s \in Slot : Kept(x, s) => Kept(x, s)' \/ x \in Busy'
    PROVE  Lookups' /\ Status' = Status /\ Target' = Target
<1>1. \A q \in Scanner : /\ pc'[q] = pc[q] /\ client_ip'[q] = client_ip[q]
                         /\ at'[q] = at[q] /\ todo'[q] = todo[q]
  BY ThreadAssumption DEF OthersStay
<1>2. ASSUME NEW q \in Scanner PROVE Lookup(q)'
  BY <1>1, LookupKept
<1>3. Status' = Status /\ Target' = Target
  BY <1>1 DEF Status, Target
<1> QED
  BY <1>2, <1>3 DEF Lookups

(* A step of a Locker that no writer and no slot notices, with or without  *)
(* an observation, is a stutter.                                           *)
LEMMA QuietLocker ==
    ASSUME RefInv, Inv', NEW t \in Locker, OthersStay(t), index' = index, WritersStay, SlotsStay,
           may' = may \/ Abs!Observe
    PROVE  RefInv' /\ UNCHANGED Abs!vars
<1>1. /\ Window' = Window /\ Busy' = Busy /\ Going'
      /\ \A x : \A s \in Slot : Kept(x, s) => Kept(x, s)'
  BY Quiet
<1>2. Lookups' /\ Status' = Status /\ Target' = Target
  BY <1>1, LookupsKept
<1>3. UNCHANGED Abs!vars
  <2>1. CASE may' = may
    BY <1>1, <1>2, <2>1 DEF Abs!vars
  <2>2. CASE Abs!Observe
    BY <1>1, <1>2, <2>2, NothingNew
  <2> QED
    BY <2>1, <2>2
<1> QED
  BY <1>1, <1>2, <1>3 DEF RefInv

-----------------------------------------------------------------------------
(* The steps of the two writers.                                           *)

LEMMA CallRefines ==
    ASSUME RefInv, NEW t \in Locker, NEW x \in Ip, NEW m \in Mac, Call(t, x, m)
    PROVE  RefInv' /\ UNCHANGED Abs!vars
<1>1. Inv'
  BY CallStep DEF RefInv
<1>2. /\ OthersStay(t) /\ UNCHANGED <<slotVars, index, at, todo, gone, may>>
      /\ pc[t] = "idle" /\ pc'[t] = "lock"
  BY DEF Call, Goto, RefInv, Inv, TypeOK, OthersStay
<1>3. WritersStay /\ SlotsStay
  BY <1>2 DEF WritersStay, SlotsStay, OthersStay, slotVars
<1> QED
  BY <1>1, <1>2, <1>3, QuietLocker

LEMMA LockRefines ==
    ASSUME RefInv, NEW t \in Locker, Lock(t)
    PROVE  RefInv' /\ UNCHANGED Abs!vars
<1>1. Inv'
  BY LockStep DEF RefInv
<1>2. /\ OthersStay(t) /\ UNCHANGED <<slotVars, index, at, todo, gone, may>>
      /\ pc[t] = "lock" /\ pc'[t] = "search"
  BY DEF Lock, Goto, RefInv, Inv, TypeOK, OthersStay
<1>3. WritersStay /\ SlotsStay
  BY <1>2 DEF WritersStay, SlotsStay, OthersStay, slotVars
<1> QED
  BY <1>1, <1>2, <1>3, QuietLocker

(* A store is no step of ClientWindow: the slot counts as changed already. *)
LEMMA StoreRefines ==
    ASSUME RefInv, NEW t \in Locker, NEW f \in Field, Store(t, f)
    PROVE  RefInv' /\ UNCHANGED Abs!vars
<1>1. Inv'
  BY StoreStep DEF RefInv
<1> DEFINE a == at[t]
<1>2. /\ UNCHANGED <<index, pc, client_ip, client_mac, at, gone, may>>
      /\ pc[t] \in {"bind", "insert", "wipe"} /\ f \in todo[t] /\ a \in Slot
      /\ \A u \in Thread \ {t} : todo'[u] = todo[u]
      /\ todo'[t] = todo[t] \ {f}
  BY DEF Store, RefInv, Inv, TypeOK
<1>3. \A s \in Slot :
         /\ f # "ip" \/ s # a => ip'[s] = ip[s]
         /\ f # "is_allocated" \/ s # a => is_allocated'[s] = is_allocated[s]
  BY DEF Store, RefInv, Inv, TypeOK
<1>4. \A u \in Locker : InCritical(u) => u = t
  BY <1>2 DEF RefInv, Inv, Exclusion, InCritical
<1>5. pc[t] = "bind" => f = "mac"
  BY <1>2 DEF RefInv, Inv, Stores
<1> HIDE DEF a
<1>6. OthersStay(t)
  BY <1>2 DEF OthersStay
<1>7. SlotsStay
  <2>1. ASSUME NEW s \in Slot, ~Writing(s), pc[t] # "bind" PROVE s # a
    BY <1>2, <2>1 DEF Writing, a
  <2> QED
    BY <1>3, <1>5, <2>1 DEF SlotsStay
<1>8. WritersStay
  <2>1. ASSUME NEW u \in Locker, pc[u] \in {"insert", "wipe"}
        PROVE  "ip" \in todo'[u] => "ip" \in todo[u] /\ ip'[at[u]] = ip[at[u]]
    <3>1. u = t
      BY <1>4, <2>1 DEF InCritical
    <3>2. "ip" \in todo'[t] => f # "ip" /\ "ip" \in todo[t]
      BY <1>2
    <3> QED
      BY <1>2, <1>3, <3>1, <3>2 DEF a
  <2> QED
    BY <1>2, <2>1 DEF WritersStay
<1> QED
  BY <1>1, <1>2, <1>6, <1>7, <1>8, QuietLocker

(* With the search done a registration has happened, or only its MAC is to *)
(* be replaced.                                                            *)
LEMMA MarkSearchRefines ==
    ASSUME RefInv, NEW t \in Marker, MarkSearch(t)
    PROVE  RefInv' /\ [Abs!Next]_Abs!vars
<1>1. Inv'
  BY MarkSearchStep DEF RefInv
<1>2. /\ UNCHANGED <<slotVars, index, lock, client_ip, client_mac>>
      /\ pc[t] = "search" /\ Abs!Observe
  BY DEF MarkSearch
<1>3. OthersStay(t)
  BY <1>2, MarkSearchCases DEF RefInv, Inv, TypeOK, OthersStay
<1>4. \A u \in Locker : pc[u] \notin {"insert", "wipe"}
  BY <1>2 DEF RefInv, Inv, Exclusion, InCritical
<1>5. \A s \in Slot : ~Writing(s) /\ Whole(s)
  BY <1>2, SearchWhole DEF RefInv
<1> DEFINE x == client_ip[t]
<1>6. x \in Ip
  BY <1>2 DEF RefInv, Inv, Arguments
<1>7. CASE pc' = [pc EXCEPT ![t] = "bind"]
  <2>1. WritersStay
    BY <1>3, <1>4, <1>7 DEF WritersStay, OthersStay, RefInv, Inv, TypeOK
  <2>2. SlotsStay
    BY <1>2 DEF SlotsStay, slotVars
  <2> QED
    BY <1>1, <1>2, <1>3, <2>1, <2>2, QuietLocker
<1>8. CASE /\ \A s \in Slot : ~(is_allocated[s] /\ ip[s] = x)
           /\ at' = [at EXCEPT ![t] = index]
           /\ pc' = [pc EXCEPT ![t] = "insert"]
           /\ gone' = [gone EXCEPT ![t] = IF is_allocated[index] THEN {ip[index]} ELSE {}]
  <2>1. /\ index \in Slot /\ at'[t] = index /\ pc'[t] = "insert"
        /\ gone'[t] = IF is_allocated[index] THEN {ip[index]} ELSE {}
    BY <1>8 DEF RefInv, Inv, TypeOK
  <2>2. /\ ip' = ip /\ is_allocated' = is_allocated /\ index' = index /\ client_ip' = client_ip
    BY <1>2 DEF slotVars
  <2>3. View /\ View'
    BY <1>1, ViewHolds DEF RefInv
  <2>4. \A u \in Locker : u # t => pc'[u] \notin {"insert", "wipe"}
    BY <1>3, <1>4 DEF OthersStay
  <2>5. \A s \in Slot : Writing(s)' <=> s = index
    BY <2>1, <2>4 DEF Writing
  <2>6. \A s \in Slot : Entry(s) = ip[s]
    BY <1>5, <2>3 DEF View
  <2>7. \A s \in Slot : Entry(s)' = IF s = index THEN x ELSE ip[s]
    <3>1. Entry(index)' = x
      BY <2>1, <2>2, <2>3 DEF View
    <3> QED
      BY <2>2, <2>3, <2>5, <3>1 DEF View
  <2>8. /\ Busy = {} /\ NextIndex = index
    BY <1>4, <2>3 DEF View
  <2>9. NextIndex' = (index + 1) % N
    BY <2>1, <2>2, <2>3 DEF View
  <2>10. Busy' = {x, ip[index]} \ {NoIp}
    <3>1. Busy' = {x} \cup gone'[t]
      BY <2>1, <2>2, <2>3 DEF View
    <3>2. is_allocated[index] <=> ip[index] # NoIp
      BY <1>5, <2>1 DEF Whole
    <3> QED
      BY <1>6, <2>1, <3>1, <3>2, NoneAssumption
  <2>11. Going'
    <3>1. \A u \in Marker : pc'[u] = "insert" => u = t
      BY <2>4
    <3>2. \A u \in Clearer : pc'[u] # "wipe"
      BY <2>1, <2>4
    <3>3. ip'[at'[t]] \in gone'[t] \cup {NoIp}
      BY <1>5, <2>1, <2>2 DEF Whole
    <3> QED
      BY <3>1, <3>2, <3>3 DEF Going
  <2>12. \A y : \A s \in Slot : Kept(y, s) => Kept(y, s)' \/ y \in Busy'
    <3>1. ASSUME NEW y, NEW s \in Slot, Kept(y, s), s = index PROVE y \in Busy'
      BY <1>5, <2>10, <3>1 DEF Kept, Whole
    <3> QED
      BY <2>2, <2>5, <3>1 DEF Kept
  <2>13. Lookups' /\ Status' = Status /\ Target' = Target
    BY <1>2, <1>3, <2>12, LookupsKept
  <2>14. x \notin Abs!Tracked
    BY <1>5, <1>6, <1>8, <2>3, <2>6, NoneAssumption DEF View, Whole
  <2>15. Window' = [k \in 1..N |-> IF k = N THEN x ELSE Window[k + 1]]
    <3>1. Window' = [k \in 1..N |-> Entry((NextIndex + k - 1) % N)']
      BY DEF Window
    <3>2. ASSUME NEW k \in 1..N
          PROVE  Entry((NextIndex + k - 1) % N)' = IF k = N THEN x ELSE Window[k + 1]
      <4>1. (index + 1) % N \in Slot
        BY <2>1, Moved
      <4>2. PICK s \in Slot : s = (((index + 1) % N) + k - 1) % N
        BY <4>1, Places
      <4>3. Entry((NextIndex + k - 1) % N)' = Entry(s)'
        BY <2>9, <4>2
      <4>4. CASE k = N
        BY <2>1, <2>7, <4>2, <4>3, <4>4, Moved
      <4>5. CASE k # N
        <5>1. k + 1 \in 1..N /\ Window[k + 1] = Entry((index + (k + 1) - 1) % N)
          BY <2>8, <4>5, NAssumption DEF Window
        <5>2. s = (index + (k + 1) - 1) % N /\ s # index
          BY <2>1, <4>2, <4>5, Moved
        <5>3. Window[k + 1] = ip[s]
          BY <2>6, <5>1, <5>2
        <5> QED
          BY <2>7, <4>3, <4>5, <5>2, <5>3
      <4> QED
        BY <4>4, <4>5
    <3> QED
      BY <3>1, <3>2
  <2>16. Window[1] = ip[index]
    <3>1. 1 \in 1..N /\ index + 1 - 1 = index /\ index % N = index
      BY <2>1, NAssumption
    <3> QED
      BY <2>1, <2>6, <2>8, <3>1 DEF Window
  <2>17. Abs!Insert(x)
    BY <1>2, <2>8, <2>10, <2>13, <2>14, <2>15, <2>16 DEF Abs!Insert
  <2> QED
    BY <1>1, <1>6, <2>11, <2>13, <2>17 DEF Abs!Next, RefInv
<1> QED
  BY <1>7, <1>8, MarkSearchCases DEF RefInv, Inv, TypeOK

(* With the search done a removal has happened, or there is nothing to     *)
(* remove.                                                                 *)
LEMMA ClearSearchRefines ==
    ASSUME RefInv, NEW t \in Clearer, ClearSearch(t)
    PROVE  RefInv' /\ [Abs!Next]_Abs!vars
<1>1. Inv'
  BY ClearSearchStep DEF RefInv
<1>2. /\ UNCHANGED <<slotVars, index, lock, client_ip, client_mac, gone>>
      /\ pc[t] = "search" /\ Abs!Observe
  BY DEF ClearSearch
<1>3. OthersStay(t)
  BY <1>2, ClearSearchCases DEF RefInv, Inv, TypeOK, OthersStay
<1>4. \A u \in Locker : pc[u] \notin {"insert", "wipe"}
  BY <1>2 DEF RefInv, Inv, Exclusion, InCritical
<1>5. \A s \in Slot : ~Writing(s) /\ Whole(s)
  BY <1>2, SearchWhole DEF RefInv
<1> DEFINE x == client_ip[t]
<1>6. x \in Ip
  BY <1>2 DEF RefInv, Inv, Arguments
<1>7. CASE pc' = [pc EXCEPT ![t] = "leave"]
  <2>1. WritersStay
    BY <1>3, <1>4, <1>7 DEF WritersStay, OthersStay, RefInv, Inv, TypeOK
  <2>2. SlotsStay
    BY <1>2 DEF SlotsStay, slotVars
  <2> QED
    BY <1>1, <1>2, <1>3, <2>1, <2>2, QuietLocker
<1>8. ASSUME NEW a \in Slot, is_allocated[a], ip[a] = x,
             at' = [at EXCEPT ![t] = a], pc' = [pc EXCEPT ![t] = "wipe"]
      PROVE  RefInv' /\ [Abs!Next]_Abs!vars
  <2>1. at'[t] = a /\ pc'[t] = "wipe"
    BY <1>8 DEF RefInv, Inv, TypeOK
  <2>2. /\ ip' = ip /\ is_allocated' = is_allocated /\ index' = index /\ client_ip' = client_ip
    BY <1>2 DEF slotVars
  <2>3. View /\ View'
    BY <1>1, ViewHolds DEF RefInv
  <2>4. \A u \in Locker : u # t => pc'[u] \notin {"insert", "wipe"}
    BY <1>3, <1>4 DEF OthersStay
  <2>5. \A s \in Slot : Writing(s)' <=> s = a
    BY <2>1, <2>4 DEF Writing
  <2>6. \A s \in Slot : Entry(s) = ip[s]
    BY <1>5, <2>3 DEF View
  <2>7. \A s \in Slot : ip[s] = x => s = a
    BY <1>6, <1>8, NoneAssumption DEF RefInv, Inv, Distinct
  <2>8. \A s \in Slot : Entry(s)' = IF s = a THEN NoIp ELSE ip[s]
    <3>1. Entry(a)' = NoIp
      BY <2>1, <2>3 DEF View
    <3> QED
      BY <2>2, <2>3, <2>5, <3>1 DEF View
  <2>9. Busy = {} /\ Busy' = {x}
    BY <1>4, <2>1, <2>2, <2>3 DEF View
  <2>10. NextIndex' = NextIndex /\ NextIndex \in Slot
    <3>1. \A u \in Marker : u # t
      BY ThreadAssumption
    <3>2. \A u \in Marker : pc[u] # "insert" /\ pc'[u] # "insert"
      BY <1>4, <2>4, <3>1
    <3> QED
      BY <2>2, <2>3, <3>2 DEF View
  <2>11. Going'
    <3>1. \A u \in Marker : pc'[u] # "insert"
      BY <2>1, <2>4
    <3>2. \A u \in Clearer : pc'[u] = "wipe" => u = t
      BY <2>4
    <3> QED
      BY <1>8, <2>1, <2>2, <3>1, <3>2 DEF Going
  <2>12. \A y : \A s \in Slot : Kept(y, s) => Kept(y, s)' \/ y \in Busy'
    BY <1>8, <2>2, <2>5, <2>9 DEF Kept
  <2>13. Lookups' /\ Status' = Status /\ Target' = Target
    BY <1>2, <1>3, <2>12, LookupsKept
  <2>14. x \in Abs!Tracked
    BY <1>6, <1>8, <2>3, <2>6, NoneAssumption DEF View
  <2>15. Window' = [k \in 1..N |-> IF Window[k] = x THEN NoIp ELSE Window[k]]
    <3>1. Window' = [k \in 1..N |-> Entry((NextIndex + k - 1) % N)']
      BY DEF Window
    <3>2. ASSUME NEW k \in 1..N
          PROVE  Entry((NextIndex + k - 1) % N)' = IF Window[k] = x THEN NoIp ELSE Window[k]
      <4>1. PICK s \in Slot : s = (NextIndex + k - 1) % N
        BY <2>10, Places
      <4>2. Entry((NextIndex + k - 1) % N)' = Entry(s)'
        BY <2>10, <4>1
      <4>3. Window[k] = ip[s]
        BY <2>6, <4>1 DEF Window
      <4> QED
        BY <1>8, <2>7, <2>8, <4>2, <4>3
    <3> QED
      BY <3>1, <3>2
  <2>16. Abs!Erase(x)
    BY <1>2, <2>9, <2>13, <2>14, <2>15 DEF Abs!Erase
  <2> QED
    BY <1>1, <1>6, <2>11, <2>13, <2>16 DEF Abs!Next, RefInv
<1> QED
  BY <1>7, <1>8, ClearSearchCases DEF RefInv, Inv, TypeOK

(* Giving the lock back settles a registration or a removal.               *)
LEMMA UnlockRefines ==
    ASSUME RefInv, NEW t \in Locker, Unlock(t)
    PROVE  RefInv' /\ [Abs!Next]_Abs!vars
<1>1. Inv'
  BY UnlockStep DEF RefInv
<1>2. /\ UNCHANGED <<slotVars, todo>> /\ Abs!Observe
      /\ pc[t] \in {"bind", "insert", "wipe", "leave"} /\ todo[t] = {}
      /\ pc'[t] = "idle"
      /\ index' = IF pc[t] = "insert" THEN (index + 1) % N ELSE index
      /\ OthersStay(t)
  BY DEF Unlock, Unlocks, IndexAfter, Goto, RefInv, Inv, TypeOK, OthersStay
<1>3. \A u \in Locker : InCritical(u) => u = t
  BY <1>2 DEF RefInv, Inv, Exclusion, InCritical
<1>4. \A u \in Locker : pc'[u] \notin {"insert", "wipe"}
  BY <1>2, <1>3 DEF InCritical, OthersStay
<1>5. SlotsStay
  BY <1>2 DEF SlotsStay, slotVars
<1>6. CASE pc[t] \in {"bind", "leave"}
  <2>1. \A u \in Locker : pc[u] \notin {"insert", "wipe"}
    BY <1>3, <1>6 DEF InCritical
  <2>2. WritersStay
    BY <1>4, <2>1 DEF WritersStay
  <2> QED
    BY <1>1, <1>2, <1>5, <1>6, <2>2, QuietLocker
<1>7. CASE pc[t] \in {"insert", "wipe"}
  <2>1. View /\ View'
    BY <1>1, ViewHolds DEF RefInv
  <2>2. /\ pc[t] = "insert" => t \in Marker
        /\ pc[t] = "wipe" => t \in Clearer
    BY DEF RefInv, Inv, Roles
  <2>3. \A s \in Slot : ~Writing(s)'
    BY <1>4 DEF Writing
  <2>4. \A s \in Slot : Writing(s) => s = at[t]
    BY <1>3 DEF Writing, InCritical
  <2>5. ip' = ip /\ is_allocated' = is_allocated /\ at[t] \in Slot
    BY <1>2 DEF slotVars, RefInv, Inv, TypeOK
  <2>6. Entry(at[t]) = ip[at[t]]
    BY <1>2, <1>7, <2>1, <2>2 DEF View, RefInv, Inv, Stores
  <2>7. \A s \in Slot : Entry(s)' = Entry(s)
    BY <2>1, <2>3, <2>4, <2>5, <2>6 DEF View
  <2>8. NextIndex' = NextIndex
    <3>1. NextIndex' = index'
      BY <1>4, <2>1 DEF View
    <3>2. CASE pc[t] = "insert"
      BY <1>2, <2>1, <2>2, <3>1, <3>2 DEF View
    <3>3. CASE pc[t] = "wipe"
      <4>1. \A u \in Marker : pc[u] # "insert"
        BY <1>3, <3>3 DEF InCritical
      <4> QED
        BY <1>2, <2>1, <3>1, <3>3, <4>1 DEF View
    <3> QED
      BY <1>7, <3>2, <3>3
  <2>9. Window' = Window
    BY <1>1, <2>7, <2>8, SameWindow DEF RefInv
  <2>10. Busy # {} /\ Busy' = {}
    BY <1>4, <1>7, <2>1, <2>2 DEF View
  <2>11. Going'
    BY <1>4 DEF Going
  <2>12. \A y : \A s \in Slot : Kept(y, s) => Kept(y, s)'
    BY <2>3, <2>5 DEF Kept
  <2>13. Lookups' /\ Status' = Status /\ Target' = Target
    BY <1>2, <2>12, LookupsKept
  <2>14. Abs!Settle
    BY <1>2, <2>9, <2>10, <2>13 DEF Abs!Settle
  <2> QED
    BY <1>1, <2>11, <2>13, <2>14 DEF Abs!Next, RefInv
<1> QED
  BY <1>2, <1>6, <1>7

-----------------------------------------------------------------------------
(* The steps of the lookups.                                               *)

(* A lookup changes nothing but its own state, and the other lookups see   *)
(* nothing new.                                                            *)
LEMMA OneLookup ==
    ASSUME RefInv, NEW q \in Scanner,
           (\E x \in Ip : CallScan(q, x)) \/ (\E f \in Field : Read(q, f)) \/ Return(q)
    PROVE  /\ Inv' /\ Going' /\ Abs!Observe
           /\ ip' = ip /\ is_allocated' = is_allocated
           /\ Window' = Window /\ Busy' = Busy
           /\ \A x : \A s \in Slot : Kept(x, s) => Kept(x, s)'
           /\ \A r \in Scanner \ {q} : Lookup(r)' /\ pc'[r] = pc[r] /\ client_ip'[r] = client_ip[r]
<1>1. Inv'
  BY LookupStep DEF RefInv
<1>2. UNCHANGED <<slotVars, index, gone>> /\ Abs!Observe
  BY DEF CallScan, Read, Return
<1>3. \A t \in Thread \ {q} : /\ pc'[t] = pc[t] /\ client_ip'[t] = client_ip[t]
                             /\ at'[t] = at[t] /\ todo'[t] = todo[t]
  BY DEF CallScan, Read, Return, Leave, Goto, RefInv, Inv, TypeOK
<1>4. \A t \in Locker : t # q
  BY ThreadAssumption
<1>5. WritersStay /\ SlotsStay
  BY <1>2, <1>3, <1>4 DEF WritersStay, SlotsStay, slotVars
<1>6. /\ Window' = Window /\ Busy' = Busy /\ Going'
      /\ \A x : \A s \in Slot : Kept(x, s) => Kept(x, s)'
  BY <1>1, <1>2, <1>5, Quiet
<1>7. ASSUME NEW r \in Scanner \ {q}
      PROVE  Lookup(r)' /\ pc'[r] = pc[r] /\ client_ip'[r] = client_ip[r]
  BY <1>2, <1>3, <1>6, LookupKept
<1> QED
  BY <1>1, <1>2, <1>6, <1>7 DEF slotVars

LEMMA CallScanRefines ==
    ASSUME RefInv, NEW q \in Scanner, NEW x \in Ip, CallScan(q, x)
    PROVE  RefInv' /\ [Abs!Next]_Abs!vars
<1>1. /\ Inv' /\ Going' /\ Abs!Observe /\ Window' = Window /\ Busy' = Busy
      /\ \A y : \A s \in Slot : Kept(y, s) => Kept(y, s)'
      /\ \A r \in Scanner \ {q} : Lookup(r)' /\ pc'[r] = pc[r] /\ client_ip'[r] = client_ip[r]
  BY OneLookup
<1>2. /\ pc[q] = "idle" /\ pc'[q] = "scan" /\ client_ip'[q] = x
      /\ at'[q] = 0 /\ todo'[q] = {"ip", "is_allocated"}
  BY DEF CallScan, Goto, RefInv, Inv, TypeOK
<1>3. may'[q] = Abs!Truth(x)
  <2>1. may'[q] = Abs!Truth(client_ip[q])'
    BY <1>1, <1>2, Observed
  <2>2. Abs!Truth(client_ip[q])' = Abs!Truth(x)
    BY <1>1, <1>2 DEF Abs!Truth, Abs!Tracked
  <2> QED
    BY <2>1, <2>2
<1>4. Lookup(q)'
  <2>1. Abs!Truth(client_ip[q])' = Abs!Truth(x)
    BY <1>1, <1>2 DEF Abs!Truth, Abs!Tracked
  <2>2. ASSUME FALSE \notin may'[q]
        PROVE  \E s \in Slot : at'[q] <= s /\ Kept(client_ip[q], s)'
    <3>1. x \in Abs!Tracked /\ x \notin Busy
      BY <1>3, <2>2, TruthIs
    <3>2. PICK s \in Slot : Kept(x, s)
      BY <3>1, HasSlot
    <3>3. Kept(client_ip[q], s)'
      BY <1>1, <1>2, <3>2 DEF Kept
    <3> QED
      BY <1>2, <3>3
  <2> QED
    BY <1>2, <1>3, <2>1, <2>2 DEF Lookup
<1>5. Status' = [Status EXCEPT ![q] = "scan"] /\ Target' = [Target EXCEPT ![q] = x]
  BY <1>1, <1>2 DEF Status, Target
<1>6. Abs!Ask(q, x)
  BY <1>1, <1>2, <1>5 DEF Abs!Ask, Status
<1> QED
  BY <1>1, <1>4, <1>6 DEF Abs!Next, RefInv, Lookups

(* A lookup that ends with b may give that answer.                         *)
LEMMA Answered ==
    ASSUME RefInv, NEW q \in Scanner, NEW f \in Field, Read(q, f), NEW b \in BOOLEAN,
           pc'[q] = IF b THEN "yes" ELSE "no", client_ip' = client_ip, b \in may[q]
    PROVE  RefInv' /\ [Abs!Next]_Abs!vars
<1>1. /\ Inv' /\ Going' /\ Abs!Observe /\ Window' = Window /\ Busy' = Busy
      /\ \A r \in Scanner \ {q} : Lookup(r)' /\ pc'[r] = pc[r] /\ client_ip'[r] = client_ip[r]
  BY OneLookup
<1>2. pc[q] = "scan"
  BY DEF Read
<1>3. Lookup(q)'
  BY <1>1, Observed DEF Lookup
<1>4. Status' = [Status EXCEPT ![q] = IF b THEN "yes" ELSE "no"] /\ Target' = Target
  BY <1>1 DEF Status, Target
<1>5. Abs!Answer(q, b)
  BY <1>1, <1>2, <1>4 DEF Abs!Answer, Status
<1> QED
  BY <1>1, <1>3, <1>5 DEF Abs!Next, RefInv, Lookups

LEMMA ReadRefines ==
    ASSUME RefInv, NEW q \in Scanner, NEW f \in Field, Read(q, f)
    PROVE  RefInv' /\ [Abs!Next]_Abs!vars
<1> DEFINE x == client_ip[q]
<1>1. /\ Inv' /\ Going' /\ Abs!Observe /\ Window' = Window /\ Busy' = Busy
      /\ \A y : \A s \in Slot : Kept(y, s) => Kept(y, s)'
      /\ \A r \in Scanner \ {q} : Lookup(r)' /\ pc'[r] = pc[r] /\ client_ip'[r] = client_ip[r]
  BY OneLookup
<1>2. pc[q] = "scan" /\ f \in todo[q] /\ client_ip' = client_ip /\ at[q] \in Slot
  BY DEF Read, RefInv, Inv, TypeOK
<1>3. /\ x \in Ip
      /\ Abs!Truth(x) \subseteq may[q]
      /\ "ip" \notin todo[q] => TRUE \in may[q]
      /\ FALSE \notin may[q] => \E s \in Slot : at[q] <= s /\ Kept(x, s)
  BY <1>2 DEF RefInv, Lookups, Lookup
<1>4. Holds(q, f) /\ f = "ip" => TRUE \in may[q]
  <2>1. ASSUME Holds(q, f), f = "ip" PROVE TRUE \in may[q]
    <3>1. ip[at[q]] = x
      BY <2>1 DEF Holds
    <3> QED
      BY <1>2, <1>3, <3>1, Seen
  <2> QED
    BY <2>1
<1>5. ~Holds(q, f) => ~Kept(x, at[q])
  BY DEF Holds, Kept
(* The lookup goes on. *)
<1>6. ASSUME pc' = pc, "ip" \notin todo'[q] => TRUE \in may[q],
             FALSE \notin may[q] => \E s \in Slot : at'[q] <= s /\ Kept(x, s)
      PROVE  RefInv' /\ [Abs!Next]_Abs!vars
  <2>1. Status' = Status /\ Target' = Target
    BY <1>2, <1>6 DEF Status, Target
  <2>2. UNCHANGED Abs!vars
    BY <1>1, <2>1, NothingNew
  <2>3. may' = may
    BY <2>2 DEF Abs!vars
  <2>4. Abs!Truth(client_ip[q])' = Abs!Truth(x)
    BY <1>1, <1>2 DEF Abs!Truth, Abs!Tracked
  <2>5. \A s \in Slot : Kept(x, s) => Kept(client_ip[q], s)'
    BY <1>1, <1>2 DEF Kept
  <2>6. Lookup(q)'
    BY <1>2, <1>3, <1>6, <2>3, <2>4, <2>5 DEF Lookup
  <2> QED
    BY <1>1, <2>2, <2>6 DEF RefInv, Lookups
<1>7. CASE Holds(q, f) /\ todo[q] # {f} /\ todo' = [todo EXCEPT ![q] = @ \ {f}] /\ UNCHANGED <<pc, at>>
  <2>1. todo'[q] = todo[q] \ {f}
    BY <1>7 DEF RefInv, Inv, TypeOK
  <2> QED
    BY <1>3, <1>4, <1>6, <1>7, <2>1
<1>8. CASE Holds(q, f) /\ todo[q] = {f} /\ Goto(q, "yes")
  <2>1. TRUE \in may[q]
    BY <1>3, <1>4, <1>8
  <2>2. pc'[q] = "yes"
    BY <1>8 DEF Goto, RefInv, Inv, TypeOK
  <2> QED
    BY <1>2, <2>1, <2>2, Answered
<1>9. CASE /\ ~Holds(q, f) /\ at[q] # LastSlot /\ UNCHANGED pc
           /\ at' = [at EXCEPT ![q] = (@ + 1) % N]
           /\ todo' = [todo EXCEPT ![q] = {"ip", "is_allocated"}]
  <2>1. todo'[q] = {"ip", "is_allocated"} /\ at'[q] = (at[q] + 1) % N
    BY <1>9 DEF RefInv, Inv, TypeOK
  <2>2. (at[q] + 1) % N = at[q] + 1
    <3>1. 1 \in 0..N /\ at[q] + 1 < N
      BY <1>2, <1>9, NAssumption DEF LastSlot
    <3> QED
      BY <1>2, <3>1, Turn
  <2>3. \A s \in Slot : at[q] <= s /\ Kept(x, s) => at'[q] <= s
    <3>1. \A s \in Slot : at[q] <= s /\ s # at[q] => at[q] + 1 <= s
      BY <1>2, NAssumption
    <3> QED
      BY <1>5, <1>9, <2>1, <2>2, <3>1
  <2> QED
    BY <1>3, <1>6, <1>9, <2>1, <2>3
<1>10. CASE ~Holds(q, f) /\ at[q] = LastSlot /\ Goto(q, "no")
  <2>1. \A s \in Slot : at[q] <= s => s = at[q]
    BY <1>2, <1>10, NAssumption DEF LastSlot
  <2>2. FALSE \in may[q]
    BY <1>3, <1>5, <1>10, <2>1
  <2>3. pc'[q] = "no"
    BY <1>10 DEF Goto, RefInv, Inv, TypeOK
  <2> QED
    BY <1>2, <2>2, <2>3, Answered
<1> QED
  BY <1>7, <1>8, <1>9, <1>10 DEF Read

LEMMA ReturnRefines ==
    ASSUME RefInv, NEW q \in Scanner, Return(q)
    PROVE  RefInv' /\ [Abs!Next]_Abs!vars
<1>1. /\ Inv' /\ Going' /\ Abs!Observe /\ Window' = Window /\ Busy' = Busy
      /\ \A r \in Scanner \ {q} : Lookup(r)' /\ pc'[r] = pc[r] /\ client_ip'[r] = client_ip[r]
  BY OneLookup
<1>2. pc[q] \in {"yes", "no"} /\ pc'[q] = "idle" /\ client_ip'[q] = NoIp
  BY DEF Return, Goto, RefInv, Inv, TypeOK
<1>3. Lookup(q)'
  BY <1>1, <1>2, Observed DEF Lookup
<1>4. Status' = [Status EXCEPT ![q] = "idle"] /\ Target' = [Target EXCEPT ![q] = NoIp]
  BY <1>1, <1>2 DEF Status, Target
<1>5. Abs!Return(q)
  BY <1>1, <1>2, <1>4 DEF Abs!Return, Status
<1> QED
  BY <1>1, <1>3, <1>5 DEF Abs!Next, RefInv, Lookups

-----------------------------------------------------------------------------
LEMMA RefStep == RefInv /\ [Next]_vars => RefInv' /\ [Abs!Next]_Abs!vars
<1> SUFFICES ASSUME RefInv, [Next]_vars PROVE RefInv' /\ [Abs!Next]_Abs!vars
  OBVIOUS
<1>1. CASE \E t \in Locker, x \in Ip, m \in Mac : Call(t, x, m)
  BY <1>1, CallRefines
<1>2. ASSUME NEW t \in Locker, LockerStep(t) PROVE RefInv' /\ [Abs!Next]_Abs!vars
  BY <1>2, LockRefines, MarkSearchRefines, ClearSearchRefines, StoreRefines, UnlockRefines
     DEF LockerStep
<1>3. CASE \E q \in Scanner, x \in Ip : CallScan(q, x)
  BY <1>3, CallScanRefines
<1>4. ASSUME NEW q \in Scanner, ScannerStep(q) PROVE RefInv' /\ [Abs!Next]_Abs!vars
  BY <1>4, ReadRefines, ReturnRefines DEF ScannerStep
<1>5. CASE UNCHANGED vars
  <2>1. Inv'
    BY InvStep DEF RefInv
  <2>2. WritersStay /\ SlotsStay /\ index' = index /\ may' = may
    BY <1>5 DEF vars, WritersStay, SlotsStay
  <2>3. /\ Window' = Window /\ Busy' = Busy /\ Going'
        /\ \A x : \A s \in Slot : Kept(x, s) => Kept(x, s)'
    BY <2>1, <2>2, Quiet
  <2>4. ASSUME NEW q \in Scanner PROVE Lookup(q)'
    BY <1>5, <2>2, <2>3, LookupKept DEF vars
  <2>5. UNCHANGED Abs!vars
    BY <1>5, <2>3 DEF Abs!vars, Status, Target, vars
  <2> QED
    BY <2>1, <2>3, <2>4, <2>5 DEF RefInv, Lookups
<1> QED
  BY <1>1, <1>2, <1>3, <1>4, <1>5 DEF Next

(* The ring with its spinlock, its loops, its stores in any order and its  *)
(* lookup without a lock is a window of the last N registrations, and a    *)
(* lookup answers as of some moment between its call and its return        *)
(* (SharedState.cpp:234-305).                                              *)
THEOREM Refinement == Spec => ImplementsWindow
<1>1. Init => RefInv /\ Abs!Init
  <2> SUFFICES ASSUME Init PROVE RefInv /\ Abs!Init
    OBVIOUS
  <2>1. Inv
    BY StartInv
  <2>2. View
    BY <2>1, ViewHolds
  <2>3. \A t \in Thread : pc[t] = "idle" /\ client_ip[t] = NoIp
    BY DEF Init
  <2>4. Going
    BY <2>3 DEF Going
  <2>5. Lookups
    BY <2>3 DEF Init, Lookups, Lookup
  <2>6. \A s \in Slot : Entry(s) = NoIp
    BY <2>2, <2>3 DEF Init, View, Writing
  <2>7. Window = [k \in 1..N |-> NoIp]
    <3>1. NextIndex \in Slot
      BY <2>2 DEF View
    <3> QED
      BY <2>6, <3>1, Places DEF Window
  <2>8. Busy = {}
    BY <2>2, <2>3 DEF View
  <2>9. /\ Status = [q \in Scanner |-> "idle"] /\ Target = [q \in Scanner |-> NoIp]
        /\ may = [q \in Scanner |-> {}]
    BY <2>3 DEF Init, Status, Target
  <2> QED
    BY <2>1, <2>4, <2>5, <2>7, <2>8, <2>9 DEF RefInv, Abs!Init
<1> QED
  BY <1>1, RefStep, PTL DEF Spec, ImplementsWindow, Abs!Spec
=============================================================================
