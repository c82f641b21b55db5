---------------------------- MODULE ClientTracker ----------------------------
(***************************************************************************)
(* The IP-MAC tracker of SharedState (SharedState.cpp): a ring of slots    *)
(* written under a spinlock by the Wi-Fi event task (a DHCP lease was      *)
(* given) and by the HTTP server's handlers (a client passed the portal),  *)
(* and read WITHOUT the lock by the DNS callback of the UDP receive task.  *)
(*                                                                         *)
(* Granularity.  The search of a lock holder is one step: only the holder  *)
(* writes the slots.  Its stores are single steps, because the lookup can  *)
(* see each of them; they are plain fields, so the compiler may emit them  *)
(* in any order, and the lookup's two loads of a slot too.                 *)
(***************************************************************************)
EXTENDS Naturals

CONSTANTS
    N,        \* MAX_TRACKED_CLIENTS
    Ip,       \* the client addresses (never 0: both writers return early on 0)
    Mac,
    NoIp,     \* the 0 of an empty slot
    NoMac,    \* the 00:00:00:00:00:00 of an empty slot
    Marker,   \* tasks that call markClientAsNewAPUser
    Clearer,  \* tasks that call clearClientFromTracker
    Scanner   \* tasks that call isClientRedirectRequired

Slot == 0..N - 1
Locker == Marker \cup Clearer
Thread == Locker \cup Scanner
Field == {"ip", "mac", "is_allocated"}

ASSUME NAssumption == N \in Nat \ {0}
ASSUME NoneAssumption == NoIp \notin Ip /\ NoMac \notin Mac
ASSUME ThreadAssumption ==
    Marker \cap Clearer = {} /\ Locker \cap Scanner = {}

VARIABLES
    ip, mac, is_allocated,  \* the three fields of _tracked_clients[]
    index,                  \* _client_buffer_index
    lock,                   \* _lock_buffer
    pc,                     \* where each thread is in its call
    client_ip, client_mac,  \* the arguments of its call
    at,                     \* the slot it works on, or reads
    todo,                   \* the fields it has yet to store, or to read
    gone,                   \* history: the client an insertion overwrites
    may                     \* history: the answers a lookup may still give

slotVars == <<ip, mac, is_allocated>>
vars == <<ip, mac, is_allocated, index, lock, pc, client_ip, client_mac, at, todo, gone, may>>

-----------------------------------------------------------------------------
(* The ring as it will be once the holder of the lock has stored all.      *)

Inserting(s) == \E t \in Marker : pc[t] = "insert" /\ at[t] = s
Wiping(s) == \E t \in Clearer : pc[t] = "wipe" /\ at[t] = s

Entry(s) ==
    IF Inserting(s)
      THEN client_ip[CHOOSE t \in Marker : pc[t] = "insert" /\ at[t] = s]
      ELSE IF is_allocated[s] /\ ~Wiping(s) THEN ip[s] ELSE NoIp

NextIndex == IF \E t \in Marker : pc[t] = "insert" THEN (index + 1) % N ELSE index

(* Oldest registration first: the ring, from the slot that is used next. *)
Window == [k \in 1..N |-> Entry((NextIndex + k - 1) % N)]

Busy ==
    {client_ip[t] : t \in {u \in Locker : pc[u] \in {"insert", "wipe"}}}
      \cup UNION {gone[t] : t \in {u \in Marker : pc[u] = "insert"}}

Status == [q \in Scanner |-> pc[q]]
Target == [q \in Scanner |-> client_ip[q]]

Abs == INSTANCE ClientWindow
         WITH window <- Window, busy <- Busy, status <- Status, target <- Target

-----------------------------------------------------------------------------
Init ==
    /\ ip = [s \in Slot |-> NoIp]
    /\ mac = [s \in Slot |-> NoMac]
    /\ is_allocated = [s \in Slot |-> FALSE]
    /\ index = 0
    /\ lock = FALSE
    /\ pc = [t \in Thread |-> "idle"]
    /\ client_ip = [t \in Thread |-> NoIp]
    /\ client_mac = [t \in Locker |-> NoMac]
    /\ at = [t \in Thread |-> 0]
    /\ todo = [t \in Thread |-> {}]
    /\ gone = [t \in Marker |-> {}]
    /\ may = [q \in Scanner |-> {}]

Goto(t, label) == pc' = [pc EXCEPT ![t] = label]

(* Fault: a search that gives up at the first free slot. *)
MatchesUpToHole(x) ==
    {s \in Slot : ip[s] = x /\ \A r \in 0..s : is_allocated[r]}

Matches(x) == {s \in Slot : is_allocated[s] /\ ip[s] = x}
First(S) == {s \in S : \A r \in S : s <= r}

-----------------------------------------------------------------------------
(* markClientAsNewAPUser and clearClientFromTracker, up to the lock.       *)
Call(t, x, m) ==
    /\ pc[t] = "idle"
    /\ Goto(t, "lock")
    /\ client_ip' = [client_ip EXCEPT ![t] = x]
    /\ client_mac' = [client_mac EXCEPT ![t] = m]
    /\ UNCHANGED <<slotVars, index, lock, at, todo, gone, may>>

(* Fault: a lock that does not look whether it is taken. *)
LockBlindly(t) ==
    /\ pc[t] = "lock"
    /\ lock' = TRUE
    /\ Goto(t, "search")
    /\ UNCHANGED <<slotVars, index, client_ip, client_mac, at, todo, gone, may>>

(* _lock(): exchange(true) until it returns false. *)
Lock(t) ==
    /\ pc[t] = "lock" /\ ~lock
    /\ lock' = TRUE
    /\ Goto(t, "search")
    /\ UNCHANGED <<slotVars, index, client_ip, client_mac, at, todo, gone, may>>

(* A known client only gets its MAC replaced; a new one takes the slot at  *)
(* the index, whoever is in it.                                            *)
MarkSearch(t) ==
    /\ pc[t] = "search"
    /\ LET known == Matches(client_ip[t])
           old == IF is_allocated[index] THEN {ip[index]} ELSE {}
       IN  \/ /\ \E s \in First(known) : at' = [at EXCEPT ![t] = s]
              /\ todo' = [todo EXCEPT ![t] = {"mac"}]
              /\ Goto(t, "bind")
              /\ UNCHANGED gone
           \/ /\ known = {}
              /\ at' = [at EXCEPT ![t] = index]
              /\ todo' = [todo EXCEPT ![t] = Field]
              /\ Goto(t, "insert")
              /\ gone' = [gone EXCEPT ![t] = old]
    /\ UNCHANGED <<slotVars, index, lock, client_ip, client_mac>>
    /\ Abs!Observe

(* The first slot that holds the client is erased; none is no error. *)
ClearSearch(t) ==
    /\ pc[t] = "search"
    /\ LET known == Matches(client_ip[t])
       IN  \/ /\ \E s \in First(known) : at' = [at EXCEPT ![t] = s]
              /\ todo' = [todo EXCEPT ![t] = Field]
              /\ Goto(t, "wipe")
           \/ /\ known = {}
              /\ Goto(t, "leave")
              /\ UNCHANGED <<at, todo>>
    /\ UNCHANGED <<slotVars, index, lock, client_ip, client_mac, gone>>
    /\ Abs!Observe

(* One store of the holder, to a field not yet stored. *)
Store(t, f) ==
    /\ pc[t] \in {"bind", "insert", "wipe"} /\ f \in todo[t]
    /\ todo' = [todo EXCEPT ![t] = @ \ {f}]
    /\ ip' = IF f # "ip" THEN ip
             ELSE [ip EXCEPT ![at[t]] = IF pc[t] = "wipe" THEN NoIp ELSE client_ip[t]]
    /\ mac' = IF f # "mac" THEN mac
              ELSE [mac EXCEPT ![at[t]] = IF pc[t] = "wipe" THEN NoMac ELSE client_mac[t]]
    /\ is_allocated' = IF f # "is_allocated" THEN is_allocated
                       ELSE [is_allocated EXCEPT ![at[t]] = pc[t] # "wipe"]
    /\ UNCHANGED <<index, lock, pc, client_ip, client_mac, at, gone, may>>

(* Faults: no wrap-around; and an index that moves on at a known client too. *)
IndexUnwrapped(t) == IF pc[t] = "insert" THEN index + 1 ELSE index
IndexAlways(t) == IF pc[t] \in {"insert", "bind"} THEN (index + 1) % N ELSE index

IndexAfter(t) == IF pc[t] = "insert" THEN (index + 1) % N ELSE index

(* Fault: the early return for a known client forgets _unlock(). *)
UnlocksNotEarly == {"insert", "wipe", "leave"}

Unlocks == {"bind", "insert", "wipe", "leave"}

(* All stored: an insertion moves the index on, then _unlock() and return. *)
Unlock(t) ==
    /\ pc[t] \in Unlocks /\ todo[t] = {}
    /\ index' = IndexAfter(t)
    /\ lock' = FALSE
    /\ Goto(t, "idle")
    /\ client_ip' = [client_ip EXCEPT ![t] = NoIp]
    /\ client_mac' = [client_mac EXCEPT ![t] = NoMac]
    /\ at' = [at EXCEPT ![t] = 0]
    /\ gone' = [u \in Marker |-> IF u = t THEN {} ELSE gone[u]]
    /\ UNCHANGED <<slotVars, todo>>
    /\ Abs!Observe

-----------------------------------------------------------------------------
(* isClientRedirectRequired: a lock-free loop over the slots.              *)
CallScan(q, x) ==
    /\ pc[q] = "idle"
    /\ Goto(q, "scan")
    /\ client_ip' = [client_ip EXCEPT ![q] = x]
    /\ at' = [at EXCEPT ![q] = 0]
    /\ todo' = [todo EXCEPT ![q] = {"ip", "is_allocated"}]
    /\ UNCHANGED <<slotVars, index, lock, client_mac, gone>>
    /\ Abs!Observe

LastSlot == N - 1

Holds(q, f) ==
    IF f = "ip" THEN ip[at[q]] = client_ip[q] ELSE is_allocated[at[q]]

Leave(q) ==
    /\ at' = [at EXCEPT ![q] = 0]
    /\ todo' = [todo EXCEPT ![q] = {}]

(* One load.  A field that does not hold sends the loop to the next slot,  *)
(* or ends it; two that do end it with true.                               *)
Read(q, f) ==
    /\ pc[q] = "scan" /\ f \in todo[q]
    /\ \/ /\ Holds(q, f) /\ todo[q] # {f}
          /\ todo' = [todo EXCEPT ![q] = @ \ {f}]
          /\ UNCHANGED <<pc, at>>
       \/ /\ Holds(q, f) /\ todo[q] = {f}
          /\ Goto(q, "yes")
          /\ Leave(q)
       \/ /\ ~Holds(q, f) /\ at[q] # LastSlot
          /\ at' = [at EXCEPT ![q] = (@ + 1) % N]
          /\ todo' = [todo EXCEPT ![q] = {"ip", "is_allocated"}]
          /\ UNCHANGED pc
       \/ /\ ~Holds(q, f) /\ at[q] = LastSlot
          /\ Goto(q, "no")
          /\ Leave(q)
    /\ UNCHANGED <<slotVars, index, lock, client_ip, client_mac, gone>>
    /\ Abs!Observe

Return(q) ==
    /\ pc[q] \in {"yes", "no"}
    /\ Goto(q, "idle")
    /\ client_ip' = [client_ip EXCEPT ![q] = NoIp]
    /\ UNCHANGED <<slotVars, index, lock, client_mac, at, todo, gone>>
    /\ Abs!Observe

-----------------------------------------------------------------------------
(* What a thread does once it is called. *)
LockerStep(t) ==
    \/ Lock(t)
    \/ t \in Marker /\ MarkSearch(t)
    \/ t \in Clearer /\ ClearSearch(t)
    \/ \E f \in Field : Store(t, f)
    \/ Unlock(t)

ScannerStep(q) == (\E f \in Field : Read(q, f)) \/ Return(q)

Next ==
    \/ \E t \in Locker, x \in Ip, m \in Mac : Call(t, x, m)
    \/ \E t \in Locker : LockerStep(t)
    \/ \E q \in Scanner, x \in Ip : CallScan(q, x)
    \/ \E q \in Scanner : ScannerStep(q)

(* A task that runs code is scheduled again; nobody is obliged to call.    *)
Fairness ==
    /\ \A t \in Locker : WF_vars(LockerStep(t))
    /\ \A q \in Scanner : WF_vars(ScannerStep(q))

Spec == Init /\ [][Next]_vars
FairSpec == Spec /\ Fairness

-----------------------------------------------------------------------------
TypeOK ==
    /\ ip \in [Slot -> Ip \cup {NoIp}]
    /\ mac \in [Slot -> Mac \cup {NoMac}]
    /\ is_allocated \in [Slot -> BOOLEAN]
    /\ index \in Slot
    /\ lock \in BOOLEAN
    /\ pc \in [Thread -> {"idle", "lock", "search", "bind", "insert", "wipe", "leave",
                          "scan", "yes", "no"}]
    /\ client_ip \in [Thread -> Ip \cup {NoIp}]
    /\ client_mac \in [Locker -> Mac \cup {NoMac}]
    /\ at \in [Thread -> Slot]
    /\ todo \in [Thread -> SUBSET Field]
    /\ gone \in [Marker -> SUBSET (Ip \cup {NoIp})]
    /\ may \in [Scanner -> SUBSET BOOLEAN]

InCritical(t) == pc[t] \in {"search", "bind", "insert", "wipe", "leave"}

(* No client occupies two slots, at any moment, even between two stores:   *)
(* the loop of clearClientFromTracker stops at the first match, so a       *)
(* second one would redirect the client for ever (SharedState.cpp:290).    *)
NoDuplicate ==
    \A r, s \in Slot :
        is_allocated[r] /\ is_allocated[s] /\ ip[r] = ip[s] /\ ip[r] # NoIp => r = s

(* While nobody holds the lock no slot is half written: the three fields   *)
(* are all set or all zero.                                                *)
BindingsWhole ==
    ~lock => \A s \in Slot :
        /\ is_allocated[s] <=> ip[s] # NoIp
        /\ is_allocated[s] <=> mac[s] # NoMac

(* The ring with its lock, loops and torn reads is the sliding window of   *)
(* the last N registrations, and a lookup answers as of a moment in it.    *)
ImplementsWindow == Abs!Spec

(* Whoever takes the spinlock gives it back, on each of the return paths   *)
(* (SharedState.cpp:246, 257, 297 and 301), and a lookup ends however      *)
(* often the ring changes under it.                                        *)
NothingHangs ==
    /\ lock ~> ~lock
    /\ \A q \in Scanner : pc[q] = "scan" ~> pc[q] # "scan"
=============================================================================
