---------------------------- MODULE ClientWindow ----------------------------
(***************************************************************************)
(* What the client tracker of SharedState promises, without slots, lock or *)
(* loops: it remembers the last N clients that were registered, less those *)
(* that were cleared since; a client is in it at most once; and a lookup,   *)
(* which takes no lock, answers as of some moment between its call and its *)
(* return.  Only about a client whose own registration, removal or         *)
(* eviction is under way during the lookup may the answer be either.       *)
(***************************************************************************)
EXTENDS Naturals

CONSTANTS
    N,       \* how many registrations are remembered
    Ip,      \* client addresses
    NoIp,    \* no address: a place never used, or one that was cleared
    Scanner  \* who looks clients up

VARIABLES
    window,  \* window[N] is the latest registration, window[1] the next to go
    busy,    \* clients whose entry is being written or erased
    status,  \* of each lookup: "idle", "scan", "yes" or "no"
    target,  \* the client each lookup asks about
    may      \* the answers a running lookup may still give

vars == <<window, busy, status, target, may>>

Tracked == {window[k] : k \in 1..N} \ {NoIp}

(* What a lookup of x may answer at this moment. *)
Truth(x) == IF x \in busy THEN BOOLEAN ELSE {(x \in Tracked)}

(* Every lookup that runs on sees the new moment; one that returned is over. *)
Observe ==
    may' = [q \in Scanner |->
              IF status'[q] = "scan"
                THEN (IF status[q] = "scan" THEN may[q] ELSE {}) \cup Truth(target[q])'
                ELSE {}]

Init ==
    /\ window = [k \in 1..N |-> NoIp]
    /\ busy = {}
    /\ status = [q \in Scanner |-> "idle"]
    /\ target = [q \in Scanner |-> NoIp]
    /\ may = [q \in Scanner |-> {}]

(* x is registered: the oldest registration leaves the window. *)
Insert(x) ==
    /\ busy = {} /\ x \notin Tracked
    /\ window' = [k \in 1..N |-> IF k = N THEN x ELSE window[k + 1]]
    /\ busy' = {x, window[1]} \ {NoIp}
    /\ UNCHANGED <<status, target>>
    /\ Observe

(* x is forgotten, and its place in the window stays empty. *)
Erase(x) ==
    /\ busy = {} /\ x \in Tracked
    /\ window' = [k \in 1..N |-> IF window[k] = x THEN NoIp ELSE window[k]]
    /\ busy' = {x}
    /\ UNCHANGED <<status, target>>
    /\ Observe

(* The registration or removal is complete. *)
Settle ==
    /\ busy # {}
    /\ busy' = {}
    /\ UNCHANGED <<window, status, target>>
    /\ Observe

Ask(q, x) ==
    /\ status[q] = "idle"
    /\ status' = [status EXCEPT ![q] = "scan"]
    /\ target' = [target EXCEPT ![q] = x]
    /\ UNCHANGED <<window, busy>>
    /\ Observe

Answer(q, b) ==
    /\ status[q] = "scan" /\ b \in may[q]
    /\ status' = [status EXCEPT ![q] = IF b THEN "yes" ELSE "no"]
    /\ UNCHANGED <<window, busy, target>>
    /\ Observe

Return(q) ==
    /\ status[q] \in {"yes", "no"}
    /\ status' = [status EXCEPT ![q] = "idle"]
    /\ target' = [target EXCEPT ![q] = NoIp]
    /\ UNCHANGED <<window, busy>>
    /\ Observe

Next ==
    \/ \E x \in Ip : Insert(x) \/ Erase(x)
    \/ Settle
    \/ \E q \in Scanner :
         \/ \E x \in Ip : Ask(q, x)
         \/ \E b \in BOOLEAN : Answer(q, b)
         \/ Return(q)

Spec == Init /\ [][Next]_vars
=============================================================================
