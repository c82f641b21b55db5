----------------------------- MODULE SharedState -----------------------------
(***************************************************************************)
(* The flags of the SharedState singleton (SharedState.cpp): which         *)
(* interfaces are ready, the network mode derived from them, the station's *)
(* address, and what the listeners registered with onEvent were told.  The *)
(* Wi-Fi engine calls the setters, so its module EXTENDS this one.         *)
(*                                                                         *)
(* Granularity.  A setter loads and stores its flag, then calls the        *)
(* listeners, then lets updateAutoMode run: three steps of its caller.     *)
(* Time.  Only one fact about the clock matters: whether 300 ms have gone  *)
(* by since _lastChangeMs was stored.                                      *)
(***************************************************************************)

Setter == {"event", "app"}  \* the tasks that call setStaReady and setApReady

VARIABLES
    staReady, apReady,  \* _isStaReady, _isApReady
    staIP,              \* _active_sta_ip: "none" (0.0.0.0) or "set"
    mode,               \* _mode
    recent,             \* now - _lastChangeMs < 300
    changed,            \* per setter: old # ready
    heard               \* what the listeners were last told of STA and of AP

sharedVars == <<staReady, apReady, staIP, mode, recent, changed, heard>>
NetMode == {"AP", "STA"}

SharedInit ==
    /\ staReady = FALSE /\ apReady = FALSE
    /\ staIP = "none"
    /\ mode = "AP"
    /\ recent = FALSE
    /\ changed = [s \in Setter |-> FALSE]
    /\ heard = [sta |-> FALSE, ap |-> FALSE]

(* The exchange at the head of setStaReady and setApReady. *)
StoreStaReady(s, ready) ==
    /\ staReady' = ready
    /\ changed' = [changed EXCEPT ![s] = staReady # ready]
    /\ UNCHANGED <<apReady, staIP, mode, recent, heard>>

StoreApReady(s, ready) ==
    /\ apReady' = ready
    /\ changed' = [changed EXCEPT ![s] = apReady # ready]
    /\ UNCHANGED <<staReady, staIP, mode, recent, heard>>

(* emit(), if the flag changed, and the stamp that restarts the debounce. *)
EmitSta(s, ready) ==
    /\ heard' = IF changed[s] THEN [heard EXCEPT !.sta = ready] ELSE heard
    /\ recent' = TRUE
    /\ changed' = [changed EXCEPT ![s] = FALSE]
    /\ UNCHANGED <<staReady, apReady, staIP, mode>>

EmitAp(s, ready) ==
    /\ heard' = IF changed[s] THEN [heard EXCEPT !.ap = ready] ELSE heard
    /\ recent' = TRUE
    /\ changed' = [changed EXCEPT ![s] = FALSE]
    /\ UNCHANGED <<staReady, apReady, staIP, mode>>

(* updateAutoMode: nothing within 300 ms of the last change; else STA wins. *)
UpdateAutoMode ==
    /\ \/ recent /\ UNCHANGED mode
       \/ ~recent /\ mode' = IF staReady THEN "STA" ELSE "AP"
    /\ recent' = TRUE
    /\ UNCHANGED <<staReady, apReady, staIP, changed, heard>>

SetStaIP(address) ==
    /\ staIP' = address
    /\ UNCHANGED <<staReady, apReady, mode, recent, changed, heard>>

(* NeuTime::now() goes on. *)
Elapse ==
    /\ recent /\ recent' = FALSE
    /\ UNCHANGED <<staReady, apReady, staIP, mode, changed, heard>>

SharedTypeOK ==
    /\ staReady \in BOOLEAN /\ apReady \in BOOLEAN
    /\ staIP \in {"none", "set"}
    /\ mode \in NetMode
    /\ recent \in BOOLEAN
    /\ changed \in [Setter -> BOOLEAN]
    /\ heard \in [sta : BOOLEAN, ap : BOOLEAN]
=============================================================================
