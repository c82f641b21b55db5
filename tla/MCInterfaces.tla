---------------------------- MODULE MCInterfaces ----------------------------
(***************************************************************************)
(* An instance of Interfaces: for the station addresses that both kinds of *)
(* overload accept, and some whose gateway is elsewhere; for the access    *)
(* point two that the overloads tell apart otherwise.                      *)
(***************************************************************************)
EXTENDS Interfaces, TLC

At(n) == <<10, 0, 0, n>>
Mask == <<255, 255, 255, 0>>

MCWanted ==
    [sta |-> {[ip |-> At(2), subnet |-> Mask, gateway |-> At(1), dns |-> <<At(1), Zero>>],
              [ip |-> At(2), subnet |-> Mask, gateway |-> <<10, 0, 1, 1>>, dns |-> NoDns]},
     ap |-> {[ip |-> <<192, 168, 4, 9>>, subnet |-> <<255, 255, 255, 128>>,
              gateway |-> <<192, 168, 4, 9>>, dns |-> NoDns]}]

(* 300.0.0.1, 10.0.0.1.2, x and nothing, 10.0.9, which lwIP reads as       *)
(* 10.0.0.9, and 0xffffffff, as 255.255.255.255.                           *)
Short == <<1, 0, Dot, 0, Dot, 9>>
Hex == <<0, 33>> \o [k \in 1..8 |-> 15]

MCBroken ==
    {"ip", "subnet", "gateway"} \X
      {<<3, 0, 0, Dot, 0, Dot, 0, Dot, 1>>, <<1, 0, Dot, 0, Dot, 0, Dot, 1, Dot, 2>>, <<11>>, <<>>,
       Short, Hex}

MCLoose == (Short :> At(9)) @@ (Hex :> IpNone)

(* A state constraint, which divides the state: once addresses were        *)
(* accepted there is one router, which is on the channel of the access     *)
(* point, and no scan; the others come before.                             *)
RadioSide == asked = [i \in Interface |-> None]
AddressSide ==
    /\ scan = "idle" /\ ~found /\ ~done
    /\ router \in {Unlinked, 1} /\ apChannel = 1 /\ apConfig = 1 /\ ~touched

OneSide == RadioSide \/ AddressSide

MCLease ==
    [ip |-> <<192, 168, 1, 7>>, subnet |-> Mask, gateway |-> <<192, 168, 1, 1>>,
     dns |-> <<<<192, 168, 1, 1>>, Zero>>]
=============================================================================
