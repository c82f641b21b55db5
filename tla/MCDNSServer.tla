----------------------------- MODULE MCDNSServer -----------------------------
(***************************************************************************)
(* Inputs for DNSServer: names of up to two short labels, in every way a   *)
(* query may end behind them, and all short words, most of which are no    *)
(* names.  97 and 98 are letters, 65 is 97 in upper case.                  *)
(***************************************************************************)
EXTENDS DNSServer, TLC

MCName == BoundedSeq({<<97>>, <<65>>, <<98, 97>>}, 2)
MCProbe == {<<97, 46, 98>>, <<97, 97>>}
MCAddress == <<192, 168, 4, 1>>

MCWord == BoundedSeq({0, 1, 97, 192}, 2)

TypeA == <<0, 1, 0, 1>>
TypeAAAA == <<0, 28, 0, 1>>
Padding == [i \in 1..20 |-> 9]

MCTail == {TypeA, TypeAAAA, TypeA \o <<9>>, TypeA \o Padding}

MCQuery ==
    [qdcount : {1}, rest : {Encode(n) \o t : n \in MCName, t \in MCTail}]
        \cup [qdcount : {1}, rest : {w \o t : w \in MCWord, t \in {<<>>, TypeA}}]
        \cup [qdcount : {2}, rest : {Encode(n) \o TypeA : n \in MCName}]

(* Nothing tells the clients apart. *)
Clients == Permutations(Client)
=============================================================================
