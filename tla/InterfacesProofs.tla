-------------------------- MODULE InterfacesProofs --------------------------
(***************************************************************************)
(* Proofs about Interfaces, for all sets of addresses, texts and channels: *)
(* the channel and the scan, then the addresses, and what IPConfig's       *)
(* conversions do to every address.                                        *)
(*                                                                         *)
(* parseString is proved by induction over the text.  Least and Induction  *)
(* say what that takes of sets of numbers; Scan's recursive function is    *)
(* shown to exist, and then to be what its equations say, from them.  The  *)
(* parser accepts the texts that IsQuad describes and no others, reads     *)
(* what exportToString writes, and the theorems about addresses rest on    *)
(* that: the right ones are shown, and nothing else is.                    *)
(***************************************************************************)
EXTENDS Interfaces, FiniteSetTheorems, WellFoundedInduction, TLAPS

(* getLwIP changes nothing only in addresses that read the same backwards: *)
(* all others reach the interface reversed.                                *)
THEOREM LwIPReverses ==
    ASSUME NEW a \in Address
    PROVE  /\ GetLwIP(a) \in Address
           /\ GetLwIP(GetLwIP(a)) = a
           /\ GetLwIP(a) = a <=> a[1] = a[4] /\ a[2] = a[3]
<1>1. PICK w \in Byte, x \in Byte, y \in Byte, z \in Byte : a = <<w, x, y, z>>
  BY DEF Address
<1>2. GetLwIP(a) = <<z, y, x, w>> /\ GetLwIP(<<z, y, x, w>>) = <<w, x, y, z>>
  BY <1>1 DEF GetLwIP
<1>3. <<z, y, x, w>> \in Address
  BY DEF Address
<1>4. <<z, y, x, w>> = <<w, x, y, z>> <=> w = z /\ x = y
  OBVIOUS
<1> QED
  BY <1>1, <1>2, <1>3, <1>4

-----------------------------------------------------------------------------
(* While a start is in progress there is no link.                          *)
NoLinkYet == apc = "start" => router = Unlinked

(* As long as nobody changed it behind the start's back, the channel it    *)
(* has read, and then the driver's once the handler has written it, is     *)
(* _ap_channel, ...                                                        *)
SameChannel ==
    ~touched =>
        /\ apc = "start" => channel = apChannel
        /\ apc # "start" /\ HasAp(mode) /\ hpc # "write" => apConfig = apChannel

(* ... and that follows the router: it does, or will when the event is     *)
(* handled, or when its handler is done.  Without this last part           *)
(* ChannelSynced is not inductive: the handler could write another.  It    *)
(* holds whoever touched the channel, for the handler makes up for that.   *)
Following ==
    InRange(router) /\ "GOT_IP" \notin events =>
        /\ hpc = "idle" /\ HasAp(mode) /\ ~touched => apChannel = router
        /\ hpc # "idle" => target = router

Inv == RadioTypeOK /\ NoLinkYet /\ SameChannel /\ Following /\ ScanAnnounced

LEMMA Start0 == Init => Inv
<1> SUFFICES ASSUME Init PROVE Inv
  OBVIOUS
<1> USE DEF Init, Unlinked
<1>1. found \in BOOLEAN /\ done \in BOOLEAN /\ news \in {"due", "told", "missed", "kept"}
  BY Zenon
<1>2. {up, touched} \subseteq BOOLEAN
  BY Zenon
<1>3. /\ router \in Router \cup {Unlinked} /\ events \subseteq {"GOT_IP", "SCAN_DONE"}
      /\ apChannel \in 1..13 /\ apConfig \in 1..13 /\ channel \in 1..13 /\ target \in 1..13
      /\ mode \in {"NULL", "STA", "AP", "APSTA"} /\ hpc \in {"idle", "sync", "write"}
      /\ apc \in {"idle", "start", "clear"} /\ scan \in {"idle", "running"}
  OBVIOUS
<1>4. RadioTypeOK
  BY <1>1, <1>2, <1>3, Zenon DEF RadioTypeOK
<1>5. ScanAnnounced
  BY Zenon DEF ScanAnnounced
<1>6. NoLinkYet /\ SameChannel /\ Following
  BY DEF NoLinkYet, SameChannel, Following, HasAp, InRange
<1> QED
  BY <1>4, <1>5, <1>6 DEF Inv

(* The types of the radio's variables are kept by every step.              *)
LEMMA TypeStep == RadioTypeOK /\ [Next]_vars => RadioTypeOK'
<1> SUFFICES ASSUME RadioTypeOK, [Next]_vars PROVE RadioTypeOK'
  OBVIOUS
<1> USE DEF RadioTypeOK, InRange, Unlinked
<1>1. CASE CallInit
  BY <1>1 DEF CallInit, channelVars, handlerVars, scanVars
<1>2. CASE \E n \in Interface : Configure(n)
  BY <1>2 DEF Configure, driverVars, channelVars, handlerVars, scanVars
<1>3. CASE \E c \in Chosen : SetChannelAP(c)
  BY <1>3, ChannelAssumption DEF SetChannelAP, driverVars, handlerVars, scanVars
<1>4. CASE \E m \in {"STA", "AP", "APSTA"} : CallStart(m)
  BY <1>4 DEF CallStart, StopDriver, ResultsGone, handlerVars
<1>5. CASE Start
  <2>1. touched' \in BOOLEAN /\ apConfig' \in 1..13
    BY <1>5 DEF Start
  <2>2. done' \in BOOLEAN
    BY <1>5, Zenon DEF Start, ClearsScan
  <2> QED
    BY <1>5, <2>1, <2>2 DEF Start, driverVars, handlerVars
<1>6. CASE CallStop
  BY <1>6 DEF CallStop, ResultsGone, channelVars, handlerVars
<1>7. CASE LinkUp
  BY <1>7 DEF LinkUp, channelVars, handlerVars, scanVars
<1>8. CASE LinkDown
  BY <1>8 DEF LinkDown, channelVars, handlerVars, scanVars
<1>9. CASE ScanEnds
  BY <1>9 DEF ScanEnds, driverVars, channelVars, handlerVars
<1>10. CASE OnGotIP
  BY <1>10 DEF OnGotIP, driverVars, channelVars, handlerVars, scanVars
<1>11. CASE SyncChannelToAP
  <2>1. touched' \in BOOLEAN
    BY <1>11 DEF SyncChannelToAP, Refused
  <2> QED
    BY <1>11, <2>1 DEF SyncChannelToAP, Refused, driverVars, scanVars
<1>18. CASE SetChannel
  <2>1. touched' \in BOOLEAN
    BY <1>18 DEF SetChannel, Refused
  <2> QED
    BY <1>18, <2>1 DEF SetChannel, Refused, driverVars, scanVars
<1>12. CASE OnScanDone
  BY <1>12 DEF OnScanDone, driverVars, channelVars, handlerVars
<1>13. CASE StartScan
  BY <1>13 DEF StartScan, ResultsGone, driverVars, channelVars, handlerVars
<1>14. CASE IsScanDone
  BY <1>14 DEF IsScanDone, driverVars, channelVars, handlerVars
<1>19. CASE IsScanDoneUninitialised
  <2>1. /\ mode' = "NULL" /\ apChannel' = 1 /\ touched' = FALSE
        /\ UNCHANGED <<up, router, apConfig, channel, hpc, target, scan, found, done, news, events,
                       apc>>
    BY <1>19 DEF IsScanDoneUninitialised, handlerVars, scanVars
  <2>2. /\ up' \in BOOLEAN /\ touched' \in BOOLEAN /\ found' \in BOOLEAN /\ done' \in BOOLEAN
        /\ news' \in {"due", "told", "missed", "kept"}
    BY <2>1, Zenon
  <2> QED
    BY <2>1, <2>2
<1>15. CASE GetScanResults
  BY <1>15 DEF GetScanResults, ResultsGone, driverVars, channelVars, handlerVars
<1>16. CASE ClearScanDone
  BY <1>16 DEF ClearScanDone, driverVars, channelVars, handlerVars
<1>17. CASE UNCHANGED vars
  BY <1>17 DEF vars, driverVars, channelVars, handlerVars, scanVars
<1> QED
  BY <1>1, <1>2, <1>3, <1>4, <1>5, <1>6, <1>7, <1>8, <1>9, <1>10, <1>11, <1>12, <1>13, <1>14,
     <1>15, <1>16, <1>17, <1>18, <1>19 DEF Next, Call

LEMMA NoLinkYetStep == RadioTypeOK /\ NoLinkYet /\ [Next]_vars => NoLinkYet'
BY DEF RadioTypeOK, NoLinkYet, Next, Call, CallInit, Configure, SetChannelAP, CallStart, Start,
       CallStop, StopDriver, LinkUp, LinkDown, ScanEnds, OnGotIP, SyncChannelToAP, SetChannel,
       OnScanDone, StartScan, IsScanDone, IsScanDoneUninitialised, GetScanResults, ClearScanDone,
       vars, driverVars

(* A driver that refuses: the start makes up for it, or the channel is     *)
(* touched.                                                                *)
LEMMA RefusedStep ==
    ASSUME RadioTypeOK, NoLinkYet, SameChannel, Following, Refused,
           UNCHANGED <<mode, router, apChannel, apConfig, channel, events, apc>>
    PROVE  SameChannel' /\ Following'
<1> USE DEF RadioTypeOK, NoLinkYet, SameChannel, Following, Refused, HasAp, InRange, Unlinked
<1>1. CASE apc = "start"
  <2>1. touched' <=> touched
    BY <1>1, Zenon
  <2> QED
    BY <1>1, <2>1
<1>2. CASE apc # "start"
  <2>1. touched'
    BY <1>2, Zenon
  <2> QED
    BY <1>2, <2>1
<1> QED
  BY <1>1, <1>2

(* What every step does to the channels.                                   *)
LEMMA ChannelStep ==
    ASSUME RadioTypeOK, NoLinkYet, SameChannel, Following, [Next]_vars
    PROVE  SameChannel' /\ Following'
<1> USE DEF RadioTypeOK, NoLinkYet, SameChannel, Following, HasAp, InRange, Unlinked
<1>1. CASE CallInit
  BY <1>1 DEF CallInit, channelVars, handlerVars
<1>2. CASE \E n \in Interface : Configure(n)
  BY <1>2 DEF Configure, driverVars, channelVars, handlerVars
<1>3. CASE \E c \in Chosen : SetChannelAP(c)
  BY <1>3 DEF SetChannelAP, driverVars, handlerVars
<1>4. CASE \E m \in {"STA", "AP", "APSTA"} : CallStart(m)
  BY <1>4 DEF CallStart, StopDriver, handlerVars
<1>5. CASE Start
  BY <1>5 DEF Start, driverVars, handlerVars
<1>6. CASE CallStop
  BY <1>6 DEF CallStop, channelVars, handlerVars
<1>7. CASE LinkUp
  BY <1>7 DEF LinkUp, channelVars, handlerVars
<1>8. CASE LinkDown
  BY <1>8 DEF LinkDown, channelVars, handlerVars
<1>9. CASE ScanEnds
  BY <1>9 DEF ScanEnds, driverVars, channelVars, handlerVars
<1>10. CASE OnGotIP
  BY <1>10 DEF OnGotIP, driverVars, channelVars, handlerVars, MustSync
<1>11. CASE SyncChannelToAP
  <2>1. CASE Refused /\ UNCHANGED apChannel
    BY <1>11, <2>1, RefusedStep DEF SyncChannelToAP, driverVars
  <2>2. CASE hpc' = "write" /\ touched' = (touched \/ apc = "start") /\ UNCHANGED target
    BY <1>11, <2>2 DEF SyncChannelToAP, driverVars
  <2> QED
    BY <1>11, <2>1, <2>2 DEF SyncChannelToAP
<1>15. CASE SetChannel
  <2>1. CASE Refused /\ UNCHANGED apConfig
    BY <1>15, <2>1, RefusedStep DEF SetChannel, driverVars
  <2>2. CASE /\ HasAp(mode) /\ apConfig' = target /\ hpc' = "idle"
             /\ touched' = IF apc = "start" THEN touched ELSE apChannel # target
    <3>1. hpc = "write" /\ UNCHANGED <<mode, router, apChannel, channel, events, apc>>
      BY <1>15 DEF SetChannel, driverVars
    <3>2. CASE apc = "start"
      <4>1. router' = 0 /\ touched' = touched
        BY <2>2, <3>1, <3>2
      <4> QED
        BY <2>2, <3>1, <3>2, <4>1
    <3>3. CASE apc # "start"
      <4>1. touched' <=> apChannel # target
        BY <2>2, <3>3
      <4> QED
        BY <2>2, <3>1, <3>3, <4>1
    <3> QED
      BY <3>2, <3>3
  <2> QED
    BY <1>15, <2>1, <2>2 DEF SetChannel
<1>16. CASE IsScanDoneUninitialised
  BY <1>16 DEF IsScanDoneUninitialised, driverVars, handlerVars
<1>12. CASE OnScanDone
  BY <1>12 DEF OnScanDone, driverVars, channelVars, handlerVars
<1>13. CASE StartScan \/ IsScanDone \/ GetScanResults \/ ClearScanDone
  BY <1>13 DEF StartScan, IsScanDone, GetScanResults, ClearScanDone, driverVars, channelVars,
               handlerVars
<1>14. CASE UNCHANGED vars
  BY <1>14 DEF vars, driverVars, channelVars, handlerVars
<1> QED
  BY <1>1, <1>2, <1>3, <1>4, <1>5, <1>6, <1>7, <1>8, <1>9, <1>10, <1>11, <1>12, <1>13, <1>14,
     <1>15, <1>16 DEF Next, Call

(* Only ClearScanDone can lose an announcement, and then says so.          *)
LEMMA ScanStep ==
    ASSUME RadioTypeOK, ScanAnnounced, [Next]_vars
    PROVE  ScanAnnounced'
<1> USE DEF RadioTypeOK, ScanAnnounced
<1>2. CASE \E m \in {"STA", "AP", "APSTA"} : CallStart(m)
  <2>1. PICK m \in {"STA", "AP", "APSTA"} : CallStart(m)
    BY <1>2
  <2>2. done' = done /\ (UNCHANGED <<found, news>> \/ found' = FALSE)
    BY <2>1, Zenon DEF CallStart, StopDriver, ResultsGone
  <2>3. "SCAN_DONE" \notin events' => "SCAN_DONE" \notin events
    BY <2>1 DEF CallStart
  <2> QED
    BY <2>2, <2>3, Zenon
<1>3. CASE Start
  BY <1>3 DEF Start, ClearsScan
<1>4. CASE CallStop
  BY <1>4 DEF CallStop, ResultsGone
<1>5. CASE StartScan
  BY <1>5 DEF StartScan, ResultsGone
<1>13. CASE GetScanResults
  <2>1. UNCHANGED <<done, events>>
    BY <1>13 DEF GetScanResults
  <2>2. \/ found' = FALSE
        \/ UNCHANGED found /\ news' = IF found THEN "kept" ELSE news
    BY <1>13 DEF GetScanResults, ResultsGone
  <2> QED
    BY <2>1, <2>2
<1>6. CASE IsScanDone
  BY <1>6, Zenon DEF IsScanDone
<1>7. CASE ClearScanDone
  BY <1>7, Zenon DEF ClearScanDone
<1>8. CASE ScanEnds \/ OnScanDone \/ LinkUp \/ OnGotIP
  BY <1>8 DEF ScanEnds, OnScanDone, LinkUp, OnGotIP, scanVars
<1>9. CASE UNCHANGED <<scanVars, events>>
  BY <1>9 DEF scanVars
<1>10. CASE CallInit \/ \E n \in Interface : Configure(n)
  BY <1>9, <1>10 DEF CallInit, Configure
<1>11. CASE (\E c \in Chosen : SetChannelAP(c)) \/ LinkDown \/ SyncChannelToAP
  BY <1>9, <1>11 DEF SetChannelAP, LinkDown, SyncChannelToAP
<1>14. CASE SetChannel \/ IsScanDoneUninitialised
  BY <1>9, <1>14 DEF SetChannel, IsScanDoneUninitialised
<1>12. CASE UNCHANGED vars
  BY <1>9, <1>12 DEF vars
<1> QED
  BY <1>2, <1>3, <1>4, <1>5, <1>6, <1>7, <1>8, <1>10, <1>11, <1>12, <1>13, <1>14
     DEF Next, Call

-----------------------------------------------------------------------------
(* The invariant.                                                          *)
THEOREM Invariance == Spec => []Inv
<1>1. Init => Inv
  BY Start0
<1>2. Inv /\ [Next]_vars => Inv'
  BY TypeStep, NoLinkYetStep, ChannelStep, ScanStep DEF Inv
<1> QED
  BY <1>1, <1>2, PTL DEF Spec

(* The channels given to the driver stay within 1 to 13 (NeuWiFi_AP.cpp:   *)
(* 130-136, NeuWiFi_Core.cpp:378).                                         *)
THEOREM RadioTypeCorrect == Spec => []RadioTypeOK
BY Invariance, PTL DEF Inv

(* The access point follows the router, for all channels and however often *)
(* the station changes routers, the application restarts or chooses        *)
(* another channel, and the driver refuses one.                            *)
THEOREM ChannelFollows == Spec => []ChannelSynced
<1>1. Inv => ChannelSynced
  BY DEF Inv, RadioTypeOK, SameChannel, Following, ChannelSynced, HasAp, GetAPChannel
<1> QED
  BY <1>1, Invariance, PTL

(* No start, and no call of the scan's but the two that ScanAnnounced      *)
(* names, leaves results unannounced.                                      *)
THEOREM ScanIsAnnounced == Spec => []ScanAnnounced
BY Invariance, PTL DEF Inv

-----------------------------------------------------------------------------
(* What parseString reads.                                                 *)

(* A set of numbers that is not empty has a least one ...                  *)
LEMMA Least ==
    ASSUME NEW T, T \subseteq Nat, T # {}
    PROVE  \E n \in T : \A m \in T : n <= m
<1>1. IsWellFoundedOn(OpToRel(<, Nat), Nat)
  BY NatLessThanWellFounded, Zenon
<1>2. PICK n \in T : \A m \in T : <<m, n>> \notin OpToRel(<, Nat)
  BY <1>1, WFMin, Zenon
<1>3. \A m \in T : ~(m < n)
  BY <1>2, Zenon DEF OpToRel
<1> QED
  BY <1>3

(* ... and so a set that has 0, and n + 1 with every n, has them all.      *)
LEMMA Induction ==
    ASSUME NEW T, 0 \in T, \A n \in Nat : n \in T => n + 1 \in T
    PROVE  \A n \in Nat : n \in T
<1> SUFFICES ASSUME Nat \ T # {} PROVE FALSE
  OBVIOUS
<1>1. PICK n \in Nat \ T : \A m \in Nat \ T : n <= m
  BY Least
<1>2. n # 0
  OBVIOUS
<1>3. n - 1 \in Nat /\ n - 1 \notin T
  BY <1>1, <1>2
<1> QED
  BY <1>1, <1>3

(* The recursive function of Scan.                                         *)
ScansUpto(text, n, at) ==
    at = [p \in 0..n |-> IF p = 0 THEN Reading(Zero, 0, 0) ELSE Scanned(at[p - 1], text[p])]

(* There is one, for it is extended by one character at a time.            *)
LEMMA ScanExists == \A text : \A n \in Nat : \E at : ScansUpto(text, n, at)
<1> SUFFICES ASSUME NEW text PROVE \A n \in Nat : \E at : ScansUpto(text, n, at)
  OBVIOUS
<1> DEFINE T == {n \in Nat : \E at : ScansUpto(text, n, at)}
<1>1. 0 \in T
  <2>1. ScansUpto(text, 0, [p \in 0..0 |-> Reading(Zero, 0, 0)])
    BY DEF ScansUpto
  <2> QED
    BY <2>1
<1>2. ASSUME NEW k \in Nat, k \in T PROVE k + 1 \in T
  <2>1. PICK at : ScansUpto(text, k, at)
    BY <1>2
  <2> DEFINE more == [p \in 0..k + 1 |-> IF p = k + 1 THEN Scanned(at[k], text[k + 1]) ELSE at[p]]
  <2>2. ASSUME NEW p \in 0..k + 1
        PROVE  more[p] = IF p = 0 THEN Reading(Zero, 0, 0) ELSE Scanned(more[p - 1], text[p])
    <3>1. CASE p = k + 1
      <4>1. more[p - 1] = at[k] /\ p # 0
        BY <3>1
      <4> QED
        BY <3>1, <4>1
    <3>2. CASE p # k + 1
      <4>1. p \in 0..k /\ more[p] = at[p]
        BY <3>2
      <4>2. at[p] = IF p = 0 THEN Reading(Zero, 0, 0) ELSE Scanned(at[p - 1], text[p])
        BY <2>1, <4>1 DEF ScansUpto
      <4>3. p # 0 => more[p - 1] = at[p - 1]
        BY <4>1
      <4> QED
        BY <4>1, <4>2, <4>3
    <3> QED
      BY <3>1, <3>2
  <2>3. ScansUpto(text, k + 1, more)
    BY <2>2 DEF ScansUpto
  <2> HIDE DEF more
  <2> QED
    BY <2>3
<1>3. \A n \in Nat : n \in T
  <2> HIDE DEF T
  <2> QED
    BY <1>1, <1>2, Induction
<1> QED
  BY <1>3

(* So Scan takes the characters one by one.                                *)
Scans(text, at) ==
    /\ DOMAIN at = 0..Len(text)
    /\ at[0] = Reading(Zero, 0, 0)
    /\ \A p \in 1..Len(text) : at[p] = Scanned(at[p - 1], text[p])

(* Scan is such a function.                                                *)
LEMMA ScanIs ==
    ASSUME NEW text \in Seq(Nat)
    PROVE  Scans(text, Scan(text))
<1>1. Len(text) \in Nat
  OBVIOUS
<1>2. ScansUpto(text, Len(text), CHOOSE at : ScansUpto(text, Len(text), at))
  BY <1>1, ScanExists, Zenon
<1>3. Scan(text) = CHOOSE at : ScansUpto(text, Len(text), at)
  BY Zenon DEF Scan, ScansUpto
<1>4. ScansUpto(text, Len(text), Scan(text))
  BY <1>2, <1>3, Zenon
<1> DEFINE at == Scan(text)
<1> HIDE DEF at
<1>5. at = [p \in 0..Len(text) |-> IF p = 0 THEN Reading(Zero, 0, 0) ELSE Scanned(at[p - 1], text[p])]
  BY <1>4, Zenon DEF ScansUpto, at
<1>6. DOMAIN at = 0..Len(text)
  BY <1>5, Zenon
<1>7. \A p \in 0..Len(text) : at[p] = IF p = 0 THEN Reading(Zero, 0, 0) ELSE Scanned(at[p - 1], text[p])
  BY <1>5, Zenon
<1>8. Scans(text, at)
  <2>1. Len(text) \in Nat
    OBVIOUS
  <2> QED
    BY <1>6, <1>7, <2>1 DEF Scans
<1> QED
  BY <1>8 DEF at

(* The text has these characters behind the first p.                       *)
StandsAt(text, p, chars) ==
    /\ p + Len(chars) <= Len(text)
    /\ \A k \in 1..Len(chars) : text[p + k] = chars[k]

(* What the digits of a byte are: one, two or three of them.               *)
LEMMA DigitsType ==
    ASSUME NEW n \in Byte
    PROVE  /\ Digits(n) \in Seq(Nat) /\ Len(Digits(n)) \in 1..3
           /\ Digits(n) = <<n>> \/ Digits(n) = <<n \div 10, n % 10>>
              \/ Digits(n) = <<n \div 100, (n \div 10) % 10, n % 10>>
<1>1. CASE n >= 100
  <2>1. n \div 100 \in 0..9 /\ (n \div 10) % 10 \in 0..9 /\ n % 10 \in 0..9
    BY <1>1 DEF Byte
  <2> QED
    BY <1>1, <2>1 DEF Digits
<1>2. CASE n >= 10 /\ ~(n >= 100)
  <2>1. n \div 10 \in 0..9 /\ n % 10 \in 0..9
    BY <1>2 DEF Byte
  <2> QED
    BY <1>2, <2>1 DEF Digits
<1>3. CASE ~(n >= 10) /\ ~(n >= 100)
  BY <1>3 DEF Digits, Byte
<1> QED
  BY <1>1, <1>2, <1>3 DEF Byte

(* The fields of the loop's variables.                                     *)
LEMMA ReadingIs ==
    ASSUME NEW octets, NEW segment, NEW value \in Byte, NEW s, s = Reading(octets, segment, value)
    PROVE  /\ s.octets = octets /\ s.segment = segment /\ s.value = value /\ ~s.bad
           /\ s.bad \in BOOLEAN
<1>1. s.octets = octets /\ s.segment = segment /\ s.value = value
  BY Zenon DEF Reading
<1>2. s.bad = (value > 255)
  BY Zenon DEF Reading
<1>3. ~(value > 255) /\ (value > 255) \in BOOLEAN
  BY DEF Byte
<1> QED
  BY <1>1, <1>2, <1>3, Zenon

(* A digit is appended to the number.                                      *)
LEMMA DigitRead ==
    ASSUME NEW octets, NEW segment, NEW v \in Byte, NEW c \in 0..9
    PROVE  Scanned(Reading(octets, segment, v), c) = Reading(octets, segment, 10 * v + c)
<1> DEFINE s == Reading(octets, segment, v)
<1>1. s.octets = octets /\ s.segment = segment /\ s.value = v /\ ~s.bad
  BY ReadingIs
<1> HIDE DEF s
<1>2. Scanned(s, c) = Reading(octets, segment, 10 * v + c)
  BY <1>1 DEF Scanned
<1> QED
  BY <1>2 DEF s

(* The arithmetic of digits.                                               *)
LEMMA Decimal ==
    ASSUME NEW n \in Nat
    PROVE  /\ n \div 10 \in Nat /\ n % 10 \in 0..9 /\ n = 10 * (n \div 10) + (n % 10)
           /\ n \div 100 = (n \div 10) \div 10
<1>1. PICK m \in Nat : m = n \div 10
  OBVIOUS
<1>2. 10 * m <= n /\ n < 10 * m + 10
  BY <1>1
<1>3. PICK k \in Nat : k = m \div 10
  OBVIOUS
<1>4. 10 * k <= m /\ m < 10 * k + 10
  BY <1>3
<1>5. 100 * k <= n /\ n < 100 * k + 100
  BY <1>2, <1>4
<1>6. n \div 100 = k
  BY <1>5
<1>7. n % 10 \in 0..9
  OBVIOUS
<1>8. n = 10 * (n \div 10) + (n % 10)
  <2>1. \A x \in Int : x = 10 * (x \div 10) + (x % 10)
    OBVIOUS
  <2> QED
    BY <2>1
<1> QED
  BY <1>1, <1>3, <1>6, <1>7, <1>8

(* Where the digits of a byte stand, at a new number, that byte is read.   *)
LEMMA DigitsRead ==
    ASSUME NEW text \in Seq(Nat), NEW at, Scans(text, at), NEW p \in Nat, NEW n \in Byte,
           StandsAt(text, p, Digits(n)), NEW octets, NEW segment,
           at[p] = Reading(octets, segment, 0)
    PROVE  at[p + Len(Digits(n))] = Reading(octets, segment, n)
<1> DEFINE L == Len(Digits(n))
<1>1. L \in 1..3 /\ p + L <= Len(text) /\ \A k \in 1..L : text[p + k] = Digits(n)[k]
  BY DigitsType DEF StandsAt
<1>2. \A k \in 1..L : at[p + k] = Scanned(at[p + k - 1], Digits(n)[k])
  <2> SUFFICES ASSUME NEW k \in 1..L PROVE at[p + k] = Scanned(at[p + k - 1], Digits(n)[k])
    OBVIOUS
  <2> HIDE DEF L
  <2>1. p + k \in 1..Len(text) /\ text[p + k] = Digits(n)[k]
    BY <1>1
  <2> QED
    BY <2>1 DEF Scans
<1>3. ASSUME NEW q \in Nat, NEW v \in Byte, NEW c \in 0..9, NEW w,
             at[q] = Reading(octets, segment, v), at[q + 1] = Scanned(at[q], c), w = 10 * v + c
      PROVE  at[q + 1] = Reading(octets, segment, w)
  BY <1>3, DigitRead
<1> DEFINE tens == n \div 10  ones == n % 10  hundreds == n \div 100  middle == tens % 10
<1>4. /\ tens \in Byte /\ hundreds \in Byte /\ ones \in 0..9 /\ middle \in 0..9
      /\ n = 10 * tens + ones /\ tens = 10 * hundreds + middle
  <2>1. n \in Nat
    BY DEF Byte
  <2>2. tens \in Nat /\ ones \in 0..9 /\ n = 10 * tens + ones /\ hundreds = tens \div 10
    BY <2>1, Decimal, Zenon DEF tens, ones, hundreds
  <2>3. tens \div 10 \in Nat /\ middle \in 0..9 /\ tens = 10 * (tens \div 10) + middle
    BY <2>2, Decimal, Zenon DEF middle
  <2> HIDE DEF tens, ones, hundreds, middle
  <2> QED
    BY <2>2, <2>3 DEF Byte
<1>5. CASE n >= 100
  <2>1. Digits(n) = <<hundreds, middle, ones>> /\ L = 3
    BY <1>5 DEF Digits
  <2>2. hundreds \in 0..9
    BY DEF Byte
  <2>3. /\ at[p + 1] = Scanned(at[p], hundreds) /\ at[p + 1 + 1] = Scanned(at[p + 1], middle)
        /\ at[p + 1 + 1 + 1] = Scanned(at[p + 1 + 1], ones)
    BY <1>2, <2>1
  <2> HIDE DEF tens, ones, hundreds, middle
  <2>4. 0 \in Byte /\ hundreds = 10 * 0 + hundreds
    BY <2>2 DEF Byte
  <2>5. at[p + 1] = Reading(octets, segment, hundreds)
    BY <1>3, <2>2, <2>3, <2>4
  <2>6. PICK q \in Nat : q = p + 1
    OBVIOUS
  <2>7. PICK r \in Nat : r = q + 1
    OBVIOUS
  <2>8. /\ at[q] = Reading(octets, segment, hundreds)
         /\ at[q + 1] = Scanned(at[q], middle) /\ at[r + 1] = Scanned(at[r], ones)
    BY <2>3, <2>5, <2>6, <2>7
  <2>9. hundreds \in Byte /\ middle \in 0..9 /\ tens = 10 * hundreds + middle
    BY <1>4
  <2>10. at[q + 1] = Reading(octets, segment, tens)
    <3>1. Scanned(Reading(octets, segment, hundreds), middle)
            = Reading(octets, segment, 10 * hundreds + middle)
      BY <2>9, DigitRead, Zenon
    <3> QED
      BY <2>8, <2>9, <3>1, Zenon
  <2>11. at[r] = Reading(octets, segment, tens)
    BY <2>7, <2>10
  <2>12. at[r + 1] = Reading(octets, segment, n)
    <3>1. tens \in Byte /\ ones \in 0..9 /\ n = 10 * tens + ones
      BY <1>4
    <3>2. Scanned(Reading(octets, segment, tens), ones)
            = Reading(octets, segment, 10 * tens + ones)
      BY <3>1, DigitRead
    <3> QED
      BY <2>8, <2>11, <3>1, <3>2, Zenon
  <2> QED
    BY <2>1, <2>6, <2>7, <2>12
<1>6. CASE n >= 10 /\ ~(n >= 100)
  <2>1. Digits(n) = <<tens, ones>> /\ L = 2
    BY <1>6 DEF Digits
  <2>2. tens \in 0..9
    BY <1>6 DEF Byte
  <2>3. at[p + 1] = Scanned(at[p], tens) /\ at[p + 1 + 1] = Scanned(at[p + 1], ones)
    BY <1>2, <2>1
  <2> HIDE DEF tens, ones, hundreds, middle
  <2>4. 0 \in Byte /\ tens = 10 * 0 + tens
    BY <2>2 DEF Byte
  <2>5. at[p + 1] = Reading(octets, segment, tens)
    BY <1>3, <2>2, <2>3, <2>4
  <2>6. p + 1 \in Nat
    OBVIOUS
  <2>7. at[p + 1 + 1] = Reading(octets, segment, n)
    <3>1. tens \in Byte /\ ones \in 0..9 /\ n = 10 * tens + ones
      BY <1>4
    <3>2. Scanned(Reading(octets, segment, tens), ones)
            = Reading(octets, segment, 10 * tens + ones)
      BY <3>1, DigitRead
    <3> QED
      BY <2>3, <2>5, <3>1, <3>2, Zenon
  <2> QED
    BY <2>1, <2>7
<1>7. CASE ~(n >= 10) /\ ~(n >= 100)
  <2>1. Digits(n) = <<n>> /\ L = 1 /\ n \in 0..9 /\ 0 \in Byte /\ n = 10 * 0 + n
    BY <1>7 DEF Digits, Byte
  <2>2. at[p + 1] = Scanned(at[p], n)
    BY <1>2, <2>1
  <2>3. at[p + 1] = Reading(octets, segment, n)
    BY <1>3, <2>1, <2>2
  <2> QED
    BY <2>1, <2>3
<1> QED
  BY <1>5, <1>6, <1>7 DEF Byte

(* A dot stores the number.                                                *)
LEMMA DotRead ==
    ASSUME NEW octets, NEW segment \in 0..2, NEW value \in Byte
    PROVE  Scanned(Reading(octets, segment, value), Dot) =
               Reading([octets EXCEPT ![segment + 1] = value], segment + 1, 0)
<1>1. Dot \notin 0..9
  BY DEF Dot
<1> DEFINE s == Reading(octets, segment, value)
<1>2. s.octets = octets /\ s.segment = segment /\ s.value = value /\ ~s.bad
  BY ReadingIs
<1> HIDE DEF s
<1>3. Scanned(s, Dot) = Reading([octets EXCEPT ![segment + 1] = value], segment + 1, 0)
  BY <1>1, <1>2 DEF Scanned
<1> QED
  BY <1>3 DEF s

(* What stands in a stands in b.                                           *)
Keeps(a, b) == \A p \in Nat, c \in Seq(Nat) : StandsAt(a, p, c) => StandsAt(b, p, c)

(* What stands where when sequences are joined.                            *)
LEMMA JoinedStands ==
    ASSUME NEW a \in Seq(Nat), NEW b \in Seq(Nat)
    PROVE  /\ a \o b \in Seq(Nat) /\ Len(a \o b) = Len(a) + Len(b)
           /\ StandsAt(a \o b, Len(a), b)
           /\ Keeps(a, a \o b)
<1>1. a \o b \in Seq(Nat) /\ Len(a \o b) = Len(a) + Len(b)
  OBVIOUS
<1>2. StandsAt(a \o b, Len(a), b)
  BY DEF StandsAt
<1>3. SUFFICES ASSUME NEW p \in Nat, NEW c \in Seq(Nat), StandsAt(a, p, c) PROVE StandsAt(a \o b, p, c)
  BY <1>1, <1>2 DEF Keeps
<1>4. StandsAt(a \o b, p, c)
  <2>1. \A k \in 1..Len(c) : p + k \in 1..Len(a) /\ (a \o b)[p + k] = a[p + k]
    BY <1>3, SMTT(30) DEF StandsAt
  <2> QED
    BY <1>1, <1>3, <2>1 DEF StandsAt
<1> QED
  BY <1>4

(* What stands where in an address that is written.                        *)
Quad(text, a, p) ==
    /\ p[1] = 0
    /\ \A k \in 1..3 : p[k + 1] = p[k] + Len(Digits(a[k])) + 1
    /\ \A k \in 1..4 : p[k] \in Nat /\ StandsAt(text, p[k], Digits(a[k]))
    /\ \A k \in 1..3 : StandsAt(text, p[k] + Len(Digits(a[k])), <<Dot>>)
    /\ Len(text) = p[4] + Len(Digits(a[4]))

(* The places of the numbers in an address that is written.                *)
LEMMA QuadStands ==
    ASSUME NEW a \in Address
    PROVE  ExportToString(a) \in Seq(Nat) /\ \E p \in [1..4 -> Nat] : Quad(ExportToString(a), a, p)
<1> DEFINE d(k) == Digits(a[k])
           dot == <<Dot>>
           x1 == d(1) \o dot
           x2 == x1 \o d(2)
           x3 == x2 \o dot
           x4 == x3 \o d(3)
           x5 == x4 \o dot
           text == x5 \o d(4)
           p == <<0, Len(x1), Len(x3), Len(x5)>>
<1>1. \A k \in 1..4 : a[k] \in Byte
  BY DEF Address
<1>2. /\ d(1) \in Seq(Nat) /\ d(2) \in Seq(Nat) /\ d(3) \in Seq(Nat) /\ d(4) \in Seq(Nat)
      /\ dot \in Seq(Nat) /\ Len(dot) = 1
  BY <1>1, DigitsType DEF Dot
<1>3. ExportToString(a) = text
  BY DEF ExportToString
<1> HIDE DEF d, dot, x1, x2, x3, x4, x5, text
<1>4. /\ x1 \in Seq(Nat) /\ Len(x1) \in Nat /\ Len(x1) = Len(d(1)) + 1
      /\ StandsAt(x1, Len(d(1)), dot) /\ Keeps(d(1), x1)
  <2>1. d(1) \in Seq(Nat) /\ dot \in Seq(Nat)
    BY <1>2
  <2>2. /\ x1 \in Seq(Nat) /\ Len(x1) = Len(d(1)) + Len(dot)
        /\ StandsAt(x1, Len(d(1)), dot) /\ Keeps(d(1), x1)
    BY <2>1, JoinedStands, Zenon DEF x1
  <2> QED
    BY <1>2, <2>2
<1>5. /\ x2 \in Seq(Nat) /\ Len(x2) \in Nat /\ Len(x2) = Len(x1) + Len(d(2))
      /\ StandsAt(x2, Len(x1), d(2)) /\ Keeps(x1, x2)
  <2>1. x1 \in Seq(Nat) /\ d(2) \in Seq(Nat)
    BY <1>2, <1>4
  <2>2. /\ x2 \in Seq(Nat) /\ Len(x2) = Len(x1) + Len(d(2))
        /\ StandsAt(x2, Len(x1), d(2)) /\ Keeps(x1, x2)
    BY <2>1, JoinedStands, Zenon DEF x2
  <2> QED
    BY <1>2, <2>2
<1>6. /\ x3 \in Seq(Nat) /\ Len(x3) \in Nat /\ Len(x3) = Len(x2) + 1
      /\ StandsAt(x3, Len(x2), dot) /\ Keeps(x2, x3)
  <2>1. x2 \in Seq(Nat) /\ dot \in Seq(Nat)
    BY <1>2, <1>5
  <2>2. /\ x3 \in Seq(Nat) /\ Len(x3) = Len(x2) + Len(dot)
        /\ StandsAt(x3, Len(x2), dot) /\ Keeps(x2, x3)
    BY <2>1, JoinedStands, Zenon DEF x3
  <2> QED
    BY <1>2, <2>2
<1>7. /\ x4 \in Seq(Nat) /\ Len(x4) \in Nat /\ Len(x4) = Len(x3) + Len(d(3))
      /\ StandsAt(x4, Len(x3), d(3)) /\ Keeps(x3, x4)
  <2>1. x3 \in Seq(Nat) /\ d(3) \in Seq(Nat)
    BY <1>2, <1>6
  <2>2. /\ x4 \in Seq(Nat) /\ Len(x4) = Len(x3) + Len(d(3))
        /\ StandsAt(x4, Len(x3), d(3)) /\ Keeps(x3, x4)
    BY <2>1, JoinedStands, Zenon DEF x4
  <2> QED
    BY <1>2, <2>2
<1>8. /\ x5 \in Seq(Nat) /\ Len(x5) \in Nat /\ Len(x5) = Len(x4) + 1
      /\ StandsAt(x5, Len(x4), dot) /\ Keeps(x4, x5)
  <2>1. x4 \in Seq(Nat) /\ dot \in Seq(Nat)
    BY <1>2, <1>7
  <2>2. /\ x5 \in Seq(Nat) /\ Len(x5) = Len(x4) + Len(dot)
        /\ StandsAt(x5, Len(x4), dot) /\ Keeps(x4, x5)
    BY <2>1, JoinedStands, Zenon DEF x5
  <2> QED
    BY <1>2, <2>2
<1>9. /\ text \in Seq(Nat) /\ Len(text) \in Nat /\ Len(text) = Len(x5) + Len(d(4))
      /\ StandsAt(text, Len(x5), d(4)) /\ Keeps(x5, text)
  <2>1. x5 \in Seq(Nat) /\ d(4) \in Seq(Nat)
    BY <1>2, <1>8
  <2>2. /\ text \in Seq(Nat) /\ Len(text) = Len(x5) + Len(d(4))
        /\ StandsAt(text, Len(x5), d(4)) /\ Keeps(x5, text)
    BY <2>1, JoinedStands, Zenon DEF text
  <2> QED
    BY <1>2, <2>2
<1>10. p \in [1..4 -> Nat] /\ p[1] = 0 /\ p[2] = Len(x1) /\ p[3] = Len(x3) /\ p[4] = Len(x5)
  <2>1. \A u, v, w \in Nat : LET f == <<0, u, v, w>>
                             IN f \in [1..4 -> Nat] /\ f[1] = 0 /\ f[2] = u /\ f[3] = v /\ f[4] = w
    OBVIOUS
  <2> QED
    BY <1>4, <1>6, <1>8, <2>1 DEF p
<1> HIDE DEF p
<1>11. Quad(text, a, p)
  <2>1. p[1] + Len(d(1)) = Len(d(1)) /\ p[2] + Len(d(2)) = Len(x2) /\ p[3] + Len(d(3)) = Len(x4)
    BY <1>2, <1>5, <1>7, <1>10
  <2>2. p[2] = p[1] + Len(d(1)) + 1 /\ p[3] = p[2] + Len(d(2)) + 1 /\ p[4] = p[3] + Len(d(3)) + 1
    BY <1>2, <1>4, <1>6, <1>8, <1>10, <2>1
  <2>3. StandsAt(d(1), 0, d(1)) /\ 0 \in Nat /\ Len(d(1)) \in Nat
    BY <1>2 DEF StandsAt
  <2>4. \A q \in Nat, c \in Seq(Nat) :
           /\ StandsAt(d(1), q, c) => StandsAt(text, q, c)
           /\ StandsAt(x1, q, c) => StandsAt(text, q, c)
           /\ StandsAt(x2, q, c) => StandsAt(text, q, c)
           /\ StandsAt(x3, q, c) => StandsAt(text, q, c)
           /\ StandsAt(x4, q, c) => StandsAt(text, q, c)
           /\ StandsAt(x5, q, c) => StandsAt(text, q, c)
    BY <1>4, <1>5, <1>6, <1>7, <1>8, <1>9, Zenon DEF Keeps
  <2>5. /\ StandsAt(text, 0, d(1)) /\ StandsAt(text, Len(d(1)), dot)
         /\ StandsAt(text, Len(x1), d(2)) /\ StandsAt(text, Len(x2), dot)
         /\ StandsAt(text, Len(x3), d(3)) /\ StandsAt(text, Len(x4), dot)
         /\ StandsAt(text, Len(x5), d(4))
    BY <1>2, <1>4, <1>5, <1>6, <1>7, <1>8, <1>9, <2>3, <2>4
  <2>6. /\ StandsAt(text, p[1], d(1)) /\ StandsAt(text, p[2], d(2)) /\ StandsAt(text, p[3], d(3))
        /\ StandsAt(text, p[4], d(4))
    BY <1>10, <2>5
  <2>7. /\ StandsAt(text, p[1] + Len(d(1)), dot) /\ StandsAt(text, p[2] + Len(d(2)), dot)
        /\ StandsAt(text, p[3] + Len(d(3)), dot)
    BY <1>10, <2>1, <2>5
  <2>8. Len(text) = p[4] + Len(d(4))
    BY <1>9, <1>10
  <2>9. \A k \in 1..3 : k = 1 \/ k = 2 \/ k = 3
    OBVIOUS
  <2>10. \A k \in 1..4 : k = 1 \/ k = 2 \/ k = 3 \/ k = 4
    OBVIOUS
  <2> HIDE DEF p
  <2> QED
    BY <1>10, <2>2, <2>6, <2>7, <2>8, <2>9, <2>10, SMTT(30) DEF Quad, d, dot
<1> QED
  BY <1>3, <1>9, <1>10, <1>11

(* The text was read to its end.                                           *)
Accepted(text) ==
    LET end == Scan(text)[Len(text)] IN ~end.bad /\ end.segment = 3

(* Every address that exportToString writes, parseString reads as that     *)
(* address, to its end (IPConfig.h:35-69, 120-129).                       *)
THEOREM WrittenIsRead ==
    ASSUME NEW a \in Address
    PROVE  ParseString(ExportToString(a)) = a /\ Accepted(ExportToString(a))
<1> DEFINE text == ExportToString(a)
           at == Scan(text)
           o0 == Zero
           o1 == [o0 EXCEPT ![1] = a[1]]
           o2 == [o1 EXCEPT ![2] = a[2]]
           o3 == [o2 EXCEPT ![3] = a[3]]
<1>1. text \in Seq(Nat) /\ \E p \in [1..4 -> Nat] : Quad(text, a, p)
  BY QuadStands
<1>2. PICK p \in [1..4 -> Nat] : Quad(text, a, p)
  BY <1>1
<1>3. Scans(text, at)
  BY <1>1, ScanIs
<1>4. \A k \in 1..4 : a[k] \in Byte /\ Len(Digits(a[k])) \in Nat
  BY DigitsType DEF Address
<1> HIDE DEF text, at
<1> DEFINE q(k) == p[k] + Len(Digits(a[k]))
<1>5. \A k \in 1..4 : p[k] \in Nat /\ q(k) \in Nat /\ StandsAt(text, p[k], Digits(a[k]))
  <2> SUFFICES ASSUME NEW k \in 1..4
               PROVE  p[k] \in Nat /\ q(k) \in Nat /\ StandsAt(text, p[k], Digits(a[k]))
    OBVIOUS
  <2>1. p[k] \in Nat /\ StandsAt(text, p[k], Digits(a[k]))
    BY <1>2 DEF Quad
  <2>2. Len(Digits(a[k])) \in Nat
    BY <1>4
  <2> QED
    BY <2>1, <2>2
<1>6. p[1] = 0 /\ Len(text) = p[4] + Len(Digits(a[4]))
  BY <1>2 DEF Quad
<1>7. \A k \in 1..3 : StandsAt(text, q(k), <<Dot>>)
  BY <1>2 DEF Quad
<1>8. \A k \in 1..3 : p[k + 1] = q(k) + 1
  BY <1>2 DEF Quad
<1>9. p[1] = 0 /\ Len(text) = q(4)
  BY <1>6
<1>10. ASSUME NEW k \in 1..4, NEW octets, NEW segment, at[p[k]] = Reading(octets, segment, 0)
      PROVE  at[q(k)] = Reading(octets, segment, a[k])
  <2> HIDE DEF q
  <2>1. at[p[k] + Len(Digits(a[k]))] = Reading(octets, segment, a[k])
    <3>1. p[k] \in Nat /\ a[k] \in Byte /\ StandsAt(text, p[k], Digits(a[k]))
      BY <1>4, <1>5
    <3> QED
      BY <1>1, <1>3, <1>10, <3>1, DigitsRead, SMTT(30)
  <2> QED
    BY <2>1 DEF q
<1>11. ASSUME NEW k \in 1..3, NEW octets, at[p[k]] = Reading(octets, k - 1, 0)
      PROVE  at[p[k + 1]] = Reading([octets EXCEPT ![k] = a[k]], k, 0)
  <2>1. at[q(k)] = Reading(octets, k - 1, a[k])
    BY <1>10, <1>11
  <2>2. k - 1 \in 0..2 /\ (k - 1) + 1 = k /\ a[k] \in Byte /\ q(k) \in Nat
    <3> HIDE DEF q
    <3> QED
      BY <1>4, <1>5, SMTT(30)
  <2> HIDE DEF q
  <2>3. at[q(k) + 1] = Reading([octets EXCEPT ![(k - 1) + 1] = a[k]], (k - 1) + 1, 0)
    <3>1. PICK at1 \in Nat, segment \in 0..2, v \in Byte : at1 = q(k) /\ segment = k - 1 /\ v = a[k]
      BY <2>2
    <3>2. at1 + 1 \in 1..Len(text) /\ text[at1 + 1] = Dot
      BY <1>7, <3>1, SMTT(30) DEF StandsAt
    <3>3. at[at1 + 1] = Scanned(at[at1], Dot) /\ at[at1] = Reading(octets, segment, v)
      BY <1>3, <2>1, <3>1, <3>2, SMTT(30) DEF Scans
    <3>4. at[at1 + 1] = Reading([octets EXCEPT ![segment + 1] = v], segment + 1, 0)
      BY <3>3, DotRead, Zenon
    <3> QED
      BY <3>1, <3>4
  <2> QED
    BY <1>8, <2>2, <2>3
<1> HIDE DEF q
<1>12. at[p[1]] = Reading(o0, 0, 0)
  BY <1>3, <1>9 DEF Scans, o0
<1> HIDE DEF o0, o1, o2, o3
<1>13. at[p[2]] = Reading(o1, 1, 0)
  BY <1>11, <1>12 DEF o1
<1>14. at[p[3]] = Reading(o2, 2, 0)
  BY <1>11, <1>13 DEF o2
<1>15. at[p[4]] = Reading(o3, 3, 0)
  BY <1>11, <1>14 DEF o3
<1>16. at[Len(text)] = Reading(o3, 3, a[4])
  BY <1>9, <1>10, <1>15
<1>17. ~at[Len(text)].bad /\ at[Len(text)].segment = 3 /\ at[Len(text)].octets = o3
       /\ at[Len(text)].value = a[4]
  BY <1>4, <1>16, ReadingIs
<1>18. [o3 EXCEPT ![4] = a[4]] = a
  BY DEF o0, o1, o2, o3, Zero, Address
<1> QED
  BY <1>17, <1>18 DEF ParseString, Accepted, text, at

(* The characters one by one: what a digit and a dot do, and when the loop *)
(* goes on.                                                                *)
IsState(s) ==
    /\ "bad" \in DOMAIN s /\ s.bad \in BOOLEAN
    /\ ~s.bad => s.value \in Byte /\ s.segment \in Nat

(* A digit and a dot, and nothing else, keep the loop going.               *)
LEMMA OneScanned ==
    ASSUME NEW s, IsState(s), NEW c \in Nat
    PROVE  LET t == Scanned(s, c)
           IN /\ IsState(t)
              /\ ~t.bad <=> /\ ~s.bad
                            /\ \/ c \in 0..9 /\ 10 * s.value + c <= 255
                               \/ c = Dot /\ s.segment <= 2
              /\ ~t.bad /\ c \in 0..9 => t.value = 10 * s.value + c /\ t.segment = s.segment
              /\ ~t.bad /\ c = Dot => t.value = 0 /\ t.segment = s.segment + 1
<1> DEFINE t == Scanned(s, c)
<1>1. ASSUME NEW o, NEW g \in Nat, NEW v \in Nat, t = Reading(o, g, v)
      PROVE  IsState(t) /\ (~t.bad <=> v <= 255) /\ t.value = v /\ t.segment = g
  <2> HIDE DEF t
  <2>1. "bad" \in DOMAIN t
    BY <1>1 DEF Reading
  <2>2. t.bad = (v > 255)
    BY <1>1, Zenon DEF Reading
  <2>3. t.value = v /\ t.segment = g
    BY <1>1, Zenon DEF Reading
  <2>4. (v > 255) \in BOOLEAN /\ ((v > 255) <=> ~(v <= 255)) /\ (v <= 255 => v \in Byte)
    BY DEF Byte
  <2>5. t.bad \in BOOLEAN /\ (~t.bad <=> v <= 255)
    BY <2>2, <2>4, Zenon
  <2> QED
    BY <2>1, <2>3, <2>4, <2>5, Zenon DEF IsState
<1>2. CASE s.bad
  <2>1. t = s
    BY <1>2, Zenon DEF Scanned
  <2> QED
    BY <1>2, <2>1
<1>3. CASE ~s.bad /\ c \in 0..9
  <2>1. t = Reading(s.octets, s.segment, 10 * s.value + c)
    BY <1>3, Zenon DEF Scanned
  <2>2. 10 * s.value + c \in Nat /\ s.segment \in Nat
    BY <1>3 DEF IsState, Byte
  <2>3. IsState(t) /\ (~t.bad <=> 10 * s.value + c <= 255)
        /\ t.value = 10 * s.value + c /\ t.segment = s.segment
    <3> HIDE DEF t
    <3> QED
      BY <1>1, <2>1, <2>2
  <2>4. c # Dot
    BY <1>3 DEF Dot
  <2> HIDE DEF t
  <2> QED
    BY <1>3, <2>3, <2>4, Zenon DEF t
<1>4. CASE ~s.bad /\ c = Dot /\ s.segment <= 2
  <2>1. c \notin 0..9
    BY <1>4 DEF Dot
  <2>2. t = Reading([s.octets EXCEPT ![s.segment + 1] = s.value], s.segment + 1, 0)
    BY <1>4, <2>1, Zenon DEF Scanned
  <2>3. s.segment + 1 \in Nat
    BY <1>4 DEF IsState
  <2>4. IsState(t) /\ ~t.bad /\ t.value = 0 /\ t.segment = s.segment + 1
    <3> HIDE DEF t
    <3> QED
      BY <1>1, <2>2, <2>3
  <2> HIDE DEF t
  <2> QED
    BY <1>4, <2>1, <2>4, Zenon DEF t
<1>5. CASE ~s.bad /\ c \notin 0..9 /\ ~(c = Dot /\ s.segment <= 2)
  <2>1. t = [s EXCEPT !.bad = TRUE]
    BY <1>5, Zenon DEF Scanned
  <2>2. t.bad = TRUE /\ IsState(t)
    BY <2>1 DEF IsState
  <2> HIDE DEF t
  <2> QED
    BY <1>5, <2>2, Zenon DEF t
<1> QED
  BY <1>2, <1>3, <1>4, <1>5

(* The whole loop, in these terms.                                         *)
Goes(text, at) ==
    /\ IsState(at[0]) /\ ~at[0].bad /\ at[0].value = 0 /\ at[0].segment = 0
    /\ \A p \in 0..Len(text) : IsState(at[p])
    /\ \A p \in 0..Len(text) - 1 :
          /\ ~at[p + 1].bad <=> /\ ~at[p].bad
                                /\ \/ text[p + 1] \in 0..9 /\ 10 * at[p].value + text[p + 1] <= 255
                                   \/ text[p + 1] = Dot /\ at[p].segment <= 2
          /\ ~at[p + 1].bad /\ text[p + 1] \in 0..9 =>
                at[p + 1].value = 10 * at[p].value + text[p + 1] /\ at[p + 1].segment = at[p].segment
          /\ ~at[p + 1].bad /\ text[p + 1] = Dot =>
                at[p + 1].value = 0 /\ at[p + 1].segment = at[p].segment + 1

(* By induction over the text.                                             *)
LEMMA ScanGoes ==
    ASSUME NEW text \in Seq(Nat)
    PROVE  Goes(text, Scan(text))
<1> DEFINE at == Scan(text)
           T == {p \in Nat : p <= Len(text) => IsState(at[p])}
<1>1. Scans(text, at)
  BY ScanIs
<1> HIDE DEF at
<1>2. IsState(at[0]) /\ ~at[0].bad /\ at[0].value = 0 /\ at[0].segment = 0
  <2>1. at[0] = Reading(Zero, 0, 0)
    BY <1>1 DEF Scans
  <2>2. 0 \in Byte
    BY DEF Byte
  <2>3. ~at[0].bad /\ at[0].value = 0 /\ at[0].segment = 0 /\ at[0].bad \in BOOLEAN
    BY <2>1, <2>2, ReadingIs
  <2>4. "bad" \in DOMAIN at[0]
    BY <2>1 DEF Reading
  <2> QED
    BY <2>2, <2>3, <2>4 DEF IsState
<1>3. \A p \in 0..Len(text) - 1 :
         p + 1 \in 1..Len(text) /\ text[p + 1] \in Nat /\ at[p + 1] = Scanned(at[p], text[p + 1])
  BY <1>1 DEF Scans
<1>4. \A p \in Nat : p \in T
  <2>1. 0 \in T
    BY <1>2
  <2>2. ASSUME NEW p \in Nat, p \in T PROVE p + 1 \in T
    <3>1. SUFFICES ASSUME p + 1 <= Len(text) PROVE IsState(at[p + 1])
      OBVIOUS
    <3>2. p \in 0..Len(text) - 1 /\ IsState(at[p])
      BY <2>2, <3>1
    <3> QED
      BY <1>3, <3>2, OneScanned
  <2> HIDE DEF T
  <2> QED
    BY <2>1, <2>2, Induction
<1>5. \A p \in 0..Len(text) : IsState(at[p])
  BY <1>4
<1>6. ASSUME NEW p \in 0..Len(text) - 1
      PROVE  /\ ~at[p + 1].bad <=> /\ ~at[p].bad
                                   /\ \/ text[p + 1] \in 0..9 /\ 10 * at[p].value + text[p + 1] <= 255
                                      \/ text[p + 1] = Dot /\ at[p].segment <= 2
             /\ ~at[p + 1].bad /\ text[p + 1] \in 0..9 =>
                   at[p + 1].value = 10 * at[p].value + text[p + 1] /\ at[p + 1].segment = at[p].segment
             /\ ~at[p + 1].bad /\ text[p + 1] = Dot =>
                   at[p + 1].value = 0 /\ at[p + 1].segment = at[p].segment + 1
  <2>1. IsState(at[p]) /\ text[p + 1] \in Nat /\ at[p + 1] = Scanned(at[p], text[p + 1])
    BY <1>3, <1>5
  <2>2. PICK t, c : t = at[p + 1] /\ c = text[p + 1]
    OBVIOUS
  <2>3. /\ ~t.bad <=> /\ ~at[p].bad
                      /\ \/ c \in 0..9 /\ 10 * at[p].value + c <= 255
                         \/ c = Dot /\ at[p].segment <= 2
        /\ ~t.bad /\ c \in 0..9 => t.value = 10 * at[p].value + c /\ t.segment = at[p].segment
        /\ ~t.bad /\ c = Dot => t.value = 0 /\ t.segment = at[p].segment + 1
    <3>1. c \in Nat /\ t = Scanned(at[p], c)
      BY <2>1, <2>2
    <3> QED
      BY <2>1, <3>1, OneScanned, Zenon
  <2> QED
    BY <2>2, <2>3, Zenon
<1> QED
  BY <1>2, <1>5, <1>6 DEF Goes, at

(* The dots among the first p characters.                                  *)
Dots(text, p) == {q \in 1..p : text[q] = Dot}

(* One more with every dot.                                                *)
LEMMA DotsCounted ==
    ASSUME NEW text
    PROVE  /\ Cardinality(Dots(text, 0)) = 0
           /\ \A p \in Nat : /\ IsFiniteSet(Dots(text, p)) /\ Cardinality(Dots(text, p)) \in Nat
                             /\ Cardinality(Dots(text, p + 1)) =
                                  Cardinality(Dots(text, p)) + (IF text[p + 1] = Dot THEN 1 ELSE 0)
<1> DEFINE T == {p \in Nat : IsFiniteSet(Dots(text, p))}
<1>1. Dots(text, 0) = {}
  BY DEF Dots
<1>2. ASSUME NEW p \in Nat
      PROVE  /\ p + 1 \notin Dots(text, p)
             /\ text[p + 1] = Dot => Dots(text, p + 1) = Dots(text, p) \cup {p + 1}
             /\ text[p + 1] # Dot => Dots(text, p + 1) = Dots(text, p)
  BY DEF Dots
<1>3. \A p \in Nat : p \in T
  <2>1. 0 \in T
    BY <1>1, FS_EmptySet
  <2>2. ASSUME NEW p \in Nat, p \in T PROVE p + 1 \in T
    BY <1>2, <2>2, FS_AddElement
  <2> HIDE DEF T
  <2> QED
    BY <2>1, <2>2, Induction
<1>4. ASSUME NEW p \in Nat
      PROVE  /\ IsFiniteSet(Dots(text, p)) /\ Cardinality(Dots(text, p)) \in Nat
             /\ Cardinality(Dots(text, p + 1)) =
                  Cardinality(Dots(text, p)) + (IF text[p + 1] = Dot THEN 1 ELSE 0)
  <2>1. IsFiniteSet(Dots(text, p)) /\ Cardinality(Dots(text, p)) \in Nat
    BY <1>3, FS_CardinalityType
  <2> QED
    BY <1>2, <2>1, FS_AddElement
<1> QED
  BY <1>1, <1>4, FS_EmptySet

(* What the loop has accepted so far: digits, and the dots it has counted. *)
LEMMA AcceptedSoFar ==
    ASSUME NEW text \in Seq(Nat), NEW at, Goes(text, at)
    PROVE  \A p \in 0..Len(text) : ~at[p].bad =>
              /\ at[p].segment = Cardinality(Dots(text, p))
              /\ \A q \in 0..p : ~at[q].bad
              /\ \A q \in 1..p : text[q] \in 0..9 \cup {Dot}
<1> DEFINE Fine(p) == ~at[p].bad =>
                         /\ at[p].segment = Cardinality(Dots(text, p))
                         /\ \A q \in 0..p : ~at[q].bad
                         /\ \A q \in 1..p : text[q] \in 0..9 \cup {Dot}
           T == {p \in Nat : p <= Len(text) => Fine(p)}
<1>1. 0 \in T
  <2>1. at[0].segment = Cardinality(Dots(text, 0)) /\ ~at[0].bad
    BY DotsCounted DEF Goes
  <2> QED
    BY <2>1
<1>2. ASSUME NEW p \in Nat, p \in T PROVE p + 1 \in T
  <2>1. SUFFICES ASSUME p + 1 <= Len(text), ~at[p + 1].bad
                 PROVE  /\ at[p + 1].segment = Cardinality(Dots(text, p + 1))
                        /\ \A q \in 0..p + 1 : ~at[q].bad
                        /\ \A q \in 1..p + 1 : text[q] \in 0..9 \cup {Dot}
    OBVIOUS
  <2>2. p \in 0..Len(text) - 1
    BY <2>1
  <2>3. ~at[p].bad /\ text[p + 1] \in 0..9 \cup {Dot}
    BY <2>1, <2>2 DEF Goes
  <2>4. Fine(p)
    BY <1>2, <2>2
  <2>5. at[p + 1].segment = Cardinality(Dots(text, p + 1))
    <3>1. Cardinality(Dots(text, p + 1)) = Cardinality(Dots(text, p)) + (IF text[p + 1] = Dot THEN 1 ELSE 0)
          /\ Cardinality(Dots(text, p)) \in Nat
      BY DotsCounted
    <3>2. at[p].segment = Cardinality(Dots(text, p))
      BY <2>3, <2>4
    <3>3. CASE text[p + 1] = Dot
      <4>1. at[p + 1].segment = at[p].segment + 1
        BY <2>1, <2>2, <3>3 DEF Goes
      <4> QED
        BY <3>1, <3>2, <3>3, <4>1
    <3>4. CASE text[p + 1] # Dot
      <4>1. at[p + 1].segment = at[p].segment
        BY <2>1, <2>2, <2>3, <3>4 DEF Goes
      <4> QED
        BY <3>1, <3>2, <3>4, <4>1
    <3> QED
      BY <3>3, <3>4
  <2>6. \A q \in 0..p + 1 : q \in 0..p \/ q = p + 1
    OBVIOUS
  <2>7. \A q \in 1..p + 1 : q \in 1..p \/ q = p + 1
    OBVIOUS
  <2> HIDE DEF T
  <2> QED
    BY <2>1, <2>3, <2>4, <2>5, <2>6, <2>7
<1>3. \A p \in Nat : p \in T
  <2> HIDE DEF T
  <2> QED
    BY <1>1, <1>2, Induction
<1> QED
  BY <1>3

(* Where the loop is in a text that it should accept: the number it reads  *)
(* is made of the last digits, not counting zeros in front.                *)
Shape(text, p, v) ==
    \/ v = 0
    \/ p >= 1 /\ text[p] \in 1..9 /\ v = text[p]
    \/ p >= 2 /\ text[p - 1] \in 1..9 /\ text[p] \in 0..9 /\ v = 10 * text[p - 1] + text[p]
    \/ /\ p >= 3 /\ text[p - 2] \in 1..9 /\ text[p - 1] \in 0..9 /\ text[p] \in 0..9
       /\ v = 100 * text[p - 2] + 10 * text[p - 1] + text[p]

(* A digit more and the number is no more than 255, or there were four     *)
(* digits, or three too high.                                              *)
LEMMA ShapeKept ==
    ASSUME NEW text \in Seq(Nat), IsQuad(text), NEW p \in Nat, p + 1 <= Len(text),
           NEW v \in Byte, Shape(text, p, v), text[p + 1] \in 0..9
    PROVE  10 * v + text[p + 1] <= 255 /\ Shape(text, p + 1, 10 * v + text[p + 1])
<1>1. PICK c \in 0..9 : c = text[p + 1]
  OBVIOUS
<1>2. v \in Nat
  BY DEF Byte
<1>3. CASE v = 0
  BY <1>1, <1>3 DEF Shape
<1>4. CASE p >= 1 /\ text[p] \in 1..9 /\ v = text[p]
  <2>1. PICK x \in 1..9 : x = text[p]
    BY <1>4
  <2>2. v = x
    BY <1>4, <2>1, Zenon
  <2>3. 10 * v + c <= 255
    BY <2>2
  <2>4. (p + 1) - 1 = p
    OBVIOUS
  <2>5. p + 1 >= 2 /\ text[(p + 1) - 1] = x /\ 10 * v + c = 10 * x + c
    BY <1>4, <2>1, <2>2, <2>4
  <2>6. Shape(text, p + 1, 10 * v + c)
    BY <1>1, <2>1, <2>5 DEF Shape
  <2> QED
    BY <1>1, <2>3, <2>6
<1>5. CASE p >= 2 /\ text[p - 1] \in 1..9 /\ text[p] \in 0..9 /\ v = 10 * text[p - 1] + text[p]
  <2>1. PICK x \in 1..9, y \in 0..9 : x = text[p - 1] /\ y = text[p]
    BY <1>5
  <2>2. 10 * v + c = 100 * x + 10 * y + c
    <3>1. v = 10 * x + y
      BY <1>5, <2>1, Zenon
    <3> QED
      BY <3>1
  <2>3. 10 * v + c <= 255
    <3> SUFFICES ASSUME 100 * x + 10 * y + c > 255 PROVE FALSE
      BY <2>2
    <3>1. PICK q \in Nat : /\ q = p - 1 /\ q + 1 = p /\ q + 2 = p + 1 /\ q + 2 <= Len(text)
                           /\ q \in DOMAIN text
      BY <1>5
    <3>2. AllDigits(text, q, q + 2)
      <4>1. \A k \in q..q + 2 : k = q \/ k = q + 1 \/ k = q + 2
        OBVIOUS
      <4> QED
        <5>1. text[q] \in 0..9 /\ text[q + 1] \in 0..9 /\ text[q + 2] \in 0..9
          BY <1>1, <2>1, <3>1
        <5> QED
          BY <4>1, <5>1 DEF AllDigits
    <3>3. Above255(text, q)
      BY <1>1, <2>1, <3>1, <3>2 DEF Above255
    <3> QED
      BY <3>1, <3>3 DEF IsQuad
  <2>4. (p + 1) - 2 = p - 1 /\ (p + 1) - 1 = p
    OBVIOUS
  <2>5. p + 1 >= 3 /\ text[(p + 1) - 2] = x /\ text[(p + 1) - 1] = y
    BY <1>5, <2>1, <2>4
  <2>6. Shape(text, p + 1, 10 * v + c)
    BY <1>1, <2>1, <2>2, <2>5 DEF Shape
  <2> QED
    BY <1>1, <2>3, <2>6
<1>6. CASE /\ p >= 3 /\ text[p - 2] \in 1..9 /\ text[p - 1] \in 0..9 /\ text[p] \in 0..9
           /\ v = 100 * text[p - 2] + 10 * text[p - 1] + text[p]
  <2>1. PICK q \in Nat : /\ q = p - 2 /\ q + 1 = p - 1 /\ q + 2 = p /\ q + 3 = p + 1
                         /\ q + 3 <= Len(text) /\ q \in DOMAIN text
    BY <1>6
  <2>2. AllDigits(text, q, q + 3)
    <3>1. \A k \in q..q + 3 : k = q \/ k = q + 1 \/ k = q + 2 \/ k = q + 3
      OBVIOUS
    <3>2. text[q] \in 0..9 /\ text[q + 1] \in 0..9 /\ text[q + 2] \in 0..9 /\ text[q + 3] \in 0..9
      BY <1>1, <1>6, <2>1
    <3> QED
      BY <3>1, <3>2 DEF AllDigits
  <2>3. text[q] > 0
    <3>1. PICK x \in 1..9 : x = text[q]
      BY <1>6, <2>1, Zenon
    <3> QED
      BY <3>1, SMTT(30)
  <2>4. Above255(text, q)
    BY <2>1, <2>2, <2>3 DEF Above255
  <2> QED
    BY <2>1, <2>4 DEF IsQuad
<1> QED
  BY <1>3, <1>4, <1>5, <1>6 DEF Shape

(* So the loop never ends early in such a text.                            *)
LEMMA QuadGoesOn ==
    ASSUME NEW text \in Seq(Nat), NEW at, Goes(text, at), IsQuad(text)
    PROVE  \A p \in 0..Len(text) :
              /\ ~at[p].bad /\ at[p].segment = Cardinality(Dots(text, p))
              /\ Shape(text, p, at[p].value)
<1> DEFINE Fine(p) == /\ ~at[p].bad /\ at[p].segment = Cardinality(Dots(text, p))
                      /\ Shape(text, p, at[p].value)
           T == {p \in Nat : p <= Len(text) => Fine(p)}
<1>1. 0 \in T
  BY DotsCounted DEF Goes, Shape
<1>2. ASSUME NEW p \in Nat, p \in T PROVE p + 1 \in T
  <2>1. SUFFICES ASSUME p + 1 <= Len(text) PROVE Fine(p + 1)
    OBVIOUS
  <2>2. p \in 0..Len(text) - 1 /\ p \in 0..Len(text) /\ Len(text) \in Nat /\ p + 1 \in DOMAIN text
    BY <2>1
  <2>3. Fine(p) /\ IsState(at[p]) /\ at[p].value \in Byte
    BY <1>2, <2>2 DEF Goes, IsState
  <2>4. Cardinality(Dots(text, p + 1)) = Cardinality(Dots(text, p)) + (IF text[p + 1] = Dot THEN 1 ELSE 0)
        /\ Cardinality(Dots(text, p)) \in Nat
    BY DotsCounted
  <2>5. Cardinality(Dots(text, p + 1)) <= 3
    <3>1. Dots(text, Len(text)) = {q \in DOMAIN text : text[q] = Dot}
      BY DEF Dots
    <3>2. Dots(text, p + 1) \subseteq Dots(text, Len(text))
      BY <2>1 DEF Dots
    <3>3. IsFiniteSet(Dots(text, Len(text)))
      BY <2>2, DotsCounted
    <3>4. Cardinality(Dots(text, p + 1)) <= Cardinality(Dots(text, Len(text)))
      BY <3>2, <3>3, FS_Subset
    <3> QED
      BY <3>1, <3>4 DEF IsQuad
  <2>6. text[p + 1] \in 0..9 \cup {Dot}
    BY <2>2 DEF IsQuad
  <2>7. CASE text[p + 1] = Dot
    <3>1. at[p].segment <= 2
      BY <2>3, <2>4, <2>5, <2>7
    <3>2. ~at[p + 1].bad /\ at[p + 1].value = 0 /\ at[p + 1].segment = at[p].segment + 1
      BY <2>2, <2>3, <2>7, <3>1 DEF Goes
    <3> QED
      BY <2>3, <2>4, <2>7, <3>2 DEF Shape
  <2>8. CASE text[p + 1] \in 0..9
    <3>1. 10 * at[p].value + text[p + 1] <= 255 /\ Shape(text, p + 1, 10 * at[p].value + text[p + 1])
      BY <2>1, <2>3, <2>8, ShapeKept
    <3>2. ~at[p + 1].bad /\ at[p + 1].value = 10 * at[p].value + text[p + 1]
          /\ at[p + 1].segment = at[p].segment
      BY <2>2, <2>3, <2>8, <3>1 DEF Goes
    <3>3. text[p + 1] # Dot
      BY <2>8 DEF Dot
    <3> QED
      BY <2>3, <2>4, <3>1, <3>2, <3>3
  <2> QED
    BY <2>6, <2>7, <2>8
<1>3. \A p \in Nat : p \in T
  <2> HIDE DEF T
  <2> QED
    BY <1>1, <1>2, Induction
<1> QED
  BY <1>3

(* The numbers of characters before those of a number.                     *)
LEMMA Before ==
    ASSUME NEW n \in Nat, NEW p \in Nat, NEW q \in Nat, q + 1 = p, p + 2 <= n
    PROVE  /\ q \in 0..n - 1 /\ p \in 0..n - 1 /\ p + 1 \in 0..n - 1
           /\ (p + 1) + 1 = p + 2 /\ (p + 2) + 1 = p + 3
           /\ p + 3 <= n => p + 2 \in 0..n - 1
OBVIOUS

(* parseString goes through to its end with the texts that are addresses,  *)
(* and with no others (IPConfig.h:35-69).                                  *)
THEOREM AcceptsQuads ==
    ASSUME NEW text \in Seq(Nat)
    PROVE  Accepted(text) <=> IsQuad(text)
<1> DEFINE at == Scan(text)
           n == Len(text)
<1>1. Goes(text, at)
  BY ScanGoes
<1> HIDE DEF at
<1>2. n \in Nat /\ n \in 0..n /\ DOMAIN text = 1..n
  OBVIOUS
<1>3. Dots(text, n) = {q \in DOMAIN text : text[q] = Dot}
  BY DEF Dots
<1>4. ASSUME Accepted(text) PROVE IsQuad(text)
  <2>1. ~at[n].bad /\ at[n].segment = 3
    BY <1>4 DEF Accepted, at
  <2>2. /\ Cardinality(Dots(text, n)) = 3
        /\ \A q \in 0..n : ~at[q].bad
        /\ \A q \in 1..n : text[q] \in 0..9 \cup {Dot}
    BY <1>1, <1>2, <2>1, AcceptedSoFar
  <2>3. ASSUME NEW p \in DOMAIN text, Above255(text, p) PROVE FALSE
    <3>1. ASSUME NEW q \in 0..n - 1, text[q + 1] \in 0..9
          PROVE  /\ at[q + 1].value = 10 * at[q].value + text[q + 1]
                 /\ at[q].value \in Byte /\ at[q + 1].value \in Byte
      <4>1. q \in 0..n /\ q + 1 \in 0..n
        OBVIOUS
      <4>2. ~at[q].bad /\ ~at[q + 1].bad
        BY <2>2, <4>1
      <4> QED
        BY <1>1, <3>1, <4>1, <4>2 DEF Goes, IsState
    <3>2. p \in Nat /\ p >= 1
      BY <1>2
    <3>3. PICK q \in Nat : q + 1 = p
      <4>1. p - 1 \in Nat /\ (p - 1) + 1 = p
        BY <3>2
      <4> QED
        BY <4>1
    <3>4. CASE /\ p + 2 <= Len(text) /\ AllDigits(text, p, p + 2)
               /\ 100 * text[p] + 10 * text[p + 1] + text[p + 2] > 255
      <4>1. p \in p..p + 2 /\ p + 1 \in p..p + 2 /\ p + 2 \in p..p + 2
        BY <3>2
      <4>2. PICK x \in 0..9, y \in 0..9, z \in 0..9 : x = text[p] /\ y = text[p + 1] /\ z = text[p + 2]
        BY <3>4, <4>1 DEF AllDigits
      <4>3. q \in 0..n - 1 /\ p \in 0..n - 1 /\ p + 1 \in 0..n - 1 /\ (p + 1) + 1 = p + 2
        <5>1. p + 2 <= n
          BY <3>4
        <5>2. n \in Nat
          BY <1>2
        <5> HIDE DEF n
        <5> QED
          BY <3>2, <3>3, <5>1, <5>2, Before
      <4>4. PICK u \in Byte, v0 \in Byte : u = at[q].value /\ v0 = at[p].value /\ v0 = 10 * u + x
        BY <3>1, <3>3, <4>2, <4>3
      <4>5. PICK v1 \in Byte : v1 = at[p + 1].value /\ v1 = 10 * v0 + y
        BY <3>1, <4>2, <4>3, <4>4
      <4>6. PICK v2 \in Byte : v2 = 10 * v1 + z
        BY <3>1, <4>2, <4>3, <4>5
      <4>7. 100 * x + 10 * y + z > 255
        BY <3>4, <4>2
      <4>8. u \in Nat /\ v2 <= 255 /\ v2 \in Nat /\ v0 \in Nat /\ v1 \in Nat
        BY DEF Byte
      <4>9. v2 = 1000 * u + (100 * x + 10 * y + z)
        <5>1. v0 = 10 * u + x /\ v1 = 10 * v0 + y /\ v2 = 10 * v1 + z
          BY <4>4, <4>5, <4>6, Zenon
        <5> QED
          BY <4>8, <5>1
      <4> QED
        BY <4>7, <4>8, <4>9
    <3>5. CASE p + 3 <= Len(text) /\ AllDigits(text, p, p + 3) /\ text[p] > 0
      <4>1. p \in p..p + 3 /\ p + 1 \in p..p + 3 /\ p + 2 \in p..p + 3 /\ p + 3 \in p..p + 3
        BY <3>2
      <4>2. PICK w \in 0..9, x \in 0..9, y \in 0..9, z \in 0..9 :
               w = text[p] /\ x = text[p + 1] /\ y = text[p + 2] /\ z = text[p + 3]
        BY <3>5, <4>1 DEF AllDigits
      <4>3. /\ q \in 0..n - 1 /\ p \in 0..n - 1 /\ p + 1 \in 0..n - 1 /\ p + 2 \in 0..n - 1
            /\ (p + 1) + 1 = p + 2 /\ (p + 2) + 1 = p + 3
        <5>1. p + 3 <= n
          BY <3>5
        <5>2. n \in Nat
          BY <1>2
        <5> HIDE DEF n
        <5>3. p + 2 <= n
          BY <3>2, <5>1, <5>2
        <5> QED
          BY <3>2, <3>3, <5>1, <5>2, <5>3, Before
      <4>4. PICK u \in Byte, v0 \in Byte : u = at[q].value /\ v0 = at[p].value /\ v0 = 10 * u + w
        BY <3>1, <3>3, <4>2, <4>3
      <4>5. PICK v1 \in Byte : v1 = at[p + 1].value /\ v1 = 10 * v0 + x
        BY <3>1, <4>2, <4>3, <4>4
      <4>6. PICK v2 \in Byte : v2 = at[p + 2].value /\ v2 = 10 * v1 + y
        BY <3>1, <4>2, <4>3, <4>5
      <4>7. PICK v3 \in Byte : v3 = 10 * v2 + z
        BY <3>1, <4>2, <4>3, <4>6
      <4>8. w > 0
        BY <3>5, <4>2
      <4>9. u \in Nat /\ v3 <= 255 /\ v3 \in Nat /\ v0 \in Nat /\ v1 \in Nat /\ v2 \in Nat
        BY DEF Byte
      <4>10. v3 = 10000 * u + (1000 * w + 100 * x + 10 * y + z)
        <5>1. v0 = 10 * u + w /\ v1 = 10 * v0 + x /\ v2 = 10 * v1 + y /\ v3 = 10 * v2 + z
          BY <4>4, <4>5, <4>6, <4>7, Zenon
        <5> QED
          BY <4>9, <5>1
      <4> QED
        BY <4>8, <4>9, <4>10
    <3> QED
      BY <2>3, <3>4, <3>5 DEF Above255
  <2> QED
    BY <1>2, <1>3, <2>2, <2>3 DEF IsQuad
<1>5. ASSUME IsQuad(text) PROVE Accepted(text)
  <2>1. ~at[n].bad /\ at[n].segment = Cardinality(Dots(text, n))
    BY <1>1, <1>2, <1>5, QuadGoesOn
  <2> QED
    BY <1>3, <1>5, <2>1 DEF IsQuad, Accepted, at
<1> QED
  BY <1>4, <1>5

(* What is written is an address, too.                                     *)
LEMMA WrittenIsQuad ==
    ASSUME NEW a \in Address
    PROVE  ExportToString(a) \in Seq(Nat) /\ IsQuad(ExportToString(a))
BY QuadStands, WrittenIsRead, AcceptsQuads

(* What is no address is refused by parseString, and left to the other     *)
(* forms that lwIP knows.                                                  *)
LEMMA BrokenIsRefused ==
    ASSUME NEW text \in Seq(Nat), ~IsQuad(text)
    PROVE  /\ ParseString(text) = Zero
           /\ IpAddr(text) = IF text \in DOMAIN Loose THEN Loose[text] ELSE IpNone
<1>1. ~Accepted(text)
  BY AcceptsQuads
<1>2. ParseString(text) = Zero
  BY <1>1, Zenon DEF ParseString, Accepted
<1>3. Zero \in Address
  BY DEF Zero, Address, Byte
<1>4. ExportToString(Zero) # text
  BY <1>3, WrittenIsQuad
<1> QED
  BY <1>2, <1>4 DEF IpAddr

(* The text of a name server that is left out.                             *)
LEMMA EmptyIsRefused == ParseString(<<>>) = Zero
<1>1. {p \in DOMAIN <<>> : <<>>[p] = Dot} = {}
  OBVIOUS
<1>2. <<>> \in Seq(Nat) /\ ~IsQuad(<<>>)
  BY <1>1, FS_EmptySet DEF IsQuad
<1> QED
  BY <1>2, BrokenIsRefused, Zenon

(* What the application writes of a configuration is read as it was meant. *)
(* With a text in it that is no address it is refused by the overloads     *)
(* that take an IPConfig, which look at no more than the subnet of what    *)
(* parseString made of it (IPConfig.h:35-69, NeuWiFi_STA.cpp:125), and by  *)
(* the others unless lwIP reads that text (NeuWiFi_STA.cpp:84).            *)
THEOREM TextsRight ==
    ASSUME NEW i \in Interface, NEW a \in Wanted[i]
    PROVE  /\ FromText(TextOf(a)) = a
           /\ \A b \in Broken :
                 /\ SetByConfig(i, Spoilt(a, b)) = None
                 /\ b[2] \notin DOMAIN Loose => SetByText(i, Spoilt(a, b)) = None
<1> DEFINE Server(d) == IF d = Zero THEN <<>> ELSE ExportToString(d)
<1>1. /\ a.ip \in Address /\ a.subnet \in Address /\ a.gateway \in Address
      /\ a.dns[1] \in Address /\ a.dns[2] \in Address /\ a.dns = <<a.dns[1], a.dns[2]>>
      /\ a = [ip |-> a.ip, subnet |-> a.subnet, gateway |-> a.gateway, dns |-> a.dns]
  BY WantedAssumption DEF IPConfig
<1>2. FromText(TextOf(a)) = a
  <2>1. \A d \in Address : ParseString(ExportToString(d)) = d /\ ParseString(Server(d)) = d
    BY WrittenIsRead, EmptyIsRefused
  <2>2. TextOf(a) = [ip |-> ExportToString(a.ip), subnet |-> ExportToString(a.subnet),
                     gateway |-> ExportToString(a.gateway),
                     dns |-> <<Server(a.dns[1]), Server(a.dns[2])>>]
    BY DEF TextOf
  <2> HIDE DEF Server
  <2>3. FromText(TextOf(a)) = [ip |-> ParseString(ExportToString(a.ip)),
                               subnet |-> ParseString(ExportToString(a.subnet)),
                               gateway |-> ParseString(ExportToString(a.gateway)),
                               dns |-> <<ParseString(Server(a.dns[1])), ParseString(Server(a.dns[2]))>>]
    BY <2>2 DEF FromText
  <2> QED
    BY <1>1, <2>1, <2>3
<1>3. ASSUME NEW b \in Broken
      PROVE  /\ SetByConfig(i, Spoilt(a, b)) = None
             /\ b[2] \notin DOMAIN Loose => SetByText(i, Spoilt(a, b)) = None
  <2> DEFINE f == b[1]
             text == b[2]
             t == Spoilt(a, b)
  <2>1. /\ f \in {"ip", "subnet", "gateway"} /\ text \in Seq(Nat) /\ ~IsQuad(text)
        /\ t = [TextOf(a) EXCEPT ![f] = text]
    BY BrokenAssumption DEF Spoilt
  <2> HIDE DEF f, text, t
  <2>2. ParseString(text) = Zero /\ (text \notin DOMAIN Loose => IpAddr(text) = IpNone)
    BY <2>1, BrokenIsRefused
  <2>3. \A g \in {"ip", "subnet", "gateway"} : t[g] = IF g = f THEN text ELSE TextOf(a)[g]
    BY <2>1 DEF TextOf
  <2>4. text \notin DOMAIN Loose =>
           \/ IpAddr(t.ip) = IpNone \/ IpAddr(t.subnet) = IpNone \/ IpAddr(t.gateway) = IpNone
    BY <2>1, <2>2, <2>3
  <2>5. text \notin DOMAIN Loose => SetByText(i, t) = None
    BY <2>4 DEF SetByText, ReadText, TextAccepted
  <2>6. \/ ParseString(t.ip) = Zero \/ ParseString(t.subnet) = Zero
        \/ /\ ParseString(t.gateway) = Zero
           /\ ParseString(t.ip) = a.ip /\ ParseString(t.subnet) = a.subnet
    <3>1. CASE f = "gateway"
      <4>1. t.ip = ExportToString(a.ip) /\ t.subnet = ExportToString(a.subnet) /\ t.gateway = text
        BY <2>3, <3>1 DEF TextOf
      <4> QED
        BY <1>1, <2>2, <4>1, WrittenIsRead
    <3>2. CASE f # "gateway"
      BY <2>1, <2>2, <2>3, <3>2
    <3> QED
      BY <3>1, <3>2
  <2>7. ~ConfigAccepted(FromText(t))
    <3>1. a.subnet = Zero \/ ~SameNet(a.ip, Zero, a.subnet)
      BY WantedAssumption
    <3> QED
      BY <2>6, <3>1 DEF ConfigAccepted, FromText, IsValidSubnet
  <2> QED
    BY <2>5, <2>7 DEF SetByConfig, t, text
<1> QED
  BY <1>2, <1>3

-----------------------------------------------------------------------------
(* What an interface shows of what was asked: Stored speaks of the         *)
(* settings, which outlive stop(), and Shown of the interfaces, which are  *)
(* created and destroyed.                                                  *)
Asked == [by : {"text", "config"}, addresses : IPConfig]

Meant(i, q) == Kept(i, Promised(IF q.by = "text" THEN q.addresses ELSE LwIP(q.addresses)))

Stored ==
    /\ static \in [Interface -> IPConfig \cup {None}]
    /\ asked \in [Interface -> Asked \cup {None}]
    /\ \A i \in Interface : static[i] = IF asked[i] = None THEN None ELSE Meant(i, asked[i])

(* An interface that was not started with addresses since it was created   *)
(* has its own or a leased one; one that is leased was not given any.      *)
Shown ==
    /\ netif \in [Interface -> IPConfig \cup {None}] /\ dhcp \in BOOLEAN
    /\ applied \in [Interface -> Asked \cup {None}]
    /\ \A i \in Interface :
          /\ netif[i] = None => i \notin Of(mode) /\ applied[i] = None
          /\ asked[i] = None => applied[i] = None
          /\ netif[i] # None =>
                IF applied[i] = None THEN netif[i] \in {Default[i], Lease}
                                     ELSE netif[i] = Meant(i, applied[i])
    /\ dhcp => applied["sta"] = None

AddressInv == Stored /\ Shown

(* Addresses of four bytes, and configurations of them.                    *)
LEMMA Addresses ==
    /\ Zero \in Address /\ Cloudflare \in Address /\ Google \in Address
    /\ IpNone \in Address /\ Cloudflare # Zero /\ Google # Zero
    /\ \A a \in Address : GetLwIP(a) \in Address
    /\ GetLwIP(Zero) = Zero
<1>1. \A w, x, y, z \in Byte : <<w, x, y, z>> \in Address
  BY DEF Address
<1>2. \A a \in Address : a[1] \in Byte /\ a[2] \in Byte /\ a[3] \in Byte /\ a[4] \in Byte
  BY DEF Address
<1>3. {0, 1, 8, 255} \subseteq Byte
  BY DEF Byte
<1> QED
  BY <1>1, <1>2, <1>3 DEF Zero, Cloudflare, Google, IpNone, GetLwIP

LEMMA Configurations ==
    ASSUME NEW c \in IPConfig
    PROVE  /\ Promised(c) \in IPConfig
           /\ LwIP(c) \in IPConfig
           /\ \A i \in Interface : Kept(i, c) \in IPConfig
           /\ Promised(LwIP(c)) = LwIP(c)
<1> USE Addresses
<1>1. /\ c.ip \in Address /\ c.subnet \in Address /\ c.gateway \in Address
      /\ c.dns[1] \in Address /\ c.dns[2] \in Address
  BY DEF IPConfig
<1>2. \A a, d \in Address : OrElse(a, Zero, d) \in Address
  BY DEF OrElse
<1>3. \A a, b \in Address : [c EXCEPT !.dns = <<a, b>>] \in IPConfig
  BY DEF IPConfig
<1>4. Promised(c) \in IPConfig
  BY <1>1, <1>2, <1>3 DEF Promised
<1>5. \A i \in Interface : Kept(i, c) \in IPConfig
  BY <1>3 DEF Kept, NoDns
<1>6. LwIP(c) \in IPConfig
  BY <1>1, <1>2 DEF LwIP, GetLwIP_DNS, IPConfig
<1>7. \A a, d \in Address : d # Zero => OrElse(OrElse(a, Zero, d), Zero, d) = OrElse(a, Zero, d)
  BY DEF OrElse
<1>8. Promised(LwIP(c)) = LwIP(c)
  BY <1>1, <1>7 DEF Promised, LwIP, GetLwIP_DNS
<1> QED
  BY <1>4, <1>5, <1>6, <1>8

LEMMA MeantIsConfig == \A i \in Interface, q \in Asked : Meant(i, q) \in IPConfig
<1> SUFFICES ASSUME NEW i \in Interface, NEW q \in Asked PROVE Meant(i, q) \in IPConfig
  OBVIOUS
<1>1. q.addresses \in IPConfig /\ LwIP(q.addresses) \in IPConfig
  BY Configurations DEF Asked
<1> QED
  BY <1>1, Configurations DEF Meant

(* What the overloads make of a configuration that is written as it is     *)
(* wanted.                                                                 *)
LEMMA TextIsRead ==
    ASSUME NEW a \in IPConfig, a.dns[1] # IpNone, a.dns[2] # IpNone, FromText(TextOf(a)) = a
    PROVE  ReadText(TextOf(a)) = Promised(a)
<1> DEFINE t == TextOf(a)
           Server(d) == IF d = Zero THEN <<>> ELSE ExportToString(d)
<1>1. /\ t.ip = ExportToString(a.ip) /\ t.subnet = ExportToString(a.subnet)
      /\ t.gateway = ExportToString(a.gateway)
      /\ t.dns[1] = Server(a.dns[1]) /\ t.dns[2] = Server(a.dns[2])
  BY DEF TextOf
<1>2. /\ ParseString(t.ip) = a.ip /\ ParseString(t.subnet) = a.subnet
      /\ ParseString(t.gateway) = a.gateway
      /\ ParseString(t.dns[1]) = a.dns[1] /\ ParseString(t.dns[2]) = a.dns[2]
  <2> HIDE DEF t
  <2>1. FromText(t) = a
    BY DEF t
  <2> QED
    BY <2>1 DEF FromText
<1> HIDE DEF t
<1>3. IpAddr(t.ip) = a.ip /\ IpAddr(t.subnet) = a.subnet /\ IpAddr(t.gateway) = a.gateway
  BY <1>1, <1>2 DEF IpAddr
<1>4. ASSUME NEW d, NEW default, d # IpNone, ParseString(Server(d)) = d
      PROVE  ServerOf(Server(d), default) = OrElse(d, Zero, default)
  BY <1>4, EmptyIsRefused DEF IpAddr, ServerOf, OrElse
<1>5. /\ ServerOf(t.dns[1], Cloudflare) = OrElse(a.dns[1], Zero, Cloudflare)
      /\ ServerOf(t.dns[2], Google) = OrElse(a.dns[2], Zero, Google)
  BY <1>1, <1>2, <1>4
<1>6. ReadText(t) = [ip |-> a.ip, subnet |-> a.subnet, gateway |-> a.gateway,
                     dns |-> <<OrElse(a.dns[1], Zero, Cloudflare), OrElse(a.dns[2], Zero, Google)>>]
  BY <1>3, <1>5 DEF ReadText
<1>7. Promised(a) = [ip |-> a.ip, subnet |-> a.subnet, gateway |-> a.gateway,
                     dns |-> <<OrElse(a.dns[1], Zero, Cloudflare), OrElse(a.dns[2], Zero, Google)>>]
  BY DEF Promised, IPConfig
<1> QED
  BY <1>6, <1>7 DEF t

(* A spoilt text among them is read as lwIP reads it.                      *)
LEMMA LooselyRead ==
    ASSUME NEW a \in IPConfig, NEW b \in Broken, ReadText(TextOf(a)) = Promised(a)
    PROVE  /\ Loosely(a, b) \in IPConfig
           /\ ReadText(Spoilt(a, b)) = Promised(Loosely(a, b))
<1> DEFINE f == b[1]
           text == b[2]
<1>1. f \in {"ip", "subnet", "gateway"} /\ text \in Seq(Nat) /\ ~IsQuad(text)
  BY BrokenAssumption
<1>2. IpAddr(text) \in Address
  BY <1>1, BrokenIsRefused, LooseAssumption, Addresses
<1> DEFINE x == IpAddr(text)
           t == TextOf(a)
           c == [a EXCEPT ![f] = x]
           u == [t EXCEPT ![f] = text]
<1>3. Loosely(a, b) = c /\ Spoilt(a, b) = u
  BY DEF Loosely, Spoilt
<1> HIDE DEF f, text, x
<1>4. a = [ip |-> a.ip, subnet |-> a.subnet, gateway |-> a.gateway, dns |-> a.dns]
  BY DEF IPConfig
<1>5. /\ c.ip = IF f = "ip" THEN x ELSE a.ip
      /\ c.subnet = IF f = "subnet" THEN x ELSE a.subnet
      /\ c.gateway = IF f = "gateway" THEN x ELSE a.gateway
      /\ c.dns = a.dns
      /\ c = [ip |-> c.ip, subnet |-> c.subnet, gateway |-> c.gateway, dns |-> c.dns]
  <2>1. PICK ip, subnet, gateway, dns :
           a = [ip |-> ip, subnet |-> subnet, gateway |-> gateway, dns |-> dns]
    BY <1>4, Zenon
  <2>2. /\ a.ip = ip /\ a.subnet = subnet /\ a.gateway = gateway /\ a.dns = dns
        /\ c = [ip |-> IF f = "ip" THEN x ELSE ip, subnet |-> IF f = "subnet" THEN x ELSE subnet,
                gateway |-> IF f = "gateway" THEN x ELSE gateway, dns |-> dns]
    BY <1>1, <2>1
  <2> HIDE DEF c
  <2> QED
    BY <2>2
<1>6. c \in IPConfig
  BY <1>2, <1>5 DEF IPConfig, x
<1>7. /\ u.ip = IF f = "ip" THEN text ELSE t.ip
      /\ u.subnet = IF f = "subnet" THEN text ELSE t.subnet
      /\ u.gateway = IF f = "gateway" THEN text ELSE t.gateway
      /\ u.dns = t.dns
  BY <1>1 DEF TextOf
<1> HIDE DEF c, u, t
<1>8. /\ IpAddr(t.ip) = a.ip /\ IpAddr(t.subnet) = a.subnet /\ IpAddr(t.gateway) = a.gateway
      /\ ServerOf(t.dns[1], Cloudflare) = OrElse(a.dns[1], Zero, Cloudflare)
      /\ ServerOf(t.dns[2], Google) = OrElse(a.dns[2], Zero, Google)
  <2>1. ReadText(t) = Promised(a)
    BY DEF t
  <2>2. Promised(a) = [ip |-> a.ip, subnet |-> a.subnet, gateway |-> a.gateway,
                       dns |-> <<OrElse(a.dns[1], Zero, Cloudflare), OrElse(a.dns[2], Zero, Google)>>]
    BY <1>4 DEF Promised
  <2> QED
    BY <2>1, <2>2 DEF ReadText
<1>9. IpAddr(u.ip) = c.ip /\ IpAddr(u.subnet) = c.subnet /\ IpAddr(u.gateway) = c.gateway
  BY <1>5, <1>7, <1>8, Zenon DEF x
<1>10. ReadText(u) = [ip |-> c.ip, subnet |-> c.subnet, gateway |-> c.gateway,
                      dns |-> <<OrElse(a.dns[1], Zero, Cloudflare), OrElse(a.dns[2], Zero, Google)>>]
  BY <1>7, <1>8, <1>9 DEF ReadText
<1>11. Promised(c) = [ip |-> c.ip, subnet |-> c.subnet, gateway |-> c.gateway,
                      dns |-> <<OrElse(a.dns[1], Zero, Cloudflare), OrElse(a.dns[2], Zero, Google)>>]
  BY <1>5 DEF Promised
<1> QED
  BY <1>3, <1>6, <1>10, <1>11

(* What a call stores is what it asks for, and nothing if it asks for      *)
(* nothing: with texts, ...                                                *)
Right(i, s) ==
    \/ s.asks = None /\ s.stores = None
    \/ s.asks \in Asked /\ s.stores = Meant(i, s.asks)

LEMMA AsTextRight ==
    ASSUME NEW i \in Interface, NEW c \in IPConfig, NEW t, ReadText(t) = Promised(c)
    PROVE  Right(i, AsText(i, c, t))
<1>1. SetByText(i, t) = IF TextAccepted(Promised(c)) THEN Kept(i, Promised(c)) ELSE None
  BY DEF SetByText
<1>2. TextAccepted(Promised(c)) <=> TextAccepted(c)
  BY DEF Promised, TextAccepted, IPConfig
<1>3. Meant(i, [by |-> "text", addresses |-> c]) = Kept(i, Promised(c))
  BY DEF Meant
<1>4. [by |-> "text", addresses |-> c] \in Asked
  BY DEF Asked
<1> QED
  BY <1>1, <1>2, <1>3, <1>4 DEF Asks, AsText, Right

(* ... and with an IPConfig.                                               *)
LEMMA SettingRight ==
    ASSUME NEW i \in Interface, NEW s \in Setting[i]
    PROVE  Right(i, s)
<1>1. s \in Settings(i)
  BY DEF Setting, Interface
<1>2. PICK a \in Wanted[i] :
         \/ s = AsText(i, a, TextOf(a))
         \/ s = [asks |-> Asks(a, "config", IsValidSubnet(a)), stores |-> SetByConfig(i, TextOf(a))]
         \/ \E b \in Broken : s = AsText(i, Loosely(a, b), Spoilt(a, b))
         \/ \E b \in Broken : s = [asks |-> None, stores |-> SetByConfig(i, Spoilt(a, b))]
  BY <1>1 DEF Settings
<1>3. /\ a \in IPConfig /\ a.ip # Zero /\ a.dns[1] # IpNone /\ a.dns[2] # IpNone
      /\ FromText(TextOf(a)) = a
      /\ \A b \in Broken : SetByConfig(i, Spoilt(a, b)) = None
  BY WantedAssumption, TextsRight
<1>4. ReadText(TextOf(a)) = Promised(a)
  BY <1>3, TextIsRead
<1>5. CASE s = AsText(i, a, TextOf(a))
  BY <1>3, <1>4, <1>5, AsTextRight
<1>6. CASE s = [asks |-> Asks(a, "config", IsValidSubnet(a)), stores |-> SetByConfig(i, TextOf(a))]
  <2>1. SetByConfig(i, TextOf(a)) = IF ConfigAccepted(a) THEN Kept(i, LwIP(a)) ELSE None
    BY <1>3 DEF SetByConfig
  <2>2. ConfigAccepted(a) <=> IsValidSubnet(a)
    BY <1>3 DEF ConfigAccepted, IsValidSubnet
  <2>3. Meant(i, [by |-> "config", addresses |-> a]) = Kept(i, LwIP(a))
    BY <1>3, Configurations DEF Meant
  <2>4. [by |-> "config", addresses |-> a] \in Asked
    BY <1>3 DEF Asked
  <2> QED
    BY <1>6, <2>1, <2>2, <2>3, <2>4 DEF Asks, Right
<1>7. CASE \E b \in Broken : s = AsText(i, Loosely(a, b), Spoilt(a, b))
  BY <1>3, <1>4, <1>7, LooselyRead, AsTextRight
<1>8. CASE \E b \in Broken : s = [asks |-> None, stores |-> SetByConfig(i, Spoilt(a, b))]
  BY <1>3, <1>8 DEF Right
<1> QED
  BY <1>2, <1>5, <1>6, <1>7, <1>8

LEMMA Defaults == \A i \in Interface : Default[i] \in IPConfig
<1>1. {0, 1, 4, 168, 192, 255} \subseteq Byte
  BY DEF Byte
<1>2. <<192, 168, 4, 1>> \in Address /\ <<255, 255, 255, 0>> \in Address
  BY <1>1 DEF Address
<1>3. Zero \in Address /\ NoDns \in Address \X Address
  BY Addresses DEF NoDns
<1>4. Default["sta"] \in IPConfig /\ Default["ap"] \in IPConfig
  BY <1>2, <1>3 DEF Default, Blank, IPConfig
<1> QED
  BY <1>4 DEF Interface

LEMMA AddressStart == Init => AddressInv
BY NoneAssumption DEF Init, AddressInv, Stored, Shown, Interface, Of, HasSta, HasAp

(* The steps that leave the addresses and the mode alone.                  *)
LEMMA AddressesStay ==
    ASSUME AddressInv, UNCHANGED <<static, asked, applied, netif, dhcp, mode>>
    PROVE  AddressInv'
BY DEF AddressInv, Stored, Shown, Of

(* Losing a leased address.                                                *)
LEMMA LeaseLost ==
    ASSUME NEW n \in [Interface -> IPConfig \cup {None}]
    PROVE  /\ WithoutLease(n) \in [Interface -> IPConfig \cup {None}]
           /\ \A i \in Interface :
                 /\ WithoutLease(n)[i] = None <=> n[i] = None
                 /\ \/ WithoutLease(n)[i] = n[i]
                    \/ i = "sta" /\ dhcp /\ WithoutLease(n)[i] = Default[i]
<1>1. Default["sta"] = Blank
  BY DEF Default
<1> QED
  BY <1>1, Defaults, NoneAssumption DEF WithoutLease, Interface

LEMMA ConfigureStep ==
    ASSUME AddressInv, NEW i \in Interface, Configure(i)
    PROVE  AddressInv'
<1>1. PICK s \in Setting[i] :
         /\ static' = IF s.stores = None THEN static ELSE [static EXCEPT ![i] = s.stores]
         /\ asked' = IF s.asks = None THEN asked ELSE [asked EXCEPT ![i] = s.asks]
  BY DEF Configure
<1>2. UNCHANGED <<applied, netif, dhcp, mode>>
  BY DEF Configure, driverVars
<1>3. CASE s.asks = None /\ s.stores = None
  BY <1>1, <1>2, <1>3, AddressesStay
<1>4. CASE s.asks \in Asked /\ s.stores = Meant(i, s.asks)
  <2>1. s.stores \in IPConfig /\ s.stores # None /\ s.asks # None
    BY <1>4, MeantIsConfig, NoneAssumption DEF Asked
  <2>2. static' = [static EXCEPT ![i] = s.stores] /\ asked' = [asked EXCEPT ![i] = s.asks]
    BY <1>1, <2>1
  <2>3. Stored'
    BY <1>4, <2>1, <2>2 DEF AddressInv, Stored
  <2>4. Shown'
    BY <1>2, <2>1, <2>2 DEF AddressInv, Stored, Shown, Of
  <2> QED
    BY <2>3, <2>4 DEF AddressInv
<1> QED
  BY <1>3, <1>4, SettingRight DEF Right

LEMMA CallStartStep ==
    ASSUME AddressInv, NEW m \in {"STA", "AP", "APSTA"}, CallStart(m)
    PROVE  AddressInv'
<1> DEFINE n == [i \in Interface |->
                   IF i \in Of(m) /\ netif[i] = None THEN Default[i] ELSE netif[i]]
<1>1. /\ netif' = WithoutLease(n) /\ mode' = m
      /\ UNCHANGED <<static, asked, applied, dhcp>>
  BY DEF CallStart
<1>2. n \in [Interface -> IPConfig \cup {None}]
  BY Defaults DEF AddressInv, Shown
<1>3. \A i \in Interface : n[i] = None => i \notin Of(m) /\ netif[i] = None
  BY Defaults, NoneAssumption
<1>4. \A i \in Interface : n[i] = netif[i] \/ (netif[i] = None /\ n[i] = Default[i])
  OBVIOUS
<1> HIDE DEF n
<1>5. Stored'
  BY <1>1 DEF AddressInv, Stored
<1>6. ASSUME NEW i \in Interface
      PROVE  /\ netif'[i] = None => i \notin Of(mode)' /\ applied'[i] = None
             /\ asked'[i] = None => applied'[i] = None
             /\ netif'[i] # None =>
                  IF applied'[i] = None THEN netif'[i] \in {Default[i], Lease}
                                        ELSE netif'[i] = Meant(i, applied'[i])
  <2>1. (Of(mode))' = Of(m)
    BY <1>1 DEF Of
  <2>2. netif'[i] = None <=> n[i] = None
    BY <1>1, <1>2, LeaseLost
  <2>3. netif'[i] = n[i] \/ (i = "sta" /\ dhcp /\ netif'[i] = Default[i])
    BY <1>1, <1>2, LeaseLost
  <2> QED
    BY <1>1, <1>3, <1>4, <2>1, <2>2, <2>3 DEF AddressInv, Shown
<1>7. netif' \in [Interface -> IPConfig \cup {None}]
  BY <1>1, <1>2, LeaseLost
<1>8. Shown'
  BY <1>1, <1>6, <1>7 DEF AddressInv, Shown
<1> QED
  BY <1>5, <1>8 DEF AddressInv

LEMMA StartStep ==
    ASSUME AddressInv, Start
    PROVE  AddressInv'
<1>1. /\ netif' = [i \in Interface |-> IF i \in Of(mode) /\ static[i] # None THEN static[i] ELSE netif[i]]
      /\ dhcp' = (dhcp /\ ~("sta" \in Of(mode) /\ static["sta"] # None))
      /\ applied' = [i \in Interface |-> IF i \in Of(mode) THEN asked[i] ELSE applied[i]]
      /\ UNCHANGED <<static, asked, mode>>
  BY DEF Start, Applies, driverVars
<1>2. Stored'
  BY <1>1 DEF AddressInv, Stored
<1>3. /\ netif' \in [Interface -> IPConfig \cup {None}]
      /\ applied' \in [Interface -> Asked \cup {None}]
  BY <1>1 DEF AddressInv, Stored, Shown
<1>4. ASSUME NEW i \in Interface
      PROVE  /\ netif'[i] = None => i \notin Of(mode)' /\ applied'[i] = None
             /\ asked'[i] = None => applied'[i] = None
             /\ netif'[i] # None =>
                  IF applied'[i] = None THEN netif'[i] \in {Default[i], Lease}
                                        ELSE netif'[i] = Meant(i, applied'[i])
  <2>1. (Of(mode))' = Of(mode)
    BY <1>1 DEF Of
  <2>2. asked[i] # None => static[i] = Meant(i, asked[i]) /\ static[i] # None
    BY MeantIsConfig, NoneAssumption DEF AddressInv, Stored
  <2>3. CASE i \in Of(mode)
    BY <1>1, <2>1, <2>2, <2>3 DEF AddressInv, Stored, Shown
  <2>4. CASE i \notin Of(mode)
    BY <1>1, <2>1, <2>4 DEF AddressInv, Stored, Shown
  <2> QED
    BY <2>3, <2>4
<1>5. dhcp' \in BOOLEAN
  BY <1>1
<1>6. dhcp' => applied'["sta"] = None
  <2>1. dhcp' => dhcp /\ ("sta" \in Of(mode) => static["sta"] = None)
    BY <1>1
  <2>2. static["sta"] = None => asked["sta"] = None
    BY MeantIsConfig, NoneAssumption DEF AddressInv, Stored, Interface
  <2> QED
    BY <1>1, <2>1, <2>2 DEF AddressInv, Shown, Interface
<1>7. Shown'
  BY <1>1, <1>3, <1>4, <1>5, <1>6 DEF Shown
<1> QED
  BY <1>2, <1>7 DEF AddressInv

LEMMA CallStopStep == ASSUME AddressInv, CallStop PROVE AddressInv'
<1>1. /\ netif' = [i \in Interface |-> None] /\ dhcp' = TRUE /\ mode' = "NULL"
      /\ applied' = [i \in Interface |-> None] /\ UNCHANGED <<static, asked>>
  BY DEF CallStop
<1>2. (Of(mode))' = {}
  BY <1>1 DEF Of, HasSta, HasAp
<1> QED
  BY <1>1, <1>2 DEF AddressInv, Stored, Shown, Interface

LEMMA LinkUpStep == ASSUME AddressInv, LinkUp PROVE AddressInv'
<1>1. /\ netif' = (IF dhcp THEN [netif EXCEPT !["sta"] = Lease] ELSE netif)
      /\ UNCHANGED <<static, asked, applied, dhcp, mode>>
  BY DEF LinkUp
<1>2. CASE dhcp
  <2>1. netif' = [netif EXCEPT !["sta"] = Lease]
    BY <1>1, <1>2
  <2> QED
    BY <1>1, <1>2, <2>1, LeaseAssumption, NoneAssumption DEF AddressInv, Stored, Shown, Interface, Of
<1>3. CASE ~dhcp
  BY <1>1, <1>3, AddressesStay
<1> QED
  BY <1>2, <1>3

LEMMA LinkDownStep == ASSUME AddressInv, LinkDown PROVE AddressInv'
<1>1. netif' = WithoutLease(netif) /\ UNCHANGED <<static, asked, applied, dhcp, mode>>
  BY DEF LinkDown
<1>2. netif \in [Interface -> IPConfig \cup {None}]
  BY DEF AddressInv, Shown
<1>3. Stored'
  BY <1>1 DEF AddressInv, Stored
<1>4. (Of(mode))' = Of(mode)
  BY <1>1 DEF Of
<1>5. \A i \in Interface :
         /\ netif'[i] = None <=> netif[i] = None
         /\ netif'[i] = netif[i] \/ (i = "sta" /\ dhcp /\ netif'[i] = Default[i])
  BY <1>1, <1>2, LeaseLost
<1>6. netif' \in [Interface -> IPConfig \cup {None}]
  BY <1>1, <1>2, LeaseLost
<1>7. Shown'
  BY <1>1, <1>4, <1>5, <1>6 DEF AddressInv, Shown
<1> QED
  BY <1>3, <1>7 DEF AddressInv

(* A program that begins anew has forgotten its settings.                  *)
LEMMA ForgottenStep == ASSUME AddressInv, IsScanDoneUninitialised PROVE AddressInv'
<1>1. /\ static' = [i \in Interface |-> None] /\ asked' = [i \in Interface |-> None]
      /\ applied' = [i \in Interface |-> None] /\ netif' = [i \in Interface |-> None]
      /\ dhcp' = TRUE /\ mode' = "NULL"
  BY DEF IsScanDoneUninitialised
<1>2. (Of(mode))' = {}
  BY <1>1 DEF Of, HasSta, HasAp
<1> QED
  BY <1>1, <1>2 DEF AddressInv, Stored, Shown, Interface

LEMMA AddressStep ==
    ASSUME AddressInv, [Next]_vars
    PROVE  AddressInv'
<1>1. CASE UNCHANGED <<addressVars, mode>>
  BY <1>1, AddressesStay DEF addressVars
<1>2. CASE CallInit
  BY <1>1, <1>2 DEF CallInit
<1>3. CASE \E i \in Interface : Configure(i)
  BY <1>3, ConfigureStep
<1>4. CASE \E c \in Chosen : SetChannelAP(c)
  BY <1>1, <1>4 DEF SetChannelAP, driverVars
<1>5. CASE \E m \in {"STA", "AP", "APSTA"} : CallStart(m)
  BY <1>5, CallStartStep
<1>6. CASE CallStop
  BY <1>6, CallStopStep
<1>7. CASE StartScan \/ IsScanDone \/ GetScanResults \/ ClearScanDone
  BY <1>1, <1>7 DEF StartScan, IsScanDone, GetScanResults, ClearScanDone, driverVars
<1>8. CASE Start
  BY <1>8, StartStep
<1>9. CASE LinkUp
  BY <1>9, LinkUpStep
<1>10. CASE LinkDown
  BY <1>10, LinkDownStep
<1>11. CASE ScanEnds \/ OnGotIP \/ SyncChannelToAP \/ SetChannel \/ OnScanDone
  BY <1>1, <1>11 DEF ScanEnds, OnGotIP, SyncChannelToAP, SetChannel, OnScanDone, driverVars
<1>13. CASE IsScanDoneUninitialised
  BY <1>13, ForgottenStep
<1>12. CASE UNCHANGED vars
  BY <1>1, <1>12 DEF vars, driverVars
<1> QED
  BY <1>2, <1>3, <1>4, <1>5, <1>6, <1>7, <1>8, <1>9, <1>10, <1>11, <1>12, <1>13
     DEF Next, Call

(* What is stored and shown is what was asked.                             *)
LEMMA AddressInvariance == Spec => []AddressInv
<1>1. AddressInv /\ [Next]_vars => AddressInv'
  BY AddressStep
<1> QED
  BY <1>1, AddressStart, PTL DEF Spec

(* Every variable keeps its type, and an interface is there whenever the   *)
(* mode has it (NeuWiFi_STA.cpp:174-246, NeuWiFi_AP.cpp:165-311).          *)
THEOREM TypeCorrect == Spec => []TypeOK
<1>1. AddressInv => AddressTypeOK
  BY DEF AddressInv, Stored, Shown, AddressTypeOK
<1> QED
  BY <1>1, AddressInvariance, RadioTypeCorrect, PTL DEF TypeOK

(* An interface shows what was asked for before its last start, through    *)
(* every order of settings accepted and refused, starts in all modes,      *)
(* leases, losses and stops (NeuWiFi_STA.cpp:212-219,                      *)
(* NeuWiFi_AP.cpp:296-307).                                                *)
THEOREM StaticIsApplied == Spec => []StaticApplied
<1>1. AddressInv => StaticApplied
  <2> SUFFICES ASSUME AddressInv, NEW i \in Interface, netif[i] # None
               PROVE  IF applied[i] = None
                        THEN netif[i] \in {Default[i], Lease}
                        ELSE Shows(i, IF applied[i].by = "text" THEN applied[i].addresses
                                                              ELSE LwIP(applied[i].addresses))
    BY DEF StaticApplied
  <2>1. CASE applied[i] = None
    BY <2>1 DEF AddressInv, Shown
  <2>2. CASE applied[i] # None
    <3> DEFINE a == IF applied[i].by = "text" THEN applied[i].addresses
                                              ELSE LwIP(applied[i].addresses)
    <3>1. netif[i] = Kept(i, Promised(a))
      BY <2>2 DEF AddressInv, Shown, Meant
    <3>2. a \in IPConfig
      <4>1. applied[i] \in Asked
        BY <2>2 DEF AddressInv, Shown
      <4>2. applied[i].addresses \in IPConfig
        BY <4>1 DEF Asked
      <4> QED
        BY <4>2, Configurations
    <3>3. Kept(i, Promised(a)).ip = a.ip
      BY <3>2 DEF Kept, Promised, IPConfig
    <3>4. Shows(i, a)
      BY <3>1, <3>3 DEF Shows, GetStatus, GetIP
    <3> QED
      BY <2>2, <3>4
  <2> QED
    BY <2>1, <2>2
<1> QED
  BY <1>1, AddressInvariance, PTL
=============================================================================
