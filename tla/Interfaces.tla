----------------------------- MODULE Interfaces -----------------------------
(***************************************************************************)
(* What the application configures of NeuWiFiClass, and what becomes of    *)
(* it: static addresses (setSTAIP, setAPIP), the channel of the access     *)
(* point, which the event task changes too, and the scan with its bit in   *)
(* the event group.  Settings are stored by one call, used by the next     *)
(* start, kept by stop(), and read back by the getters.                    *)
(*                                                                         *)
(* Two tasks step independently: the application, with its starts in two   *)
(* steps (the configuration is built, then given to the driver) and the    *)
(* calls on the scan's bit in two; and the event task.  When they start    *)
(* and stop what else is the matter of WiFi.                               *)
(***************************************************************************)
EXTENDS Address

CONSTANTS
    Wanted,    \* for each interface, the addresses the application wants
    Broken,    \* what it may write of them that is no address, and where
    Chosen,    \* the channels it chooses
    Router,    \* the channels of the routers there are
    Lease,     \* what a DHCP server gives to the station
    None       \* no static addresses; no network interface

Interface == {"sta", "ap"}

(* Fault: as in countries with one channel more. *)
InRangeWide(c) == c \in 1..14

InRange(c) == c \in 1..13

(* The application wants an address, not in network 0, and no server at    *)
(* the address that lwIP takes for none.                                   *)
ASSUME WantedAssumption ==
    \A i \in Interface :
        /\ Wanted[i] \subseteq IPConfig
        /\ \A a \in Wanted[i] : /\ a.ip # Zero /\ a.dns[1] # IpNone /\ a.dns[2] # IpNone
                                /\ a.subnet # Zero => ~SameNet(a.ip, Zero, a.subnet)
ASSUME BrokenAssumption ==
    /\ Broken \subseteq {"ip", "subnet", "gateway"} \X Seq(Nat)
    /\ \A b \in Broken : ~IsQuad(b[2])
ASSUME LeaseAssumption == Lease \in IPConfig
ASSUME NoneAssumption == None \notin IPConfig \cup [by : {"text", "config"}, addresses : IPConfig]
ASSUME ChannelAssumption == Chosen \subseteq Nat /\ Router \subseteq Nat \ {0}

VARIABLES
    static,      \* _use_static_* and _static_ip_*, _dns_*: addresses or None
    asked,       \* history: the last addresses accepted, and how they were given
    applied,     \* history: asked as it was when the interface was started last
    netif,       \* _sta_netif and _ap_netif: None, or the addresses they have
    dhcp,        \* the station's DHCP client is on
    up,          \* init() was called, stop() not
    mode, router,  \* the driver: its mode, the channel of the router it is linked to
    apChannel,   \* _ap_channel
    apConfig,    \* the channel in the driver's configuration of the access point
    events,      \* the events that wait for the event task
    hpc, target, \* where the event handler is, the channel it has read
    apc, channel,\* where the application's call is, the channel it has read
    touched,     \* history: _ap_channel and apConfig may differ, see ChannelSynced
    scan, found, \* the driver scans; it has results nobody took
    done,        \* WIFI_SCAN_DONE_BIT
    news         \* history: what became of the announcement of these results

addressVars == <<static, asked, applied, netif, dhcp>>
driverVars == <<up, mode, router>>
channelVars == <<apChannel, apConfig, channel, touched>>
handlerVars == <<hpc, target>>
scanVars == <<scan, found, done, news>>
vars == <<addressVars, driverVars, channelVars, handlerVars, scanVars, events, apc>>

(* The channel of no router. *)
Unlinked == 0

HasSta(m) == m \in {"STA", "APSTA"}
HasAp(m) == m \in {"AP", "APSTA"}
Of(m) == {i \in Interface : (i = "sta" /\ HasSta(m)) \/ (i = "ap" /\ HasAp(m))}

(* What an interface has when it is created: none, and the ESP32's own. *)
NoDns == <<Zero, Zero>>
Blank == [ip |-> Zero, subnet |-> Zero, gateway |-> Zero, dns |-> NoDns]
Default ==
    [sta |-> Blank,
     ap |-> [ip |-> <<192, 168, 4, 1>>, subnet |-> <<255, 255, 255, 0>>,
             gateway |-> <<192, 168, 4, 1>>, dns |-> NoDns]]

Init ==
    /\ static = [i \in Interface |-> None] /\ asked = static /\ applied = static
    /\ netif = [i \in Interface |-> None] /\ dhcp = TRUE
    /\ up = FALSE /\ mode = "NULL" /\ router = Unlinked
    /\ apChannel = 1 /\ apConfig = 1 /\ channel = 1 /\ touched = FALSE
    /\ events = {} /\ hpc = "idle" /\ target = 1 /\ apc = "idle"
    /\ scan = "idle" /\ found = FALSE /\ done = FALSE /\ news = "due"

-----------------------------------------------------------------------------
(* Static addresses.  The access point has no use for name servers.        *)

Kept(i, a) == IF i = "sta" THEN a ELSE [a EXCEPT !.dns = NoDns]

(* What the overloads that take texts store: ipaddr_addr must be able to   *)
(* read all but the name servers, which need not be there.                 *)
ServerOf(text, default) ==
    IF text = <<>> THEN default ELSE OrElse(IpAddr(text), IpNone, default)

ReadText(t) ==
    [ip |-> IpAddr(t.ip), subnet |-> IpAddr(t.subnet), gateway |-> IpAddr(t.gateway),
     dns |-> <<ServerOf(t.dns[1], Cloudflare), ServerOf(t.dns[2], Google)>>]

TextAccepted(a) == IpNone \notin {a.ip, a.subnet, a.gateway}

SetByText(i, t) == IF TextAccepted(ReadText(t)) THEN Kept(i, ReadText(t)) ELSE None

(* What the overloads that take an IPConfig store. *)
ConfigAccepted(c) == c.ip # Zero /\ c.subnet # Zero /\ IsValidSubnet(c)

SetByConfig(i, t) ==
    IF ConfigAccepted(FromText(t)) THEN Kept(i, LwIP(FromText(t))) ELSE None

(* The calls there can be: a wanted configuration, given as it is written  *)
(* or with one text spoilt, to either overload.  For each: what it asks    *)
(* for, if that can be accepted, and what is stored.  A spoilt text asks   *)
(* an IPConfig for nothing, and lwIP for what it means to lwIP.            *)
Spoilt(a, b) == [TextOf(a) EXCEPT ![b[1]] = b[2]]
Loosely(a, b) == [a EXCEPT ![b[1]] = IpAddr(b[2])]

Asks(a, by, right) == IF right THEN [by |-> by, addresses |-> a] ELSE None

AsText(i, a, t) == [asks |-> Asks(a, "text", TextAccepted(a)), stores |-> SetByText(i, t)]

Settings(i) ==
    UNION {{AsText(i, a, TextOf(a)),
            [asks |-> Asks(a, "config", IsValidSubnet(a)), stores |-> SetByConfig(i, TextOf(a))]}
           \cup {AsText(i, Loosely(a, b), Spoilt(a, b)) : b \in Broken}
           \cup {[asks |-> None, stores |-> SetByConfig(i, Spoilt(a, b))] : b \in Broken}
             : a \in Wanted[i]}

Setting == [sta |-> Settings("sta"), ap |-> Settings("ap")]

(* setSTAIP, setAPIP: nothing changes if it is refused. *)
Configure(i) ==
    /\ apc = "idle"
    /\ \E s \in Setting[i] :
         /\ static' = IF s.stores = None THEN static ELSE [static EXCEPT ![i] = s.stores]
         /\ asked' = IF s.asks = None THEN asked ELSE [asked EXCEPT ![i] = s.asks]
    /\ UNCHANGED <<applied, netif, dhcp, driverVars, channelVars, handlerVars, scanVars,
                   events, apc>>

-----------------------------------------------------------------------------
(* The application's calls on the engine.                                  *)

CallInit ==
    /\ apc = "idle" /\ ~up
    /\ up' = TRUE
    /\ UNCHANGED <<addressVars, mode, router, channelVars, handlerVars, scanVars,
                   events, apc>>

SetChannelAP(c) ==
    /\ apc = "idle"
    /\ apChannel' = IF InRange(c) THEN c ELSE 1
    /\ touched' = TRUE
    /\ UNCHANGED <<addressVars, driverVars, apConfig, channel, handlerVars, scanVars, events,
                   apc>>

(* A leased address does not outlive the link. *)
WithoutLease(n) == IF n["sta"] # None /\ dhcp THEN [n EXCEPT !["sta"] = Blank] ELSE n

(* There are no results, so none are announced. *)
ResultsGone == found' = FALSE /\ news' = "due"

(* esp_wifi_stop ends the link, and a scan, which may be reported all the  *)
(* same; results that wait may be kept or not.                             *)
StopDriver ==
    /\ router' = Unlinked
    /\ scan' = "idle"
    /\ \/ UNCHANGED <<found, news>>
       \/ ResultsGone

(* startSTA, startAP and startHybrid: interfaces are created that are not  *)
(* there, the driver stopped, the mode set, the configuration built ...    *)
CallStart(m) ==
    /\ apc = "idle" /\ up
    /\ StopDriver
    /\ mode' = m
    /\ \/ UNCHANGED events
       \/ scan = "running" /\ events' = events \cup {"SCAN_DONE"}
    /\ netif' = WithoutLease([i \in Interface |->
                   IF i \in Of(m) /\ netif[i] = None THEN Default[i] ELSE netif[i]])
    /\ channel' = apChannel /\ touched' = FALSE
    /\ apc' = "start"
    /\ UNCHANGED <<static, asked, applied, dhcp, up, apChannel, apConfig, handlerVars, done>>

(* Faults: the access point keeps its addresses in hybrid mode; startSTA   *)
(* clears every bit.                                                       *)
AppliesApOnly(i) == static[i] # None /\ (i = "ap" => mode = "AP")
ClearsAll == mode = "STA"

Applies(i) == static[i] # None

ClearsScan == FALSE

(* ... and given to the driver, which may refuse, with the static          *)
(* addresses, and it starts.  startSTA clears the bits of the connection,  *)
(* not that of the scan.                                                   *)
Start ==
    /\ apc = "start"
    /\ IF HasAp(mode)
         THEN \/ apConfig' = channel /\ UNCHANGED touched
              \/ touched' = TRUE /\ UNCHANGED apConfig
         ELSE UNCHANGED <<apConfig, touched>>
    /\ netif' = [i \in Interface |->
                   IF i \in Of(mode) /\ Applies(i) THEN static[i] ELSE netif[i]]
    /\ dhcp' = (dhcp /\ ~("sta" \in Of(mode) /\ Applies("sta")))
    /\ applied' = [i \in Interface |-> IF i \in Of(mode) THEN asked[i] ELSE applied[i]]
    /\ done' = (done /\ ~ClearsScan)
    /\ apc' = "idle"
    /\ channel' = 1
    /\ UNCHANGED <<static, asked, driverVars, apChannel, handlerVars, scan, found, news,
                   events>>

(* stop() destroys the interfaces and the event group; what was configured *)
(* stays.  Unregistering the handler waits for it.                         *)
CallStop ==
    /\ apc = "idle" /\ up /\ hpc = "idle"
    /\ router' = Unlinked /\ scan' = "idle" /\ ResultsGone
    /\ up' = FALSE /\ mode' = "NULL" /\ events' = {} /\ done' = FALSE
    /\ netif' = [i \in Interface |-> None] /\ dhcp' = TRUE
    /\ applied' = [i \in Interface |-> None]
    /\ UNCHANGED <<static, asked, channelVars, handlerVars, apc>>

-----------------------------------------------------------------------------
(* The driver and the network.                                             *)

LinkUp ==
    /\ HasSta(mode) /\ apc # "start" /\ router = Unlinked
    /\ router' \in Router
    /\ netif' = IF dhcp THEN [netif EXCEPT !["sta"] = Lease] ELSE netif
    /\ events' = events \cup {"GOT_IP"}
    /\ UNCHANGED <<static, asked, applied, dhcp, up, mode, channelVars, handlerVars, scanVars,
                   apc>>

LinkDown ==
    /\ router # Unlinked
    /\ router' = Unlinked
    /\ netif' = WithoutLease(netif)
    /\ UNCHANGED <<static, asked, applied, dhcp, up, mode, channelVars, handlerVars,
                   scanVars, events, apc>>

ScanEnds ==
    /\ scan = "running"
    /\ scan' = "idle" /\ found' = TRUE /\ news' = "due"
    /\ events' = events \cup {"SCAN_DONE"}
    /\ UNCHANGED <<addressVars, driverVars, channelVars, handlerVars, done, apc>>

-----------------------------------------------------------------------------
(* eventHandler and syncChannelToAP.                                       *)

(* Fault: the channel of a router is followed only once. *)
MustSyncOnce == apChannel = 1 /\ apChannel # router

MustSync == apChannel # router

(* The channel of the router is read if there is one. *)
OnGotIP ==
    /\ hpc = "idle" /\ "GOT_IP" \in events
    /\ events' = events \ {"GOT_IP"}
    /\ IF router # Unlinked /\ MustSync /\ InRange(router)
         THEN hpc' = "sync" /\ target' = router
         ELSE UNCHANGED handlerVars
    /\ UNCHANGED <<addressVars, driverVars, channelVars, scanVars, apc>>

(* The driver may refuse to tell its configuration, or to change it; all   *)
(* the same to a start, which gives it another.                            *)
Refused ==
    /\ touched' = (touched \/ apc # "start")
    /\ hpc' = "idle" /\ target' = 1

SyncChannelToAP ==
    /\ hpc = "sync"
    /\ \/ /\ apChannel' = target
          /\ touched' = (touched \/ apc = "start")
          /\ hpc' = "write" /\ UNCHANGED target
       \/ Refused /\ UNCHANGED apChannel
    /\ UNCHANGED <<addressVars, driverVars, apConfig, channel, scanVars, events, apc>>

(* esp_wifi_set_config; the driver knows an access point in a mode with one. *)
SetChannel ==
    /\ hpc = "write"
    /\ \/ /\ HasAp(mode)
          /\ apConfig' = target
          /\ touched' = IF apc = "start" THEN touched ELSE apChannel # target
          /\ hpc' = "idle" /\ target' = 1
       \/ Refused /\ UNCHANGED apConfig
    /\ UNCHANGED <<addressVars, driverVars, apChannel, channel, scanVars, events, apc>>

OnScanDone ==
    /\ hpc = "idle" /\ "SCAN_DONE" \in events
    /\ events' = events \ {"SCAN_DONE"}
    /\ done' = TRUE
    /\ UNCHANGED <<addressVars, driverVars, channelVars, handlerVars, scan, found, news, apc>>

-----------------------------------------------------------------------------
(* The application's scan.                                                 *)

(* startScan: the driver scans in a mode with a station, or refuses.       *)
StartScan ==
    /\ apc = "idle" /\ up
    /\ HasSta(mode) /\ scan = "idle"
    /\ scan' = "running" /\ ResultsGone
    /\ UNCHANGED <<addressVars, driverVars, channelVars, handlerVars, done, events, apc>>

(* isScanDone: the bit is tested, and cleared if it was set; nothing else  *)
(* happens if it was not.                                                  *)
IsScanDone ==
    /\ apc = "idle" /\ up /\ done
    /\ news' = IF found THEN "told" ELSE news
    /\ apc' = "clear"
    /\ UNCHANGED <<addressVars, driverVars, channelVars, handlerVars, scan, found, done, events>>

(* Without an event group, before init() and after stop(), it stops the    *)
(* program, and the ESP32 begins anew; all else is as at first already.    *)
IsScanDoneUninitialised ==
    /\ apc = "idle" /\ ~up
    /\ static' = [i \in Interface |-> None] /\ asked' = static' /\ applied' = static'
    /\ netif' = static' /\ dhcp' = TRUE /\ mode' = "NULL"
    /\ apChannel' = 1 /\ touched' = FALSE
    /\ UNCHANGED <<up, router, apConfig, channel, handlerVars, scanVars, events, apc>>

(* getScanResults: the results are taken, if there are any.  They stay in  *)
(* the driver if it refuses, or the heap does ...                          *)
GetScanResults ==
    /\ apc = "idle" /\ up
    /\ \/ ResultsGone
       \/ UNCHANGED found /\ news' = IF found THEN "kept" ELSE news
    /\ apc' = "clear"
    /\ UNCHANGED <<addressVars, driverVars, channelVars, handlerVars, scan, done, events>>

(* ... and the bit is cleared all the same, or that of a later scan is. *)
ClearScanDone ==
    /\ apc = "clear"
    /\ done' = FALSE
    /\ news' = IF found /\ news = "due" THEN "missed" ELSE news
    /\ apc' = "idle"
    /\ UNCHANGED <<addressVars, driverVars, channelVars, handlerVars, scan, found, events>>

-----------------------------------------------------------------------------
(* The getters: nothing without an interface.                              *)
GetIP(i) == IF netif[i] = None THEN Zero ELSE netif[i].ip
GetStatus(i) == IF netif[i] = None THEN Blank ELSE netif[i]
GetAPChannel == apConfig

Call ==
    \/ CallInit
    \/ \E i \in Interface : Configure(i)
    \/ \E c \in Chosen : SetChannelAP(c)
    \/ \E m \in {"STA", "AP", "APSTA"} : CallStart(m)
    \/ CallStop
    \/ StartScan
    \/ IsScanDone
    \/ IsScanDoneUninitialised
    \/ GetScanResults

Next ==
    \/ Call
    \/ Start
    \/ ClearScanDone
    \/ LinkUp
    \/ LinkDown
    \/ ScanEnds
    \/ OnGotIP
    \/ SyncChannelToAP
    \/ SetChannel
    \/ OnScanDone

Spec == Init /\ [][Next]_vars

-----------------------------------------------------------------------------
RadioTypeOK ==
    /\ up \in BOOLEAN
    /\ mode \in {"NULL", "STA", "AP", "APSTA"}
    /\ router \in Router \cup {Unlinked}
    /\ apChannel \in 1..13 /\ apConfig \in 1..13 /\ channel \in 1..13
    /\ touched \in BOOLEAN
    /\ events \subseteq {"GOT_IP", "SCAN_DONE"}
    /\ hpc \in {"idle", "sync", "write"} /\ target \in 1..13
    /\ apc \in {"idle", "start", "clear"}
    /\ scan \in {"idle", "running"}
    /\ found \in BOOLEAN /\ done \in BOOLEAN
    /\ news \in {"due", "told", "missed", "kept"}

AddressTypeOK ==
    /\ static \in [Interface -> IPConfig \cup {None}]
    /\ netif \in [Interface -> IPConfig \cup {None}]
    /\ \A i \in Interface : netif[i] = None => i \notin Of(mode)
    /\ dhcp \in BOOLEAN

TypeOK == AddressTypeOK /\ RadioTypeOK

(* The interface shows what the application asked for before it started    *)
(* it, to the last byte, and what is refused (a text that the overload's   *)
(* reader cannot read, a gateway elsewhere) changes nothing, whatever was  *)
(* configured in between and however often it was started and stopped      *)
(* (NeuWiFi_STA.cpp:212-219, NeuWiFi_AP.cpp:296-307).  What went through   *)
(* an IPConfig shows reversed, and a text that only lwIP reads shows as    *)
(* lwIP reads it.                                                          *)
Promised(a) ==
    [a EXCEPT !.dns = <<OrElse(@[1], Zero, Cloudflare), OrElse(@[2], Zero, Google)>>]

Shows(i, a) ==
    /\ GetStatus(i) = Kept(i, Promised(a))
    /\ GetIP(i) = a.ip

StaticApplied ==
    apc # "start" =>
        \A i \in Interface :
            netif[i] # None =>
              IF applied[i] = None
                THEN netif[i] \in {Default[i], Lease}
              ELSE Shows(i, IF applied[i].by = "text" THEN applied[i].addresses
                                                     ELSE LwIP(applied[i].addresses))

(* In hybrid mode the access point is on the channel of the router once    *)
(* the connection is handled, also after later connections to others       *)
(* (NeuWiFi_Core.cpp:205-216), unless since it was started, or last        *)
(* followed a router, the application chose a channel, the driver refused  *)
(* one, or a connection from before the start was handled during or after  *)
(* it.                                                                     *)
ChannelSynced ==
    mode = "APSTA" /\ InRange(router) /\ ~touched
      /\ "GOT_IP" \notin events /\ hpc = "idle" /\ apc # "start"
        => GetAPChannel = router

(* Results that wait in the driver are announced by the bit, or were:      *)
(* neither a start nor a later call loses it (NeuWiFi_STA.cpp:226, 280),   *)
(* but for two: a clear meant for older results that came after these      *)
(* ("missed"), and a getScanResults that failed ("kept").                  *)
ScanAnnounced ==
    found /\ "SCAN_DONE" \notin events => done \/ news # "due"
=============================================================================
