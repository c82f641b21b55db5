# NeuWiFi in TLA+

A model of the concurrent core of NeuWiFi (`src/src/`), a networking library for
the ESP32 built on ESP-IDF and FreeRTOS: TLA+ modules, the TLC runs that check
them, and proofs checked by TLAPS. File names below are relative to `src/src/`.

## 1. The system

NeuWiFi has no main loop of its own. Its state is shared by tasks that run on two
cores and preempt each other at any point:

| task | created by | runs |
|---|---|---|
| application | the sketch | `init`, `startSTA`, `startAP`, `startHybrid`, `stop` of every service |
| event task | ESP-IDF's default event loop | `NeuWiFiClass::eventHandler`, and through `SharedState::emit` the listeners of HTTP and mDNS |
| reconnect task | `eventHandler`, on a disconnection | `NeuWiFiClass::reconnectTask` |
| UDP receive task | `NeuUDP::init` | `NeuUDP::_run` and, as its callback, the DNS server |
| mDNS worker | `startDiscovery` | `mdns_discovery_worker_task` |
| HTTP server task | `httpd_start` | page, 404 and WebSocket handlers, one request at a time |

### Components

| component | its state | its operations | what makes it correct |
|---|---|---|---|
| `SharedState` flags (`SystemState/SharedState.cpp`) | ready flags, mode, time of the last change, addresses, four listeners | `setStaReady`, `setApReady`, `updateAutoMode`, `setStaIP`, `emit` | flags and notifications agree; the mode follows the flags |
| `SharedState` client tracker | a ring of `MAX_TRACKED_CLIENTS` slots, its index, a spinlock | `markClientAsNewAPUser`, `clearClientFromTracker`, `isClientRedirectRequired` | a client is in one slot; the ring holds the last registrations; a lock-free lookup answers as of some moment |
| Wi-Fi engine (`wifi/NeuWiFi_Core.cpp`, `_STA`, `_AP`) | event group, handle and attempts of the reconnect task, driver | `init`, `startSTA`, `startAP`, `startHybrid`, `setAutoReconnect`, `stop`, `eventHandler`, `reconnectTask` | published flags follow the radio; `stop` is final; a lost station is retried, by one task at a time |
| UDP service (`udp/NeuUDP.cpp`) | `_running`, `_socketActive`, `_conn`, `_port`, a mutex | `init`, `stop`, `_run`, `_initSocket`, `_closeSocket`, sends | no netconn is leaked or freed in use; the socket heals; `stop` ends task and socket |
| DNS server (`dns/`) | `_dnsEnabled`, `_onQuery` | `init`, `stop`, `_udpCallbackRaw`, parser and builders | a client is redirected while it is tracked; no callback after `stop`; no read or write outside a packet |
| mDNS (`mdns/NeuMDNS.cpp`) | task and stop flags, a queue | `init`, `startDiscovery`, `stopDiscovery`, worker, `end` | one worker; a stop is not lost; the service returns with the network |
| HTTP server and WebSocket (`http/`) | server handle, `_is_running`, two arrays of routes | `init`, `on`, `onWS`, `stop`, network listener, broadcast worker, `getPostParam` | the server is up with its routes exactly while the network is; no handle is used after its server |
| Addresses (`IPConfig.h`) | four `uint32_t` and two name servers per object | parse, format, `isValidSubnet`, `getLwIP` | an octet keeps its place from the text to the interface |
| Settings of the Wi-Fi engine (`wifi/`, `_STA`, `_AP`, `_Getter`) | static addresses, `_ap_channel`, network interfaces | `setSTAIP`, `setAPIP`, `setChannelAP`, `syncChannelToAP`, getters | a start applies the last settings accepted; the access point's channel follows the router's |
| Wi-Fi scan (`wifi/NeuWiFi_Getter.cpp`, `_STA`) | a bit of the event group, the driver's results | `startScan`, `isScanDone`, `getScanResults` | results that wait are announced |
| captive portal (DHCP event, tracker, DNS, HTTP together) | the tracker | lookup, redirect, page | a new client reaches the portal, and is free afterwards |
| HTTP client, event objects | none that is shared | blocking calls, views | results within their buffers |

### How they interact

`eventHandler` and `stop` are the only writers of the ready flags. The UDP receive
task polls the flags; HTTP and mDNS are told of changes by `emit`, in the task that
made the change. The event task registers a client in the tracker when DHCP
gives it an address, the HTTP handlers remove it when it has loaded a page, and the
DNS callback looks it up to decide whether to redirect it to the portal. The event task also
writes settings of the application: the router's channel becomes the access point's.

The hard behaviours are therefore: tasks interleaved between any two loads and
stores; events that wait in a queue while the application has already gone on; a task that
outlives the call meant to end it; a flag tested before and used after another
task's step; timeouts that race late answers. `PROJECT.json` lists them as hazards, each at
its line, with the properties that would catch it.

## 2. Modules

```
ClientWindow  <--implements--  ClientTracker  <--EXTENDS--  ClientTrackerProofs
SharedState   <--EXTENDS-----  WiFi        <--EXTENDS--  WiFiProofs  --EXTENDS-->  Backoff
              <--EXTENDS-----  HttpServer  <--EXTENDS--  HttpServerProofs
DnsMessage    <--EXTENDS-----  DNSServer   <--EXTENDS--  MCDNSServer, DNSServerProofs
Address       <--EXTENDS-----  Interfaces  <--EXTENDS--  MCInterfaces, InterfacesProofs
UDP           <--EXTENDS-----  UDPProofs
MDNS          <--EXTENDS-----  MDNSProofs
Portal        <--EXTENDS-----  PortalProofs
```

`Portal` composes `ClientWindow`, `DNSServer` and `HttpServer`, each reduced to what it promises.

### ClientTracker and ClientWindow

`ClientTracker` is `SharedState.cpp:234-305` with the spinlock of `SharedState.h:86-91`.
`ip`, `mac`, `is_allocated`, `index` and `lock` are the fields of the class; each
thread has a label `pc`, the arguments of its call, the slot `at` it works on, and the
set `todo` of fields it has still to store (a writer) or to read (a lookup).

* `Call`, `Lock`, `MarkSearch` or `ClearSearch`, `Store`, `Unlock` are a call of one
  of the two writers. The loop over the slots is one step, since nobody else writes
  them meanwhile. Each store is a step, in any order: the fields are not atomic,
  so the compiler may reorder them, and the lookup sees each.
* `CallScan`, `Read`, `Return` are the lookup, one load at a time, in either order,
  with no lock.
* `gone` and `may` are history variables, used by no guard.

Both writers return at once for the address 0, which is why `NoIp` is not in `Ip`.

`ClientWindow` is what a user of the tracker may rely on: a window of the last `N`
registrations. `ClientTracker` implements it under the mapping that
reads the ring from the slot that is used next, with a slot that is being inserted or
wiped taken as already changed (`Entry`, `Window`). The lookup is specified by
`may`, the set of answers that were true at some moment of the call; about a client
whose own entry is changing both answers are.

### SharedState and WiFi

`SharedState` has the flags; its operators are steps of the caller. `setStaReady` and
`setApReady` are three steps (store, emit with the stamp of the time, `updateAutoMode`)
because the other setter may come in between. The clock is reduced to `recent`: less
than 300 ms since the stamp.

`WiFi` composes it with the engine:

| actor | actions | code |
|---|---|---|
| event task | `Dispatch`, `OnStaStart`, `OnStaChange`, `HandlerStores`, `HandlerEmits`, `HandlerUpdatesMode`, `OnGotIP`, `OnDisconnected` | `NeuWiFi_Core.cpp:143-216` |
| reconnect tasks | `Wake`, `Retry`, `GiveUp` (the handle), `Finish` (`vTaskDelete`) | `NeuWiFi_Core.cpp:333-363` |
| application | `CallInit`, `SetAutoReconnect` | `NeuWiFi_Core.cpp:82-114`, `_NeuWiFi.h:245-248` |
| | `CallStart`, `Start`, `ClearBits`, `ConnectCall`, `WaitOver` | `NeuWiFi_STA.cpp:174-246`, `NeuWiFi_AP.cpp:165-311` |
| | `CallStop`, `DeleteTask`, `ForgetTask`, `Halt`, `UnregisterWiFi`, `UnregisterIP`, `StopStores`, `StopEmits`, `StopUpdatesMode`, `DeleteGroup` | `NeuWiFi_Core.cpp:416-453` |
| driver (external) | `StopDriver`, `StartDriver`, `Connect`, `LinkUp`, `LinkDown`, `Room`, `Post` | how ESP-IDF is used |

What is assumed of ESP-IDF: events are handled in the order they were posted, by one
task; `esp_event_handler_unregister` waits for a running handler (both use the loop's
mutex); an event of a base without a handler is dropped; `esp_wifi_connect` does
nothing on a driver that is not started or a station that is not unconnected; a
task is created when it is asked for. An attempt to connect and its failure may take any time.
`crossed` is a history variable: `stop()` has cleared
the handle of another task than it deleted.

### UDP

`UDP` is `NeuUDP.cpp`. Everything the code does under the mutex in one go is one step
(`InitSocket`, `CloseSocket`); everything the receive task reads outside is a step of
its own: the head of the loop (`Check`), the test for healing (`Heal`) and the close (`Unplug`), the test
for opening (`Open`) and the open (`Plug`), the test of `_socketActive` (`Poll`), the reference it takes (`TakeConn`), the receive and
the second test of `_running` (`Receive`), the callbacks (`Deliver`), the close after an
error (`Fail`) and at the end (`Exit`). lwIP is `bound`: which netconns exist and
on which port. `SendTake` and `SendGive` are any of the sends. `NetChange` is the Wi-Fi engine.
`netconn_new` and `netconn_bind` may fail whenever they are called (`NoSocket`). A send may hold the mutex
longer than the others' timeouts, and `init` may be called at any time. Two history variables remember
what the code does not guard against: `overlap`, that `init` was called while a receive task was alive, and
`skipped`, who gave up the last close because a send held the mutex.

### HttpServer

`HttpServer` is the life cycle of `NeuHttpServer_Core.cpp`. `init` starts nothing: it
registers a listener, and the listener starts, restarts and stops the server in the
task that reports a change of the network. The reports are the operators of `SharedState`
(`NetChange`, `Stamp`, `ReportMode`, `ReportOver`), with the listener run between them by the
same task: `ListenerEnter`, `ListenerStop`, `ListenerClear`, `ListenerStart`, then
`RegisterErrors` and, route by route, `RegisterRoute` and `EndOfRoutes` for the pages and the
sockets.

| actor | actions | code |
|---|---|---|
| application | `SaveRoute` | `on`, `onWS` |
| | `CallInit` | `init` |
| | `CallStop`, `AppStop`, `AppClear`, `ForgetRoutes` | `stop` |
| | `CallServer`, then `QueueWork` | `wsBroadcast` |
| | `CallServer`, then `AskServer` | `wsSendToFd`, `wsSendPing`, `closeAllClients`, `getClients` |
| server task | `PageStart`, `PageEnd` | any page handler, for which `httpd_stop` waits |
| | `Broadcast` | `_ws_broadcast_worker` |

`_server` is loaded and stored in steps of their own, so `stop()` and the listener
overlap. Where that overlap uses a server that no longer runs, `fault` becomes true and
`NotCorrupted` stops the exploration. The listener's loops read the arrays of routes while the
application changes them: `i` is the loop's index, `served` what the running server has
been given. `excuse` (why there may be no server although there is a network), `late`
(routes saved after the server started), `known` (routes ever saved) and `dropped` (those that
`stop()` forgot) are history variables. ESP-IDF is `alive`, `busy`
and `work`; a handle may be used again, as an address may.

One task reports at a time. The event task and an application in `NeuWiFi.stop()`
both report, but `stop()` does so only after `esp_event_handler_unregister`, which waits for
the handler that runs.

### Portal

`Portal` composes the client tracker, the DHCP event, the DNS decision, the page handlers and
the 404 handler with what they exist for: the browsers of several clients. Each component is
taken at the level its own module justifies, so that the interleavings between them stay small
enough to check.

* The access point: `Join`, `Renew` and `Leave`. The first two are the DHCP event's
  registration (`Register`); nothing tells the tracker that a client left.
* A browser: `Open`, `Resolve` or `ResolveNot`, then its request (`at` is where it is).
* The server's only task: `Accept`; for a page `Clear` (which removes the client from the tracker),
  for a form `ReceivePiece` and `BodyOver`, and `AnswerPage`; for a path without a page `Missing`,
  the 404 handler, whose redirect depends on the host and on the flag of the DNS server.
* The services: `DnsInit`, `DnsReady`, `DnsStop`, `DnsStopped`, `ServerStart`, `ServerStop`.

Browsers and stations are not code of the repository; they are modelled from what the handlers
answer them. `pushed` and `renewed` are history variables.

### Address and Interfaces

`Address` is `IPConfig.h`: an address is its four bytes in the order of memory, so that every
conversion between texts and lwIP's order is a function on bytes
(`ParseString`, `ExportToString`, `GetLwIP`, `SameNet`). lwIP's own reader `IpAddr` takes a dotted quad for
what it says; the other forms it knows (one to three numbers, octal, hexadecimal, blanks at the end) are the
constant `Loose`, which says what they mean, for whatever texts there are. The loop of `parseString` is `Scan`, the
loop's variables behind each number of characters. `IsQuad` is the reference it is compared with: which
texts are addresses, said without a loop.

`Interfaces` is what the application configures and what becomes of it.

| part | actions | code |
|---|---|---|
| static addresses | `Configure`, for each overload and for good and bad texts | `setSTAIP`, `setAPIP` |
| start and stop | `CallInit`, `CallStart` (the configuration is built), `Start` (it is given to the driver), `CallStop` | `NeuWiFi_STA.cpp`, `_AP.cpp`, `_Core.cpp` |
| channel | `SetChannelAP`, and in the event task `OnGotIP`, `SyncChannelToAP` (the store), `SetChannel` (the driver, which may refuse) | `_AP.cpp`, `NeuWiFi_Core.cpp:205-216`, `378-395` |
| scan | `StartScan`, `IsScanDone`, `GetScanResults`, `ClearScanDone`, and in the event task `OnScanDone` | `_Getter.cpp`, `_STA.cpp` |
| | `IsScanDoneUninitialised`: without an event group the program stops and begins anew | `NeuWiFi_STA.cpp:281` |
| getters | `GetIP`, `GetStatus`, `GetAPChannel` | `_Getter.cpp` |
| driver (external) | `LinkUp`, `LinkDown`, `ScanEnds` | how ESP-IDF is used |

The application asks for the configurations `Wanted`, as they are written or with one text replaced as one of
`Broken` says. `news` remembers what became of the announcement of the results that wait in the driver, and
`touched` what keeps the two channels apart. `asked` and `applied` remember what the application wanted, as the reference for what the
interface shows. `Interfaces` and `WiFi` look at the same calls from two sides: `WiFi` has the order of
events, flags and tasks and no data; `Interfaces` has the data and events that are a set.

### Backoff

`Backoff` is the delay of `reconnectTask`, a function of the number of attempts and of two random numbers. Beyond
ten attempts the product is any number: from 22 on it leaves a `uint32_t`, from 31 on the shift leaves an `int`.
The two tests of one line (`340`, `342`) are taken to see the same counter. The counter itself
(`NeuWiFi_Core.cpp:354`, `201`, `427`) has no bound and decides nothing else, so `WiFi` has none. No run checks `Backoff`; its theorem is in `WiFiProofs`.

### MDNS

`MDNS` is `NeuMDNS.cpp` without the content of services and the queue of found devices:
three actors that share plain flags.

* The worker task: `CheckStop`, `CheckNet`, `FreeStack`, `StartStack` or `StartFails`,
  `Query`, `ClearCreated`, `Retract`.
* The callers of `end()`, which are the application and the event callback: `Enter`, `Test`, `Ask`,
  `Answered` or `GiveUp` and `Withdraw`, `Free`, `Out`. The event callback (`NetEvent`) ends
  the service and, in `Out`, initialises it again if there is a network.
* The application's other calls: `CallInit`, `StartDiscovery` with `MarkCreated`,
  `StopDiscovery` with `RequestStop`, `CallEnd`. There may be no memory for a worker.

A load or store of a flag is a step. Waits have no length, so a timeout may come
before any answer. `late`, `asked` and `lost` are history variables. The service is taken to be
stored with `addService` before discovery starts, as in the examples.

### DnsMessage and DNSServer

`DnsMessage` is `DnsHelper.cpp` and `DNSProbe.h` on bytes: `ParseName` (with `Walk`, `Text`),
`IsCaptiveProbe`, `Redirect` (with `TypeAt`, `Answer`) and `NxDomain`. A message is its counts,
its response code and the bytes behind the header; the transaction id, which is copied, and the
other flags are left out. The sizes of the two buffers, the probes and the address are constants.

`DNSServer` is `NeuDNSServer.cpp` between three actors: the application (`CallInit`, `CreateTask`,
`Announce`; `CallStop`, `EndTask`, `LockSocket`, `CloseSocket`, `Forget`, `Withdraw`; `OnQuery`), the
receive task with the callback (`Enter`, `TestCallback`, `CallCallback`, `Lookup`, `Reply`), and
whoever changes the tracker (`Track`). `NeuUDP` is reduced to what the callback depends on; when
its socket opens and closes is the matter of `UDP`, and here it may do so whenever
`running` was read as true. The lookup in the tracker is one step: that its
answer was true at a moment of the lookup is `ImplementsWindow` of `ClientTracker`. The user's callback is
tested and then read again for the call; `stop()` may clear it in between, a null is
called (`fault`), and `NotCorrupted` stops the exploration there.

`Name`, `Encode` and `Written` are the reference the parser is compared with: how a
name is written in a message, and by people.

## 3. What the runs check

| run | result | shows |
|---|---|---|
| `tracker` | pass | `NoDuplicate`, `BindingsWhole`, the refinement `ImplementsWindow`, and `NothingHangs`: the lock is released on each return path and every lookup ends |
| `wifi` | pass | `FlagsTruthful`, `StoppedMeansDown`, `ListenersTold`, `OneReconnectTask` but for the named `crossed`, and `Reconnects`, except after the named mishaps `Missed` and `crossed` |
| `wifi_mode` | violation of `ModeFollowsSta` | the debounce keeps the mode from changing |
| `udp` | pass | for `init()` and `stop()` at any time, and opens that fail: `SendSafe`, `NoLeak` but for an `overlap` or a skipped close, `StoppedMeansClosed` but for a skipped close, `SelfHeals` where no netconn can have been lost, `TaskEnds` |
| `udp_messy` | violation of `ImmuneToMess` | `init()` right after `stop()` loses a netconn and its port |
| `dns` | pass | `ParseRight`, `RedirectRight`, `ProbesRedirected`, no buffer overrun (`TypeOK`), `ReplyToAsker`, `SilentWhenStopped` |
| `mdns` | pass | `OneWorker`, `EndReleases`, both unless an `end()` gave up waiting, and `EndReturns` |
| `mdns_lost` | violation of `ServiceReturns` | a network event takes the announced service away for good |
| `http` | pass | `ServerUp` except for three named reasons, `RoutesServed` (of all routes ever saved, but the late ones and those `stop()` forgot) through every overlap of the listener's loops with `on` and `stop`, `NoLostServer`, `BroadcastOwn`, `ReportEnds` if page handlers return |
| `http_stopped` | violation of `RoutesReapplied` | `stop()` loses the routes, which were to be re-applied |
| `portal` | pass | `PortalReached`: a tracked client that looks a name up gets to a page, if the server comes back and bodies end; `Released`: whoever sees a page is free |
| `interfaces` | pass | `StaticApplied` to the last byte, for good and bad texts; `ChannelSynced`, `ScanAnnounced`, with their named exceptions |

Each violation is a finding in `PROJECT.json`, with the line of the repository it
contradicts. Every property of a passing run has a mutant, an operator that changes a
definition as a plausible slip would and makes TLC find the property violated.
They are the definitions with a comment that begins with "Fault".

### Bounds

* `tracker`: two slots and three clients, so that a third registration evicts one and a
  removal leaves a hole before, at or behind the index; one registering, one removing
  and one looking task, the three the program has. One MAC: it
  only matters whether a MAC is set.
* `wifi`: two reconnect tasks, one more than may be on the way to an attempt; the queue holds
  three events, so that a call and the driver can each get ahead of the handler. Calls that may post two events
  wait for room in the queue. `Orderly` stops the exploration where `stop()` has deleted a task that no longer exists, after
  which a real kernel guarantees nothing, and where a handle was `crossed`, which `OneReconnectTask` and `Reconnects` except.
* `udp`: two receive tasks, two netconns (one can be lost and the other used) and one
  port; any subset of the two interfaces may become ready at any time. `OneMishap` stops the exploration at the second
  mishap: an `init` beside a living task is one, a close that a slow send prevents, in `stop()` or at the exit of a task,
  another. After an `init` beside a living task it follows one interface only, for two tasks look at the flags then.
* `dns`: names of up to two labels of one or two letters, which reach the size of the name's buffer from
  both sides; behind a name each of: type A, type AAAA, one byte more, many more (so that the
  reply's buffer is reached from both sides), and two questions; and every word of up to two
  bytes, most of which are broken names or pointers. Two clients, so that a reply
  can go to the wrong one; they are symmetric, since nothing tells them apart. `init` is called when the last receive task has ended:
  what two tasks do to each other's socket is the matter of `udp`.
* `mdns`: two workers, one more than there should be; both kinds of discovery; any number of
  network events and calls.
* `http`: two handles, so that a restart may get another handle or the same one; one
  page at a time in each server, as ESP-IDF has one task per server; two places for pages and one
  for sockets, so that the two loops end at different indices and an array is full; one URI,
  since a route saved twice, forgotten and saved again is all the loops can tell.
* `portal`: two clients and two slots, so that a client that leaves a hole or renews can push the
  other out; pages for `/` and `/form`, none for `/else`; the form's body is as long as
  the buffer, where the 0 behind it decides.
* `interfaces`: for each interface configurations that both kinds of overload accept or that one of
  them refuses, each also with the address, the subnet or the gateway replaced by each of six broken texts, of which lwIP reads
  one as an address and one as 255.255.255.255; one lease; the chosen channels 0 (out of range) and 3; routers on
  1, 6, 11 and 14 (out of range for the code), so that a connection can be to the channel there is, to another, and
  to a third after a refusal. Addresses and the radio share only starts, stops and links, so `OneSide` divides the
  states: as long as no addresses were accepted everything of the radio happens; from then on one router and no scan.

### Fairness

A task that runs code is scheduled again: weak fairness for the steps of each
task. Nobody is obliged to call anything, no connection to succeed or to be lost. In
`UDP` that is so of tasks that wait for the mutex too: each wait has a timeout, and a FreeRTOS mutex goes to a
waiting task when it is given back, so that a stream of sends cannot starve the receive task. The one strong fairness is that an
open that is tried again and again is granted in the end (`SF_vars(Plug(k) /\ NewSocket)`): nothing brings a
service back that is refused a socket whenever it asks. In
`MDNS`, `EndReturns` assumes only that the callers of `end()` are scheduled, not the worker;
`ServiceReturns` also assumes the worker and that `mdns_init` does not fail for ever (strong
fairness).
In `ClientTracker` weak fairness of each thread is enough with one registering and one
removing task that are not obliged to call; a spinlock gives no order between more of them.
In `HttpServer` only the event task is fair. That page handlers return is nothing the code sees to
(one may stop its own server, or wait for a silent client), so it is the premise `PagesReturn` of `ReportEnds` and no fairness.
In `Portal` a query is answered or given up (the browser has a timeout) and a server that is up handles
its requests. A request is
accepted under strong fairness, since the server may be restarted any number of times
before it gets through. That a stopped server comes back (the listener starts it on a network event, and the start may
fail) and that a body ends (`getPostParam` receives again after every timeout) are the premises
`ServerComesBack` and `BodiesEnd` of `PortalReached`: the code does not see to either. `Renew`, `Leave`, the DNS server's stop and other clients' requests are never obliged to
happen and never prevented.

## 4. What is proved

Each component has its theorems in a module of its own. A safety property is seldom inductive
by itself; each module first states the invariant that is, in named parts, then has one lemma
per part or per action, and derives the properties. TLC checked each of these invariants on the instance
of the run before it was proved.

| module | theorem | states |
|---|---|---|
| `ClientTrackerProofs` | `TypeCorrect`, `OneSlotPerClient`, `WholeWhenUnlocked` | `TypeOK`, `NoDuplicate`, `BindingsWhole` |
| | `Refinement` | `ImplementsWindow` |
| `WiFiProofs` | `TypeCorrect`, `FlagsAreTrue`, `StopIsFinal`, `ListenersKnow`, `OneReconnects` | the type invariant of `WiFi`, `FlagsTruthful`, `StoppedMeansDown`, `ListenersTold`, `OneReconnectTask` |
| | `WaitBounded` | of `Backoff` |
| `HttpServerProofs` | `TypeCorrect`, `ServerNeverLost`, `BroadcastToOwnSockets`, `RoutesAreServed`, `ServerIsUp` | `TypeOK`, `NoLostServer`, `BroadcastOwn`, `RoutesServed`, `ServerUp` |
| `UDPProofs` | `TypeCorrect`, `SendsAreSafe`, `NothingLeaks`, `StopClosesAll` | `TypeOK`, `SendSafe`, `NoLeak`, `StoppedMeansClosed` |
| `DNSServerProofs` | `TypeCorrect`, `RepliesToAsker`, `StopSilences` | `TypeOK`, `ReplyToAsker`, `SilentWhenStopped` |
| | `ParserRight`, `RedirectsRight`, `NoProbeRefused` | `ParseRight`, `RedirectRight`, `ProbesRedirected` |
| `MDNSProofs` | `TypeCorrect`, `OneWorkerOnly`, `EndIsFinal` | `TypeOK`, `OneWorker`, `EndReleases` |
| `PortalProofs` | `TypeCorrect`, `PageReleases` | `TypeOK`, `Released` |
| `InterfacesProofs` | `RadioTypeCorrect`, `ChannelFollows`, `ScanIsAnnounced` | `RadioTypeOK`, `ChannelSynced`, `ScanAnnounced` |
| | `TypeCorrect`, `StaticIsApplied` | `TypeOK`, `StaticApplied` |
| | `TextsRight`, `AcceptsQuads`, `WrittenIsRead`, `LwIPReverses` | of `Address` |

All hold for every value of the constants that satisfies the named assumptions of the component's
module: bounds are numbers, the values that stand for nothing are not among the others, and what
is said below.

Some theorems say what a loop over characters or bytes computes, for inputs of every length. They
need induction, and the library's induction theorems take an operator as a parameter, which the provers
cannot instantiate. `Least` and `Induction` say the same of a set of numbers, from the
library's theorems on well-founded relations, which do without: a set that is not empty has a least number, and one
that has 0, and n + 1 with every n, has them all. A recursive function is a `CHOOSE`, so that it exists
is proved first (`ScanExists`, `WalkExists` and their like), then that it does what its equations say, then by induction
what that comes to.

**Client tracker.** For every `N >= 1` and any number of tasks of each kind; no task
has two roles (a task that does several things is several threads). `NoDuplicate` is not
inductive: a state in which a slot is being written could have the client in another slot already. `Inv`
adds what the code relies on silently. `Exclusion` is the spinlock. `Stores` says that a slot nobody
writes is whole, and which fields of one being written are new. `Distinct` says that no address is in two
slots, allocated or not, and that the client being inserted is in none: the search just
before found no allocated slot with it, and by `Stores` a slot that is not
allocated has no address.

`Refinement` shows that every step is one of `ClientWindow` under the mapping of
`ClientTracker`, or changes nothing there, for the writers' stores in every order and lookups
that take no lock. The mapping reads the ring from the next slot to be used, so inserting is a
rotation of the window: `Turn`, `Places` and `Moved` are the arithmetic of that. For the lookups `Inv`
is too weak: `Going` says whose address may still be in a slot that is being written, and `Lookups` that
a lookup is allowed what is true now, that it may say yes once it has seen the address, and that it
has not gone past the slot of a client that was there all the time. Each action has
a lemma of its own (`...Refines`).

**Wi-Fi engine.** For any number of reconnect tasks and any bound on the queue.
`FlagsTruthful` speaks of quiet states; in between, `Known` says where the truth about the
radio is: the last event of its kind in the queue (`Reported`), or else the event being handled, or else
the flag. `Guarded` says that the handle is that of the only reconnect task at work (one that has given it up may still be
there), up to a `stop()` that deletes a task that is gone or clears another's handle (section 5). `SilentWhenDown` follows `stop()` and the handler label by label:
from the flags on no handler is registered and none runs, and the driver was stopped before
(`StoppedFirst`). `ToldSta` and `ToldAp` say what the listeners know while a setter is between its store and its
`emit`, and `Published` that the address is stored before the handler ends.
`WaitBounded` says of `Backoff`: for every number of attempts, and whatever the shift yields, the
jitter's divisor is not zero and the delay is between 1.7 and 70 seconds.

**HTTP server.** For every set of server handles (each of which may be used again
any number of times), every set of URIs and every capacity of the two arrays. The
properties speak of behaviours before the first use of a server that no longer runs (`~fault`), as
the run does; that such a use is possible when `stop()` and a restart overlap is a hazard of
`PROJECT.json`. The invariant says of that overlap: only the server of `_server` runs (`One`);
between `httpd_stop` and the store of `_server` none runs, neither in the listener nor in
`stop()`, and the two are never both there (`ListenerOwns`, `AppOwns`), since the second to call
`httpd_stop` would have stopped a server that is gone. A stale store of null therefore loses no
server. For the routes, `Walked` says that every route before the loop's index, of the arrays
as they are now, is served or late, so that an array that is emptied or filled again under the loop does
no harm, and `Remembered` that every route ever saved is in the arrays or was forgotten by `stop()`: that is how routes get
lost, which the run `http_stopped` shows, and the only way. `Reporting` says that the listener runs only inside a report. For `ServerUp`, `Covered` says that
while a listener is registered and the network is ready, and no named reason excuses it, the server runs, or
`stop()` is about to clear the handle, or the listener is on its way to start one; `Ending` that
the listener stops and clears only for an event that asks for it, and `Passive` that there is no server while
nobody listens.

**UDP service.** `SendSafe` holds whatever the application does: a receive task knows the port (`PortKnown`) and
`_conn` is always a bound netconn (`ConnBound`). `NoLeak` and `StoppedMeansClosed` are proved for every order of `init` and `stop`, any number of tasks, opens that fail
and sends that hold the mutex too long; what they except (`overlap`, `skipped`) is a history of the code's own steps, not an
assumption about its users, and `udp_messy` shows what follows from the first. `_initSocket`
overwrites `_conn`, so the proof must know that it is null then, and the task knows only
`_socketActive`, read outside the mutex. `Follows` says why that is enough as long as nothing is excepted: a netconn
means that the flag is set, and a task that has decided to open finds none. `OneTask`, `Told` and `GoneMeansClosed` are the
hand-over between `init()`, `stop()` and the tasks.

**DNS server.** For all queries (`QueryAssumption`: their bytes are bytes), clients and sizes of the buffers. `TypeOK`
includes that every reply fits its buffer, which follows from the tests of the builders and not from
what the names are. For the others: the last sender is the one that asked unless `stop()` had the mutex
(`Stored`), and what `stop()` has closed stays without a reader (`Told`, `Deaf`), so a callback that was under way
sends nothing. `SilentWhenStopped` is an action property.

What the replies say is proved for every set of names whose labels have 1 to 63 bytes, none of
them 0 (`NameAssumption`, RFC 1035), every set of probes, and whatever bytes stand behind the name. `Answers` is
the inductive invariant: what is sent is made from the packet that is handled, which was parsed, and NXDOMAIN
only if its name is no probe. The rest is about `Walk`, `TypeAt`, `Dotted` and `Encode`, which go through
the bytes in different ways: that the parser comes back with the labels that were encoded is
an induction from the end of the message, that the text of the name has the size the code counts is one over
the labels.

**mDNS.** For any number of workers, as long as no `end()` lost patience. `Shown` says
that `s_task_created` is set while a worker runs or its creator is just before setting it, which is why
the flag can be relied on although it is set late and cleared by two actors; `FreesLast` and
`Released` say what `end()` has found out when it frees the stack.

**Portal.** For any number of clients, slots, and sizes of a form and its buffer. `Handed` says
of a page that is being made that its client was cleared and has at most renewed since.

**Addresses, channel, scan.** `ChannelSynced` is not inductive: it says nothing while an event waits or is being handled, nor
of a start between reading `_ap_channel` and giving it to the driver. `NoLinkYet` (no link while a start is in
progress), `SameChannel` (what a start has read, and then the driver's channel, is
`_ap_channel` as long as nobody touched it) and `Following` (`_ap_channel` is the router's channel, or the
event that will make it so waits or is being handled with that channel) fill these gaps. A driver that refuses a channel
touches it. The
assumptions are that channels are numbers and no router is on 0.

`StaticApplied` is proved from `Stored` (a setting is what its last accepted call meant, to the last byte, and
outlives `stop()`) and `Shown` (an interface that is there shows what it was started with, its own address or a
lease; one with static addresses has no DHCP). It rests on `TextsRight`: what is written of a configuration
that is wanted is read as that configuration; one with a broken text is refused by the overloads that take an
`IPConfig`, and by those that take texts if `Loose` has no meaning for that text, that is if lwIP cannot read it.
Of a text that only lwIP reads, the interface shows what lwIP made of it.
That in turn rests on `WrittenIsRead` (each of the 2^32 addresses comes back from its text) and `AcceptsQuads`
(`parseString` goes to the end of the texts that `IsQuad` describes, of any length, and of no
others). `BrokenAssumption` says that a broken text is one that `IsQuad` does not describe. `WantedAssumption`
says what an application may want: no name server 255.255.255.255, which lwIP's reader does not tell from a
broken text, and an IP address that is not 0.0.0.0, nor in network 0, for which section 5 has the reason.
`LwIPReverses` says that `getLwIP` is its own inverse and changes every
address that does not read the same in both directions: what goes through an `IPConfig` reaches
the interface reversed (section 5).

**Only model-checked:** the liveness properties (`NothingHangs`, `Reconnects`, `SelfHeals`, `TaskEnds`, `EndReturns`,
`ReportEnds`, `PortalReached`), since neither fairness nor `ENABLED` is in the prover's reach; and the violations. Every invariant and every
safety property of the passing runs is also a theorem. Conversely the type invariant of `WiFi` and the bound on the delay
(`WaitBounded`) are proved and not run.

## 5. Observed deviations

Met while modelling. Four contradict a line of the repository and are the violation runs: `wifi_mode`, `udp_messy`,
`mdns_lost`, `http_stopped`. Those marked "contradicts" also do; the model has each of them, as a named exception of a
property, and no run of its own. The others no document rules out.

* Wi-Fi: a disconnection that arrives while the reconnect task that asked for the connection still
  holds the handle creates no task (`NeuWiFi_Core.cpp:165`, `358-361`); the station stays
  unconnected (`Missed`). A reconnect task gives its handle up before it deletes itself (`361-362`), so another may be created
  beside it. `stop()` looks at the handle before it silences the handler (`421`), so a
  task may survive it; it may delete a task that has just ended (`423`, `fault`), or clear the handle of a younger one than
  it deleted (`424`, `crossed`), after which two tasks may be on the way to an attempt. A late event can be
  taken by `startSTA` for the outcome of its own connection (`NeuWiFi_STA.cpp:226`).
* HTTP, stop: `stop()` sets the counts of routes to 0 (`NeuHttpServer_Core.cpp:154-155`), although the
  comment at `145` says that they "will be re-applied when server restarts": the server that
  the next network event starts (the listener ignores `_is_running`) serves none of them. This is `http_stopped`;
  `RoutesServed` excepts it as `dropped`.
* HTTP, order (contradicts): `init` registers a listener that is not told of the past. The documents call `startAP` first
  (`../examples/HTTP_Minimal/HTTP_Minimal.ino:22-29`: `wifi.startAP(...)`, `server.init(80)`, `server.on("/", ...)`, "HTTP Server Ready";
  likewise `../README.md:329-334`, `CaptivePortal_IoT.ino:65-68`, `WS_Minimal.ino:39-41`). If the event task has emitted
  `AP_READY` by then, no server runs until the next change of the network: `ServerUp` excepts this as `late`. If it
  emits it between `init` and `on`, the server is started without the route, and does not serve it
  until the next start: `RoutesServed` excepts this as the set `late`. Whether either happens is a race of
  the sketch with the event task.
* HTTP, waits: `httpd_stop` in the event task waits for page handlers, and nothing bounds them (`PagesReturn` is a premise, not a
  fact): `getPostParam` receives again after every timeout (`http/NeuHttpServer_Helper.cpp:284-285`), so one silent client
  keeps the event task waiting for ever, as does a handler that stops its own server.
* Portal: the 404 handler sends clients that are no longer tracked to a name the DNS server
  answers with NXDOMAIN; a hole left by a removal lets a third registration push out a client
  although only two are there; one silent client holds the server's task (see above), so other clients wait; without a
  page for `/` the redirect to `/` is endless (`RouteAssumption` demands that page); the
  page of a request made in a former stay clears the tracker of a new stay.
* Addresses, byte order (contradicts): `parseString` and `parseBytes` put the first octet into the lowest byte (`IPConfig.h:56`, `82`),
  which on the little-endian ESP32 is the network's order already; `getLwIP` reverses the bytes once more (`297-302`), and
  `setSTAIP` and `setAPIP` store that (`NeuWiFi_STA.cpp:130-138`, `NeuWiFi_AP.cpp:106-108`): 10.0.0.2 becomes 2.0.0.10.
  `IPConfig.h:13-14` says that it "automatically handles endianness correction required for compatibility with the LwIP library".
  In the model this is the theorem `LwIPReverses`, and `StaticApplied` says that what comes from an `IPConfig` shows as `LwIP`
  makes it.
* Addresses, texts (contradicts): the overloads that take texts refuse what lwIP's `ipaddr_addr` refuses (`NeuWiFi_STA.cpp:80-87`,
  `NeuWiFi_AP.cpp:70-77`), and that reads one to three numbers, octal and hexadecimal: `10.0.9` is stored as
  10.0.0.9, although "Invalid or malformed IP strings are rejected immediately" (`NeuWiFi_STA.cpp:57`, `NeuWiFi_AP.cpp:57`).
  The model has it (`Loose`).
* Addresses: `parseString` takes an empty segment as 0, and gives 0 for a text it cannot read. The overloads
  that take an `IPConfig` look for 0 in the address and the subnet, not in the gateway: a gateway
  that could not be read is refused only because 0.0.0.0 is in another network than the address, so beside an
  address in network 0 (say 0.0.0.5 with 255.255.255.0, outside `WantedAssumption`) it would be stored. 255.255.255.255 is refused by the
  overloads that take texts; static addresses, once set, can never be turned off.
* Channel: the router's channel overwrites the one the application chose; a connection handled during
  a start is undone by that start; `_ap_channel` is stored before `esp_wifi_set_config`, whose result is ignored
  (`NeuWiFi_Core.cpp:387-393`), so after a refusal the next connection to that router finds nothing to do. All three are `touched`.
* Scan: `isScanDone` may be true of results already taken, and `getScanResults` may clear the bit of
  a scan that ends while it runs (`"missed"`). If it fails in the middle (no number, no memory) it clears the bit as well
  (`NeuWiFi_Getter.cpp:115-119`, `125-129`), although `94` has a "clear after read": the results wait in the driver and nothing
  announces them (`"kept"`). Before `init()` and after `stop()`, `isScanDone` hands a null event group to FreeRTOS (`NeuWiFi_STA.cpp:281`).
* Getters: `getSTAIP` and `getAPIP` still give an address after a start in another mode.
* UDP: a send that holds the mutex longer than the timeout makes the exit of the receive task skip the
  close (`skipped`); the task may receive on a netconn that has been freed.

## 6. Not modelled, and the plan

Not modelled: the event objects and the HTTP client (no shared state); power, security and hostname
settings, which are passed to the driver; multicast; the shifts and masks of `parseBytes`, `parseArray` and `exportToBytes` (an address is its four bytes); the decoding of URLs and the received frames of
WebSockets; the queue of devices mDNS found and `addService` once discovery runs; the user's
callbacks.

Next, in this order:

1. `HttpServer` composed with `WiFi`: `httpd_stop` in the event task waits for a page handler
   that may itself call `NeuWiFi.stop()`, which waits for the event task.
2. `HttpServer` composed with the order of a sketch (`startAP`, `init`, `on`) as actions of its own.
3. The queue of devices in `MDNS` with the flag its readers clear, and `addService`
   while discovery runs.
4. `DNSServer` over the whole of `UDP`, with `init` right after `stop`.
5. The URL decoder against a reference definition.
6. Proofs: the invariants of the compositions of points 1 and 4; the URL decoder of point 5 by the same
   kind of induction as the two parsers.
