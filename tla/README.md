# WiFi Connect in TLA+

Models, model checking and proofs for WiFi Connect (`src/`): a program that
opens a Wi-Fi access point with NetworkManager (the captive portal) and serves a
small HTTP interface to inspect the network and to close the access point again.
Everything here is about the behaviour of the code in `src/src/`; there are no
tests or documents in the repository, so comments, log lines and error texts are
all that states its intent.

## 1. The system

The process has two threads. The *main thread* (tokio, actix-web) runs the HTTP
handlers. The *network thread* (a glib main loop, libnm) owns everything that has
to do with NetworkManager, which is another process reached over D-Bus. A third
party is the kernel: the `/scan` handler talks to nl80211 over netlink from the
main thread, without the network thread.

| Component | Source | State | Operations | Interacts with |
|---|---|---|---|---|
| Startup | `main.rs` | which phase the process is in | spawn the network thread, await its initialization, serve | network thread by the `initialized` oneshot |
| Web server | `web.rs` | one handler per open request | send a command, await its reply, respond; `/scan` | network thread by the glib channel and a oneshot per request; kernel |
| Command loop | `network.rs` 140-251 | queue of commands, futures spawned | attach, dispatch, execute, respond | web handlers; portal |
| Portal | `network.rs` 202-231, 290-299, 348-406, 442-568 | the active connection and its profile, which are NetworkManager's | purge old profiles, add and activate, monitor, deactivate, delete | NetworkManager by D-Bus calls and StateChanged signals |
| Discovery | `network.rs` 301-320, 408-440 | scan timestamps, number of polls | find a device, request a scan, poll for its end | NetworkManager |
| Station list | `network.rs` 79-101, 322-346 | a list made once | sort, reverse, remove duplicates and hidden names | NetworkManager's access points |
| Kernel scan | `nl80211/scan.rs` 27-235 | two sockets and an interface index per request | dump interfaces, trigger, join the group, wait, dump results | kernel |
| Result parsing | `nl80211/scan.rs` 114-141, 237-265 | a cursor | find the SSID element, convert the signal | |
| Interface parsing | `nl80211/interface.rs` | none | drop interfaces that lack an attribute, convert the type | |
| nl80211 tables | `nl80211/enums.rs`, `consts.rs` | none | generated constants | |
| Options | `opts.rs` | none | `--ssid`, `--interface`, `--password`, `--gateway` | |

What is hard in it, and what makes each part correct:

* **Startup and command loop.** Two schedulers, a channel, and two kinds of
  oneshot. `Ok(())` is sent before the receiver is attached; a failed start
  unwinds the network thread, and a command sent after that would panic its
  handler. Handlers have no timeouts. Correct means: commands only go to a live
  thread, a waiting request has its responder in exactly one place, a future that
  hangs (Stop can) holds up nobody else, and every answer is one of its own
  command.
* **Portal.** Every step is a D-Bus call that may be refused, be answered late or
  time out; the end of an activation is a signal that is only listened to from
  some point on; the process may end anywhere and leaves its profile behind;
  several Stops may run at once on the same, possibly dead, connection. Correct
  means: what Stop reports about the access point is true, profiles do not pile
  up, and a task waits for ever only for the reason that is known.
* **Discovery.** The end of a scan shows as a changed timestamp that other
  programs' scans change too. Correct means: an earlier scan is not taken for the
  one asked for, and the wait is bounded.
* **Kernel scan.** Replies are matched to commands by order alone, the
  notification is shared by all scans on the machine, and the group is joined
  after the scan was triggered. Correct means: handlers stay in step with the
  kernel, and never return what was known before they asked.
* **Parsing and list making.** Lengths that a driver supplies, rounding, and an
  order of five small steps that decides which duplicate survives.

`PROJECT.json` lists these hazards one by one, at their lines.

## 2. The modules

| Module | What it is |
|---|---|
| `Commands` | the commands and their possible outcomes |
| `CommandLoop` | both threads and all that passes between them |
| `Rpc` | the service the HTTP clients see: abstract specification of `CommandLoop` |
| `CommandLoopProofs` | theorems about `CommandLoop` |
| `Portal`, `PortalProofs` | NetworkManager, the bus, and the tasks of `init_network` and `stop`; theorems |
| `WifiConnect` | `CommandLoop` and `Portal` composed: the whole program but `/scan` |
| `Hotspot` | what the whole program promises: abstract specification of `WifiConnect` |
| `WifiConnectProofs` | theorems about `WifiConnect` |
| `Discovery`, `DiscoveryProofs` | `find_device` and `scan_wifi`; theorems |
| `Stations`, `StationsProofs` | `get_nearby_stations`; theorems |
| `KernelScan`, `KernelScanProofs` | the `/scan` route and the kernel; theorems |
| `Interfaces`, `InterfacesProofs` | the dump of interfaces, and the lookup of one by its name; theorems |
| `Bss` | one message of a BSS dump to a `Station` |
| `Signal` | `dbm_level_to_quality` |
| `BssProofs` | theorems about `Bss` and `Signal` |
| `MC*` | instances for TLC: symmetry sets and values too long for a `.cfg` |

Two conventions hold throughout. An action runs from one `await` to the next (or is
the whole of a callback), because that is where the code can be interleaved; the
label in `pc` is the `await` the task is at. Definitions named `Buggy...` and the
like are variants of a definition with a plausible mistake in it; they are used by
no specification, and serve to confirm that the properties notice such mistakes.

### CommandLoop

`main` and `network` are the control states of the threads, `initialized` the
startup oneshot, `channel` the glib channel, `reply` the oneshot of each request,
`spawned` the futures on the main context and `handler` the web handlers.

| Action | Code |
|---|---|
| `InitNetwork` | `init_network_respond`: Ok or Err is sent, or the thread panics |
| `ThreadDies` | the `expect` at `network.rs:156` unwinds and drops the receiver |
| `AttachReceiver` | `glib_receiver.attach` and `loop_.run()` |
| `ReceiveNetworkInitialized`, `Bind`, `ServerEnds` | `main`, `run_web_loop` |
| `SendCommand` | a route and `send_command` up to its `await` |
| `Dispatch` | one run of the callback: answers the list commands, spawns the others |
| `ExecuteAndRespond` | the end of a spawned future |
| `ReceiveResponse` | the rest of `send_command`, and `respond_to` |
| `ClientLeaves` | actix drops the handler; its command is not recalled |

What a future does to NetworkManager is not in this module; it ends with any
outcome of its command, and Stop may never end. The end of `main` stops everything,
the network thread included.

`Rpc` has only clients' requests and answers: a service that starts, serves and
goes down, where a request gets at most one answer, of its own command, and only
while the service is up. The mapping takes `service` from `main` and the answer of a
request from its handler and its response.

### Portal

NetworkManager's part is `profiles` (each profile's SSID, whether it is an access
point, and who made it), the state of this run's active `connection`, and the call
each task has made (`request`). Replies and StateChanged signals go through `bus`,
in order, and are delivered by the main loop one at a time (`DispatchEvent`).
`known` and `linked` are the cache of libnm: the last state delivered, and whether
`active_connection.connection()` is still there. Three variables are history, read by
properties only: `activated` (the connection of this run has been activated), `late` (tasks
that began to monitor when the state they wait for had been delivered) and `unseen` (tasks
that found `connection()` to be None). The tasks are `init_network` and
the Stops. Being at `"monitor"` stands for having the state-changed handler of
`finalize_active_connection_state` connected.

`Restart` ends the process at any point, keeps the profiles and the calls NetworkManager
has yet to handle, and starts the program again, perhaps with another `--ssid`. D-Bus does
not recall a call when its sender goes: a pending `add_and_activate` becomes one of the
`orphans` and may be handled at any time in a later run (`HandleOrphan`), its profile
marked `"past_run"`; a pending delete does what `UserDeletes` may do at any time; a
pending deactivate is about a connection no later run looks at. Init lets the user have any profiles,
access points with the portal's SSID among them.

Where NetworkManager's behaviour is not determined by the way the code uses it, the
model allows more than it does: any call may be refused, calls of different
tasks are handled in any order, the user may delete any profile, and an access
point may go down at any time. A call that has timed out may still be handled.

### WifiConnect

The two instances `Loop` and `Portal` share the requests: the future of a Stop is the
task of the portal with the name of its request. The composition replaces what each of
them leaves open by the other:

| Action | `CommandLoop` | `Portal` | Code |
|---|---|---|---|
| `Messages` | any step but the two below | | |
| `Start` | `InitNetwork`, with the result of the task, when it has returned | a poll of `init_network` | `init_network_respond` |
| `BeginStop` | | `Stop` | the first poll of a spawned `stop` |
| `ContinueStop` | `ExecuteAndRespond` with `StopAnswer`, when it has returned | a later poll | `execute_and_respond` |
| `EndCheck` | `ExecuteAndRespond` of a connectivity check | | |
| `DispatchEvent`, `Timeout`, `LinkVanishes` | | the main context is iterated | `block_on`, then `loop_.run()` |
| `NetworkManager` | | what the other process does | |
| `Restart` | back to its start | `Restart` | |

The threads make D-Bus progress only while the network thread iterates its main context
(`Iterating`): inside `block_on` and in the main loop, not between them nor after a
panic. NetworkManager goes on in any case.

`Hotspot` is `Rpc` with one more variable, the access point of this run, and two more
promises: the service starts only when the access point has come up, and a request is
answered `"Stop"` only when it, once up, is down. It has no thread, message, D-Bus call or
profile. An access point that goes down without having been activated is `"failed"`, from
where the service never starts; the mapping `pointBar` tells it from one that is `"down"`,
or on its way there, by the history variable `activated`. The access point may go down by
itself at any time, so "has come up" cannot be "is up"; that the clients' answer about it is true is a matter of three hops (the result
of the future, the oneshot, the HTTP response), each of which could be late. It is,
because an access point that is down stays down for the rest of a run.

### Discovery

The clock counts seconds, and steps may share a time, which stands for events in
one millisecond. `cached` is `last_scan()` as libnm knows it, `lastScan` as
NetworkManager does. Time outside the sleeps of the loop is bounded by `MaxDelay`.

### KernelScan

`wlan`, `present`, `scanning` and `scans` are the kernel's: the index of `wlan0`,
whether it is plugged in, the scans under way, and how many scans each interface has
completed, which is how new its BSS table is. A netlink send and the kernel's answer
are one step, since the kernel handles a message within the send. A dump may come in
one datagram or two, or be refused. A dump of an interface that is gone is an empty
one: its error code is in the Done message, where nobody looks. A failure of the
first send is an `expect`, so it panics the handler (`"panicked"`); every later failure
is returned as an error. Of the multicast
socket only the first notification is kept, as only that one is read. A BSS table is
taken to be that of the moment the dump starts; a scan that ends during the dump
could only make it newer.

### Interfaces

What `KernelScan` has as a set, the index by the name of wlan0, is here a dump of
messages, each of which may lack an attribute or have one of a wrong length, cut into
datagrams anywhere, with the Done message behind others or alone. `Recv` is the `await`
of a datagram, `Message` a turn of the loop over its messages, and `Done` the turn that
leaves both loops, with the `find` of `scan`. The index of a message stands for its place
in the dump. Its type is a number, which `From` converts by the table `NL80211_IFTYPE`; one
that is not in the table, as a newer kernel may have, gives `"Unspecified"` and no error.

### Bss, Signal, Stations

`Bss` starts from elements an access point sends, encodes them and cuts the buffer
anywhere; the parsing loop then works on bytes, and is compared with the elements.
`Signal` follows `dbm_level_to_quality` step by step, in integers of the unit each step
needs: the clamp to -100..-40 dBm and the distance from -40 (`Attenuation`), its share of
60 dB (`Scaled`), rounding (`Rounded`), the second clamp and the cast, which saturates
(`AsU8`). The code computes in `f64`, where a tie is rounded up or down depending on the
representation error: for instance -99.70 dBm gives 1 and -97.90 dBm gives 3. So `Rounded`
and `Qualities` are sets, of two values at a tie. `QualityOrdered` says what the percentages are for:
they never contradict the order of the signals, and use the whole range. `Stations` takes every list of access points, with
names as numbers in the order of strings, and compares the list with its meaning.
`Retain` is `filter_map` and `retain` alike: the elements at some places of a list.
`SortByKey` is what the standard library promises of `sort_by_key`: a rearrangement in the
order of the keys. There is only one, because stations with equal keys are equal.

## 3. What the runs check

| Run | Bounds | Shows |
|---|---|---|
| `command_loop` | 3 requests | `Handshake`, `OneResponder`, `Answered`, and `ImplementsRpc` with its liveness, in all interleavings of startup, failure, requests, leaving clients and exit |
| `portal_safety` | 2 Stops, 3 profiles, 2 SSIDs, 2 runs | `OneProfilePerSsid`, `StopTakesDown`, `NothingLeftBehind` |
| `portal_returns` | 2 Stops, 2 profiles, 1 run | `Returns` |
| `portal_purge` | 1 Stop, 2 profiles, 1 run | `PurgesOnlyOwn` is violated (see below) |
| `wifi_connect_safety` | 2 requests, 2 profiles, 1 SSID, 2 runs | `StopTold`, and `ImplementsHotspot` (safety) |
| `wifi_connect_returns` | 2 requests, 1 profile, 1 run | `StartupEnds`, `StopAnswered` |
| `discovery` | 2 interfaces, 3 polls, 2 seconds outside sleeps | `FreshOrPatient`, `Concludes` |
| `kernel_scan_safety` | 2 handlers, 2 indexes of wlan0, another radio, 2 scans each | `Synchronised`, `FreshResults` |
| `kernel_scan_returns` | 2 handlers, 1 index, 1 scan each | `Returns` |
| `interfaces` | up to 3 messages, 2 names, a known type and an unknown one, any division into datagrams | `FirstOfItsName`, `Ends` |
| `bss` | up to 3 elements, all cuts, signals beyond both ends of the range and ties | `StationIsNamed`, `QualityOrdered`, `Ends` |
| `stations` | up to 4 access points, 3 names, 3 strengths | `StrongestOfEachName` |

Why the bounds are enough:

* *Requests* only meet in the channel and in the main loop; two show every pairwise
  order, three let one be queued while one is spawned and one is answered. What is
  safety here is proved for any number.
* *Stops*: a third Stop meets the same two situations as a second, a connection
  going down or down. *Profiles*: three are one left behind, one of a user and the
  new one; *runs*: the state a run starts from is only a set of profiles, and Init
  and one run produce the interesting ones; *SSIDs*: the same as before, or another.
* *The composition*: two requests may be two Stops at once, or a Stop beside a list; the
  portal's own bounds are explored in its own runs, and two profiles and two runs are
  enough to start with one that a run before has left. The safety of it is proved for
  all bounds.
* *Messages*: the one looked for, one before and one after it.
* *Polls*: the loop treats all turns alike, and the proof covers every number.
* *Handlers and scans*: a stale result takes one handler, its own scan and one other;
  the second handler is that other, or NetworkManager is. Two indexes are needed to
  replug, two scans to tell a table before the request from one after it.
* *Elements*: one before the SSID, the SSID, one after; payloads include bytes that
  look like the header of an element.

`Returns` of `Portal` and of `KernelScan` state exceptions, which are real weaknesses
of the code, as narrow as the model allows:

* `Missed` (`Portal`): the handler for state changes is connected after the reply to
  the call, without looking at the current state. If the final state was delivered in
  between, `init_network` or Stop waits for ever. What counts is the history, `late`: a task
  that had its handler connected in time is not excused.
* `stranded` (`KernelScan`), history as well: the multicast group is joined after the scan
  was triggered. If no scan is running any more by then, the handler waits until some
  other program scans. And a dump that the kernel refuses has no Done message, and is waited
  for for ever. A handler whose dump has its Done message is not excused.
* `unseen` in `NothingLeftBehind`: if libnm has dropped the connection already, the
  profile is left, and Stop says ok.

`FreshResults` excepts handlers whose wait was ended by another radio's scan, and
`OneProfilePerSsid` profiles that a call of a past run adds after the purge of this one.

**Finding.** `portal_purge`: the purge prints "Deleting already created by WiFi Connect
access point connection profile" (`network.rs:367`), but what it deletes is any access
point profile with the portal's SSID; a user's is deleted as well.

## 4. Fairness

* `CommandLoop`: the main loop attaches and dispatches, tokio polls a handler whose
  reply is there, and a connectivity check ends (D-Bus calls time out). Not assumed:
  that Stop ends, that initialization ends, that clients stay or leave.
* `Portal`: the main loop dispatches events and polls ready tasks, unanswered calls
  time out, and an active connection does not stay in transition (NetworkManager has
  timeouts for activation and deactivation). Not assumed: that any call
  succeeds or is handled.
* `WifiConnect`: the same, for the composed actions: a ready future is polled, unanswered
  calls time out, the connection does not stay in transition. Nothing is assumed of
  NetworkManager's answers. `StartupEnds` and `StopAnswered` have the exception of
  `Portal`: the missed state change. A Stop need not be answered by a process that ends.
* `Discovery`: time goes by and the main loop runs. Not assumed: that scans end.
* `KernelScan`: tokio polls a handler whose socket is readable, and a driver ends or
  aborts each scan. Not assumed: that anybody starts another.
* `Bss`: a synchronous loop runs. `Interfaces`: the kernel queues the whole of its dump.

## 5. What is proved

The proofs are for every value of the constants.

**CommandLoop** (for every set of requests). `OneResponder` and `Handshake` are not
inductive: that a responder in the channel is not also owned by a future needs to be
known of requests whose client has left, too, and that no responder is dropped when
the thread dies needs to be traced to the order of startup. The invariant `IInv` adds

* `Started`: `initialized` is `"ok"` exactly when the network thread is attaching or
  looping, and the main thread goes on only then;
* `QueuedOnce`: the channel has no request twice;
* for each request, `Idle` (a request not made has left no trace, one that is made has
  found the thread initialized), `Responder` (queued, owned and used exclude each
  other; a waiting request has one of them) and `Truthful` (replies and responses are
  outcomes of the command).

The key step is `ThreadDies`: by `Started` the initialization has not succeeded, so by
`Idle` no request was made and the dropped channel is empty. `Sent` and `Taken` state
what sending and dispatching do to the channel; `Untouched` says that a step leaves
alone what is true of the other requests. From `IInv` follow `TypeCorrect`,
`HandshakeHolds`, `OneResponderHolds`, and `ImplementsService`: each step maps to a
step of `Rpc` or to a stutter (`Bind` to `Start`, `SendCommand` to `Ask`,
`ReceiveResponse` and `ClientLeaves` to `Resolve`, the ends of `main` to `GoDown`).

**Portal** (for every set of Stops, profiles and SSIDs, and any number of runs). What the
properties say of a result depends on replies and signals that may be late, so the
invariant `IInv` follows them from NetworkManager to the task:

* `OneCall`: a task has one call at a time, which is a request, or its one reply on the
  bus, or over; only a call that timed out leaves either behind, and its task makes no
  other. `Matches`: what is pending is what the task waits for.
* `Life`: `init_network` comes before the Stops, and the portal is added before it is
  monitored.
* `Signals`: the states on the bus, `known` and `received` are states the connection has
  been in; `"activated"` can only be its first change, and `"deactivated"` is final. So a
  Stop, which starts after `"activated"` was received, can only receive
  `"deactivated"`: this is why `StopTakesDownHolds`, although monitors take the first
  final state there is.
* `Cleanup`: a delete call that has succeeded, known to its task or not, has deleted the
  portal's profile. It gives `NothingLeftBehindHolds`.
* `Activation`: `activated` agrees with the state of the connection, and with what the
  monitor of `init_network` has received: it returns Ok only for a connection that has been
  activated. `WifiConnect` needs it.
* `Purge`: a profile of the program with the SSID of this run is one the purge still has
  to delete, and none is left when the portal is added, even by a call that timed out. It
  gives `OneProfilePerSsidHolds`.

**WifiConnect** (likewise). `LoopStep` and `PortalStep` show that each step of the program
is a step of its components, whose inductive invariants are then taken over without being
proved again. `Link` adds the messages: Ok(()) was sent for an `init_network` that
returned Ok, and a `"Stop"`, in the oneshot or in the response, for a `stop` that did.
With `Signals` and `Cleanup` it gives `StopToldHolds`. For `ImplementsHotspotHolds`, a
step that leaves the connection alone is a step of `Rpc` (by the lemma behind
`ImplementsService`) whose new guards follow from `Link` and `Activation`, and one that moves it leaves
both threads alone and is `PointMoves` or a stutter (`PointStep`).

**KernelScan** (for every set of handlers, number of replugs and scans). For
`SynchronisedHolds` the invariant says that the datagrams in a handler's socket answer its
current command and that nothing follows the last one of the dump; for `FreshResultsHolds`
that the number of completed scans only grows, that a notification with results was sent
after the request, and that what the dump collects is no older than the notification.

**Bss.** For every buffer of bytes, not only encodings of elements, the cursor stays in the
buffer, and each turn of the loop takes at least two bytes, which is the safety half of
`Ends`. For every list of elements and every cut, `StationIsNamedHolds`. Its invariant says
where extract_ssid is: behind some number of whole elements, none of which is an SSID
(`Looking`), or at the end with the right result (`Looked`). `ElementAt` is the key lemma:
where an element starts, `extract_element` finds that element, if the buffer has the whole of
it, and nothing otherwise. It rests on `EncodedStep` and `EncodedPrefix`, which say where
the bytes of an element are. That the SSID found is the *only* candidate, `OneSsid`, is what
makes "listed under its own name" mean something when an access point sends two.
About `Signal`, for every integer: the second clamp and the cast never cut anything off
(`QualityIsRounded`), and a stronger signal never gets a lower percentage, ties included
(`QualityMonotone`); hence `QualityOrderedHolds`.

**Interfaces** (for every dump and every division into datagrams). `Collected` says that the
items are the usable messages read so far, in their order: each is where it is, none is
missing, so the first item of a name is the first usable message of that name, which is
`FirstOfItsNameHolds`. `RecvAdvances` is the safety half of `Ends`: the turns of the loops
of `recv_all` that are still to come get fewer with each.

**Stations** (for every list of access points). `Retained` says that what `Retain` leaves is
a strictly increasing choice of places (`Picks`), `Twice` that two of them in a row are one,
and `SortedByKey` that the sorted rearrangement exists, by inserting one element after the
other (`Insert`). So the final list is the list sorted and reversed, at the places that are
the first of a name (`NearbyList`), and the first of a name is the strongest
(`FirstIsStrongest`): hence `StrongestOfEachNameHolds`.

`Bss` and `Stations` need induction over data: over the elements, the places of a list,
the stations sorted. The induction theorems of the library take a predicate, which the provers
cannot instantiate. The lemma `Induction` is about a set of numbers instead, and follows
from the well-foundedness of `<` on them, so each use of it defines the set of
the numbers for which the claim holds. That a recursive function has a value at all, such as the one of
`FlattenSeq` or `Encoded`, is proved in this way, too (`JoinedExists`, `EncodedDef`). Three
definitions were written for that: `Encoded` as a recursive function, `Retain` as
a concatenation and `SortByKey` by its contract, since the provers know nothing of folds,
`SelectSeq` and `SortSeq`.

**Discovery** (for every timeout and set of interfaces). `Elapsed` relates the clock, the
start of the scan, the number of polls and the pending timer; `NothingNewer` says that
as long as no scan has ended since `prescan`, neither NetworkManager nor libnm has a
later time. Together they give `FreshOrPatientHolds`, and `TypeCorrect`, which has the
bound on the clock and that the device found can be downcast.

Only model-checked: every liveness property (`Answered`, `Returns`, `Concludes`, `Ends`,
`StartupEnds`, `StopAnswered`), and the liveness part of the refinement of `Rpc`, because the
prover has no rule for fairness and ENABLED that applies. All invariants of the runs are
theorems, as is the safety part of the two refinements.

## 6. Plan

Done in this order: `CommandLoop` with `Rpc` and its proofs (the core, which all else
hangs on), `Portal`, `KernelScan`, `Discovery`, the algorithms; then the composition
`WifiConnect` with its abstract specification `Hotspot`, `Interfaces`, and the proofs about
`Portal`, `KernelScan`, `WifiConnect` and `Bss`; then those about what `Interfaces`, `Bss`
and `Stations` compute. `/scan` is not composed with the commands: it shares no
variable with them, and its handler is one more future of tokio.

Left: the safety halves of the other liveness properties (a variant that each step makes
smaller, as in `LoopAdvances` and `RecvAdvances`), and a second instance of the program
beside the first (see below).

## 7. What is not modelled

* The index route, the JSON layout, log lines, and the chain of error texts: an error is
  an error. (`web.rs:91` says "list actions" for the connections.)
* What `check_connectivity` and `list_connections` return: they read NetworkManager's
  objects and change nothing.
* The settings of the access point profile other than SSID and mode; a gateway that does
  not parse is one of the errors of `Prepare`.
* That the station list is made once and may be old; and limits of the unbounded channel.
* Two instances of the program at a time. What a second one does to the first (its profile
  deleted, its access point taken down) is among the steps of the environment of `Portal`;
  that two which start together may both add a profile is not, and `OneProfilePerSsid` is a
  property of one instance at a time.
* The attributes of an interface that are parsed and not used (`wiphy`, `wdev`, the MAC), but
  for whether they are there and well-formed.
* Overflows of netlink socket buffers.
* `consts.rs` and `enums.rs`, which are generated tables, but for the few names in use.

## 8. Running

    tlc -config CommandLoop.cfg MCCommandLoop.tla
    tlapm CommandLoopProofs.tla

and likewise for the other runs in `PROJECT.json` and the other `*Proofs` modules.
