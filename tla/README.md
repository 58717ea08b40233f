# Specifications of slstatus

TLA+ models of the status monitor in this repository, TLC runs that check them on
small instances, and proofs checked by TLAPS. Paths are relative to the root of the
repository; the code referred to is the Linux branch of every `#if`, except in `Rates`,
which has the BSD branch as well, and in `Volume`, which is the sndio branch.

## 1. Inventory

slstatus calls a table of functions (`args` in `config.h`) from a main loop, collects
the texts and writes them to the root window's name (`-s` not given) or to stdout
(`-s`). Some of the functions read a file or make a system call; others read a cache
which a library keeps current from callbacks or from a thread, and which raises a
real-time signal when something changed. The signal interrupts the main loop's sleep.

| part | state | operations | interacts by |
|---|---|---|---|
| main loop (`slstatus.c`) | `iter`, `sflag`, `Sflag`, `statuses[]`, volatile `done`, `upsigno` | `main`, `setup`, `tick`, `printstatus`, `teardown`, `sighandler` | calls `args[i].func`, `*_init/_tick/_free`; signals |
| table (`config.def.h`) | constant `args[]`: function, argument, turn, signal | - | read by `printstatus` |
| utilities (`util.c`) | the static buffer of `bprintf` | `esnprintf`, `bprintf`, `fmt_human`, `pscanf`, `die` | called by everything |
| PulseAudio (`pa.c`) | `pa_queue`, `pa_ctx`, `pa_loop`, `pa_default_sink`, `pa_state_callback_signal` | `pa_init/_free`, `pa_find_by_sink`, four callbacks, `pa_line/_mute/_perc/_name/_description` | a thread of libpulse that calls back; `PA_SIGNAL`; the sound server |
| NetworkManager (`nm.c`) | `nm_queue`, `nm_client` | `nm_init/_tick/_free`, `nm_find`, `nm_update`, handlers for state, access point and strength, `nm_line/_ip4/_ip6/_mac` | GLib callbacks dispatched by `nm_tick`; `NM_SIGNAL` |
| backlight (`backlight.c`) | `backlight_queue`, `udev`, `udev_monitor` | `backlight_init/_free`, `backlight_loop`, `backlight_find`, `backlight_line` | a thread of its own; `BACKLIGHT_SIGNAL` |
| UPower, power profiles, modem (`upower.c`, `ppd.c`, `mm.c`) | `upower_queue`, `mm_queue`, `ppd_profile`, the clients | find, update, callbacks, `*_line/_perc/_state` | messages of the system bus, dispatched by the default GLib context; their signals |
| WiFi (`wifi.c`) | `nlsock`, `resp`, the ids in `nl80211fam` and `ifindex`, `wifi_perc`'s text | `wifi_essid`, `wifi_perc` | netlink requests and replies |
| volume (`volume.c`) | `initialized`, `hdl`, the list `controls` (sndio) | `vol_perc`, `init`, `cleanup`, `ondesc`, `onval` | messages of the audio server, taken in by each call |
| rates (`netspeeds.c`, `cpu.c`) | `rxbytes`, `txbytes`, `a[]`, all static | `netspeed_rx/_tx`, `cpu_perc` | files, `getifaddrs`, `sysctl` |
| the other components | none | one function each | one file or system call |

What makes each of them correct, and what is hard about it:

- **main loop.** The handler runs between any two instructions of main, and on
  backlight's thread, which does not block signals. `upsigno` is one variable for all
  signals and is read several times and cleared twice. Correct: only sampled texts are
  shown, refreshes are not silently lost, a termination signal ends the program after
  at most one more write, texts reach the display in the end.
- **PulseAudio.** Main searches and extends the list without the loop's lock. Replies
  are applied to the entry they were requested for, whatever sink it is bound to by
  then. Correct: an entry shows the sink it is for, every change is announced, start
  and end do not hang or touch freed memory.
- **NetworkManager.** Handlers are connected and disconnected as access points come and
  go, devices are replaced by new objects, addresses come without any notice. Correct: an
  entry is a view of its device, says nothing of an earlier activation, announces its
  changes, and `nm_line` uses no object that was dropped.
- **UPower, power profiles, modem.** A cached value is copied at the first lookup and kept
  current by a handler of an object nobody holds on purpose; a modem's signal
  quality is a pair that its handler reads as a number. Correct: what is cached of a device that is
  still there is the daemon's value, or a message that makes it so is waiting, but for that quality.
- **backlight.** The monitor thread and main share a list without a lock; events
  between reading sysfs and inserting the entry are dropped; teardown. Correct: a walk
  misses no entry that was there, an entry the thread has met does not stay behind.
- **WiFi.** Replies are not matched to requests; a dump is read until its end; the index
  is cached by name. Correct: no reply is taken for another call's, a call returns.
- **volume.** A list that descriptions build and hangups clear. Correct: what is shown is
  the lowest of the server's levels, or 0 when muted.
- **rates.** Unsigned differences, one static counter per function, readings that fail
  half way. Correct: bytes are counted once, a percentage is one.

`main`'s `tick()` (`slstatus.c`, lines 43 to 48) calls `nm_tick` and `pa_tick` only.
`upower_tick`, `ppd_tick` and `mm_tick` are never called: it is `nm_tick`'s iteration of
the default context that serves all of GLib's clients.

`PROJECT.json` lists every part, and under "hazards" each such place with its line.

## 2. Plan

Written, in this order:

| module | content |
|---|---|
| `Slstatus` | main loop, `printstatus`, handler; components reduced to how they change and signal |
| `StatusBar` | abstract specification: what a viewer of the bar may see |
| `MCSlstatus` | instances for TLC |
| `SlstatusProofs` | theorems about `Slstatus` |
| `PulseAudio`, `MCPulseAudio` | the cache of `pa.c` and its two threads |
| `PulseAudioProofs` | theorems about `PulseAudio` |
| `NetDevice`, `MCNetDevice` | the entries of `nm.c` and the objects of libnm they watch |
| `NetDeviceProofs` | theorems about `NetDevice` |
| `Backlight`, `MCBacklight` | the queue of `backlight.c` and its two threads |
| `BacklightProofs` | theorems about `Backlight` |
| `Netlink`, `MCNetlink` | `wifi.c`: requests, dumps, replies, cached index and family |
| `NetlinkProofs` | theorems about `Netlink` |
| `BusCache`, `MCBusCache` | the caches of `upower.c`, `mm.c` and `ppd.c`, which share one context |
| `BusCacheProofs` | theorems about `BusCache` |
| `Rates`, `Volume` | the functions with static state: counters and the list of `volume.c` |
| `Clock` | the arithmetic of the main loop's sleep |
| `Readers`, `MCReaders` | one instance of `Rates`, `Volume` and `Clock` |
| `ClockProofs` | theorems about `Clock` |
| `ReadersProofs` | theorems about `Rates`, `Volume` and `Clock` as `Readers` runs them |

To come, in this order:

1. The figures without state: `fmt_human` against a reference definition on
   all small inputs, the sums of `swap.c`, `ram.c` and `battery.c`.
2. An owner for the strings of `PulseAudio` (`pa_description` hands out a pointer that a
   callback frees).

Composition: the feeds of `Slstatus` ("lookup", "proxy", "thread") stand for what those
modules do in detail; each of them states that a change of its cache is followed by its
signal (`ShownOrRaised` for PulseAudio and
backlight, `ChangeAnnounced` for nm.c and the bus, with the exceptions named below), which is what `Slstatus` assumes of a feed.

## 3. Slstatus: the main loop

`pc` is the place of the main thread. A step is the code between two accesses to what
the handler or another thread may change, so the handler (`Deliver`) comes between any
two of them:

| code | actions |
|---|---|
| `setup`, `tick` | `Setup`, `Dispatch` (callbacks inside `tick`), `TickDone` |
| the `if` of `printstatus`, line 85 to 87 | `Enter`, `ReadUsr1`, `ReadTurn`, `ReadSignal`: each reads `upsigno` anew, as the compiler must |
| `args[i].func`, `esnprintf`, the `break` | `Sample` (with `Attach` for a find function's first success, `Store`, `Advance`) |
| `upsigno = 0` after the loop | `Reset` |
| `if (Sflag \|\| iter)` and the write | `Emit`, `EmitFails` (die), `EmitNothing` |
| the sleep, lines 177 to 193 | `Check`, `EnterSleep`, `SleepTimeout`, `SleepInterrupted`, `ReadErrno`, `LeaveSleepLoop`, `ServeWakeup`, `Rearm`, `ReadRet` |
| `while (!done)`, the end | `LoopEnd`, `Teardown` |
| `sighandler` | `Handle`, on main (`Deliver`) or on another thread (`DeliverElsewhere`, which leaves main's errno and sleep alone) |

A text is a version number. `value[e]` is what the component would return, `statuses[e]`
what `printstatus` stored, `screen[e]` what was written. The clock is a choice: after a
pass there is time left to sleep or there is none (the arithmetic is in `Clock`, section 9). `Long` names the texts that do not
fit `MAXLEN`: `esnprintf` stores them truncated and returns -1, which ends the loop.
`pending` follows POSIX: real-time signals queue, `USR1` and `TERM` merge.

Three approximations, all towards more behaviours: `Setup` lets a "proxy" raise its
signal or not; `ThreadChange` signals every change, whether or not the entry is
already known to the thread (backlight does not signal before the first lookup); any
thread may run a handler when `StrayHandler` is set.

`StatusBar` says what a viewer may see: the text of an entry is one its source had, is
never replaced by an older one, and is left or removed as a whole at the end. `BarSpec`
is that specification under the mapping `running <- pc \notin Final`, a property of
`Slstatus` and a theorem.

### Runs

- **core_safety** (four entries: a "lookup" and a "thread" feed with turn 0 that share a
  signal, as the `nm_line` entries of `config.def.h` do, a polled one with turn 1 whose second
  version is overlong, a "proxy" with turn 2; two user signals; stray handlers). `NothingUnsampledShown`, `OneLateWrite`,
  `LostOnlyByCollision`, `BarSpec`. `LostOnlyByCollision` is how much of "a refresh is
  never lost" is true: a step that does not write `upsigno` never loses one, so losses
  come from one signal overwriting another and from the two resets, nothing else.
- **core_liveness** (three entries, of which the first, with turn 2, may become overlong
  and shadow the others; `iter` folded at 2; one user signal). `Terminates`,
  `SampledIsShown`, `PolledCatchesUp`, `WakeupRefreshesAll`.
- **finding_redraw, finding_once, finding_signal_death**: section 10.

Bounds: `MaxVersion = 2` gives every value a change after it was sampled, `IterMax` covers
`iter = 0`, odd and even, and the wrap to 0 (`IterFold = 0`) or the continuation with the
same residues (`IterFold = 1`); two user signals are what a collision needs, and the
feeds' own signals come on top.

Fairness (`FairSpec`): the main thread takes its next step (nothing in it blocks but
`nanosleep`, which ends), and a pending signal is delivered to some thread. Sources and
users owe nothing. Delivery is a disjunction of the two handlers, so it does not promise
that main itself is interrupted.

## 4. PulseAudio

Two threads, main and libpulse's; a server with two sinks; a connection with a FIFO each
way. `at["main"]` and `at["pulse"]` are places in the code, `entries` all `pa_t` ever
allocated, `list` those that a walk over `pa_queue` reaches and `tail` where `tqh_last`
points. `TAILQ_INSERT_TAIL` is three steps: `Load` reads `tqh_last` into `last[p]`, `Link` stores the
entry where that points, `MoveTail` moves `tqh_last`. Between any two the other thread may do the same: what
it linked since the load is overwritten, at the head or behind another entry, and an entry is lost, as in
the code. `raced` is history, too: the entries that main was about to insert, or began to, while the
callback thread was inserting one.

Callbacks run with the loop's lock (`Dispatching`), which main holds only in `pa_init`
(`HoldsLock`) and gives up while it waits. `server_info_callback` calls `pa_find_by_sink`
and so has places of its own. `pa_sink_info_callback` is two steps, the stores (`SinkInfoCallback`) and then
`kill` (`SinkInfoRaises`), so that main may read, or begin a lookup, in between; index, volume and mute are stored
at once, a sink's volume and mute being one level here. `SinkInfoAfterFree` is a reply for an entry that `pa_free`
has freed already: the write goes unnoticed or ends in "corrupted". The server's actions
are external: they say what libpulse promises, answers in the order of the requests and an
event after every change of a sink once subscribed. A change of the default sink is an
event of another facility, to which `pa.c` does not subscribe.

`been` and `held` are history: the sinks that were the default, and the indexes each sink had.
No guard reads them.

- **pulse_default** (the entry `pa_line(NULL)`; sinks with index 0 and 1; two changes;
  one of the sinks may be plugged in again with index 2). `NeverBehind`: the first entry is
  level with the sink it is bound to, or a message that will make it so is under way, unless that entry
  `raced` (below). `ShownOrRaised`: a text that is out of date was announced, or is about to be; but for a lookup that
  now ends at an entry still zeroed by `calloc`, whose information will raise the signal.
- **pulse_named** (the entries NULL and one sink; sinks with index 1 and 2; one change).
  `TypeOK`; `BoundToItsSink`: an entry has only indexes of the sinks it is for; `ShowsDefault`: when
  all messages are dealt with no default entry is left without a sink, and it has the default
  sink if that never changed. `ShownStaysSafe`: a sink that was shown once does not bring the program down when
  it is looked up again, neither through an entry that came to the list nor through a server that went
  away, unless both threads were inserting at once. Under `FairSpec`, `InitReturns` and `DefaultFollowed`: a new default
  that the server has named comes to be shown.

Fairness: main goes on in `pa_init`, the context becomes ready or fails, the server answers what it
is asked, and libpulse's loop, a thread of its own, calls back for what has come and ends the callbacks
it has begun. Nothing is assumed of the lookups, or of the changes at the server.

Bounds: one change is enough to separate requests by NULL, name and index that are in
flight together, two for a sink that goes and comes back. `MaxEntries = 3` lets both threads
create one each, and one more when an entry was lost; with 2, in the run that also checks
liveness, either both threads create the default's entry or each another. Past it the code goes on
to leak an entry for each lookup behind a lost one; the model stops creating (`Finished`
then allows the process to stand still). All sinks start at `MaxLevel`, so that an
entry zeroed by `calloc` is not right by accident; in pulse_named `MaxLevel` is 0, since its properties are about
indexes and places only. The safety properties but `ShownStaysSafe` are proved for any bounds
(section 11).

What the properties leave out on purpose, because the code does not do it and no text in
the repository says it does:

- A second entry in front of which the default sink's entry stands is compared with
  `strcmp(NULL, ...)` (`pa.c:95`): with a default and a named entry, or with
  `"@DEFAULT_SINK@"` looked up twice, `FindCrashes` is reachable with a server. `ShownStaysSafe` says that this
  strikes at the first lookup of a sink or never, unless both threads inserted at once, and excepts the aliases.
- After a failed `pa_init`, or a lost server, the first lookup of a sink makes the library assert; those
  whose entry is in the list already go on.
- Say main has loaded `tqh_last` from an empty list and is preempted, the callback thread inserts its own entry
  for the default sink, both get their information, and then an event refreshes the callback thread's entry, which is
  the only one that a search by index finds. When main goes on, it stores its own entry over the head: the
  list now begins with an entry that is stale with no message under way, until the next event of its sink.
  `NeverBehind` excepts entries that `raced` for this, and only those of main: what the callback thread
  inserts cannot be refreshed too early, because events are dispatched by that same thread.
- A new entry has the index 0 until its information comes, and the first sink of a server has
  index 0 too: an event of that sink finds the unfilled entry, whichever sink it is for
  (`pa_find_by_index`), and the reply may fill it with the wrong one for a moment. With sink 0 and a named
  entry this also breaks `NeverBehind`. `BoundToItsSink` counts 0 as unfilled; pulse_named
  starts its indexes at 1, as on a server whose first sink was plugged in again.
- When the default changes while an event of the former default sink is under way, the request
  that the event leads to is answered after the new default's, and the former one's data
  stay in the entry. So `ShowsDefault` says nothing about which sink once the default has changed,
  and `DefaultFollowed` says only that the new one is shown at some moment.
- A default sink that is unplugged and comes back keeps its name, so
  `server_info_callback` returns early and the entry keeps the old index.
- Of two entries with the same index an event refreshes the first only.

## 5. NetDevice: the entries of nm.c

libnm changes its objects, and calls the handlers connected to them, only while `nm_tick`
iterates the main context: a change and its handlers are one step (`Tick`), and lookups come
between such steps. `device[i]` is libnm's object of an interface; a device that is
unplugged and plugged in again is a new object, with a new `gen`. `known` are the access points in reach, for
which libnm has an object: one that comes (`AccessPointSeen`) has any strength, one that goes
(`AccessPointGone`) takes the handlers connected to it along and tells nothing more. `entry[i]` is the `nm_t`:
the object it watches, state, addresses, access point, name, strength, and how many strength
handlers of its own are connected to each access point. `faded[i]` is history: the last strengths of access
points the entry had left and still listened to when they went out of reach.

| code | definitions |
|---|---|
| `nm_update` | `Update`, `UpdateRaises` |
| `nm_access_point_callback` | `AccessPointCallback` with `Join` and `Leave` |
| `nm_signal_strength_callback`, `nm_state_callback` | `StrengthCallback`, `StateCallback` |
| `nm_find`, the functions of the table | `Created`, `Lookup`, `Answer`, `UsesDevice` |
| `nm_free` | `Free` |

The run **net_device** has one WiFi interface, an access point that tells its name and a hidden
one, each in reach or not, one address per family, strengths with different icons, three changes. Three changes
are what a return to an access point, or a deactivation, a drop and a replug, take; every
initial state is tried, so histories before the first lookup cost no change. A second
interface multiplies the states beyond reach; what two of them on one access point do
to each other is covered by the theorems, which hold for any number.

- `ViewOfDevice`, `StrengthExplained`, `AddressOfActivation`: what an entry says. A change
  from one access point to another leaves the old one's handler connected, so the strength
  may be that of an access point no longer in use. When that one goes out of reach its last strength stays in
  the entry until the access point in use tells another or the entry moves on, and nothing says that it is
  out of date. A hidden access point leaves the old name. The properties allow exactly this.
- `ChangeAnnounced` excepts a device that became active without an address: `nm_update`
  returns before it raises the signal, and nothing tells it when the address comes.
- `LineSafe`. `nm_mac` and `nm_free` do use objects that were dropped, and so does the handler of an access point
  that goes away while in use (`nm.c:177` disconnects from `nm->ap`, to which nm.c has no reference): `touched`
  records them, with a crash or without one. Only `nm_line`, which
  tests the state first, is claimed to be safe. That NetworkManager takes a device down
  before it drops it is the assumption here.

## 6. Backlight: two threads and a list without a lock

Main appends with `TAILQ_INSERT_TAIL`, two stores (`InsertTail`: link, then move `tqh_last`);
the thread walks one pointer at a time (`Walk`), reads sysfs, compares, stores and raises
the signal in steps of their own (`ReadLevel`, `Compare`, `Unref`). Stores are seen in program
order. `known` is what was linked when a walk began, `met` the entries the thread ever found.

The run **backlight** has two backlights, one name that is none, levels 0 and 1, three
changes: one before the entry is linked, one during the walk and one after it.
`WalkFindsLinked`, `NeverBehindOnceMet`, `ShownOrRaised`, `QueueReady`, and under fairness
`MetCatchesUp`. An event between main's reading of sysfs and its insertion is dropped, so
an entry may be born stale and stay so until the next event: the properties speak of
entries the thread has met. `backlight_find` hands `udev` to libudev untested; `NewFromSyspath` is
libudev's own test, which finds no device without a context, and `QueueReady` rests on it. Teardown frees the monitor under the thread; that may
end "corrupted", and no property says otherwise. That `backlight_icon` and
`backlight_perc` read two files in turn is not modelled.

Fairness: the scheduler runs the thread, and runs main once it is inside a lookup. An idle main
owes nothing.

## 7. Netlink: wifi.c

The kernel answers inside `send`, so a reply is in the socket when `recv` is called; a `recv`
without one blocks until a signal, which ends it (`Interrupt`): the handlers are installed
without `SA_RESTART` (`slstatus.c`, lines 156 to 162). A dump is a message per station and an end,
cut into datagrams anywhere: the kernel fills the first inside `send` (`GetStation`) and one more inside each
`recv` (`Fill` in `Receive`). For want of memory it may answer the request with an error and go on with the dump
in the next `recv`, or leave an error on the socket (`fault`), which the next `recv` returns instead of a
datagram (`ReceiveFails`); while a dump goes on, another one is refused. A `send` may fail too (`SendFails`,
and in `AskFamily`). `AskFamily` and `ReceiveFamily` are
`nl80211fam`, `Ifindex` is `ifindex`, `SendEssid`/`ReceiveEssid` and `SendPerc`/`ReceivePerc` the
two functions.

The run **netlink** has two interfaces, which makes the cached name and index change hands,
one network, two signals, up to two stations, two changes in the kernel, indexes up to 3 (one
more than interfaces, so that a replug gets a new one). Two stations and an end come in up to three datagrams. One
error is left on the socket (`MaxFaults`), and calls go on with at most one datagram left over
(`MaxLeft`), which is what it takes for the next call to meet it.

- `NothingLeftOver`: no call leaves a message behind, nor a dump that goes on, as long as the socket has had no
  error. This is what makes up for sequence numbers that are never compared. After an error `wifi_perc` gives up,
  what is left of the dump is the next call's answer, and both properties are off.
- `AnswersAsked`: the answer is about the interface asked for, as long as no index changed, no
  ioctl failed and the socket had no error. A failed ioctl leaves the old index under the new name, and the calls after it
  ask about the wrong interface; `stable` excludes that.
- `CallsReturn`, while nl80211 is there and was found by whoever has a socket, and after an error on the
  socket as well. Without the family, two places keep main: the attribute of
  length 0 in the error reply, which `findattr` (line 38) never gets past, and `wifi_perc`, which
  does not test the family (line 182) and waits for a reply to a message of type 0 until a signal.

Fairness: main runs. Signals owe nothing.

## 8. BusCache: upower.c, mm.c, ppd.c

Messages wait in `inbox`, which one tick empties for all three. `Setup` starts with any subset of the
services. `object` is what the library keeps of a device while something refers to it: the
array that `upower_find` leaks is what keeps the `UpDevice`, and its handler, alive (`Kept`). Devices go and
come back (`Unplug`, `Plug`): nothing is connected to `device-removed` or `object-removed`, so the entry stays, an
orphan (`orphans`). A modem that comes back has a new object, of which the old entry hears nothing; a battery
that comes back has its old path, and the entry may hear of it again, which the properties do not count on.
libmm-glib declares the signal quality as a pair (u, b) and hands out the address of a `GVariant`, which `mm.c:58`
reads into a `guint`: `Notify` stores `Misread`, half of an address, for whatever the daemon said, and since the
other half is written to the stack beside it, it may end the program. The first lookup
(`mm_modem_get_signal_quality`) is right, so a modem's level is right until the first notification.

| code | definitions |
|---|---|
| `upower_find`, `mm_find`, `ppd_update` | `UpowerFind`, `MmFind`, `PpdUpdate` with `Renewed` |
| callbacks | `Notify`, in `Dispatch` |
| the functions of the table | `Lookup`, `UpowerLine`, `MmLine`, `PpdLine` |
| `nm_tick` | `Tick`, `Dispatch`, `TickDone` |

The run **bus** has one battery, one modem, two profiles, two values of each property and two
changes, which is what it takes for a message to be overtaken by the answer to a call, and one misread
level, which is no level of the daemon's.
`CacheFollows`, `ProfileFollows`, `ChangeAnnounced`, `CatchesUp`. The first says of a device that is still there
that each cached value is its, or waits in a message, but for a modem's level that was misread;
the last that an entry behind its device catches up or loses the device, and does not speak of a modem's
level at all. What they leave out, as the code does: `mm_find` copies the client's values and raises nothing, so a modem that
another entry finds later is not announced to those that were answered before;
a call to power-profiles-daemon that fails keeps the old profile and is not repeated; a
lookup with a UPower that does not answer, or without a manager, dereferences NULL (`"crashed"`);
a removed device keeps its entry. `ppd.c` compares pointers, so every message raises its signal.

Fairness: a pass of lookups ends and is followed by a tick, a tick goes on.

## 9. Rates, Volume, Clock, Readers

`Rates` and `Volume` describe functions that printstatus calls and that answer on the spot; `Readers`
lets what they read change between any two calls. `Clock` is the loop that calls them, seen as
arithmetic. The three share no state, so `Readers` puts one of them to work at a time.

- `Rates`: byte counters wrap at `Wrap`. `Conserved` says that a function asked about one interface
  reports every byte once, across the wrap; a counter of 0 is taken for "none" and learnt anew, and
  two interfaces share the one static variable, which the premise excludes. A read that fails, because the interface is gone or because its file or
  `getifaddrs` does (`NetspeedFails`), leaves the counter alone. The rate is the
  difference over the configured interval, whatever time has passed, so only the difference is
  modelled. `PercentInRange`: a sample that failed half way mixes two moments; the kernel's counters
  are taken as monotone, iowait too.
- `Volume`: `vol_perc` as steps. `doing` is where it is: `Open` and `Fail` are `init`, `Callback` is
  `ondesc` or `onval` with the first of the messages that wait, `Disconnected` and `Handled` end
  `sioctl_revents`, `Weigh` is one turn of the `LIST_FOREACH` with its cursor `c` and its sum `value`,
  `Return` answers. The server changes between any two, and a message that comes after `Handled`
  waits for the next call. `VolumeIsServers`: between two calls, with no message left, the volume is the
  server's. `CrashOnlyByOthers`: `onval` writes through NULL for a control that is not listed, which
  only a value of a control other than an output's level or mute can cause. `malloc` succeeds: a
  control it fails for would be missing from the list, with both consequences.
- `Clock`: lines 63 to 69 and 170 to 191 of `slstatus.c`. `start`, `wait` and `intspec` are the
  `timespec`s of the code, `difftimespec` is the function; time passes at any place (`Elapse`).
  `Begin` and `Measure` read the clock, `Sleep` hands `wait` to nanosleep or finds it negative
  (`Skip`), `Interrupted` is a signal with the rest of the sleep in `wait`. `aside` counts the time that
  serving a signal takes, for which the code does not make up. `ValidSleep`: nanosleep never gets a
  `tv_nsec` it refuses. `Punctual`: a pass does not begin before the interval is over, and a sleep ends
  when it is, plus `aside`. What a signal does to `errno` and `done` is in `Slstatus`.

The run **readers**: `Wrap = 4` wraps with three events; two interfaces, one direction (the other
is the same code); two controls with levels 0, 1 and 2; three events. The clock counts a second as
`Thousand * Million` = 2 * 2 units and an interval of 3 "milliseconds" as 6 of them, which is a second
and a fraction, so both subtractions borrow in some runs and not in others; `MaxTime = 14` is a whole
pass from any start within a second and most of the next.

## 10. Findings

| run | the manual | the code |
|---|---|---|
| finding_redraw | `slstatus.1:42`, USR1 "Triggers an instant redraw." | the pass that serves a wakeup is `printstatus(0)`, which writes only with `-S` |
| finding_once | `slstatus.1:30`, -1 "Write once to stdout and quit." | the single pass has `iter` 0 and writes only with `-S` |
| finding_signal_death | `slstatus.1:38`, the program "responds to the following signals" | a second signal between `nanosleep`'s return and the test of `errno` sets errno to 0, and main dies with "nanosleep: Success" |

## 11. Proofs

`SlstatusProofs` proves, for every table, width of the counter, set of overlong texts and
number of signals, under `ConstantsAssumption` alone (the argument types, and that a feed
other than "poll" has a signal):

| theorem | property | argument |
|---|---|---|
| `TypeCorrect` | `TypeOK`, which no run repeats | inductive as it stands |
| `LateWriteBound` | `OneLateWrite` | `LateInv` |
| `OrderedAlways` | `Ordered` | `screen[e] <= statuses[e] <= value[e]` for every entry |
| `ImplementsStatusBar` | `BarSpec` | initial states map to initial states; each step is a step of the bar or a stutter, with `Ordered` |
| `NoGapShown` | `NothingUnsampledShown` | `PrimedInv` |
| `LossIsCollision` | `LostOnlyByCollision` | each action keeps `Informed(e)` or writes `upsigno` |

`OneLateWrite` is not inductive: nothing in it says that after a write with `done` set main
goes to the end without another pass. `LateInv` adds that after one late write `done` is set and
main is at one of the places `AfterWrite`, from which every way to another pass goes through
a test of `done`.
`NothingUnsampledShown` needs to know, inside the first pass, which entries are sampled by
now: `PrimedInv` says that those before `i` are, unless an overlong text cut the pass, and
that all are from the end of the first pass on. `Ordered` is needed for the refinement:
that a stored text is never newer than its source is what makes a write of `statuses` a
move forward for the viewer.

`NetDeviceProofs` proves, for any interfaces, access points, names, addresses and strengths, under
`NetConstants` alone (WiFi interfaces are interfaces, NULL is no access point or address, strengths are
percentages):

| theorem | property |
|---|---|
| `EntryIsView` | `ViewOfDevice` |
| `StrengthHasASource` | `StrengthExplained` |
| `NoAddressCarriedOver` | `AddressOfActivation` |
| `LineNeverDangles` | `LineSafe` |
| `ChangesAreAnnounced` | `ChangeAnnounced` |

The first three are parts of one inductive invariant, `Inv`: for every interface `Sound(i)`. None of
them is inductive alone. The view needs `Level`, which also speaks of entries that watch a dropped
object (they are inactive, and stay so because no handler reaches them). The strength needs that the access point in
use is in reach and has a handler (`e.handlers[e.ap] > 0`), or a change of its strength would pass unheard, and
that no handler is left on one out of reach. The
addresses need both the device's part (`DeviceOk`) and that an inactive entry has none.
`LineSafe` follows from `Level` at the moment of the lookup; `ChangeAnnounced` is kept by the steps
that raise the signal or touch no entry, and the one step that does neither, an activation
without an address, meets an entry without addresses by `AddressOk`.

`ClockProofs` proves, for any interval and any number of units in a second, under `ClockConstants`:

| theorem | states | argument |
|---|---|---|
| `SleepIsValid` | `ValidSleep` of `Clock` | `Inv` |
| `PassesOnTime` | `Punctual` of `Clock` | `Inv` |

The lemma `Difference` says that `difftimespec` of two proper times is one and has as many units as their
difference. `Inv` needs the conjunct about a main that is awake, `now + Units(wait) = Ends + aside`:
measuring establishes it, an interrupted sleep re-establishes it, and time that passes adds to both sides.
`Readers` has the two properties under the same names, for its instance of `Clock`.

`PulseAudioProofs` proves, for any sinks, aliases, table, indexes, changes at the server and bounds,
under `PulseConstants` (NULL is no sink, the first indexes are distinct):

| theorem | property | further assumption |
|---|---|---|
| `EntriesAllocated` | `TypeOK` | |
| `EntriesKeepTheirSinks` | `BoundToItsSink` | |
| `ShownTextsHold` | `ShownOrRaised` | |
| `FirstEntryKeepsUp` | `NeverBehind` | `Harmless`: no sink has the index 0, or no sink is named in the table |
| `DefaultIsShown` | `ShowsDefault` | `NoIndexZero` |

The further assumptions are where the code has its limits (section 4). The invariants build on each other:

- `CacheInv`: types; requests, messages and threads speak of allocated entries; an index is given to one
  sink and none is larger than `lastIndex`. A sink that is plugged in again could otherwise get an
  index that a stale reply carries.
- `LookupInv`: what a thread inserts is the entry for what it looks up.
- `BoundInv`: entries, replies and `index` requests carry only indexes held by the sinks of their entry.
  A `name` request for the default's entry names a sink that was the default.
- `ListInv`: an entry is linked before `tqh_last` moves to it, so a thread that loaded an entry finds the list
  not empty; and what main inserts has `raced`, or nobody else inserts meanwhile and the `tqh_last` that main
  loaded still holds.
- `WalkKept`, `LinkWalk` (lemmas): where a walk ends after an insertion, at the entry it ended at before, at the new one, or, for
  a list cut short, nowhere.
- `ShownInv`: a text was read from the entry at which its lookup ends now, or has been announced;
  a lookup that has begun withdraws the announcement only for what it is about to read. `Placed` says
  the entry lies before `tqh_last`, where no insertion reaches.
- `StartInv`: the answer about the server comes before any about a sink (`ServerFirst`), so the
  callback links the first entry before information for it can come.
- `FirstInv`: whatever is on its way to the first entry, and to one that may become first, is
  followed by something that covers it (`Follows`, for every message in flight); entries that `raced` are left
  out. `NeverBehind` alone is not
  inductive: a stale reply under way would undo a level that is right by accident.
- `FilledInv`: an unfilled default entry is awaited by a request that names no sink, which never fails
  since a default is always plugged in (`DefaultPresent`), or by a reply.

`BacklightProofs`, for any backlights, levels and names, under `BacklightConstants`:

| theorem | property | argument |
|---|---|---|
| `WalkMissesNone` | `WalkFindsLinked` | `QueueInv` |
| `MetStaysLevel` | `NeverBehindOnceMet` | `CatchUp` |
| `OutdatedIsAnnounced` | `ShownOrRaised` | `TextInv` |
| `QueueIsReady` | `QueueReady` | inductive with `Init` |

`QueueInv` says that the reachable fields make one list without a cycle, by a rank that counts them from
the head, and that the walk has not passed what it looks for. `CatchUp` adds to `NeverBehindOnceMet`
that the value the thread has read and not yet compared is still right, or that an event says otherwise.

`BusCacheProofs`, for any batteries, modems, profiles and values, under `BusConstants`:

| theorem | property | argument |
|---|---|---|
| `NoReadingLost` | `CacheFollows` | `CacheInv` |
| `ProfileNotLost` | `ProfileFollows` | with `CacheInv` |
| `ChangesRaise` | `ChangeAnnounced` | `ShownInv` |

`CacheFollows` needs that of the messages about a property the last one tells its value (`MessageOk`),
and that what the library keeps of a modem, from which a later query copies, is level too (`ObjectOk`);
the object holds what the daemon said, the entry what `mm_modem_callback` made of it.

`NetlinkProofs`, for any interfaces, networks, signals and stations, under `NetlinkConstants`:

| theorem | property | argument |
|---|---|---|
| `NoReplyLeft` | `NothingLeftOver` | `WaitInv`: while a dump goes on there is one datagram, without the end (`OneByOne`) |
| `OwnAnswer` | `AnswersAsked` | `NameInv`, `WaitInv`: the datagram and what is left of the dump still tell the first station's signal (`Tells`) |

Both speak of a socket that has had no error, as the properties do.

`ReadersProofs`, under `ReadersConstants`:

| theorem | property | argument |
|---|---|---|
| `NoByteLost` | `Conserved` | sums modulo `Wrap`, for counters of any width |
| `PercentIsOne` | `PercentInRange` | the kernel's counters do not go back, nor do samples |
| `VolumeIsRight` | `VolumeIsServers` | `MixerInv` |
| `ValuesFindControls` | `CrashOnlyByOthers` | `MixerInv` |
| `ReadersSleep`, `ReadersOnTime` | `ValidSleep`, `Punctual` | the theorems of `ClockProofs` for the instance |

`MixerInv` looks at the list together with the messages in front of it. `Told` is the type under which
an address is listed once the first n messages are handled, from the last description among them
or else from the list; `Valued` is the value once all are. `ListFollows` says that both are the server's,
`ValuesListed` that every value that waits finds its control listed by then, `SumInv` what the loop
over the list has computed so far. `Handles` is what one callback does to the list, proved once for
`Ondesc` and for `Onval`, with the cut in the middle of the list; `ToldTail` and `ValuedTail` carry the two
over a message that is taken in, `ToldAppend` and `ValuedAppend` over one that comes. That the sum of a list of
any length is right needs no induction over it, because the loop is in the model. `None` is no control
and there are finitely many addresses (`ReadersConstants`).

Only model-checked:

- the liveness properties `Terminates`, `SampledIsShown`, `PolledCatchesUp`, `WakeupRefreshesAll`,
  `InitReturns`, `DefaultFollowed`, `MetCatchesUp`, `CallsReturn`, `CatchesUp`: fairness and ENABLED are out of
  the prover's reach;
- `ShownStaysSafe` of `PulseAudio`, on the instance of pulse_named.

## 12. Not modelled

- `queue.h` (vendored) beyond the macros two threads use at once: `TAILQ_INIT`, `TAILQ_INSERT_TAIL` and
  `TAILQ_FOREACH` are in `Backlight` and `PulseAudio` store by store.
- The figures of `swap.c`, `ram.c` and `battery.c`: stateless sums. Their arithmetic is
  left to a later module (section 2): products of `int` and 1024, and the OpenBSD loop of `swap.c` (line 134), which adds the
  first device as often as there are devices.
- `fmt_human`, `pscanf`: conversions without state.
- The ioctl branches of `wifi.c`, the ALSA and OSS branches of `volume.c`: they keep nothing between calls.
- The readers of one file or system call, which are the "poll" feed of `Slstatus`; command line parsing,
  X11 calls, the build.
