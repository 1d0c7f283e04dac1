# A verification development for the AirU v2 firmware

The AirU is an ESP32 air-quality sensor. Its firmware (`src/main/`) is about a dozen
FreeRTOS tasks, callbacks and timers on two cores which share event groups, global structures,
flash and an SD card. This directory holds TLA+ modules translated from that code, the TLC
configurations that check them on small instances, and proofs checked by TLAPS.

## The system

| Component | State | Operations | Interacts with |
|---|---|---|---|
| Wi-Fi manager (`wifi_manager.c`) | `wifi_manager_event_group`, `*wifi_manager_config_sta`, reconnect timer, status json | the loop of `wifi_manager()` (disconnect, connect, scan, test), `wifi_manager_event_handler()`, `vTimerCallback()`, `pingResults()`, the `_async()` requests | station driver (calls, events), HTTP server and `data_task()` (bits), flash, LEDs |
| Stored settings (`wifi_manager.c`) | the `espwifimgr` namespace, `wifi_settings` | `wifi_manager_save_sta_config()`, `_save_reg_config()`, `_fetch_wifi_sta_config()` | the manager task, HTTP registration, restarts |
| Json buffers (`wifi_manager.c`, `http_server_if.c`) | three buffers, `wifi_manager_json_mutex` | lock, generate, clear, send, unlock | manager, ping thread, HTTP server |
| Access-point filter (`wifi_manager.c`) | the scan list | `wifi_manager_filter_unique()` | called by the scan branch |
| HTTP server (`http_server_if.c`) | the request being served | GET `ap.json`, `status.json`, `register.json`; POST `connect.json`, `register.json`; DELETE `connect.json` | everything above |
| Status LEDs (`led_if.c`) | `led_event_group`, two lamps | `LED_SetEventBit()`, `led_task()` | manager, event handler, ping thread, GPS |
| MQTT (`mqtt_if.c`) | `client`, `client_connected` | `mqtt_task()`, `MQTT_Connect()`, `mqtt_event_handler()`, publish | Wi-Fi bits, `data_task()`, update command |
| Firmware update (`ota_if.c`) | file name, trigger bit, partitions | `ota_set_filename()`, `ota_trigger()`, `ota_task()`, `_ota_commence()` | MQTT command, boot loader |
| SD card (`sd_if.c`) | shared `FILE` pointer and mutex, numbered log files, one data file for each date | `esp_sd_log_write()`, `periodic_timer_callback()`, `sd_write_data()` | every task that logs, `data_task()` |
| PM sensor (`pm_if.c`) | accumulator, timeout timer | UART task, `PMS_Poll()`, `vTimerCallback()` | `data_task()` |
| GPS (`gps_if.c`) | `esp_gps` | `uart_gps_event_mgr()` and `parse()`, `GPS_Poll()` | `data_task()` |
| SNTP (`time_if.c`) | the system clock | `SNTP_Initialize()`, `_sntp_obtain_time()` | `app_main()`, internet bit |
| Json escaping (`json.c`) | | `json_print_string()` | the generators of the json pages |
| gas and humidity drivers, set-up (`app_utils.c`), uploads and HTTP client (not called) | | | not modelled, see the end |
| `main.c` | | `app_main()`, `data_task()`, `panic_task()` | `app_main()` starts MQTT only after the wait for the clock; `panic_task()` aborts the firmware every hour, wherever the other tasks are |

What is hard here, and hard to test: the tasks exchange single bits that several of them set
and clear, one FreeRTOS call at a time; the manager blocks without a timeout in three places;
`uxBits` is a snapshot used many calls later; credentials live in one global structure which
the HTTP server overwrites in place; several structures (the PM accumulator, the update's file
name, the MQTT handle, the GPS fields) are shared without any lock; and a restart may fall between any two
writes to flash or to the card. `PROJECT.json` lists these as hazards, at their lines.

What makes each component correct:

* Wi-Fi: the connected bit tells the truth, each unbounded wait is answered, every request is
  served, the stored network is joined again without a user, a forgotten network stays forgotten
  once its erasure is saved.
* Settings: neither a restart nor an ignored write error between two writes makes flash that held
  valid settings lose them, or brings a network back that had been erased from it.
* Json buffers: no page is sent half rewritten, a page that is sent can be read back, nobody waits
  for ever.
* Filter: exactly the distinct named networks, in order, at their best signal.
* LEDs: a station that stays offline ends up showing it.
* Start-up and MQTT: every boot starts a client, a noticed loss leads to another one, and the device
  always gets back to a session with the broker.
* Update: there is always a complete image to boot, it was asked for, a trigger set during an update
  is served, and from outside the image changes in one step.
* SD card: archived logs stay in order and are not lost; a data file begins with its header, unless
  a restart fell just after its creation; a log call that begins while a data file is open does not
  meet a dangling pointer.
* GPS: no row is filed under a date that has not come.
* PM: after the sensor falls silent nothing is left in the accumulator.

## Modules

| Module | Models | Run by | Proved in |
|---|---|---|---|
| `WifiManager` | manager task, event handler, timer, ping thread, requests; station driver external | `wifi_safety`, `wifi_live`, `wifi_saved_unproven` | `WifiManagerProofs` |
| `StatusLed` | LED event group and `led_task()` | through `WifiLed` | `WifiManagerProofs` |
| `WifiLed` | `WifiManager` composed with `StatusLed` | `wifi_led` | `WifiManagerProofs` |
| `NvsConfig` | every flash write of a save, and the fetch | `nvs_crash` | `NvsConfigProofs` |
| `JsonBuffer` | the mutex and its users | through `JsonPages` | `JsonPagesProofs` |
| `JsonPages` | `json_print_string()` and the text of the pages, composed with `JsonBuffer` | `json_pages` (constants in `MCJsonPages`) | `JsonPagesProofs` |
| `FilterUnique` | the in-place filter and its reference definition | `filter_scan` | `FilterUniqueProofs` |
| `Mqtt` | `mqtt_task()`, the clients' events, the publish path | through `StartUp` | `TaskProofs` |
| `StartUp` | the end of `app_main()`, SNTP and `panic_task()`, composed with `Mqtt` | `mqtt_loss` | `TaskProofs` |
| `Ota` | the command, download, verification, partition switch | `ota_update` | `OtaProofs` |
| `Firmware` | abstract: what an update promises | implemented by `Ota` | `OtaProofs` |
| `SdLog` | the shared log file and its rotation | `sd_lost`, and through `DataTask` | `DataTaskProofs` |
| `GpsReceiver` | the date, from `parse()` to `GPS_Poll()` | through `DataTask` | `DataTaskProofs` |
| `DataTask` | `data_task()` and `sd_write_data()`, composing `GpsReceiver` and `SdLog` | `data_task` (constants in `MCDataTask`) | `DataTaskProofs` |
| `PmSensor` | the accumulator and its three writers | `pm_silence` | `TaskProofs` |
| `Counting` | lemmas about natural numbers, finite sets and counting | | itself, for `FilterUniqueProofs` and `JsonPagesProofs` |

### How state and actions correspond to the code

**WifiManager.** `bits` is the event group, `pc` the statement of `wifi_manager()` that comes
next, `ux` its `uxBits`. *Each call on the event group is one step*, because it is atomic in
FreeRTOS and the tasks run on two cores; code between two calls that touches nothing shared is
part of one of them. A task blocked in `xEventGroupWaitBits()` is released by the call that sets
an awaited bit and receives the bits of that moment (`SetBits`, `Snapshot`): another task may
clear them before the released one runs. The event handler is four steps in the order of the
code (request, `STA_DISCONNECT`, `WIFI_CONNECTED`, `HAVE_INTERNET`). The comparison
`wifi_manager_check_connection() == 1` never holds, as the function returns a mask, and so
`ConnectTimer` is the only continuation. The branches of one pass follow the chain of the code: a disconnect
request is served first, and then *in the same pass*, of the same snapshot, a connect request, or
else a scan, or else a test (`ConnectScanOrTest`). `FetchStored` has two outcomes when flash holds no
credentials: `wifi_manager_fetch_wifi_sta_config()` leaves memory alone when the namespace does
not exist and zeroes it when it does. `Init` is the state after the set-up part of the task.
`POST /connect.json` is five steps: the `memset()` and the two `memcpy()` on the shared structure,
the flush of the status json, and the request. Between them the manager may join with, save,
erase or replace what is there; `Torn` is an ssid whose password is not its own, and `GoodConf` says
whether an access point takes it. Of the status json only whether it is cleared is kept (`urc`).
Left to other modules are the writes of one save (one step here, several in `NvsConfig`), the json
mutex (`JsonBuffer`; the scan branch, whose bounded lock may time out, clears its request either
way), the filter (`FilterUnique`) and the LED calls (`WifiLed`). Left out is the `esp_wifi_deinit()`
at the end of the filter, taken to be refused on a driver that is running.

The driver is external: it accepts `esp_wifi_connect()` only when the station is down and the
ssid is not empty (the manager logs a refusal and goes on to wait, which `link.refused` records);
it answers a join with `GOT_IP` or a disconnection event, and reports every
`esp_wifi_disconnect()`. `IdleLeave` says whether it also reports one on a station that is
already down; with `FALSE`, `LeaveAnswered` says nothing and `wifi_live` fails, as the manager
waits for ever after a stale `WIFI_CONNECTED` in its snapshot: the code depends on it. `JoinRefused`
is the other wait that nothing ends; the liveness properties except the states in that wait, and
only those. `proven`, `kept` and `stimuli` are history variables. `kept` holds the credentials that
were stored at the start or submitted since, and is emptied when a disconnect request erases
memory; a restart between that erasure and its save puts the stored ones back, as it does in the
device. So "forgotten" begins with the save and not with the DELETE: an abort in between undoes the
request, and two DELETEs around a POST may be served as one, after the POST.

**WifiLed.** Each `LED_SetEventBit()` rides with the event-group call next to it; all other
steps leave the LEDs alone. `led_task()` receives and clears all its bits in one call and then
lets `WIFI_CONNECTED` win over `WIFI_DISCONNECTED`, whichever was set first.

**NvsConfig.** `flash` has one field for each blob that is written on its own. `Restart` keeps
flash only. `Join`, `SaveJoined` and `SaveErased` lead to a save, which opens the namespace, writes
three blobs and may be cut short at each of the four by `Crash` or by `WriteError`, which returns to
a caller that ignores it. The HTTP server registers a device, or replaces the credentials in three
steps, at any time once the access point is up: no firmware code keeps it from doing so before the first
save or during one. `wanted` holds the ssids submitted since the last erasure in memory, `stale` the
ssid that this erasure found in flash, until an empty one is written over it.

**JsonBuffer.** A task takes the mutex, uses one of three buffers and gives the mutex back.
Locks of 10 or 20 ticks may time out, the others may not. `GET /register.json` unlocks twice, or
after a lock that timed out: giving a free mutex does nothing, giving somebody else's fails an
assertion of FreeRTOS, which this configuration turns into an abort.

**JsonPages.** It gives what a task does between lock and unlock, as steps: the flush, the status
page with the two passes of `json_print_string()` over the ssid, the list of networks. A page is
the sequence of names printed in it and how it ends; everything else in it is fixed text or a
number. Characters are one of each kind (plain, the escapes of two characters, a control
character). `Pointer` is where the loop of the second pass has `output_pointer` when it comes to a
character and `Copied` what the loop leaves behind; `SecondPass` puts the closing quote where
`FirstPass` computed, and a copy that falls short leaves a NUL that ends the text. `PostConfig` replaces the ssid in two steps *without the
mutex*, as the code does, so the passes may see two names; each pass itself is one step. The sizes of
the buffers (`wifi_manager.h:123-138`) are not modelled: every text is taken to fit. The
pages escape names from copies (`ap = accessp_records[i]`) or from the shared structure, as in
the code. The reference reader is used only by the property and shares nothing with the printer:
`Piece` is the grammar of a json string, and `ReadAs(s, name)` says that `s` can be cut into pieces
that stand for the characters of `name`, between two quotes.

**Mqtt.** The Wi-Fi side is reduced to the order in which `WifiManager` moves the two bits that
`mqtt_task()` waits for, in lost links and failed joins. Several clients may be alive, because `MQTT_Connect()` overwrites the
global handle and a client's disconnect event destroys whichever client the handle then names.

**StartUp.** `app_main()` waits for the internet bit, then looks at the clock at most
`retry_count - 1` times, and then calls `MQTT_Initialize()` whether or not the clock is set.
`Meanwhile` says that the same call that sets the bit releases `app_main()`. `HourlyAbort` comes
when nothing is going on (`Quiet`: an hour is longer than any join, connection attempt or
download) and may also come, as a crash, at any other moment (`EarlyAbort`). It resets every
variable in RAM; the clock of the chip survives.

**Ota.** A name is copied into the shared buffer while `ota_task()` may read it (`Torn` is a
mixture). `esp_ota_end()` and the boot loader are external: a complete image verifies, anything
else does not. A mixture that happens to name another image on the server is assumed away
(`Torn \notin File`). Every call that can fail has an action for the failure. The trigger is one
bit and the name one buffer: two commands during one update are served as one, with the later name.
`Abstract == INSTANCE Firmware WITH current <- slot[running].image, next <- slot[boot].image` is
the refinement mapping; the pieces, handles and commands are hidden by it.

**SdLog.** A *generation* is what was logged between two rotations. `stat()` on a file that does
not exist leaves the size undefined, which `LooksFull` models as either outcome. When the mutex is
not to be had, or `fopen()` fails, a log call writes nothing and the rotation goes on without both;
it closes the file, forgets the pointer and moves the file in three steps, between which the other
tasks log. The pointer restored on the last line is dangling (`fp = "closed"`), as is one whose file was
moved away; what is written through it is lost. The mutex is taken to exist: two tasks that log for
the first time at once would each create one.

**GpsReceiver and DataTask.** `parse()` stores day, month and year, in that order, and
`GPS_Poll()` copies year, month and day, each of the six being a step (the stores and loads are
taken to happen in the order of the source). The receiver is external: it has a battery, as the
comment on `sd_write_data()` says, so its dates do not decrease and survive a restart; it may
send an empty date, and the date 6 January 1980 until its clock is set. `data_task()` then logs,
asks `stat()`, opens the file of that date, writes it and rotates the log. Of the data files one
is followed, `watched`, which may be any. A restart between `fopen()` and `fclose()` leaves the
new file absent or empty. The log calls of `data_task()` before the file is opened stand as one,
which may get no log file and then changes nothing.

**PmSensor.** `+=` is a load and a store. A sum is the set of samples in it. `xTimerReset()` and
`xTimerStop()` queue commands which the timer task carries out between two callbacks (`TimerServes`),
so that a stop may follow, and undo, a start that was queued while the timer expired. The queue is
taken to have room: a reset that found it full would be lost, and with it the timeout.

**FilterUnique.** One step is one iteration of an outer loop. The reference definition is written
without reference to the algorithm: the first record of each named network (`IsFirst`) has to end at
`Place`, the number of such records up to it, as `Strongest`, with the best signal of its network,
and there are as many networks in the end as there are such records.

## Runs

| Run | Properties | Bounds, and why they are enough |
|---|---|---|
| `wifi_safety` | `TypeOK`, `ConnectedBitTruthful`, `LeaveAnswered`, `JoinAnswered`, `ForgottenStaysForgotten` | all clients, both failure reasons, aborts; one network, with its credentials whole or torn; two stimuli (POST, DELETE, scan, failed join, lost link, abort) are enough for any two of them to overlap at any step, while tests, pings and timer expiries are unlimited; two queued events are enough for a stale one to precede a fresh one. The waits are answered provided the driver reports every leave (`IdleLeave`) and accepted the connect. The theorems lift all the bounds |
| `wifi_live` | `RequestsServed`, `StoredNetworkRejoined` | two disturbances of any kind (lost link, failed join, DELETE) at any steps, with unlimited tests and ping results; one queued event, so that the driver's next one waits for the handler. What more than two disturbances do is not covered, nor POSTs and aborts; a manager in the wait of a refused connect is excepted |
| `wifi_led` | `OfflineLampLit` | a DELETE, or a failed join, at any step of a connected or connecting station; one queued event. The wait of a refused connect is excepted |
| `nvs_crash` | `TypeOK`, `ForgottenNotFetched`, `SettingsSurvive` | three credentials; unlimited joins, saves, erasures, POSTs, registrations, crashes and write errors |
| `json_pages` | `NobodySeesPartial`, `PageReadable`, `MutexObtained` | every route; four names of one or two characters, with every kind of character and several escaped lengths; lists of at most one network (its printing does not depend on the others). Requests, joins and aborts are unlimited |
| `mqtt_loss` | `StartTypeOK`, `LossReconnects`, `FirstClientStarts`, `SessionResumes` | three clients in each boot, so that one may be destroyed by an older one's handler; three losses, failed joins or crashes; `RetryCount = 3`, two looks at the clock, enough for it to be set before, between and after; hourly aborts are unlimited |
| `ota_update` | `TypeOK`, `AlwaysBootable`, `BootsAskedImage`, `TriggerServed`, `UpdateIsAtomic` | two files, two pieces each, five commands or restarts, so that both OTA partitions are rewritten |
| `data_task` | `DataTypeOK`, `ArchivesInOrder`, `NoFutureDate`, `RowsUnderHeader`, `DanglingNotReused` | two log numbers instead of 15 and three generations, so that the numbering runs past its end; three dates that change day, month and year, so that every field of a mixture may differ. The theorems lift all the bounds |
| `pm_silence` | `PmTypeOK`, `SilenceClears` | three packets |
| `filter_scan` | `TypeOK`, `FilterCorrect`, `FreePlaceIsFirst` | every list of up to four records, two names and hidden networks, two authentication modes, two strengths |
| `wifi_saved_unproven` | `SavedProven` (violated) | one POST during a join that succeeds |
| `sd_lost` | `RotatedLogKept` (violated) | three log numbers, five generations |

Deadlock checking is off where a bound on the world's stimuli lets the model stop.

The two violated runs are findings:

* `wifi_saved_unproven`: line 928 says "only save the config if the connection was successful!",
  and `wifi_manager_save_sta_config()` saves what the structure holds at that moment, which a
  POST may have replaced since the join began. Credentials that were never tried are then in
  flash, and a restart starts with them.
* `sd_lost`: `sd_if.c:270` says that `LOGGING-15.log` may be removed "since its content is copied
  into LOGGING-14.log previously"; the loop that copies has the condition `i > 14` and never runs.

### Other claims of comments that the code does not meet

These are stated in the modules and violated by them, with the constants given; they have no run
of their own.

| Property | Constants | What happens |
|---|---|---|
| `NoInternetWhenDisconnected` (`wifi_manager.c:861`) | `Clients = {"delete"}`, one stimulus | a ping result sets `HAVE_INTERNET` after the disconnection cleared it |
| `TimerOnlyWithoutInternet` (`:947`) | no clients, no stimuli | the mask is compared with 1, and the timer is started with internet too |
| `PostedConfTried` (`wifi_manager.h:235`, under `FairSpec`) | `Clients = {"post"}`, `GoodConf` with `Torn`, no failures, one stimulus | the end of a join clears the request of a POST that came during it (a failed one erases its credentials too) |
| `ConnectAccepted` (`:917`) | `Clients = {"delete"}`, or none and a failure; one stimulus | the driver refuses to join with the credentials that a DELETE or a failed join has just erased, or that the `memset()` of a POST has; no event follows, and the manager waits until the hourly abort |
| `RemnantFlushed` (`:601`) | `Clients = {"post"}`, one stimulus | the end of an earlier join fills in the status between the flush and the request |
| `SoftApSettingsValid` (`wifi_manager.h:88`) | those of `nvs_crash` | a registration, or a torn first save, creates the namespace without settings; the next start uses zeroed ones and aborts |
| `ForgetsForGood` (`:858`) | those of `nvs_crash` | a crash or a write error before the first write of an erasure leaves the network in flash; a later start or test reads it back |
| `OwnMutexGiven` (`wifi_manager.h:253`) | `Route = {"register.json"}` | `GET /register.json` gives a mutex that the manager holds |
| `ReconnectAwaited` (`mqtt_if.c:204`, under `StartSpec`) | two clients, one loss | `STA_DISCONNECT` is set before `HAVE_INTERNET` is cleared, and `mqtt_task()` goes on at once |
| `HandlesFreed` (`ota_if.c:92`) | one request | a failed read or write returns without `esp_ota_end()` |
| `NoStagnantData` (`pm_if.c:47`) | two packets | a sum loaded before the timer clears it is stored afterwards |

Two more are plain from the text. `time_if.c:47` says "Try 10 times to get the current time";
`retry_count` is 25 and the loop looks 24 times. And the page of an empty scan is `[`: line 514
closes the list after its last element, so a list without elements stays open (`ListPrint`;
`PageReadable` leaves that page out).

## Fairness

Weak fairness of each task, handler and callback: FreeRTOS schedules a task that can run, all of
them block most of the time, and there is no busy loop of higher priority. In `WifiManager` also
of the driver's answer to a join, of the reconnect timer, and of `data_task()`'s connection
tests, which it asks for whenever a publish fails; there and in `WifiLed` less is enough: the manager
runs, tests are asked for, and of the other tasks and the driver *some* that can go on does
(`TasksAndDriver`). In `Ota`, HTTP and flash calls return, in success or failure. `JsonBuffer` has *strong* fairness of `Lock`: `http_server()` sleeps ten
ticks after every request while holding nothing, so the mutex is free again and again for a
waiting task; `JsonPages` keeps that and adds that a POST goes on. `StartUp` assumes that Wi-Fi
comes back after a loss, which is `StoredNetworkRejoined`, that a client's task gets an answer
from the broker or an error, and that `panic_task()`, whose abort has no condition, runs; it
assumes *nothing* of time servers. `SessionResumes` needs that abort: after the broker has closed
a session `mqtt_task()` waits for a loss of Wi-Fi that need not come. `LossReconnects` does not
use it (`loss = "forgotten"` would refute it). Elsewhere nothing is assumed of users, of access points that drop the link, of the
sensor, or of `panic_task()`.

## Proofs

| Theorem | Statement | Argument |
|---|---|---|
| `TypeCorrect` | `Spec => []TypeOK` (WifiManager) | actor by actor; `TypeOK` is inductive and the basis of the next three |
| `ConnectedBitIsTruthful` | `[]ConnectedBitTruthful` | the property speaks only of moments when the handler is quiet, so it is not inductive. `LatestNewsTruthful` is: the last queued event, or else the event being dispatched, or else the bit, says whether the link is up. Appending to and taking from the queue are handled by `LastOfAppend` and `LastOfTail` |
| `LeaveIsAnswered` | `[]LeaveAnswered` | inductive over `TypeOK`: the manager enters the wait only by calling `esp_wifi_disconnect()`, whose event stays queued, or is being dispatched, or has set the bit, and only the manager clears the bit |
| `JoinIsAnswered` | `[]JoinAnswered` | strengthened to `JoinWillBeAnswered`, which includes the step between `esp_wifi_connect()` and the wait, where the answer may already be in the bits |
| `ForgottenIsForgotten` | `[]ForgottenStaysForgotten` | inductive as it stands, because it speaks of memory *and* flash: flash is written only from memory, memory only from flash, a POST (which extends `kept`) or zeros; between the erasure and its save flash alone may hold what is forgotten, and only a restart can fetch it there (`SetBitsNotSaving`: nobody else moves the manager out of that step) |
| `LedsDoNotDisturb` | `ComposedSpec => Spec` (WifiLed) | step by step: a step of a task with its LED call is that task's step, `led_task()` is a stutter. With it the theorems above hold for the composition |
| `LedEventsAreTaken` | `[]LedEventsReceived` | inductive as it stands: `led_task()` does not wait while its group holds a bit |
| `NvsTypeCorrect` | `[]TypeOK` (NvsConfig) | inductive; a fetch is typed whatever the blobs hold (`FetchTyped`) |
| `ForgottenIsNotFetched` | `[]ForgottenNotFetched` | the property speaks of memory; `FlashForgets` adds that the ssid in flash, too, was submitted since the last erasure or is the one that erasure found there |
| `CompleteFlashStaysBootable` | `Spec => SettingsSurvive` | `SettingsSafe`: over flash from which the device can start the settings in use are valid, and the settings are the last blob to appear, so that nothing but their own write can complete flash. No hypotheses on when a registration or a write error comes |
| `BuffersAreExclusive` | `[]NobodySeesPartial` (JsonBuffer) | `UserHolds`: whoever uses a buffer holds the mutex; the surplus `Give` of another task does not take it away |
| `MutexNotOrphaned` | `[]MutexInUse` (JsonBuffer) | the converse: whoever holds the mutex is in the middle of a job, on every path through timeouts and second unlocks. It is the safety half of `MutexObtained` |
| `PagesImplementBuffer`, `PagesAreExclusive` | `PagesSpec => Spec`, `PagesSpec => []NobodySeesPartial` | generation and POST leave the state of `JsonBuffer` alone, the other steps are its steps |
| `ReaderIsDeterministic` | a string that `ReadAs` relates to two names relates to one | no piece begins another, so two readings agree up to every place; `PageReadable` is therefore not satisfied by an ambiguous print |
| `PagesAreReadable` | `PagesSpec => []PageReadable` | for the text: `Pointer` increases by the length of each escape (`PointerFacts`), so that `Copied` holds each escape at its place (`CopiedAt`) and a name printed with its own count is read back (`PrintedIsRead`). For the steps: `PagesInv`, in which a page may be unreadable only while the manager is between the two halves of it or a POST that may have torn it has still to clear it, and neither lets the HTTP server send it |
| `FilterTypeCorrect`, `FreePlaceIsAlwaysFirst`, `FilterIsCorrect` | `[]TypeOK`, `[]FreePlaceIsFirst`, `[]FilterCorrect` (FilterUnique) | `IInv`. In the first loop each place holds what merging the records before it makes of it (`MergeInv`, `Merged`). In the second (`Packed`, `Unpacked`) the networks found so far stand in a row, free places follow up to the record being looked at, the rest is as the first loop left it, and `total_unique` and `first_free` follow from how many were found |
| `PmTypeCorrect` | `[]PmTypeOK` (PmSensor) | `Lag`: the count is behind the packets received while one is being added, and so is the count loaded before a reset that its store undoes |
| `StartTypeCorrect` | `StartSpec => []StartTypeOK` | `RetryLeft`: while `app_main()` waits for the clock a retry is left |
| `SessionIsKept` | `StartSpec => [](WaitersWoken /\ LossKept /\ HandleLatest)` | over the types: the call that sets a bit moves on whoever waits for it; a noticed loss keeps `mqtt_task()` between the wait and `MQTT_Connect()`, so that an abort in a quiet moment cannot drop it; clients are created in order and nobody else moves the handle. The liveness of `mqtt_loss` rests on these |
| `UpdateIsCrashSafe` | `[]AlwaysBootable` (Ota) | the partition being written is never the running one, and it becomes the boot partition only after `Verified`, immediately before the restart |
| `OtaTypeCorrect` | `[]TypeOK` (Ota) | names, counters and control separately |
| `BootsWhatWasAsked` | `[]BootsAskedImage` | `ImagesAsked`: names come from commands, images from names, and a mixture of names never passes `Verified` |
| `UpdateImplementsFirmware` | `Spec => UpdateIsAtomic` | the initial states map to `FirmwareInit`; under the invariants above every step is a stutter of `Firmware` except the command (`Ask`), `SetBoot` (`Commit`) and the restarts (`RestartDevice`) |
| `LogArchivesOrdered` | `DataSpec => []ArchivesInOrder` | not inductive: `ArchivesOld` adds that what is archived is older than the current log and that the numbers not used since the restart hold nothing logged since |
| `DatesNotInFuture` | `[]NoFutureDate` | `Mixtures`: at every point of `GPS_Poll()` the fields copied so far, with the others as they are now, make a date that is not late. It holds because the two sides go through the fields in opposite orders; `DayMixed` and `MonthMixed` are the arithmetic of it |
| `HeaderBeforeRows` | `[]RowsUnderHeader` | `FileInv`: what `stat()` said is still true when the row is written |
| `PointerReset` | `[]DanglingNotReused` | `PointerInv`: who holds the mutex, and that `data_task()`'s own log call has reset the pointer unless another task is writing through it |
| `DataTypeCorrect` | `[]DataTypeOK` | from the invariants of log, date and file; the cap on the numbering is part of it |

They hold for every set of credentials, names, files, routes and dates, every choice of clients and
failure reasons, lists of every length, and every bound. They rest on the named assumptions of the
modules (which TLC evaluates in the runs) and nothing else. Every invariant of a passing run is
stated by one of them.

**Induction over lists.** The induction principles of the library take the property to be proved as
an operator, which the installed provers cannot instantiate. `Counting` proves one that takes a
*set* instead: from the well-foundedness of `<` on the natural numbers, a set that contains 0 and
with each number its successor contains every natural number (`SetInduction`); it also
gives least and greatest elements, that `Max` of a finite set is its greatest element, and how
`Count(S, n)`, the number of elements of `S` up to `n`, grows with `n`. For this the models write
what is counted or copied as a cardinality or a function of the place (`Place`, `Extra`, `Pointer`,
`Copied`) and not by recursion.

**Only model-checked**: liveness, which the prover does not handle: `RequestsServed`,
`StoredNetworkRejoined`, `OfflineLampLit`, `MutexObtained`, `LossReconnects`, `FirstClientStarts`,
`SessionResumes`, `TriggerServed`, `SilenceClears`.

## Faulty variants

Each property of a passing run has an operator marked "Faulty variant" that changes one
definition the way a plausible slip in that code would (a dropped guard, a swapped order, a
missing reset), and TLC finds the property violated with it. `PROJECT.json` pairs them.

## Not modelled

* GPS position and time of day, which are stored and copied like the date and of which nothing is
  claimed; UART errors, which drop sentences; corrupted sentences (the checksum test at
  `gps_if.c:177` looks for the `*` one character too late, so they are parsed like any other).
* The registration request to the server, static pages and header parsing of the HTTP server.
* Gas and humidity drivers, `app_utils.c`: straight-line register access and set-up.
* `http_file_upload.c`, `http_client_if.c`, `time_gmtime()`, `wifi_manager_destroy()`,
  `wifi_manager_save_wifi_settings()`: no code calls them.
* The web page (`code.js`): its requests are the inputs of the routes.
* What a destroyed MQTT handle, a dangling `FILE` pointer, an ssid that fills its field or a
  division by zero does, and when the network stack is done with a page sent with
  `NETCONN_NOCOPY`: undefined, or decided by libraries that are not in this repository.

## Plan

The models cover the parts of the firmware that share state, and the invariants of the runs are
proved. What remains:

1. The safety that the other liveness properties rest on, as `SessionIsKept` and `MutexNotOrphaned`
   do for theirs: for `TriggerServed` that a trigger bit is never cleared without the download
   it asks for, for `RequestsServed` that a request bit is cleared only by the branch that serves it.
2. An abstract connection service that `WifiManager` implements, which states what the other tasks
   may rely on when the two bits move.
