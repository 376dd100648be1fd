# Launa: TLA+ models and proofs

Launa is an ESP32 controller for a Balboa hot tub: it registers as a client on the spa's
RS-485 bus, forwards commands from MQTT to the spa and publishes the spa's state. A server
collects the state of many devices. This directory models the parts of it that keep state and
meet time, loss, concurrency or power failure, checks the models with TLC and proves the most
important facts with TLAPS.

## 1. Inventory

| Part | State | Operations | Interacts with | Hard behaviour |
| --- | --- | --- | --- | --- |
| `launa-core` `SpaApp` | registration, client id, command queue, tracker, timers, last status, stale flag, time stamps | `process_frame`, `on_mqtt_command`, `start_pump_timer`, `force_publish`, `tick` | returns `AppAction`s to the firmware's main loop | frames in any order, timeouts, session loss, retries, queue limits |
| `launa-protocol` registration | handshake state | `process`, `reset` | called by `SpaApp` | two devices on one bus, legacy assignments, lost answers |
| `launa-core` command tracker | pending commands | `track`, `verify`, `clear` | called by `SpaApp` | retry of what was already done, limit of entries |
| `launa-core` timers | six pump timers, hold timer | `start`, `cancel`, `tick` | called by `SpaApp` | a timer that fires while its toggle is cancelled |
| firmware tasks (`app/src/main.rs`, `mqtt_task.rs`) | bounded channels, flags, MQTT session | UART task, main loop, MQTT task | channels, atomics, watchdog | dropped messages, stale flags, cancelled futures |
| byte streams (`frame.rs`, `packet.rs`, `mqtt_client.rs`, `http.rs`) | decoder and receive buffers | feed, extract, acknowledge | the tasks above | pieces of any size, lost and changed bytes, broken connections |
| MQTT vocabulary (`launa-mqtt`) | none | parse a command, write a state, discovery | Home Assistant, the server | both sides of a conversion have to agree |
| configuration, crash record, boot (`config.rs`, `crypto.rs`, `serial_config.rs`, `crash_info.rs`, `main`) | keys in flash, crash flag | load, save, record, tell | `xtask` on the host, WiFi, broker | power loss between two writes, blocked boot |
| OTA (`launa-esp-ota`, `app/src/ota.rs`) | otadata slots, partitions, write buffer | begin, write, finalize, mark valid, roll back | boot loader | power loss between two flash writes |
| `xtask ota-flash`, `config-flash`, `provision` | phase, attempts | trigger, wait, verify | MQTT, HTTP, serial line | retries of commands that are only slow |
| server (`launa-server`) | device table, rings, notified set | ingest, notify, query, execute | MQTT, web, Google, webhook | offline and back online during an awaited send; full rings |
| spa simulator (`launa-sim`) | assigned channel, queue, physics | frame generation, handling of client frames | tests | error injection |
| web UI, bench tools | none, or presentation only | – | MQTT, HTTP | – |

What makes each part correct:

- **SpaApp and its helpers**: nothing of a session outlives it; a handshake ends; silence is
  noticed; the tracker waits for each change once and gives up; the queue
  loses nothing but what is sent, cancelled by the same toggle or dropped with the session.
- **MQTT task**: the broker ends up with the present state although channels overflow, publishes
  fail silently and connections break; a served device is not announced offline; the task
  serves again after every fault.
- **OTA**: a valid otadata entry stands for its partition; an update is one switch for the boot
  loader at every flash operation; one fault never costs both entries; the device comes back.
- **Server**: clocks, statuses and histories stay consistent across messages, shutdowns and
  crashes; an outage is reported once, and reported in the end; what Google and the page are
  told follows the reports, and what Google asks for reaches the item it is about.
- **Bus**: the spa and the device agree on the channel; a toggle given once moves a pump once;
  the session comes back after every fault.
- **Streams**: what a receiver hands on was sent, in that order, once; it gets back in step; its
  buffers stay bounded.
- **Vocabulary and payloads**: what the owner sees is the state of the spa; what the owner may
  ask for is accepted, and sent as it was meant.
- **Configuration and boot**: a confirmed configuration is the one the device runs with; no cut
  loses a key; a crash is not told twice; the device gets to its main loop.

`PROJECT.json` lists every component and, under `hazards`, what in this code is hard to test,
each at its line with the properties that cover it.

## 2. Modules

| Module | Models | Uses |
| --- | --- | --- |
| `Protocol` | frames, commands and statuses; `RegistrationMessage::parse`, `dispatch_frame` | |
| `Registration` | `RegistrationStateMachine` | `Protocol` |
| `CommandTracker` | `CommandTracker::track`, `verify` | `Protocol` |
| `Timers` | `PumpTimerManager`, `HoldModeTimer` | `Protocol` |
| `SpaApp` | `SpaApp`: the state machine that composes the three | the four above |
| `MCSpaApp` | frames and commands of the runs, bound on the queue | `SpaApp` |
| `OtaData` | the two otadata entries, `set_boot_partition`, `mark_valid`, the boot loader's choice | |
| `OtaBoot` | `EspOtaFlash`, `perform_ota_update`, `handle_ota_request`, power loss, boot | `OtaData` |
| `OtaFlash` | `xtask ota-flash`, its server and the broker, composed with the device | `OtaBoot` |
| `MqttTask` | `mqtt_task`, `MqttClient`, reconnecting, the main loop's channels, the broker | |
| `Server` | bridge, `MemoryStore` and its file, `Notifier`, `set_notifications` | |
| `Temperature` | `Temperature` and its conversions | |
| `SpaState` | the simulator's `SpaState`, what a command does to it, `simulate_physics` | `Protocol`, `Temperature` |
| `SpaSim` | `SpaSim`: registration, grants, commands, error injection | `SpaState` |
| `SpaBus`, `MCSpaBus` | spa, wire, `uart_task`, UART channels and main loop around `SpaApp` | `SpaApp`, `SpaSim` |
| `Payloads` | status and answer payloads, encoded by the simulator and decoded by the device | `SpaState` |
| `Vocabulary` | `parse_command`, the state document, `status_changed`, the discovery | `Payloads` |
| `SpaPanel`, `MCSpaPanel` | the spa as its owner sees it through Home Assistant | `Vocabulary` |
| `Home`, `MCHome` | the server's rings, the web page and Google Home, down to the device | `Vocabulary` |
| `FrameCodec` | `FrameEncoder`, `FrameDecoder` | |
| `PacketCodec` | `try_extract_packet`, the packets and `MqttClient`'s reading of them | |
| `OtaWriter` | the HTTP header, `EspOtaFlash::write` and `finalize` | |
| `Diagnostics` | the log ring, sniff captures and their decoding on the host | `FrameCodec` |
| `InOrder` | abstract: a receiver delivers items that were sent, in order, once | |
| `Streams`, `MCStreams` | the receivers on their lines; a refinement of `InOrder` | the four above, `InOrder` |
| `Crypto` | the encryption of stored passwords | |
| `AppConfig` | keys in flash, load and save, the serial protocol, `launa.toml` | `Crypto` |
| `Boot`, `MCBoot` | `main` from power-up, panics, `config-flash`, `provision` | `AppConfig` |
| `*Proofs` | the theorems about the module they are named after; `OtaProofs` about `OtaBoot` and `OtaFlash`; `SpaBusProofs` about `SpaApp` and `SpaBus` | |

How state and actions correspond to the code:

- **SpaApp.** One action per public method: `ProcessRegistration`, `ProcessStatus`,
  `ProcessReady`, `ProcessAssignment` and `IgnoreFrame` are the branches of `process_frame`;
  `OnMqttCommand`, `StartPumpTimer`, `ForcePublish` and `Tick` are the methods of those names.
  `out` holds the `AppAction`s the last call returned. A time stamp is an age: `None`, or the
  time since it was taken, counted up to the longest threshold it is compared with; `Advance`
  is the passing of time. A frame is a record of address, sub-type, channel and hash. A status
  is the states of the items and the set temperature. Diagnostic counters, fault texts and
  time stamps that are never read are left out.
- **OtaBoot.** `pc` is where the firmware is; `todo` the otadata sector operations (an erase
  has sequence 0) that `set_boot_partition` or `mark_valid` has still to do, one `FlashStep`
  each, so that `PowerLoss` and `FlashError` come between any two. A partition holds a complete
  image or `NoImage`. The boot loader is external and modelled from ESP-IDF's rule: the valid
  entry with the highest number, and the next bootable partition if that image is incomplete.
  Sequence numbers are natural numbers; 2^32 updates are out of reach of a device.
- **MqttTask.** One action per `await` of `mqtt_task`; `pc` names the await. `sock`, `session`,
  `subs`, `inbox`, `avail` (the retained availability) and `seen` (the state last published)
  are the connection and the broker. A write error of a publish is only logged by the code, so
  a publish on a broken connection changes nothing. Diagnostics, alerts, sniffed frames and
  logs have channels of their own and are left out.
- **Server.** The store is behind one lock: every access is one step. `check` is split at its
  awaits into `CheckBegins`, `SendOfflineAlert`, `OfflineAlertsDone`, `SendBackOnline` and
  `CheckEnds`. `told` is what the readers of the webhook heard last. `alerted` is a history
  variable: whether this process has read or reported the present outage. The save, an atomic
  rename, and the exit that follows are one step.
- **OtaFlash.** A step of `OtaBoot` together with what the host sees of it: `sent` is
  `OtaProgress.bytes_sent` (nothing, something, everything) and `notices` the publications
  on their way. A command takes any time and is lost while the device is away or `mqtt_task`
  idles. In the phase `off` updates come from elsewhere, which is `OtaBoot` as it stands.
- **SpaBus.** The executor is cooperative: `MainTakesFrame`, `MainDrainsFrame`, `MainDrained`,
  `MainTakesCommand`, `MainTimer` and `MainTick` are the stretches of the main loop between two
  awaits, `UartReads`, `UartSends` and `UartTransmits` those of `uart_task`. `Second` is one
  tick of the simulator, `Inject` one of its fault injections. A second starts when the device
  has dealt with the one before (`DeviceIsIdle`), an assumption about speed.
- **SpaPanel.** `Tick` is one second of the spa with the status it sends; the pipe stands for
  the queue and the bus, which `SpaBus` models. Temperatures are integers in thousandths.
  Water too cold or too hot for the byte of the status (outside `Tellable`) is reported as unknown,
  as `to_wire` refuses it.
- **Home.** Reads of the store change nothing, so the answers are operators over the state.
- **Streams.** One behaviour is about one receiver: `feed` and `slice` (the two uses of the
  frame decoder), `mqtt`, `ota`, `log`, `sniff`. The bytes are fixed by the case, `at` counts
  those that have come. `Receiver` is the refinement mapping: `todo` is what was sent and not
  yet handed on, `done` is `out`.
- **Boot.** `dev.phase` is where `main` is, `dev.todo` the flash writes still to do, so that a
  power loss or a failed write comes between any two. The serial line is a FIFO of lines.

## 3. Runs

| Run | Shows | Bounds |
| --- | --- | --- |
| `session` | life cycle of a session, two channels and two hashes, any order of frames; handshakes end, silence is noticed | thresholds 2 and 3 keep the code's order (handshake and CTS loss before stale); queue of 1, 2 with retries |
| `tracker` | queue and tracker for every status of a pump and two temperatures | 2 entries, 1 retry, queue 2 (3 with retries): overflow, coalescing, cancelling, retry and giving up all happen |
| `timers` | pump and hold timers with queue and tracker | one pump, time-outs of 1 |
| `bus` | controller, tasks, wire and spa together | 4 channels to assign, UART channels of 4 as in the code, 1 command with the code's 2 retries, 2 injected faults; acknowledgement timeout and CTS loss are equal, as in the code, and longer than what the faults can silence |
| `panel` | what the owner sees and asks for, Celsius and Fahrenheit | hours of 2 minutes and days of 1 hour, so that the clock wraps; 2 inputs, in the first 2 seconds; a pipe of 2; 0 °F outside |
| `streams` | the six receivers | 44 frames with one fault of the line in the first 24 bytes; sockets with pieces of 1 to 4 or 30 bytes and 2 faults; words of 4 and a partition of 8 bytes; a ring of 3 and 9 messages; captures of 5 frames |
| `home` | reports, rings, page and Google | 3 components, rings of 4, 2 and 2, 3 inputs, targets of 10 °C and 33.5 °C |
| `boot` | configuration, crash record and boot | blocks of 3 bytes with a nonce of 1; 2 files and the template; FIFO of 6 lines; 2 attempts, 2 inputs, 1 fault, so one crash (passes with 2 faults as well, where two crashes are told; 2.2 million states, `CrashIsToldOnce` is for any number) |
| `ota_update` | updates that complete, are cut short, fail or are refused, with faults, by anyone or by `ota-flash` | 3 updates (first, second, back to the first partition), 2 faults; a good and a bad image; 3 attempts as in the code, 2 unread publications |
| `mqtt` | task, main loop and broker | state channel of 1 (passes with 2 as well), 2 changes, 1 user message, 2 faults |
| `server` | bridge, store, notifier, configuration, restart | 2 devices, 4 changes, 2 configurations, 1 restart, 1 failed request, threshold 2 |
| `config_flash` | a violation, see 6 | as `boot` |

Bounds on queues and on faults are named constants. `MCSpaApp` bounds the queue because
retries and timers are not stopped by `MAX_COMMAND_QUEUE`; the code has no such bound and the
proofs need none. That nothing else passes the limit, and at most a round at a time, is
`QueueDiscipline`; `tracker` checks it without timers, the theorem with them. Deadlock is
checked except in `ota_update`, where a device that has used up its updates and faults simply
runs, and in `streams`, where a stream ends. `mqtt` leaves the input `"test"` out: see 6.

**Fairness.**

- `SpaApp`: `WF(Tick)` and `WF(Advance)`; the main loop calls `tick` at least once a second
  and time passes. Nothing is assumed of the spa, of other devices or of the user.
- `OtaFlash`: `WF(DeviceSteps)`; the firmware and the boot loader go on; `WF` of the flasher's
  time limits and of its look at `bytes_sent`. Faults and requests are not fair.
- `MqttTask`: `WF` of the task and of the main loop's handlers (the embassy executor runs every
  ready task); `WF(StatusRepeats)`, the spa repeats its status; `SF(ConnectionLost)`, TCP gives
  a dead connection up in the end; and `OutrunsSpa`: the spa sends about one status a second
  and an iteration of the task takes milliseconds, so the task empties the channel again and
  again. The last is an assumption about speed.
- `Server`: `WF` of the bridge thread, of the notifier's steps, of the restart and of time.
  That each webhook request is answered or fails is an assumption about the webhook: the
  client is created without a timeout (`notifier.rs:22`).
- `SpaBus`: `WF` of both tasks and of the seconds. `SpaPanel`: `WF` of the seconds and of the
  pipe. `Streams`: `WF` of the arrival of what was sent. `Home`: `WF` of the periodic reports,
  of the bridge and publish threads and of the device. `Boot`: `WF` of the firmware, of the
  watchdog and of the return of the network, but not of a person.

## 4. Properties

Each is stated in words where it is defined; where one is a conjunction its parts are named
definitions of their own. For each, `PROJECT.json` names a mutant: a plausible mistake in the
code under which TLC finds it violated.

| Run | Property | What it says |
| --- | --- | --- |
| `session` | `AppInv` | `TypeOK`; `NothingOutlivesSession`, `NewClientKnowsChannel`, `HandshakeHasDeadline`, `ExistingHasChannel` |
| | `HandshakeEnds`, `SilenceNoticed` | liveness: a handshake that waits ends; a spa that has fallen silent is noticed |
| `tracker` | `PendingSound` | the tracker waits for each change once, within its limit (`PendingDistinct`), and for the effect of the command it would repeat (`PendingMatchesCommand`) |
| | `QueueDiscipline` | a command leaves the queue by being sent, cancelled or with the session; only retries and timers pass its limit, one round at a time |
| `timers` | `TimerForRunningPump` | a running timer belongs to a pump that is on, as far as the device can know |
| `bus` | `ChannelsAgree`, `OneChannelPerSession` | spa and device agree on one channel, though the fast path reads a stale flag |
| | `NoDoubleToggle` | a toggle given once never moves a pump twice, retries and faults included |
| | `SessionReturns` | liveness: the session comes back after every injected fault |
| `panel` | `OwnerSeesTheSpa` | `TypeOK`; skipped publications hide nothing (`ShownIsCurrent`); answers are truthful (`AnswersAreTruthful`) |
| | `CommandsAreMeant` | what is announced is understood, what is accepted can be encoded, a target arrives as it was given, within the span, and each range keeps its own |
| | `StatusIsTruthful`, `Settles` | a status says what the spa is; the water settles in the band of its target |
| `streams` | `DeliversInOrder` | refinement: every receiver implements `InOrder` |
| | `ImageSafe`, `InStep`, `BuffersHold`, `AckedIsDelivered`, `Drains` | the image in flash is whole and within its partition; the frame decoder gets back in step and captures are explained; its buffer is bounded and the log ring holds the newest; what is acknowledged was handed on; nothing waits for ever |
| `home` | `HomeInv` | nothing is answered on that was reported off; the thermostat, the page and a target are current; what Google is offered is understood |
| | `MissedEventIsMended`, `TogglesItsOwn`, `SetpointShown` | an evicted event costs one report; a command moves only its own item; a target is shown in the end |
| `boot` | `ConfigurationKept`, `CrashToldOnce`, `Recovers` | a confirmed configuration is kept and a cut loses no key; a crash is told at most once, and as what it was; the device gets to its main loop |
| `ota_update` | `OtadataSound` | `TypeOK`, `SlotsStandForPartitions`, `UpdateTakesEffect` |
| | `UpdateSwitchesOnce` | at every flash operation the boot loader selects the old image or the new one |
| | `FaultsSurvived`, `RefusedNeverBoots`, `VerifiedStays` | one fault never costs both entries and a cut download is harmless; a refused image is not booted; what the flasher verified is what boots |
| | `NothingHangs` | liveness: the device comes back and the flasher ends |
| `mqtt` | `MqttInv` | `TypeOK`; only what the broker has seen is suppressed (`LastPublishedWasSeen`); a served device is not announced offline (`ServingIsNotOffline`) |
| | `StateArrives`, `KeepsServing` | liveness: the broker ends up with the present state; the task serves again and again |
| `server` | `StoreConsistent`, `OutageClockRuns` | clocks, statuses and histories agree, in memory and in the file; an outage keeps its start |
| | `AlertsAreTrue`, `OutageIsTold` | each outage is told once, its end only when it is over, and each is told in the end |

## 5. Proofs

All theorems hold for every value of the constants that satisfies the modules' `ASSUME`s, and
for runs of any length. What the assumptions say is what the code gives: capacities and limits
are at least 1, thresholds are natural numbers, `Pieces` of a stream are not empty, the ring of
events is longer than the list of components (`RingAssumption`; 10 000 and 14 in the code), a spa reports
half or whole degrees (`SpaAssumption`), a simulated spa starts as `SpaState::default` makes it,
with targets that its ranges allow and its status byte can say (`SpasAssumption`), and Google's targets and the page's numbers of
pumps are integers (`UserAssumption`). TLC evaluates each of them.

An invariant is seldom inductive as a run states it. What each proof adds, and why:

- **SpaBusProofs, the controller.** `TypeCorrect` is proved action by action, with lemmas about what `Track`,
  `Verify` and `RegProcess` return. The session invariants (`SessionIsClean`,
  `NewClientChannel`, `HandshakeDeadline`) are inductive together with `ExistingHasChannel`:
  only a client with a previous channel waits for an existing-client response, without which
  the fallback to a new client could register without a channel. `AppCorrect` is `AppInv`.
  `PendingIsSound` is `PendingSound`: `Track` looks for the item before it appends, and `Verify`
  keeps a subsequence of the entries. `TimersBelongToRunningPumps` needs `StatusHasAge`: a status
  that is kept has an age a timer's start can be compared with. `QueueIsDisciplined` is the
  action property `QueueDiscipline`, with lemmas about prefixes and about what one status adds to
  the queue: retries of overdue entries, at most one for each, and then toggles of expired timers.
- **SpaBusProofs, the bus.** `SessionKeepsItsChannel` is `OneChannelPerSession`: only the fast path moves
  the spa's next channel, and it reads a flag that is fresh whenever the main loop waits
  (`FlagIsFresh`). `SpaAndDeviceAgree` is `ChannelsAgree`. Its invariant follows one handshake
  along its way: a query stands first on the line and finds nothing of an earlier handshake
  anywhere; the assignment that answers it is the only one on the line, in the hands of
  `uart_task` or in `FRAME_CHANNEL`, and finds neither an acknowledgement nor a registered spa
  (`GrantInv`); the acknowledgement is the only one and names the channel the device took
  (`AckInv`). The theorem is about a device that starts without an earlier channel
  (`PrevChannels = {}`): the firmware never calls `set_previous_channel`, and a device that is
  resumed leaves `client_id` unset (see 6).
- **SpaBusProofs, retries.** `PumpsMoveOnce` is `NoDoubleToggle`, for any number of faults, pumps,
  retries and channels, under two conditions on the constants: the spa takes a command within
  a second (`CommandLatency <= 1`), and a session without Ready frames is given up no later
  than a command is repeated (`CtsLoss <= AckTimeout`; both are 5 s in `types.rs`). `MovedInv` says
  where the one toggle is. It is in at most one place: in the queue, in `UART_TX_CHANNEL`, deferred
  at the spa, or done; every status on its way, wherever it is, shows what the pump does,
  and none is on its way while the toggle is in the channel or deferred (`OnceInv`). Within a second no
  status follows the Ready frame, so the device has read what came of a toggle before it may
  send the next (`OrderInv`, `ShownBeforeReady`). While a retry is queued and its entry still
  waits, no Ready frame has come since the entry was sent; at the next timeout the session is
  given up, and the retry with it (`TimeInv`). Nothing else is queued meanwhile: hold mode,
  whose timer would queue a toggle of its own, is off (`HoldRests`). The lemmas follow a second of the simulator (`EmitCycle`,
  `ProcessPendingCommands`, for which `SpaSim` writes its loops as recursive functions), the order
  of the line through its faults, and queue, tracker and wire through every action of the device.
  `asked` counts the commands: with a second one the property no longer tells a retry from it.
- **OtaProofs.** About the device alone: `IInv` adds to the types that the detected partition's
  entry is the newest while otadata is at rest (`RunningIsNewest`) and that the remaining
  operations of `finalize` and of `mark_valid` are the end of one of a few plans (`FinalizePlan`,
  `ValidatePlan`): `UpdateTakesEffect` and `UpdateSwitchesOnce` speak of intermediate states of
  the flash and are not inductive without knowing what is still to be written. The arithmetic
  of the sequence numbers is in `NextSeqFits` and `SeedSeqFits`. `OtadataCorrect` is
  `OtadataSound`, `UpdateIsAtomic` is `UpdateSwitchesOnce`; `NoValidationAtBoot` proves that
  `needs_validation` is false whenever the device boots. `FaultsAreSurvived` counts: without a
  fault a plan writes one or both slots and leaves two entries (`FaultFree`), with one fault the
  next plan still ends by writing an entry (`OneFault`); `BootedFits` says which image the
  running partition keeps. `RefusedIsNeverBooted` follows the refused image: it stays in the
  partition that does not run while the roll back writes the other entry (`RefusedIsApart`).
  About the composition: `FlashImplementsOtaBoot` shows that every step of `FlashSpec` is a step
  of the device or leaves it alone, so that all of the above holds with the flasher around it
  (`FlashedDeviceIsSound`). `VerifiedImageStays` is `VerifiedStays`: as long as nothing failed and
  nobody else updates the device, no other image than the new one comes to it (`OnlyNewImage`), and
  a version the host can read was told by a device booted through otadata.
- **MqttTaskProofs.** `RememberInv` adds to `LastPublishedWasSeen` that a state being published
  is the one remembered and that nothing is remembered before the first; `AnnouncedInv` extends
  `ServingIsNotOffline` to the steps between the birth message and service. `MqttTypeCorrect`
  includes the capacities of the channels. `MqttCorrect` is `MqttInv`.
- **ServerProofs.** `StoreInv` is the types of the store, the file and the messages with
  `StoreConsistent`; `OutageClockNeverRestarts` is proved from it. `AlertsAreCorrect` is
  `AlertsAreTrue`. `NotifierInv` relates what `check` read to what the store holds when it comes
  back from the webhook: an outage that is read or reported still lasts and is still monitored, one
  that is reported is in `notified`, and in the snapshot of the check that runs, so that
  the second half of the check does not take its device for back.
- **BootProofs, the crash record.** `CrashIsToldOnce` is `CrashToldOnce`. `BootInv` says for each phase of `main` what
  is in flash: while no record or clearing was cut short, a crash flag comes with the reason
  of the crash recorded last, which is untold; once it is read into the alarm it is either
  still there and nothing was told, or cleared (`RecordFits`, with the writes that are left in
  `ClearingPlan` and `PanicPlan`).
- **BootProofs, the configuration.** `ConfigurationIsKept` is `ConfigurationKept`. `ConfInv` adds
  what is on the way. In flash, every key of a promised configuration is there or among the
  writes that are left, and these write nothing else (`PromiseInFlash`, `KeysInFlash`). On the
  serial line, of the lines of an intact transfer the receiver has seen a beginning and the FIFO
  holds the next ones, or the START went lost and nothing that follows counts (`SerialFits`).
  Beneath it are two facts about data: that decrypting undoes padding and encrypting
  (`EncryptedComesBack`, down to the bits of `^=`, with the mask of a byte determined by its place
  alone), and that a poll which finds the next lines goes on where the last one stopped and at END
  answers with what was sent (`PollTakesOn`). Assumed are: texts in ASCII, to which the model's
  UTF-8 check is confined; that a file which `Config::validate` accepts does not have the SSID of an
  unconfigured device and has a port the device can parse
  (`validate_mqtt_port` of a `u16`, `parse::<u16>` on the device); nonces and eFuse blocks of the
  sizes the code gives its arrays (`HardwareAssumption`); and a block of less than 256 bytes, for
  PKCS7, with a nonce that leaves room for the counter (`BlockAssumption`).
- **SpaPanelProofs.** `StatusTruth` is `StatusIsTruthful`: fields of two bits and flags come back out
  of the byte they were packed in (`Unpack`, `PumpsTold`, `LightsTold`), and the temperature comes
  back to half a step of its byte as far as the byte can tell it (`TempTold`). `OwnerSees` is
  `OwnerSeesTheSpa` and needs that what was shown agrees with the last status in every compared
  field (`ShownFollows`), besides what each answer decodes to. `CommandsMeant` is
  `CommandsAreMeant`: every text is one of the kinds `EntitySays` lists, a number that passes the
  check of its range lies, in the byte that is sent, within the span of the ranges
  (`RoundedAccepted`), and `PanelCommands` are the commands that can be encoded and leave the spa
  in form (`CommandTaken`). `PanelInv` ties these together through the pipe and the scale. That no
  target fails to encode, which `generate_status_frame` expects, follows from `SpanByte`.
- **StreamsProofs.** `AcknowledgedIsDelivered` is `AckedIsDelivered`, for any packets, pieces and
  breaks of the connection. `ImageIsSafe` is `ImageSafe`, for any body, word and partition:
  `DownloadInv` says that behind an accepted header the writer was given a prefix of the body,
  that its flash holds whole words of it and that less than a word is pending.
  `BuffersAreHeld` is `BuffersHold`. For the decoders, `LineInv` says that one whose body is longer
  than any length byte has not met a start marker since its body was full, so that the bytes that
  came meanwhile hold none (`HeardBy`); but any stretch of the line as long as its longest frame
  holds two markers (`TwoMarkers`, from where each byte of a concatenation comes from), and one
  fault spoils at most one of them. For the log, `LogInv` follows each captured message to its
  place in the ring. Assumed are frames that can be encoded (`LineAssumption`) and a ring with room
  for a message (`LogAssumption`).
  `StreamsDeliverInOrder` is `DeliversInOrder`, the refinement of `InOrder`, for the log, the
  download and the client, with all their losses, and for both decoders on a line without faults:
  `LengthsTold => (Spec /\ []Undisturbed => DeliversInOrder)`. Its invariant `Told` says of each
  receiver how far it is. The last message published precedes what the ring holds (`LogTold`).
  What the writer was given, pending bytes included, is a prefix of the body, and what is in flash
  is its whole words (`DownloadTold`). The client's buffer starts at the end of a packet
  while none was lost, and is not read again otherwise (`ClientTold`, `Receives`). A decoder holds a
  prefix of the next frame's bytes (`LineTold`, `Reading`). The lemmas below it say that a frame is
  parsed back from its encoding (`EncodeSends`), that `feed` and `feed_slice` agree on each byte of
  it (`HearsNext`), that a packet is extracted when it is whole and not before (`PacketExtracted`),
  and where each part of a concatenation lies (`ConcatPlaced`). Assumed besides are whole packets
  behind a CONNACK of four bytes (`PacketAssumption`) and items no two of which are the same, so
  that a frame or message that is handed on tells its place. `LengthsTold` excludes
  frames whose length byte is the marker, which no decoder reads (section 6).
  `DecodersFindTheirWay` is the decoders' half of `InStep`:
  `LengthsTold => (Spec => [](ComesClean => Resync))`. `Finding` lists what a decoder behind a fault can be
  doing: it is in step (`InPlace`); it took the end of a frame for a start, which the start that
  follows mends (`AtEnd`); it is idle inside a frame (`Skips`), waits there for a length
  (`Mistook`), or collects a body of the wrong length (`Strays`), each with a bound on where it is,
  so that none but the first is left 255 bytes and two frames behind the fault. Every byte leads
  from one of them to one of them (`FindsNext`), whatever frames were parsed by mistake.
  `ComesClean` excludes a marker in the bytes of a frame behind the fault, which can keep a lost
  decoder from finding its way.
  `FramesAreFound` adds the captures and so is `InStep` as the run checks it:
  `LengthsTold => (Spec => [](Tellable => InStep))`. What it says of bytes alone is
  `CapturesAreCovered`, without a hypothesis: every captured byte is in one entry. `CaptureInv`
  follows the chunks from `SniffBuffer` through `SNIFF_CHANNEL` to the host, so that what is shown was
  made from the bytes of one capture. The lemmas follow `handle_chunks_format`: bytes written in
  hexadecimal are read back (`HexIsReadBack`), the offset decoder's frames lie one behind the other
  (`DecodedFits`, along the bytes with `OffsetSteps`), the ranges between them
  are the bytes no frame covers (`RangesPart`), every byte lies in a chunk, so that every entry has a
  time (`ChunksReach`), and sorting by time and place is a listing of the entries, none left out
  and none twice (`SortedLists`, from the injection of disjoint entries into the places where they
  end). That a frame is shown with its own bytes (`FrameIsShown`) needs `ChecksumsTell`: no marker of
  the capture stands before bytes that parse as a frame unless another marker ends them. A decoder
  that took the wrong marker for a start keeps the surplus bytes and parses those the length
  counts, so a checksum of eight bits that fits them by chance makes a frame of bytes that are not
  one. `SniffAssumption` says that captures are of frames of the line. With the
  frames of `streams`, `ChecksumsTell` holds in every reachable state; `ComesClean` holds when the
  fault comes behind the second frame, whose payload has a marker, and what an earlier fault
  leads to is checked by the run alone.
- **HomeProofs.** `HomeIsServed` is `HomeInv`; `MissedEventsAreMended` and `CommandsToggleTheirOwn` are
  the action properties. `HomeFits` needs, beyond types: the last event of a component, if the
  ring still has one, tells the last report, which survives a report that pushes old events
  out because the ring is longer than the list of components (`EventsFit`); an entry on its way is
  numbered behind those that were filed, so that a ring holds the newest without a gap
  (`RingsFit`); commands on their way are ones the answers of `execute` can produce
  (`CommandsFit`); and the target asked for last is in the last command that sets one, or, when none is left,
  the spa's (`AskedFits`).

Only model-checked:

- Liveness under fairness, which the prover does not reach: `HandshakeEnds`, `SilenceNoticed`,
  `SessionReturns`, `Settles`, `Drains`, `SetpointShown`, `Recovers`, `NothingHangs`, `StateArrives`,
  `KeepsServing`, `OutageIsTold`.
- `DeliversInOrder` on a line with a fault, and `InStep` where a payload holds a marker or a checksum
  fits by chance: with any frames in place of those of the instance they are false for the code. A
  checksum of eight bits fits one in 256 frames whose bytes were changed or shifted, and bytes of
  a payload that equal the marker can keep a decoder that lost its place from finding it again.
  They are about the frames the instance names.
- `DeliversInOrder` for captures: what the host shows is what a decoder makes of text it parses, cut
  where the queue was full. The proofs say how the entries lie and what each frame ends with, not
  yet which frames of the line they are.
- What a pump does after a second command, beyond `QueueDiscipline`: `NoDoubleToggle` bounds the moves
  by the number of commands.

## 6. Where sources and code disagree

`config_flash` ends in a violation, with a finding in `PROJECT.json`: `main.rs` says that a new
configuration can be sent "at any time", but a device whose WiFi credentials do not work waits
for DHCP until the watchdog resets it, boot after boot, and never looks at its serial line
again after the first seconds.

Observed while modelling, without a run of their own.

*Session and bus.*

- A registered device takes the channel of any assignment on the bus, whatever its hash
  (`spa_app.rs:473`; `registration.rs:347` checks it during the handshake).
- A registered device that never receives a first CTS does not detect the loss of its channel
  (`spa_app.rs:624`): `SessionReturns` names the case. The simulator queries only while it
  holds no registration, so a device that gives up its session alone never rejoins it.
- An existing client that is registered again may have `client_id = None` and then answers every
  channel's CTS (`NewClientKnowsChannel` is about new clients for that reason).
- Retries and expired timers are queued beyond `MAX_COMMAND_QUEUE`, though only they
  (`QueueDiscipline`).
- The toggle by which the hold timer releases hold mode can be cancelled by a user's toggle,
  cleared with the session or given up; the timer does not ask again until hold mode ends.
- A pump that a filter cycle switches at the same time as a toggle makes the tracker repeat the
  toggle; `NoDoubleToggle` is about the other pumps.
- Without the conditions of `PumpsMoveOnce` TLC finds a pump moved twice. With a CTS loss of 4 and an
  acknowledgement timeout of 2 the retries of one toggle pile up in the queue while statuses come
  and Ready frames do not (two faults). With a latency, a timeout and a loss of 2, a split
  status that shows the pump off ends when the retry is due and the pump has just moved. The
  first leaves the code without margin, whose constants are equal: a loss noticed milliseconds
  after the retry is below the model's clock of seconds.
- Where faults silence the bus for longer than `CTS_LOSS_THRESHOLD_MS`, the device gives up its
  session while the simulator keeps it and sends no more queries: with a CTS loss of 2
  `SessionReturns` fails. The run keeps the loss above the silence its faults can add up to.
- A set temperature of 255 would overflow in `generate_status_frame`; the `upper_bound` of the
  waste heat changes nothing.

*Owner, vocabulary, server.*

- A spa that is silent is announced `online` and its recovery `stale` (`mqtt_task.rs:235`).
- The discovery keeps the unit °F for a Celsius spa until the next connection
  (`mqtt_task.rs:117`). The switch for sniffing sends `true`, which is read as off. Commands
  that toggle ignore their payload, so Google's "on" switches an item that is on off
  (`docs/google-home-integration.md:362`); the heat mode is cycled whatever was asked for.
- Rounding accepts 25.5 °C and 40.25 °C, beyond the limits of `README.md:251`. A target checked
  against the last status may reach the spa after a queued change of range.
- `status_changed` leaves out the clock. A fault hides priming. Below 0 °C a Celsius spa reports
  no temperature; Google is told 0 °C for an unknown one.
- Google is told `SUCCESS` before a command is delivered. An item whose last event was pushed
  out of the ring is answered off until the next report.
- A device that is taken out of `monitored_devices` while it is offline, or for which the
  threshold is raised, is reported back online: `AlertsAreTrue` excepts it. A failed "back
  online" notice is never repeated (`notifier.rs:100`), and a restarted server reports an
  outage again because `notified` is not saved.

*Streams.*

- A frame with 122 bytes of payload has the length byte 126, the start marker. `encode` sends it,
  and both decoders take the byte for another start marker: they lose the frame, and take its first
  type byte for a length. No message of the protocol is that long.
- A lost length byte costs up to 255 bytes; `max_buffer` never binds. A message is lost when
  `recv` is dropped during the PUBACK, and a partly written PUBACK garbles what follows. A
  packet of more than 128 bytes, or a timeout inside one, leaves `recv` out of step;
  publications before the SUBACK are dropped; a failed subscription and a missing PINGRESP are
  only logged.
- Without a CRC a truncated download is finalized: `Content-Length` is not compared with what
  was written. The overflow check does not count the pending bytes.
- The log is drained whole and only the first three messages are published. A second request to
  sniff is absorbed, a silent bus never ends a capture, and the chunk a garbage entry is
  attributed to may be an earlier one.

*Update, boot, tools.*

- On a factory boot the roll back of a refused update gives the refused image the higher number
  (`flash.rs:304`), and after a fallback of the boot loader otadata is taken to name the
  running partition, so that the next update erases it (`app/src/ota.rs:39`).
- `README.md:180` promises that a firmware that crashes is reverted; otadata is written without
  a state (`flash.rs:211`), so it is booted again, and `needs_validation` is never true at boot
  (`NoValidationAtBoot`).
- An OTA request with `?test=1` parks the MQTT task for good (`mqtt_task.rs:306`).
- `ota-flash`: the device connects with a clean session, so a QoS 1 command is lost while it is
  away; the command is published again although a comment says not to; success is printed
  without a version; joining the server thread waits for a running transfer.
- A panic is recorded only where `NVS_PTR` is set (`main.rs:786`, `main.rs:827`), and the flag
  is cleared before the alarm is queued. A reason cut at byte 200 may end inside a character.
- `CONFIG_OK` is answered before the save, and would be without NVS too; the device then runs with
  the placeholders and does not get past WiFi, so `ConfigurationKept` is about boots where NVS
  opens. `CONFIG_START` within a started configuration keeps
  the pairs read so far, and missing lines become defaults. Burning the key after the
  configuration makes stored passwords unreadable.

## 7. Not modelled, and why

- Hardware access, executors, drivers and the WiFi stack: what the code sees of them is an
  external action (a reset, a lost connection, a failed write).
- The arithmetic of CRC-8, CRC-32, SHA-256 and AES: a checksum tells a changed frame or image
  from an unchanged one. A frame changed so that its CRC-8 still fits is left out.
- The text of JSON, TOML and HTTP: documents are records, refused ones a model value.
- Login, OAuth tokens and sessions of the web server, queries by time and pagination: requests
  and answers over the store without an order to get wrong; the saving of the rings.
- The alert channel, the heap monitor and the counters of the rate limiter (only its refusal is
  modelled): single counters, unit tested.
- The simulated broker, transport and clock exist for the tests; the models have their own.
- The web interface, the bench firmware, build and release tools: presentation, or outside the
  running system.

Timing is modelled by order, not by duration. Three assumptions about speed are stated where
they are made: `OutrunsSpa` (`MqttTask`), `DeviceIsIdle` (`SpaBus`), and the webhook that
answers or fails (`Server`).

## 8. Plan

Done: the controller, OTA, the MQTT task and the server's outages; the bus with the simulator
and the UART tasks; the owner's view; the byte streams with the refinement of `InOrder`; the
server's rings, page and Google Home; configuration, crash record and boot; `ota-flash` composed
with the device. Proved: the safety properties of all of them that section 5 lists.
