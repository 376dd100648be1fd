------------------------------- MODULE SpaBus -------------------------------
(***************************************************************************)
(* The controller, its two tasks and the spa, closed into one system: the  *)
(* spa simulator, the RS-485 line, uart_task with its decoder and its fast *)
(* path for registration, the channels FRAME_CHANNEL and UART_TX_CHANNEL,  *)
(* and the main loop around SpaApp.                                        *)
(*                                                                         *)
(* The executor is cooperative: a task runs until it awaits.  One          *)
(* iteration of the main loop never waits inside, so uart_task moves only  *)
(* while the main loop is in its select (phase = "wait"); uart_task waits  *)
(* in its reads, its writes and in the send to FRAME_CHANNEL.              *)
(*                                                                         *)
(* A second of the spa is long for the device: a new second starts only    *)
(* when both tasks have dealt with the one before (DeviceIsIdle).          *)
(***************************************************************************)
EXTENDS SpaApp, SpaSim

CONSTANTS
    ChannelCapacity,    \* of FRAME_CHANNEL and UART_TX_CHANNEL: 4
    MaxFaults,          \* injected faults
    MaxCommands,        \* commands the user gives
    MaxSilence,         \* longest injected silence
    FilterPumps,        \* pumps of the spa's filter cycles
    InitialTemp         \* the set temperature at the start, as a byte

ASSUME BusAssumption ==
    /\ ChannelCapacity \in Nat \ {0}
    /\ MaxFaults \in Nat /\ MaxCommands \in Nat /\ MaxSilence \in Nat
    /\ FilterPumps \subseteq Pumps
    /\ InitialTemp \in Temps

VARIABLES
    sim,            \* the spa
    line,           \* what the spa has sent and uart_task has not read
    partial,        \* the first part of a frame in the decoder, or Idle
    held,           \* the decoded frame uart_task is sending to the main loop
    frames,         \* FRAME_CHANNEL
    tx,             \* UART_TX_CHANNEL
    appRegistered,  \* APP_REGISTERED
    phase,          \* of the main loop: "wait", "drain" or "tick"
    timerDue,       \* a second has passed since the last iteration
    faults,         \* faults injected so far
    asked           \* commands given so far

busVars == <<sim, line, partial, held, frames, tx, appRegistered, phase,
             timerDue, faults, asked>>
vars == <<appVars, busVars>>

Idle == [part |-> "idle"]
NoFrame == [type |-> "none"]

Init ==
    /\ AppInit
    /\ LET set == FromWire(InitialTemp, "Fahrenheit")
       IN  sim = SimNew(DefaultSpa(ToFahrenheit(set), set, set, "Fahrenheit"))
    /\ line = <<>>
    /\ partial = Idle
    /\ held = NoFrame
    /\ frames = <<>>
    /\ tx = <<>>
    /\ appRegistered = FALSE
    /\ phase = "wait"
    /\ timerDue = FALSE
    /\ faults = 0
    /\ asked = 0

-----------------------------------------------------------------------------
(* The decoder.  A frame that arrives inside a split one is swallowed: its *)
(* bytes complete the body of the split frame, which then fails its        *)
(* checksum, or its start marker passes for the missing end marker.        *)
Decode(p, e) ==
    CASE p = Idle /\ e.part = "whole" -> [partial |-> Idle, frame |-> e.frame]
      [] p = Idle /\ e.part \in {"middle", "end"} -> [partial |-> e, frame |-> NoFrame]
      [] p = Idle /\ e.part = "rest" -> [partial |-> Idle, frame |-> NoFrame]
      [] p # Idle /\ e.part = "rest" -> [partial |-> Idle, frame |-> p.frame]
      [] p # Idle /\ e.part # "rest" ->
            [partial |-> Idle, frame |-> IF p.part = "end" THEN p.frame ELSE NoFrame]

(* transport.write: the spa reads the frame and its answer is on the line. *)
WriteTo(f, rest) ==
    \E r \in SimProcess(sim, f) : sim' = r.sim /\ line' = rest \o r.line

(* The registration fast path: a query is answered by uart_task itself. *)
FastPathAlways(f) == f = NewClientQuery
FastPath(f) == f = NewClientQuery /\ ~appRegistered

UartReads ==
    /\ phase = "wait"
    /\ held = NoFrame
    /\ line # <<>>
    /\ LET d == Decode(partial, Head(line))
           f == IF d.frame = Garbled THEN NoFrame ELSE d.frame
       IN  /\ partial' = d.partial
           /\ held' = f
           /\ IF FastPath(f)
              THEN WriteTo(NewClientResponse(OwnHash), Tail(line))
              ELSE line' = Tail(line) /\ UNCHANGED sim
    /\ UNCHANGED <<appVars, frames, tx, appRegistered, phase, timerDue, faults, asked>>

(* frame_sender.send waits while the channel is full. *)
UartSends ==
    /\ phase = "wait"
    /\ held # NoFrame
    /\ Len(frames) < ChannelCapacity
    /\ frames' = Append(frames, held)
    /\ held' = NoFrame
    /\ UNCHANGED <<appVars, sim, line, partial, tx, appRegistered, phase, timerDue,
                   faults, asked>>

(* The bus is idle: one frame of the main loop goes out. *)
UartTransmits ==
    /\ phase = "wait"
    /\ held = NoFrame
    /\ line = <<>>
    /\ tx # <<>>
    /\ WriteTo(Head(tx), <<>>)
    /\ tx' = Tail(tx)
    /\ UNCHANGED <<appVars, partial, held, frames, appRegistered, phase, timerDue,
                   faults, asked>>

-----------------------------------------------------------------------------
(* execute_actions: a frame that finds UART_TX_CHANNEL full is dropped.    *)
ExecuteActions ==
    LET sends == {k \in DOMAIN out' : out'[k].act = "SendFrame"}
        fits == Smaller(Cardinality(sends), ChannelCapacity - Len(tx))
    IN  \E order \in Increasing(sends) :
            tx' = tx \o [k \in 1 .. fits |-> out'[order[k]].frame]

(* select3 returns a frame: process_uart_frames takes it and all the       *)
(* others that are there, and stores APP_REGISTERED after the first and    *)
(* after the last.                                                         *)
MainTakesFrame ==
    /\ phase = "wait"
    /\ frames # <<>>
    /\ ProcessFrame(Head(frames))
    /\ ExecuteActions
    /\ frames' = Tail(frames)
    /\ appRegistered' = IsRegistered(reg')
    /\ phase' = "drain"
    /\ timerDue' = FALSE
    /\ UNCHANGED <<sim, line, partial, held, faults, asked>>

MainDrainsFrame ==
    /\ phase = "drain"
    /\ frames # <<>>
    /\ ProcessFrame(Head(frames))
    /\ ExecuteActions
    /\ frames' = Tail(frames)
    /\ UNCHANGED <<sim, line, partial, held, appRegistered, phase, timerDue, faults, asked>>

MainDrained ==
    /\ phase = "drain"
    /\ frames = <<>>
    /\ appRegistered' = IsRegistered(reg)
    /\ phase' = "tick"
    /\ UNCHANGED <<appVars, sim, line, partial, held, frames, tx, timerDue, faults, asked>>

(* select3 returns a command. *)
MainTakesCommand ==
    /\ phase = "wait"
    /\ asked < MaxCommands
    /\ \E cmd \in UserCommands : OnMqttCommand(cmd)
    /\ ExecuteActions
    /\ asked' = asked + 1
    /\ phase' = "tick"
    /\ timerDue' = FALSE
    /\ UNCHANGED <<sim, line, partial, held, frames, appRegistered, faults>>

(* select3 returns the timer. *)
MainTimer ==
    /\ phase = "wait"
    /\ timerDue
    /\ frames = <<>>
    /\ phase' = "tick"
    /\ timerDue' = FALSE
    /\ UNCHANGED <<appVars, sim, line, partial, held, frames, tx, appRegistered, faults, asked>>

(* The end of an iteration: app.tick() and APP_REGISTERED. *)
MainTick ==
    /\ phase = "tick"
    /\ Tick
    /\ ExecuteActions
    /\ appRegistered' = IsRegistered(reg')
    /\ phase' = "wait"
    /\ UNCHANGED <<sim, line, partial, held, frames, timerDue, faults, asked>>

-----------------------------------------------------------------------------
(* A second passes: the spa sends, the device's clock moves on. *)
DeviceIsIdle ==
    /\ phase = "wait"
    /\ line = <<>> /\ held = NoFrame /\ frames = <<>> /\ tx = <<>>
    /\ ~timerDue

Second ==
    /\ DeviceIsIdle
    /\ \E r \in SimTick(sim) : sim' = r.sim /\ line' = r.line
    /\ Advance
    /\ timerDue' = TRUE
    /\ UNCHANGED <<partial, held, frames, tx, appRegistered, phase, faults, asked>>

(* What a test injects between two seconds. *)
Injected ==
    {SimReboot(sim), SimCorrupt(sim), SimDuplicate(sim)}
      \cup {SimSilence(sim, ticks) : ticks \in 1 .. MaxSilence}
      \cup {SimSplit(sim, at) : at \in SplitPoints}
      \cup {SimFilterCycle(sim, pump, 1) : pump \in FilterPumps}

Inject ==
    /\ DeviceIsIdle
    /\ faults < MaxFaults
    /\ sim' \in Injected
    /\ faults' = faults + 1
    /\ UNCHANGED <<appVars, line, partial, held, frames, tx, appRegistered, phase,
                   timerDue, asked>>

Device ==
    \/ UartReads
    \/ UartSends
    \/ UartTransmits
    \/ MainTakesFrame
    \/ MainDrainsFrame
    \/ MainDrained
    \/ MainTimer
    \/ MainTick

Next == Device \/ MainTakesCommand \/ Second \/ Inject

(* Both tasks are scheduled, and the spa's clock and the device's run. *)
Spec == Init /\ [][Next]_vars /\ WF_vars(Device) /\ WF_vars(Second)

-----------------------------------------------------------------------------
(* A registered device is never given another channel: the fast path reads *)
(* APP_REGISTERED, which the main loop stores after the handshake it        *)
(* belongs to, and answers only the queries of a device without a session. *)
OneChannelPerSession == [][sim'.next # sim.next => ~IsRegistered(reg)]_vars

(* The spa and the device agree on the channel whenever nothing is on its  *)
(* way between them and both believe in the session, whatever reboots,     *)
(* corrupted, split or repeated frames came before.  The device could be   *)
(* given a second channel while it acknowledges the first.                 *)
ChannelsAgree ==
    DeviceIsIdle /\ IsRegistered(reg) /\ sim.registered /\ tx = <<>>
        => sim.client = clientId

(* A toggle the user gave once never moves a pump twice: the tracker sends *)
(* a command again only when the spa has not taken it, as long as the spa  *)
(* takes effect within the acknowledgement timeout.                        *)
NoDoubleToggle == \A i \in Pumps \ FilterPumps : sim.spa.items[i] <= asked

(* The session comes back: once the faults are over, the spa and the       *)
(* device share a channel and keep it, unless the device waits for the     *)
(* first grant of a channel the spa has forgotten.                         *)
InSession == IsRegistered(reg) /\ sim.registered /\ clientId = sim.client
NeverGranted == IsRegistered(reg) /\ lastCts = None
SessionReturns == <>[]InSession \/ <>[]NeverGranted
=============================================================================
