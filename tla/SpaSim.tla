------------------------------- MODULE SpaSim -------------------------------
(***************************************************************************)
(* SpaSim of launa-sim, the spa on the other end of the bus in every       *)
(* integration test.  The simulator is a value, sim.  SimTick and          *)
(* SimProcess return the set of its possible results, each with the        *)
(* elements it puts on the line: the pseudo random choices of the code     *)
(* (the interval between Ready frames, whether a command is accepted) are  *)
(* free choices here.                                                      *)
(*                                                                         *)
(* A line element is a whole frame or one of the two parts of a split      *)
(* status frame; a frame with a flipped byte is Garbled.  Padding bytes between frames,   *)
(* sensor noise, faults and priming, which change only bytes the           *)
(* controller keeps nothing of, are left out.                              *)
(***************************************************************************)
EXTENDS SpaState, SequencesExt

CONSTANTS
    FirstClient, LastClient,    \* the channels 0x11 .. 0x2F
    DisplayChannel,             \* the display panel's channel 0x10
    ReadyMin, ReadyMax,         \* ready_interval_range
    CommandLatency,             \* command_latency_ticks
    RequireRegistration,        \* require_registration
    RegistrationWindow,         \* registration_window_ticks, or None
    Accepts                     \* answers should_accept_command may give

ASSUME SimAssumption ==
    /\ FirstClient \in Nat /\ LastClient \in Nat /\ FirstClient <= LastClient
    /\ DisplayChannel \in Nat \ (FirstClient .. LastClient)
    /\ ReadyMin \in Nat \ {0} /\ ReadyMax \in Nat /\ ReadyMin <= ReadyMax
    /\ CommandLatency \in Nat
    /\ RequireRegistration \in BOOLEAN
    /\ RegistrationWindow \in Nat \cup {None}
    /\ Accepts \subseteq BOOLEAN /\ Accepts # {}

(* Where inject_partial_frame_at cuts the status frame: before its first   *)
(* byte, inside it, between its body and its end marker, or past its end.  *)
SplitPoints == {"zero", "middle", "end", "past"}
NoSplit == "none"

Garbled == [type |-> "Garbled"]
Whole(f) == [part |-> "whole", frame |-> f]
First(f, at) == [part |-> at, frame |-> f]
Rest(f) == [part |-> "rest", frame |-> f]

(* queryAge counts the ticks since the last query, up to one more than the *)
(* window; rest is the remainder of the frame splitter: <<>> or one list.  *)
SimNew(spa) ==
    [spa |-> spa, client |-> None, next |-> FirstClient, registered |-> FALSE,
     hash |-> None, queryAge |-> None, deferred |-> <<>>, events |-> <<>>,
     readyIn |-> 1, silence |-> 0, corrupt |-> FALSE, duplicate |-> FALSE,
     split |-> NoSplit, rest |-> <<>>]

(* simulate_spa_reboot: the registration is lost, the water is not. *)
SimReboot(sim) ==
    [sim EXCEPT !.registered = FALSE, !.client = None, !.hash = None,
                !.queryAge = None]
SimSilence(sim, ticks) == [sim EXCEPT !.silence = ticks]
SimCorrupt(sim) == [sim EXCEPT !.corrupt = TRUE]
SimDuplicate(sim) == [sim EXCEPT !.duplicate = TRUE]
SimSplit(sim, at) == [sim EXCEPT !.split = at, !.rest = <<>>]
SimFilterCycle(sim, pump, ticks) ==
    [sim EXCEPT !.events = Append(@, [left |-> ticks, pump |-> pump])]

-----------------------------------------------------------------------------
(* The elements of a sequence at the indices of a set, in their order. *)
Picked(s, indices) ==
    LET Upto[n \in 0 .. Len(s)] ==
            IF n = 0 THEN <<>>
            ELSE IF n \in indices THEN Append(Upto[n - 1], s[n]) ELSE Upto[n - 1]
    IN  Upto[Len(s)]

(* Commands.  A deferred command keeps the scale of the moment it came in. *)

Effect(spa, cmd) ==
    IF cmd.kind = "ToggleItem" THEN [item |-> cmd.arg]
                               ELSE [temp |-> FromWire(cmd.arg, spa.scale)]
Apply(spa, effect) ==
    IF "item" \in DOMAIN effect THEN ApplyToggle(spa, effect.item)
                                ELSE SetTargetTemp(spa, effect.temp)

(* process_pending_commands: every timer is decremented, the expired ones  *)
(* are applied in the order they came.                                     *)
AfterExpiring(sim) ==
    LET After[n \in 0 .. Len(sim.deferred)] ==
            IF n = 0 THEN sim.spa
            ELSE IF sim.deferred[n].left = 1 THEN Apply(After[n - 1], sim.deferred[n].effect)
            ELSE After[n - 1]
    IN  After[Len(sim.deferred)]
AllWaiting(sim) ==
    [k \in DOMAIN sim.deferred |-> [sim.deferred[k] EXCEPT !.left = IF @ = 1 THEN 1 ELSE @ - 1]]
Waiting(sim) ==
    LET later == Picked(sim.deferred, {k \in DOMAIN sim.deferred : sim.deferred[k].left > 1})
    IN  [k \in DOMAIN later |-> [later[k] EXCEPT !.left = @ - 1]]
ProcessPendingCommands(sim) ==
    [sim EXCEPT !.spa = AfterExpiring(sim), !.deferred = Waiting(sim)]

Answer(sim, frames) == [sim |-> sim, line |-> [k \in DOMAIN frames |-> Whole(frames[k])]]

CommandAccepted(sim, cmd) ==
    IF CommandLatency = 0
    THEN [sim EXCEPT !.spa = Apply(@, Effect(@, cmd))]
    ELSE [sim EXCEPT !.deferred =
            Append(@, [left |-> CommandLatency, effect |-> Effect(sim.spa, cmd)])]

(* A data request is answered with a frame that carries data the           *)
(* controller does not keep.                                               *)
ProcessCommand(sim, cmd) ==
    CASE RequireRegistration /\ ~sim.registered -> {Answer(sim, <<>>)}
      [] cmd.kind = "Request" -> {Answer(sim, <<OtherFrame>>)}
      [] cmd.kind \in {"ToggleItem", "SetTemperature"} ->
            {Answer(IF ok THEN CommandAccepted(sim, cmd) ELSE sim, <<>>) : ok \in Accepts}
      [] OTHER -> {Answer(sim, <<>>)}

-----------------------------------------------------------------------------
(* Registration, the spa's side.                                           *)

NextClient(id) == IF id >= LastClient THEN FirstClient ELSE id + 1

TooLate(sim) ==
    /\ RegistrationWindow # None
    /\ sim.queryAge # None
    /\ sim.queryAge > RegistrationWindow

(* NewClientResponse: a registered client that asks again with the same    *)
(* hash keeps its channel; anybody else gets the next one.  The channel is *)
(* only taken into use by its acknowledgement.                             *)
ProcessNewClient(sim, hash) ==
    LET known == sim.registered /\ sim.client # None /\ sim.hash = hash
        id == IF known THEN sim.client ELSE sim.next
    IN  IF TooLate(sim) THEN Answer(sim, <<>>)
        ELSE Answer([sim EXCEPT !.next = IF known THEN @ ELSE NextClient(@),
                                !.hash = hash,
                                !.queryAge = None],
                    <<ClientIdAssignment(id, hash)>>)

ProcessExistingClient(sim, ch, hash) ==
    Answer([sim EXCEPT !.client = ch, !.registered = TRUE, !.hash = hash],
           <<ExistingClientResponse(ch, hash)>>)

AckIgnored(sim, ch) == Answer([sim EXCEPT !.client = ch], <<>>)
ProcessAck(sim, ch) ==
    Answer([sim EXCEPT !.client = ch, !.registered = TRUE], <<>>)

(* process_frame, for a frame of the controller. *)
SimProcess(sim, f) ==
    CASE f.type = "0ABF" -> ProcessCommand(sim, f.cmd)
      [] f.type = "FEBF" /\ f.sub = 1 -> {ProcessNewClient(sim, f.hash)}
      [] f.type = "FEBF" /\ f.sub = 4 -> {ProcessExistingClient(sim, f.ch, f.hash)}
      [] f.type = "CHBF" /\ f.sub = 3 -> {ProcessAck(sim, f.ch)}
      [] OTHER -> {Answer(sim, <<>>)}

-----------------------------------------------------------------------------
(* One second.                                                             *)

(* process_pending_events: a filter cycle starts a pump that is off. *)
EventPumps(sim) == {sim.events[k].pump : k \in {k \in DOMAIN sim.events : sim.events[k].left = 0}}
EventsToCome(sim) == Picked(sim.events, {k \in DOMAIN sim.events : sim.events[k].left > 0})
ProcessPendingEvents(sim) ==
    [sim EXCEPT !.spa.items =
                    [i \in DOMAIN @ |-> IF i \in EventPumps(sim) /\ @[i] = 0 THEN 1 ELSE @[i]],
                !.events = EventsToCome(sim)]

ReadyFrame(sim) == ClearToSend(IF sim.client = None THEN DisplayChannel ELSE sim.client)

(* maybe_emit_ready *)
MaybeEmitReady(sim, line) ==
    LET left == IF sim.readyIn > 0 THEN sim.readyIn - 1 ELSE 0
    IN  IF left > 0 THEN {[sim |-> [sim EXCEPT !.readyIn = left], line |-> line]}
        ELSE {[sim |-> [sim EXCEPT !.readyIn = next],
               line |-> Append(line, Whole(ReadyFrame(sim)))] : next \in ReadyMin .. ReadyMax}

(* The remainder of a split frame, always followed by a Ready frame. *)
EmitRemainder(sim) ==
    {[sim |-> [sim EXCEPT !.rest = <<>>, !.readyIn = next],
      line |-> Append(Head(sim.rest), Whole(ReadyFrame(sim)))] : next \in ReadyMin .. ReadyMax}

(* The status frame, split, sent twice or as it is. *)
EmitStatus(sim, before) ==
    LET f == IF sim.corrupt THEN Garbled ELSE StatusFrame(StatusOf(sim.spa))
        sent == [sim EXCEPT !.corrupt = FALSE, !.split = NoSplit]
    IN  CASE sim.split = "zero" ->
                {[sim |-> [sent EXCEPT !.rest = <<<<>>>>], line |-> Append(before, Whole(f))]}
          [] sim.split \in {"middle", "end"} ->
                {[sim |-> [sent EXCEPT !.rest = <<<<Rest(f)>>>>],
                  line |-> Append(before, First(f, sim.split))]}
          [] sim.split = "past" -> MaybeEmitReady(sent, Append(before, Whole(f)))
          [] sim.split = NoSplit /\ sim.duplicate ->
                MaybeEmitReady([sent EXCEPT !.duplicate = FALSE], before \o <<Whole(f), Whole(f)>>)
          [] OTHER -> MaybeEmitReady(sent, Append(before, Whole(f)))

(* The query is repeated until a client has acknowledged its channel. *)
EmitCycle(sim) ==
    LET asked == IF sim.registered THEN sim ELSE [sim EXCEPT !.queryAge = 0]
        evolved == [ProcessPendingEvents(asked) EXCEPT !.spa = SimulatePhysics(@)]
    IN  EmitStatus(evolved, IF sim.registered THEN <<>> ELSE <<Whole(NewClientQuery)>>)

Aged(events) ==
    [k \in DOMAIN events |-> [events[k] EXCEPT !.left = IF @ = 0 THEN 0 ELSE @ - 1]]
SecondPasses(sim) ==
    [sim EXCEPT !.queryAge = IF @ = None \/ @ > RegistrationWindow THEN @ ELSE @ + 1,
                !.events = Aged(@)]

SimTick(sim) ==
    LET now == ProcessPendingCommands(SecondPasses(sim))
    IN  CASE now.silence > 0 ->
                {[sim |-> [now EXCEPT !.silence = @ - 1], line |-> <<>>]}
          [] now.silence = 0 /\ now.rest # <<>> -> EmitRemainder(now)
          [] OTHER -> EmitCycle(now)
=============================================================================
