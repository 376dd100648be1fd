----------------------------- MODULE SpaBusProofs -----------------------------
(***************************************************************************)
(* Theorems about the controller alone (SpaApp), then about the spa, the   *)
(* two tasks and the controller together: the fast path of uart_task never *)
(* answers for a registered device, and the spa and the device agree on    *)
(* the channel.                                                            *)
(***************************************************************************)
EXTENDS SpaBus, TLAPS, FiniteSetTheorems, WellFoundedInduction

-----------------------------------------------------------------------------
(* The controller: theorems of SpaApp's Spec, for every value of its       *)
(* constants.                                                              *)

(* The assignments and the existing-client responses that parse carries    *)
(* over from the bus name a channel (RegistrationMessage::parse).          *)
LEMMA ParsedChannel ==
    ASSUME NEW f \in BusFrames
    PROVE  ParseRegistration(f).msg \in {"ClientIdAssignment", "ExistingClientResponse"}
             => /\ ParseRegistration(f).ch = f.ch
                /\ f.ch \in Channels
  BY DEF BusFrames, ParseRegistration, NotARegistrationMessage, Message,
         NewClientQuery, OtherFrame, NewClientResponse, ClientIdAssignment,
         ShortAssignment, ExistingClientRequest, ExistingClientResponse,
         ClientIdAck, ClearToSend, NothingToSend, StatusFrame, CommandFrame,
         Febf, Chbf

(* The frame a dispatcher takes for a status update carries a status      *)
(* (dispatch_frame).                                                      *)
LEMMA StatusFrameCarriesStatus ==
    ASSUME NEW f \in BusFrames, DispatchFrame(f) = "StatusUpdate"
    PROVE  f.status \in Statuses
  <1>1. f.type = "FFAF"
    BY DEF DispatchFrame
  <1>2. f \in {StatusFrame(s) : s \in Statuses}
    BY <1>1, SMTT(30) DEF BusFrames, NewClientQuery, OtherFrame, NewClientResponse,
           ClientIdAssignment, ShortAssignment, ExistingClientRequest,
           ExistingClientResponse, ClientIdAck, ClearToSend, NothingToSend,
           CommandFrame, Febf, Chbf
  <1> QED BY <1>2 DEF StatusFrame

(* What one message may do to the registration machine                     *)
(* (RegistrationStateMachine::process).                                    *)
LEMMA RegProcessStep ==
    ASSUME NEW sm \in RegistrationMachines, NEW f \in BusFrames
    PROVE  LET step == RegProcess(sm, ParseRegistration(f))
           IN  /\ step.sm \in RegistrationMachines
               /\ step.sm.prev = sm.prev
               /\ step.action \in RegistrationActions
               /\ step.action = "SendClientIdAck" =>
                     /\ f.ch \in Channels
                     /\ IsRegistered(step.sm)
               /\ step.action = "SendExistingClientRequest" =>
                     /\ sm.prev # None
                     /\ ~IsRegistered(step.sm)
               /\ step.action = "SendNewClientResponse" => ~IsRegistered(step.sm)
               /\ step.action = "None" =>
                     \/ step.sm = sm
                     \/ /\ IsRegistered(step.sm)
                        /\ sm.state = "WaitingForExistingResponse"
               /\ step.sm.state = "WaitingForExistingResponse" =>
                     step.sm = sm \/ step.action = "SendExistingClientRequest"
  BY ParsedChannel DEF RegProcess, RegStep, RegistrationMachines, RegistrationStates,
         RegistrationActions, IsRegistered

-----------------------------------------------------------------------------
(* Sequences. *)

(* The concatenation of two sequences over S is a sequence over S. *)
LEMMA ConcatTyped ==
    ASSUME NEW S, NEW s \in Seq(S), NEW t \in Seq(S)
    PROVE  s \o t \in Seq(S)
  OBVIOUS

(* A sequence of one element of S is a sequence over S. *)
LEMMA SingletonTyped ==
    ASSUME NEW S, NEW a \in S
    PROVE  <<a>> \in Seq(S)
  OBVIOUS

(* An optional action is a sequence of at most one action. *)
LEMMA WhenTyped ==
    ASSUME NEW S, NEW cond, NEW a \in S
    PROVE  When(cond, a) \in Seq(S)
  BY DEF When

(* The indices of a sequence that satisfy a condition are finitely many. *)
LEMMA IndexSetSize ==
    ASSUME NEW n \in Nat, NEW I \in SUBSET (1 .. n)
    PROVE  IsFiniteSet(I) /\ Cardinality(I) \in Nat /\ Cardinality(I) <= n
  <1>1. IsFiniteSet(1 .. n) /\ Cardinality(1 .. n) = n
    BY FS_Interval
  <1>2. IsFiniteSet(I) /\ Cardinality(I) <= Cardinality(1 .. n)
    BY <1>1, FS_Subset
  <1> QED BY <1>1, <1>2, FS_CardinalityType

(* A nonempty set of indices has a least element, which Min finds. *)
LEMMA LeastIndex ==
    ASSUME NEW I \in SUBSET Nat, I # {}
    PROVE  Min(I) \in I /\ \A j \in I : Min(I) <= j
  <1>1. PICK i \in I : \A j \in I : ~(<<j, i>> \in OpToRel(<, Nat))
    BY NatLessThanWellFounded, WFMin
  <1>2. \A j \in I : j \in Nat
    OBVIOUS
  <1>3. \A j \in I : i <= j
    <2> SUFFICES ASSUME NEW j \in I PROVE i <= j
      OBVIOUS
    <2>1. ~(j < i)
      BY <1>1, <1>2, Zenon DEF OpToRel
    <2> QED BY <1>2, <2>1
  <1> QED BY <1>3 DEF Min

-----------------------------------------------------------------------------
(* The command tracker. *)

(* An expected change is well formed for every command that has one. *)
LEMMA FromCommandTyped ==
    ASSUME NEW cmd \in Commands, NEW s \in Statuses, HasExpectedChange(cmd)
    PROVE  FromCommand(cmd, s) \in ExpectedChanges
  <1>1. CASE cmd.kind = "ToggleItem"
    <2>1. cmd.arg \in TrackedItems /\ s.items[cmd.arg] \in ItemStates
      BY <1>1 DEF HasExpectedChange, Statuses
    <2> QED BY <1>1, <2>1 DEF FromCommand, ExpectedChanges
  <1>2. CASE cmd.kind = "SetTemperature"
    <2>1. cmd.arg \in Temps
      BY <1>2 DEF Commands
    <2> QED BY <1>2, <2>1 DEF FromCommand, ExpectedChanges
  <1> QED BY <1>1, <1>2 DEF HasExpectedChange

(* Restarting the clock of an entry, or counting a retry, keeps its type. *)
LEMMA PendingUpdate ==
    ASSUME NEW e \in PendingCommands, NEW c \in Commands, NEW r \in 0 .. MaxRetries
    PROVE  /\ [[e EXCEPT !.command = c] EXCEPT !.sentAt = 0] \in PendingCommands
           /\ [[e EXCEPT !.sentAt = 0] EXCEPT !.retries = r] \in PendingCommands
  <1>1. 0 \in 0 .. AckTimeout
    BY TrackerAssumption
  <1> QED BY <1>1 DEF PendingCommands

(* track keeps the table well typed (CommandTracker::track). *)
LEMMA TrackTyped ==
    ASSUME NEW p \in Seq(PendingCommands), NEW cmd \in Commands, NEW s \in Statuses
    PROVE  Track(p, cmd, s) \in Seq(PendingCommands)
  <1>1. CASE ~HasExpectedChange(cmd)
    BY <1>1 DEF Track
  <1>2. CASE HasExpectedChange(cmd) /\ SameExpected(p, cmd, s) # {}
    <2> DEFINE i == Min(SameExpected(p, cmd, s))
    <2>1. Track(p, cmd, s) = [p EXCEPT ![i].command = cmd, ![i].sentAt = 0]
      BY <1>2 DEF Track
    <2>2. i \in DOMAIN p
      <3>1. SameExpected(p, cmd, s) \in SUBSET Nat
        BY DEF SameExpected
      <3>2. i \in SameExpected(p, cmd, s)
        BY <1>2, <3>1, LeastIndex
      <3> QED BY <3>2 DEF SameExpected
    <2> HIDE DEF i
    <2>3. p[i] \in PendingCommands
      BY <2>2
    <2> DEFINE e == [[p[i] EXCEPT !.command = cmd] EXCEPT !.sentAt = 0]
    <2>4. e \in PendingCommands
      <3>1. 0 \in 0 .. MaxRetries
        BY TrackerAssumption
      <3> QED BY <2>3, <3>1, PendingUpdate
    <2>5. Track(p, cmd, s) = [p EXCEPT ![i] = e]
      BY <2>1, <2>2
    <2> QED BY <2>2, <2>4, <2>5
  <1>3. CASE HasExpectedChange(cmd) /\ SameExpected(p, cmd, s) = {}
    <2>1. NewPending(cmd, s) \in PendingCommands
      BY <1>3, FromCommandTyped, TrackerAssumption DEF NewPending, PendingCommands
    <2>2. Track(p, cmd, s) \in {p, Append(p, NewPending(cmd, s))}
      BY <1>3 DEF Track
    <2> QED BY <2>1, <2>2
  <1> QED BY <1>1, <1>2, <1>3

(* verify keeps the table well typed and asks again only for commands      *)
(* (CommandTracker::verify).                                               *)
LEMMA VerifyTyped ==
    ASSUME NEW p \in Seq(PendingCommands), NEW s \in Statuses, NEW v \in Verify(p, s)
    PROVE  v.pending \in Seq(PendingCommands) /\ v.retries \in Seq(Commands)
  <1> DEFINE keepSet == Survivors(p, s)
             retrySet == ToRetry(p, s)
  <1>1. keepSet \in SUBSET (1 .. Len(p)) /\ retrySet \in SUBSET (1 .. Len(p))
    BY DEF Survivors, ToRetry, Overdue
  <1>2. Cardinality(keepSet) \in Nat /\ Cardinality(retrySet) \in Nat
    <2>1. Len(p) \in Nat
      OBVIOUS
    <2> HIDE DEF keepSet, retrySet
    <2> QED BY <1>1, <2>1, IndexSetSize
  <1>3. PICK keep \in Increasing(keepSet), retry \in Decreasing(retrySet) :
            v = [pending |-> VerifyPending(p, s, keep),
                 retries |-> VerifyRetries(p, s, retry),
                 dropped |-> GivenUp(p, s) # {}]
    BY DEF Verify
  <1>4. /\ keep \in [1 .. Cardinality(keepSet) -> keepSet]
        /\ retry \in [1 .. Cardinality(retrySet) -> retrySet]
    BY DEF Increasing, Decreasing
  <1>5. \A i \in keepSet : AfterVerify(p, s, i) \in PendingCommands
    <2> SUFFICES ASSUME NEW i \in keepSet
                 PROVE  AfterVerify(p, s, i) \in PendingCommands
      OBVIOUS
    <2>1. p[i] \in PendingCommands
      BY <1>1
    <2>2. CASE i \in ToRetry(p, s)
      <3>1. p[i].retries < MaxRetries
        BY <2>2 DEF ToRetry
      <3>2. p[i].retries + 1 \in 0 .. MaxRetries
        BY <2>1, <3>1, TrackerAssumption DEF PendingCommands
      <3>3. AfterVerify(p, s, i)
              = [[p[i] EXCEPT !.sentAt = 0] EXCEPT !.retries = p[i].retries + 1]
        BY <2>1, <2>2 DEF AfterVerify, PendingCommands
      <3> QED BY <2>1, <3>2, <3>3, PendingUpdate DEF PendingCommands
    <2> QED BY <2>1, <2>2 DEF AfterVerify
  <1>6. VerifyPending(p, s, keep) \in Seq(PendingCommands)
    BY <1>2, <1>4, <1>5 DEF VerifyPending
  <1>7. \A i \in retrySet : p[i].command \in Commands
    <2>1. \A i \in retrySet : p[i] \in PendingCommands
      BY <1>1
    <2> QED BY <2>1 DEF PendingCommands
  <1>8. VerifyRetries(p, s, retry) \in Seq(Commands)
    <2>1. \A k \in 1 .. Cardinality(ToRetry(p, s)) : p[retry[k]].command \in Commands
      BY <1>4, <1>7
    <2> QED BY <1>2, <2>1 DEF VerifyRetries
  <1> QED BY <1>3, <1>6, <1>8
-----------------------------------------------------------------------------
(* Type correctness, action by action. *)

(* None is not a channel, nor an age. *)
LEMMA NoneIsNotNat == None \notin Nat /\ None \in Int
  BY DEF None

(* An age stays within its bound when time passes. *)
LEMMA OlderTyped ==
    ASSUME NEW max \in Nat, NEW age \in Ages(max)
    PROVE  /\ Older(age, max) \in Ages(max)
           /\ Older(age, max) = None <=> age = None
  BY DEF Older, Ages, None

(* The frames that leave are well typed. *)
LEMMA SentFramesTyped ==
    /\ \A ch \in Channels :
          /\ SendFrame(ClientIdAck(ch)) \in AppActions
          /\ SendFrame(NothingToSend(ch)) \in AppActions
          /\ SendFrame(ExistingClientRequest(ch, OwnHash)) \in AppActions
    /\ \A cmd \in Commands : SendFrame(CommandFrame(cmd)) \in AppActions
  BY DEF SendFrame, ClientIdAck, NothingToSend, ExistingClientRequest, CommandFrame,
         Febf, Chbf, SentFrames, AppActions

(* What is published is well typed. *)
LEMMA PublishedTyped ==
    /\ \A b \in BOOLEAN, st \in RegistrationStates : PublishState(b, st) \in AppActions
    /\ \A m \in {"registration_timeout", "no_registration_query", "cts_loss",
                 "spa_communication_lost"} : PublishAlert(m) \in AppActions
    /\ PublishStaleAvailability \in AppActions
    /\ PublishDiagnostics \in AppActions
    /\ RecordDropped \in AppActions
  BY DEF PublishState, PublishAlert, PublishStaleAvailability, PublishDiagnostics,
         RecordDropped, AppActions

(* with_client_hash builds a well-typed controller. *)
LEMMA InitTyped == AppInit => TypeOK
  <1> SUFFICES ASSUME AppInit PROVE TypeOK
    OBVIOUS
  <1>1. reg \in RegistrationMachines
    BY SpaAppAssumption DEF AppInit, RegNew, RegistrationMachines, RegistrationStates
  <1>2. timers \in [Pumps -> PumpTimers] /\ hold \in HoldTimers
    BY DEF AppInit, NewPumpTimer, PumpTimers, NewHoldTimer, HoldTimers, Ages
  <1>3. /\ regStarted \in Ages(RegTimeout) /\ lastCts \in Ages(CtsLoss)
        /\ statusAge \in Ages(StaleThreshold) /\ probeAge \in Ages(ProbeInterval)
        /\ diagAge \in Ages(DiagInterval) /\ bootAge \in 0 .. StaleThreshold
    BY SpaAppAssumption DEF AppInit, Ages
  <1>4. /\ clientId \in Channels \cup {None} /\ lastStatus \in Statuses \cup {NoStatus}
        /\ queue \in Seq(Commands) /\ pending \in Seq(PendingCommands)
        /\ out \in Seq(AppActions)
    BY DEF AppInit
  <1>5. wasStale \in BOOLEAN /\ noQueryAlert \in BOOLEAN
    BY DEF AppInit
  <1> QED BY <1>1, <1>2, <1>3, <1>4, <1>5, Zenon DEF TypeOK

(* process_frame while unregistered. *)
LEMMA ProcessRegistrationTyped ==
    ASSUME TypeOK, NEW f \in Frames, ProcessRegistration(f)
    PROVE  TypeOK'
  <1> DEFINE step == RegProcess(reg, ParseRegistration(f))
  <1>1. f \in BusFrames /\ reg \in RegistrationMachines
    BY SpaAppAssumption DEF TypeOK
  <1>2. /\ step.sm \in RegistrationMachines
        /\ step.action \in RegistrationActions
        /\ step.action = "SendClientIdAck" => f.ch \in Channels
        /\ step.action = "SendExistingClientRequest" => reg.prev # None
    BY <1>1, RegProcessStep
  <1> HIDE DEF step
  <1>3. /\ reg' = step.sm
        /\ regStarted' = StartedAfter(step.action)
        /\ clientId' = ClientIdAfter(step.action, f)
    BY DEF ProcessRegistration, step
  <1>4. regStarted' \in Ages(RegTimeout)
    BY <1>2, <1>3, SpaAppAssumption DEF StartedAfter, RegistrationActions, TypeOK, Ages
  <1>5. clientId' \in Channels \cup {None}
    BY <1>2, <1>3 DEF ClientIdAfter, TypeOK
  <1>6. out' \in Seq(AppActions)
    <2>1. CASE step.action = "SendClientIdAck"
      <3>1. out' = <<SendFrame(ClientIdAck(f.ch))>>
        BY <2>1 DEF ProcessRegistration, step
      <3> QED BY <1>2, <2>1, <3>1, SentFramesTyped
    <2>2. CASE step.action = "SendExistingClientRequest"
      <3>1. out' = <<SendFrame(ExistingClientRequest(reg.prev, OwnHash))>>
        BY <2>2 DEF ProcessRegistration, step
      <3>2. reg.prev \in Channels
        BY <1>1, <1>2, <2>2 DEF RegistrationMachines
      <3> QED BY <3>1, <3>2, SentFramesTyped
    <2>3. CASE step.action \notin {"SendClientIdAck", "SendExistingClientRequest"}
      <3>1. out' = <<>>
        BY <2>3 DEF ProcessRegistration, step
      <3> QED BY <3>1
    <2> QED BY <2>1, <2>2, <2>3
  <1> QED BY <1>2, <1>3, <1>4, <1>5, <1>6
          DEF TypeOK, ProcessRegistration, commandVars, statusVars, monitorVars

(* process_frame, registered, a status update. *)
LEMMA ProcessStatusTyped ==
    ASSUME TypeOK, NEW f \in Frames, ProcessStatus(f)
    PROVE  TypeOK'
  <1> DEFINE s == f.status
             isHold == s.items[HoldMode] = 1
             dueSet == Expired(timers, s)
  <1>1. s \in Statuses
    BY SpaAppAssumption, StatusFrameCarriesStatus DEF ProcessStatus
  <1>2. PICK v \in Verify(pending, s), due \in Increasing(dueSet) :
            /\ pending' = v.pending
            /\ queue' = queue \o v.retries
                          \o [k \in 1 .. Cardinality(dueSet) |-> Toggle(due[k])]
                          \o When(HoldFires(hold, isHold), Toggle(HoldMode))
            /\ out' = When(v.dropped, RecordDropped)
                        \o <<PublishState(wasStale, reg.state)>>
    BY DEF ProcessStatus
  <1>3. v.pending \in Seq(PendingCommands) /\ v.retries \in Seq(Commands)
    BY <1>1, VerifyTyped DEF TypeOK
  <1>4. \A i \in Pumps \cup {HoldMode} : Toggle(i) \in Commands
    BY ItemAssumption DEF Toggle, Command, Commands, ToggleItems, UntrackedItem, Pumps,
                          HoldMode
  <1>5. [k \in 1 .. Cardinality(dueSet) |-> Toggle(due[k])] \in Seq(Commands)
    <2>1. dueSet \in SUBSET (1 .. NumPumps)
      BY DEF Expired, Pumps
    <2>2. Cardinality(dueSet) \in Nat
      BY <2>1, ItemAssumption, IndexSetSize
    <2>3. \A k \in 1 .. Cardinality(dueSet) : due[k] \in dueSet
      BY DEF Increasing
    <2>4. \A k \in 1 .. Cardinality(dueSet) : Toggle(due[k]) \in Commands
      BY <1>4, <2>1, <2>3 DEF Pumps
    <2> HIDE DEF dueSet
    <2> QED BY <2>2, <2>4
  <1>6. queue' \in Seq(Commands)
    <2>1. When(HoldFires(hold, isHold), Toggle(HoldMode)) \in Seq(Commands)
      BY <1>4, WhenTyped
    <2> HIDE DEF dueSet, isHold
    <2>2. queue \in Seq(Commands)
      BY DEF TypeOK
    <2> QED BY <1>2, <1>3, <1>5, <2>1, <2>2, ConcatTyped, Zenon
  <1>7. out' \in Seq(AppActions)
    <2>1. When(v.dropped, RecordDropped) \in Seq(AppActions)
      BY PublishedTyped, WhenTyped
    <2>2. PublishState(wasStale, reg.state) \in AppActions
      BY PublishedTyped DEF TypeOK, RegistrationMachines
    <2>3. <<PublishState(wasStale, reg.state)>> \in Seq(AppActions)
      BY <2>2
    <2> QED BY <1>2, <2>1, <2>3, ConcatTyped, Zenon
  <1>8. timers' \in [Pumps -> PumpTimers]
    <2>1. timers \in [Pumps -> PumpTimers] /\ timers' = AfterTickAll(timers, s)
      BY DEF TypeOK, ProcessStatus
    <2>2. \A t \in PumpTimers : [t EXCEPT !.startedAt = None] \in PumpTimers
      BY DEF PumpTimers, Ages
    <2> QED BY <2>1, <2>2 DEF AfterTickAll
  <1>9. hold' \in HoldTimers
    <2>1. hold \in HoldTimers /\ hold' = AfterHoldTick(hold, isHold)
      BY DEF TypeOK, ProcessStatus
    <2>2. hold' \in {NewHoldTimer, [enteredAt |-> None, fired |-> TRUE],
                     [hold EXCEPT !.enteredAt = 0], hold}
      BY <2>1 DEF AfterHoldTick
    <2>3. None \in Ages(HoldTimeout) /\ 0 \in Ages(HoldTimeout)
      BY TimerAssumption DEF Ages
    <2>4. NewHoldTimer \in HoldTimers /\ [enteredAt |-> None, fired |-> TRUE] \in HoldTimers
      BY <2>3 DEF HoldTimers, NewHoldTimer
    <2>5. [hold EXCEPT !.enteredAt = 0] \in HoldTimers
      BY <2>1, <2>3 DEF HoldTimers
    <2> QED BY <2>1, <2>2, <2>4, <2>5
  <1>10. statusAge' \in Ages(StaleThreshold) /\ probeAge' \in Ages(ProbeInterval)
    BY SpaAppAssumption DEF ProcessStatus, Ages
  <1>11. wasStale' \in BOOLEAN /\ lastStatus' \in Statuses \cup {NoStatus}
    BY <1>1 DEF ProcessStatus
  <1> QED BY <1>2, <1>3, <1>6, <1>7, <1>8, <1>9, <1>10, <1>11
          DEF TypeOK, ProcessStatus, sessionVars, monitorVars

(* process_frame, registered, a Ready frame. *)
LEMMA ProcessReadyTyped ==
    ASSUME TypeOK, NEW f \in Frames, ProcessReady(f)
    PROVE  TypeOK'
  <1>1. lastCts' \in Ages(CtsLoss)
    BY SpaAppAssumption DEF ProcessReady, Ages
  <1>2. CASE queue # <<>>
    <2>1. Head(queue) \in Commands /\ Tail(queue) \in Seq(Commands)
      BY <1>2 DEF TypeOK
    <2>2. lastStatus # NoStatus
            => Track(pending, Head(queue), lastStatus) \in Seq(PendingCommands)
      BY <2>1, TrackTyped DEF TypeOK
    <2>3. queue' \in Seq(Commands) /\ pending' \in Seq(PendingCommands)
      BY <1>2, <2>1, <2>2 DEF ProcessReady, TypeOK
    <2> DEFINE dropped == /\ lastStatus # NoStatus
                          /\ TrackDrops(pending, Head(queue), lastStatus)
    <2>4. out' = <<SendFrame(CommandFrame(Head(queue)))>> \o When(dropped, RecordDropped)
      BY <1>2 DEF ProcessReady
    <2>5. /\ <<SendFrame(CommandFrame(Head(queue)))>> \in Seq(AppActions)
          /\ When(dropped, RecordDropped) \in Seq(AppActions)
      BY <2>1, SentFramesTyped, PublishedTyped, WhenTyped, SingletonTyped, Zenon
    <2> HIDE DEF dropped
    <2>6. out' \in Seq(AppActions)
      BY <2>4, <2>5, ConcatTyped, Zenon
    <2> QED BY <1>1, <2>3, <2>6 DEF TypeOK, ProcessReady, statusVars, monitorVars
  <1>3. CASE queue = <<>>
    <2>1. /\ clientId = None => out' = <<>>
          /\ clientId # None => out' = <<SendFrame(NothingToSend(clientId))>>
      BY <1>3 DEF ProcessReady
    <2>2. clientId # None => SendFrame(NothingToSend(clientId)) \in AppActions
      BY SentFramesTyped DEF TypeOK
    <2>3. <<>> \in Seq(AppActions)
      OBVIOUS
    <2>4. out' \in Seq(AppActions)
      BY <2>1, <2>2, <2>3, SingletonTyped, Zenon
    <2> QED BY <1>1, <1>3, <2>4 DEF TypeOK, ProcessReady, statusVars, monitorVars
  <1> QED BY <1>2, <1>3

(* process_frame, registered, an assignment or a frame it ignores. *)
LEMMA ProcessOtherTyped ==
    ASSUME TypeOK, NEW f \in Frames, ProcessAssignment(f) \/ IgnoreFrame(f)
    PROVE  TypeOK'
  <1>1. CASE ProcessAssignment(f)
    <2>1. f.ch \in Channels
      BY <1>1, ParsedChannel, SpaAppAssumption DEF ProcessAssignment
    <2> QED BY <1>1, <2>1
            DEF ProcessAssignment, TypeOK, commandVars, statusVars, monitorVars
  <1>2. CASE IgnoreFrame(f)
    BY <1>2 DEF IgnoreFrame, TypeOK, sessionVars, commandVars, statusVars, monitorVars
  <1> QED BY <1>1, <1>2

(* on_mqtt_command. *)
LEMMA OnMqttCommandTyped ==
    ASSUME TypeOK, NEW cmd \in UserCommands, OnMqttCommand(cmd)
    PROVE  TypeOK'
  <1>1. cmd \in Commands /\ queue \in Seq(Commands)
    BY SpaAppAssumption DEF TypeOK
  <1>2. \A q \in Seq(Commands), c \in Commands : PushBack(q, c) \in Seq(Commands)
    BY DEF PushBack
  <1>3. queue' \in Seq(Commands) /\ out' \in Seq(AppActions)
    <2>1. CASE ReplaceTemperature(cmd)
      <3> DEFINE i == Min(QueuedTemperatures)
      <3>1. queue' = [queue EXCEPT ![i] = cmd] /\ out' = <<>>
        BY <2>1 DEF ReplaceTemperature
      <3>2. QueuedTemperatures \in SUBSET Nat /\ QueuedTemperatures # {}
        BY <1>1, <2>1 DEF ReplaceTemperature, QueuedTemperatures
      <3>3. i \in QueuedTemperatures
        BY <3>2, LeastIndex
      <3>4. i \in 1 .. Len(queue)
        BY <1>1, <3>3 DEF QueuedTemperatures
      <3> HIDE DEF i
      <3> QED BY <1>1, <3>1, <3>4
    <2>2. CASE CancelToggle(cmd)
      <3> DEFINE i == Min(QueuedToggles(cmd))
      <3>1. queue' = RemoveAt(queue, i) /\ out' = <<>>
        BY <2>2 DEF CancelToggle
      <3>2. QueuedToggles(cmd) \in SUBSET Nat /\ QueuedToggles(cmd) # {}
        BY <1>1, <2>2 DEF CancelToggle, QueuedToggles
      <3>3. i \in QueuedToggles(cmd)
        BY <3>2, LeastIndex
      <3>4. i \in 1 .. Len(queue)
        BY <1>1, <3>3 DEF QueuedToggles
      <3> HIDE DEF i
      <3> QED BY <1>1, <3>1, <3>4 DEF RemoveAt
    <2>3. CASE PushCommand(cmd)
      <3> DEFINE wantsClock == /\ cmd = Command("SetTime", 1)
                               /\ ClockPreference \notin ToSet(queue)
                 q == IF wantsClock THEN PushBack(queue, ClockPreference) ELSE queue
      <3>1. /\ queue' = PushBack(q, cmd)
            /\ out' = When(wantsClock /\ Len(queue) >= MaxQueue, RecordDropped)
                        \o When(Len(q) >= MaxQueue, RecordDropped)
        BY <2>3 DEF PushCommand
      <3>2. ClockPreference \in Commands
        BY DEF ClockPreference, ClockMode, Command, Commands
      <3> HIDE DEF wantsClock
      <3>3. q \in Seq(Commands)
        BY <1>1, <1>2, <3>2
      <3> HIDE DEF q
      <3>4. /\ When(wantsClock /\ Len(queue) >= MaxQueue, RecordDropped) \in Seq(AppActions)
            /\ When(Len(q) >= MaxQueue, RecordDropped) \in Seq(AppActions)
        BY PublishedTyped, WhenTyped
      <3>5. out' \in Seq(AppActions)
        BY <3>1, <3>4, ConcatTyped, Zenon
      <3> QED BY <1>1, <1>2, <3>1, <3>3, <3>5
    <2> QED BY <2>1, <2>2, <2>3 DEF OnMqttCommand
  <1> QED BY <1>3 DEF TypeOK, OnMqttCommand, sessionVars, statusVars, monitorVars

(* start_pump_timer and force_publish. *)
LEMMA RequestTyped ==
    ASSUME TypeOK,
           \/ \E pump \in Pumps, duration \in Durations : StartPumpTimer(pump, duration)
           \/ ForcePublish
    PROVE  TypeOK'
  <1>1. ASSUME NEW pump \in Pumps, NEW duration \in Durations,
               StartPumpTimer(pump, duration)
        PROVE  TypeOK'
    <2>1. [startedAt |-> 0, duration |-> duration] \in PumpTimers
      BY TimerAssumption DEF PumpTimers, Ages
    <2>2. timers' \in [Pumps -> PumpTimers]
      BY <1>1, <2>1 DEF StartPumpTimer, StartTimer, TypeOK
    <2>3. Toggle(pump) \in Commands
      BY ItemAssumption DEF Toggle, Command, Commands, ToggleItems, UntrackedItem, Pumps
    <2>4. out' \in Seq(AppActions)
      BY <1>1, <2>3, SentFramesTyped, SingletonTyped, Zenon DEF StartPumpTimer
    <2> QED BY <1>1, <2>2, <2>4
            DEF StartPumpTimer, TypeOK, sessionVars, statusVars, monitorVars
  <1>2. ASSUME ForcePublish PROVE TypeOK'
    <2>1. PublishState(FALSE, reg.state) \in AppActions
      BY PublishedTyped DEF TypeOK, RegistrationMachines
    <2>2. out' \in Seq(AppActions)
      BY <1>2, <2>1, WhenTyped DEF ForcePublish
    <2> QED BY <1>2, <2>2
            DEF ForcePublish, TypeOK, sessionVars, commandVars, statusVars, monitorVars
  <1> QED BY <1>1, <1>2

(* tick. *)
LEMMA TickTyped ==
    ASSUME TypeOK, Tick
    PROVE  TypeOK'
  <1>1. reg' \in RegistrationMachines
    BY DEF Tick, TypeOK, RegReset, RegistrationMachines, RegistrationStates
  <1>2. /\ regStarted' \in Ages(RegTimeout) /\ lastCts' \in Ages(CtsLoss)
        /\ probeAge' \in Ages(ProbeInterval) /\ diagAge' \in Ages(DiagInterval)
    BY SpaAppAssumption DEF Tick, TypeOK, StartedAfterTimeout, Ages
  <1>3. /\ clientId' \in Channels \cup {None}
        /\ queue' \in Seq(Commands) /\ pending' \in Seq(PendingCommands)
    BY DEF Tick, TypeOK
  <1>4. timers' \in [Pumps -> PumpTimers]
    <2>1. \A t \in PumpTimers : [t EXCEPT !.startedAt = None] \in PumpTimers
      BY DEF PumpTimers, Ages
    <2>2. CancelAll(timers) \in [Pumps -> PumpTimers]
      BY <2>1 DEF CancelAll, TypeOK
    <2> QED BY <2>2 DEF Tick, TypeOK
  <1>5. wasStale' \in BOOLEAN /\ noQueryAlert' \in BOOLEAN
    BY DEF Tick, TypeOK
  <1>6. out' \in Seq(AppActions)
    <2> DEFINE a1 == When(RegistrationTimedOut, PublishAlert("registration_timeout"))
               a2 == When(NoQuerySeen, PublishAlert("no_registration_query"))
               a3 == When(CtsLost, PublishAlert("cts_loss"))
               a4 == When(ProbeDue /\ clientId # None /\ ~CtsLost,
                          SendFrame(NothingToSend(clientId)))
               a5 == When(GoesStale, PublishAlert("spa_communication_lost"))
               a6 == When(GoesStale /\ lastStatus # NoStatus,
                          PublishState(FALSE, "WaitingForQuery"))
               a7 == When(GoesStale /\ lastStatus # NoStatus, PublishStaleAvailability)
               a8 == When(DiagDue, PublishDiagnostics)
    <2>1. out' = a1 \o a2 \o a3 \o a4 \o a5 \o a6 \o a7 \o a8
      BY DEF Tick
    <2>2. /\ a1 \in Seq(AppActions) /\ a2 \in Seq(AppActions) /\ a3 \in Seq(AppActions)
          /\ a5 \in Seq(AppActions) /\ a7 \in Seq(AppActions) /\ a8 \in Seq(AppActions)
      BY PublishedTyped, WhenTyped
    <2>3. a6 \in Seq(AppActions)
      BY PublishedTyped, WhenTyped DEF RegistrationStates
    <2>4. a4 \in Seq(AppActions)
      <3>1. CASE clientId = None
        BY <3>1 DEF When
      <3>2. CASE clientId # None
        <4>1. SendFrame(NothingToSend(clientId)) \in AppActions
          BY <3>2, SentFramesTyped DEF TypeOK
        <4> QED BY <4>1, WhenTyped
      <3> QED BY <3>1, <3>2
    <2> HIDE DEF a1, a2, a3, a4, a5, a6, a7, a8
    <2> QED BY <2>1, <2>2, <2>3, <2>4, ConcatTyped, Zenon
  <1> QED BY <1>1, <1>2, <1>3, <1>4, <1>5, <1>6 DEF Tick, TypeOK

(* Time passes. *)
LEMMA AdvanceTyped ==
    ASSUME TypeOK, Advance
    PROVE  TypeOK'
  <1>1. /\ regStarted' \in Ages(RegTimeout) /\ lastCts' \in Ages(CtsLoss)
        /\ statusAge' \in Ages(StaleThreshold) /\ probeAge' \in Ages(ProbeInterval)
        /\ diagAge' \in Ages(DiagInterval)
    BY OlderTyped, SpaAppAssumption DEF Advance, TypeOK
  <1>2. bootAge' \in 0 .. StaleThreshold
    BY SpaAppAssumption DEF Advance, TypeOK, Older, None
  <1>3. pending' \in Seq(PendingCommands)
    <2>1. \A a \in 0 .. AckTimeout : Older(a, AckTimeout) \in 0 .. AckTimeout
      BY TrackerAssumption DEF Older, None
    <2>2. \A e \in PendingCommands :
              [e EXCEPT !.sentAt = Older(e.sentAt, AckTimeout)] \in PendingCommands
      BY <2>1 DEF PendingCommands
    <2>3. \A i \in DOMAIN pending : pending[i] \in PendingCommands
      BY DEF TypeOK
    <2>4. \A i \in 1 .. Len(pending) :
              [pending[i] EXCEPT !.sentAt = Older(pending[i].sentAt, AckTimeout)]
                 \in PendingCommands
      BY <2>2, <2>3 DEF TypeOK
    <2>5. pending' = [i \in 1 .. Len(pending) |->
              [pending[i] EXCEPT !.sentAt = Older(pending[i].sentAt, AckTimeout)]]
      BY DEF Advance, TypeOK
    <2>6. Len(pending) \in Nat
      BY DEF TypeOK
    <2> QED BY <2>4, <2>5, <2>6
  <1>4. timers' \in [Pumps -> PumpTimers]
    <2>1. \A t \in PumpTimers :
              [t EXCEPT !.startedAt = Older(t.startedAt, t.duration)] \in PumpTimers
      BY OlderTyped, TimerAssumption DEF PumpTimers, Ages
    <2> QED BY <2>1 DEF Advance, OlderTimers, TypeOK
  <1>5. hold' \in HoldTimers
    <2>1. Older(hold.enteredAt, HoldTimeout) \in Ages(HoldTimeout)
      BY OlderTyped, TimerAssumption DEF TypeOK, HoldTimers
    <2> QED BY <2>1 DEF Advance, OlderHold, TypeOK, HoldTimers
  <1>6. out' \in Seq(AppActions)
    BY DEF Advance
  <1> QED BY <1>1, <1>2, <1>3, <1>4, <1>5, <1>6 DEF Advance, TypeOK

(* Every call keeps the controller well typed.                             *)
LEMMA NextTyped == TypeOK /\ [AppNext]_appVars => TypeOK'
  <1> SUFFICES ASSUME TypeOK, [AppNext]_appVars PROVE TypeOK'
    OBVIOUS
  <1>1. ASSUME NEW f \in Frames, ProcessFrame(f) PROVE TypeOK'
    BY <1>1, ProcessRegistrationTyped, ProcessStatusTyped, ProcessReadyTyped,
       ProcessOtherTyped DEF ProcessFrame
  <1>2. CASE UNCHANGED appVars
    BY <1>2 DEF appVars, sessionVars, commandVars, statusVars, monitorVars, TypeOK
  <1> QED BY <1>1, <1>2, OnMqttCommandTyped, RequestTyped, TickTyped, AdvanceTyped
          DEF AppNext

(* The controller is well typed for ever, whatever frames and commands     *)
(* arrive: in particular no age passes its threshold and no entry of the   *)
(* tracker is ever sent more than 1 + MAX_COMMAND_RETRIES times.           *)
THEOREM TypeCorrect == AppSpec => []TypeOK
  BY InitTyped, NextTyped, PTL DEF AppSpec

-----------------------------------------------------------------------------
(* The session. *)

(* The handshake keeps the session invariant. *)
LEMMA RegistrationKeepsSession ==
    ASSUME TypeOK, SessionInv, NEW f \in Frames, ProcessRegistration(f)
    PROVE  SessionInv'
  <1> DEFINE step == RegProcess(reg, ParseRegistration(f))
  <1>1. f \in BusFrames /\ reg \in RegistrationMachines /\ ~IsRegistered(reg)
    BY SpaAppAssumption DEF TypeOK, ProcessRegistration
  <1>2. /\ step.sm \in RegistrationMachines
        /\ step.sm.prev = reg.prev
        /\ step.action \in RegistrationActions
        /\ step.action = "SendClientIdAck" => f.ch \in Channels /\ IsRegistered(step.sm)
        /\ step.action = "SendExistingClientRequest" =>
              reg.prev # None /\ ~IsRegistered(step.sm)
        /\ step.action = "SendNewClientResponse" => ~IsRegistered(step.sm)
        /\ step.action = "None" =>
              \/ step.sm = reg
              \/ IsRegistered(step.sm) /\ reg.state = "WaitingForExistingResponse"
        /\ step.sm.state = "WaitingForExistingResponse" =>
              step.sm = reg \/ step.action = "SendExistingClientRequest"
    BY <1>1, RegProcessStep
  <1>3. /\ reg' = step.sm
        /\ regStarted' = StartedAfter(step.action)
        /\ clientId' = ClientIdAfter(step.action, f)
        /\ lastCts' = lastCts /\ pending' = pending
    BY DEF ProcessRegistration, commandVars
  <1> HIDE DEF step
  <1>4. clientId = None /\ lastCts = None /\ pending = <<>>
    BY <1>1 DEF SessionInv, NothingOutlivesSession
  <1>5. step.action = "SendClientIdAck" => clientId' # None
    BY <1>2, <1>3, ChannelsAssumption, NoneIsNotNat DEF ClientIdAfter
  <1>6. NothingOutlivesSession'
    BY <1>2, <1>3, <1>4 DEF NothingOutlivesSession, ClientIdAfter
  <1>7. NewClientKnowsChannel'
    BY <1>1, <1>2, <1>3, <1>5
       DEF NewClientKnowsChannel, SessionInv, ExistingHasChannel, RegistrationActions
  <1>8. HandshakeHasDeadline'
    <2>1. CASE step.action \in {"SendNewClientResponse", "SendExistingClientRequest"}
      BY <1>3, <2>1 DEF HandshakeHasDeadline, StartedAfter, None
    <2>2. CASE step.action = "SendClientIdAck"
      BY <1>2, <1>3, <2>2 DEF HandshakeHasDeadline, IsRegistered
    <2>3. CASE step.action = "None"
      <3>1. regStarted' = regStarted
        BY <1>3, <2>3 DEF StartedAfter
      <3> QED BY <1>2, <1>3, <2>3, <3>1 DEF HandshakeHasDeadline, SessionInv, IsRegistered
    <2> QED BY <1>2, <2>1, <2>2, <2>3 DEF RegistrationActions
  <1>9. ExistingHasChannel'
    BY <1>2, <1>3 DEF ExistingHasChannel, SessionInv
  <1> QED BY <1>6, <1>7, <1>8, <1>9 DEF SessionInv

(* tick keeps the session invariant: a reset clears the client id, the CTS *)
(* time and the tracker in the same call, and a registration timeout only  *)
(* happens when they are clear already.                                    *)
LEMMA TickKeepsSession ==
    ASSUME TypeOK, SessionInv, Tick
    PROVE  SessionInv'
  <1>1. reg \in RegistrationMachines
    BY DEF TypeOK
  <1>2. CASE SessionReset
    <2>1. /\ reg' = RegReset(reg)
          /\ clientId' = None /\ lastCts' = None /\ pending' = <<>>
      BY <1>2 DEF Tick
    <2> QED BY <1>1, <2>1
            DEF SessionInv, NothingOutlivesSession, NewClientKnowsChannel,
                HandshakeHasDeadline, ExistingHasChannel, RegReset, IsRegistered,
                RegistrationMachines
  <1>3. CASE ~SessionReset /\ RegistrationTimedOut
    <2>1. /\ reg' = RegReset(reg) /\ ~IsRegistered(reg)
          /\ clientId' = clientId /\ lastCts' = lastCts /\ pending' = pending
      BY <1>3 DEF Tick, RegistrationTimedOut
    <2> QED BY <1>1, <2>1
            DEF SessionInv, NothingOutlivesSession, NewClientKnowsChannel,
                HandshakeHasDeadline, ExistingHasChannel, RegReset, IsRegistered,
                RegistrationMachines
  <1>4. CASE ~SessionReset /\ ~RegistrationTimedOut
    <2>1. /\ reg' = reg /\ clientId' = clientId /\ lastCts' = lastCts
          /\ pending' = pending
          /\ ~IsRegistered(reg) => regStarted' = regStarted
      BY <1>4 DEF Tick, StartedAfterTimeout
    <2> QED BY <1>1, <2>1
            DEF SessionInv, NothingOutlivesSession, NewClientKnowsChannel,
                HandshakeHasDeadline, ExistingHasChannel, IsRegistered
  <1> QED BY <1>2, <1>3, <1>4

(* Every call keeps the session invariant. *)
LEMMA NextKeepsSession ==
    TypeOK /\ SessionInv /\ [AppNext]_appVars => SessionInv'
  <1> SUFFICES ASSUME TypeOK, SessionInv, [AppNext]_appVars PROVE SessionInv'
    OBVIOUS
  <1> USE DEF SessionInv, NothingOutlivesSession, NewClientKnowsChannel,
              HandshakeHasDeadline, ExistingHasChannel
  <1>1. ASSUME NEW f \in Frames, ProcessStatus(f) \/ ProcessReady(f) \/ IgnoreFrame(f)
        PROVE  SessionInv'
    BY <1>1 DEF ProcessStatus, ProcessReady, IgnoreFrame, sessionVars, IsRegistered
  <1>2. ASSUME NEW f \in Frames, ProcessAssignment(f) PROVE SessionInv'
    <2>1. f.ch \in Channels
      BY <1>2, ParsedChannel, SpaAppAssumption DEF ProcessAssignment
    <2> QED BY <1>2, <2>1, ChannelsAssumption, NoneIsNotNat
            DEF ProcessAssignment, IsRegistered
  <1>3. ASSUME \/ \E cmd \in UserCommands : OnMqttCommand(cmd)
               \/ \E pump \in Pumps, duration \in Durations :
                     StartPumpTimer(pump, duration)
               \/ ForcePublish
        PROVE  SessionInv'
    BY <1>3 DEF OnMqttCommand, StartPumpTimer, ForcePublish, sessionVars, commandVars
  <1>4. ASSUME Advance PROVE SessionInv'
    <2>1. /\ regStarted' = None <=> regStarted = None
          /\ lastCts' = None <=> lastCts = None
      BY <1>4, OlderTyped, SpaAppAssumption DEF Advance, TypeOK
    <2>2. pending = <<>> => pending' = <<>>
      BY <1>4 DEF Advance
    <2> QED BY <1>4, <2>1, <2>2 DEF Advance
  <1>5. CASE UNCHANGED appVars
    BY <1>5 DEF appVars, sessionVars, commandVars
  <1> HIDE DEF SessionInv
  <1> QED BY <1>1, <1>2, <1>3, <1>4, <1>5, RegistrationKeepsSession, TickKeepsSession
          DEF AppNext, ProcessFrame

(* The session invariant holds from boot on. *)
THEOREM SessionCorrect == AppSpec => []SessionInv
  <1>1. AppInit => SessionInv
    BY DEF AppInit, RegNew, SessionInv, NothingOutlivesSession, NewClientKnowsChannel,
           HandshakeHasDeadline, ExistingHasChannel, IsRegistered
  <1> QED BY <1>1, NextKeepsSession, TypeCorrect, PTL DEF AppSpec

(* The state of the controller is sound in every state: typed, and its     *)
(* session and handshake as AppInv says.                                   *)
THEOREM AppCorrect == AppSpec => []AppInv
  BY TypeCorrect, SessionCorrect, PTL DEF AppInv

(* Nothing of a session outlives it: no frame, command or tick leaves a    *)
(* client id, a CTS time or a tracked command behind without registration. *)
THEOREM SessionIsClean == AppSpec => []NothingOutlivesSession
  BY SessionCorrect, PTL DEF SessionInv

(* A device registered as a new client always knows its channel.           *)
THEOREM NewClientChannel == AppSpec => []NewClientKnowsChannel
  BY SessionCorrect, PTL DEF SessionInv

(* A handshake that waits for the spa always has its timeout running.      *)
THEOREM HandshakeDeadline == AppSpec => []HandshakeHasDeadline
  BY SessionCorrect, PTL DEF SessionInv

-----------------------------------------------------------------------------
(* The command tracker is sound.  SoundTable is PendingSound of a table.   *)

SameEffect(a, b) == a.expected = b.expected
Matches(e) == e.expected.kind = e.command.kind /\ e.expected.arg = e.command.arg
SoundTable(p) ==
    /\ Len(p) <= MaxPending
    /\ \A i, j \in DOMAIN p : i # j => ~SameEffect(p[i], p[j])
    /\ \A i \in DOMAIN p : Matches(p[i])

(* PendingSound says that the tracker's table is sound. *)
LEMMA SoundTablePending == PendingSound <=> SoundTable(pending)
  BY DEF PendingSound, PendingDistinct, PendingMatchesCommand, SoundTable, SameEffect, Matches

(* track waits for a change once: it finds the entry that waits for it     *)
(* already (CommandTracker::track).                                        *)
LEMMA TrackSound ==
    ASSUME NEW p \in Seq(PendingCommands), SoundTable(p),
           NEW cmd \in Commands, NEW s \in Statuses
    PROVE  SoundTable(Track(p, cmd, s))
  <1> DEFINE x == FromCommand(cmd, s)
  <1>0. x.kind = cmd.kind /\ x.arg = cmd.arg
    BY DEF FromCommand
  <1>1. CASE ~HasExpectedChange(cmd)
    BY <1>1 DEF Track
  <1>2. CASE HasExpectedChange(cmd) /\ SameExpected(p, cmd, s) # {}
    <2> DEFINE i == Min(SameExpected(p, cmd, s))
               t == Track(p, cmd, s)
    <2>1. t = [p EXCEPT ![i].command = cmd, ![i].sentAt = 0]
      BY <1>2 DEF Track
    <2>2. i \in 1 .. Len(p) /\ p[i].expected = x
      <3>1. SameExpected(p, cmd, s) \in SUBSET Nat
        BY DEF SameExpected
      <3>2. i \in SameExpected(p, cmd, s)
        BY <1>2, <3>1, LeastIndex
      <3> QED BY <3>2 DEF SameExpected
    <2> HIDE DEF i, t, x
    <2>3. p[i] \in PendingCommands
      BY <2>2
    <2>4. t = [p EXCEPT ![i] = [[p[i] EXCEPT !.command = cmd] EXCEPT !.sentAt = 0]]
      BY <2>1, <2>2
    <2>5. /\ DOMAIN t = 1 .. Len(p) /\ Len(t) = Len(p)
          /\ \A j \in 1 .. Len(p) : j # i => t[j] = p[j]
          /\ t[i].expected = x /\ t[i].command = cmd
      BY <2>2, <2>3, <2>4 DEF PendingCommands
    <2>6. \A j \in 1 .. Len(p) : t[j].expected = p[j].expected
      BY <2>2, <2>5
    <2>7. \A j \in DOMAIN t : Matches(t[j])
      BY <1>0, <2>5 DEF Matches, SoundTable
    <2>8. \A j, k \in DOMAIN t : j # k => ~SameEffect(t[j], t[k])
      BY <2>5, <2>6 DEF SameEffect, SoundTable
    <2>9. Len(t) <= MaxPending
      BY <2>5 DEF SoundTable
    <2>10. SoundTable(t)
      BY <2>7, <2>8, <2>9 DEF SoundTable
    <2> QED BY <2>10 DEF t
  <1>3. CASE HasExpectedChange(cmd) /\ SameExpected(p, cmd, s) = {}
    <2> DEFINE e == NewPending(cmd, s)
    <2>1. e.expected = x /\ e.command = cmd
      BY DEF NewPending
    <2>2. \A j \in 1 .. Len(p) : p[j].expected # x
      BY <1>3 DEF SameExpected
    <2>3. CASE Len(p) >= MaxPending
      BY <1>3, <2>3 DEF Track
    <2>4. CASE ~(Len(p) >= MaxPending)
      <3> DEFINE t == Append(p, e)
      <3>1. Track(p, cmd, s) = t
        BY <1>3, <2>4 DEF Track
      <3> HIDE DEF e, x
      <3>2. /\ DOMAIN t = 1 .. Len(p) + 1 /\ Len(t) = Len(p) + 1
            /\ \A j \in 1 .. Len(p) : t[j] = p[j]
            /\ t[Len(p) + 1] = e
        OBVIOUS
      <3> HIDE DEF t
      <3>3. Len(p) \in Nat /\ Len(p) + 1 <= MaxPending
        BY <2>4, TrackerAssumption
      <3>4. \A j \in DOMAIN t : Matches(t[j])
        BY <1>0, <2>1, <3>2, <3>3 DEF Matches, SoundTable
      <3>5. \A j \in 1 .. Len(p) : ~SameEffect(t[j], e) /\ ~SameEffect(e, t[j])
        BY <2>1, <2>2, <3>2 DEF SameEffect
      <3>6. \A j, k \in DOMAIN t : j # k => ~SameEffect(t[j], t[k])
        <4> SUFFICES ASSUME NEW j \in 1 .. Len(p) + 1, NEW k \in 1 .. Len(p) + 1, j # k
                     PROVE  ~SameEffect(t[j], t[k])
          BY <3>2
        <4>1. CASE j = Len(p) + 1 \/ k = Len(p) + 1
          BY <3>2, <3>3, <3>5, <4>1
        <4>2. CASE j \in 1 .. Len(p) /\ k \in 1 .. Len(p)
          BY <3>2, <4>2 DEF SoundTable
        <4> QED BY <3>3, <4>1, <4>2
      <3>7. SoundTable(t)
        BY <3>2, <3>3, <3>4, <3>6 DEF SoundTable
      <3> QED BY <3>1, <3>7
    <2> QED BY <2>3, <2>4
  <1> QED BY <1>1, <1>2, <1>3

(* verify keeps some of the entries, each once, with the change they wait  *)
(* for and their command (CommandTracker::verify).                         *)
LEMMA VerifySound ==
    ASSUME NEW p \in Seq(PendingCommands), SoundTable(p), NEW s \in Statuses,
           NEW v \in Verify(p, s)
    PROVE  SoundTable(v.pending)
  <1> DEFINE keepSet == Survivors(p, s)
             n == Cardinality(keepSet)
  <1>1. keepSet \in SUBSET (1 .. Len(p)) /\ Len(p) \in Nat
    BY DEF Survivors, ToRetry, Overdue
  <1>2. n \in Nat /\ n <= Len(p)
    <2>1. IsFiniteSet(1 .. Len(p)) /\ Cardinality(1 .. Len(p)) = Len(p)
      BY <1>1, FS_Interval
    <2> HIDE DEF keepSet
    <2> QED BY <1>1, <2>1, FS_Subset, FS_CardinalityType
  <1>3. PICK keep \in Increasing(keepSet) : v.pending = VerifyPending(p, s, keep)
    BY DEF Verify
  <1>4. /\ keep \in [1 .. n -> keepSet]
        /\ \A i, j \in 1 .. n : i < j => keep[i] < keep[j]
    BY DEF Increasing
  <1>5. \A i \in keepSet : /\ AfterVerify(p, s, i).expected = p[i].expected
                           /\ AfterVerify(p, s, i).command = p[i].command
    <2> SUFFICES ASSUME NEW i \in keepSet
                 PROVE  /\ AfterVerify(p, s, i).expected = p[i].expected
                        /\ AfterVerify(p, s, i).command = p[i].command
      OBVIOUS
    <2>1. p[i] \in PendingCommands
      BY <1>1
    <2> QED BY <2>1 DEF AfterVerify, PendingCommands
  <1>6. v.pending = [k \in 1 .. n |-> AfterVerify(p, s, keep[k])]
    BY <1>3 DEF VerifyPending
  <1> HIDE DEF keepSet, n
  <1>7. /\ DOMAIN v.pending = 1 .. n /\ Len(v.pending) = n
        /\ \A k \in 1 .. n : /\ v.pending[k].expected = p[keep[k]].expected
                             /\ v.pending[k].command = p[keep[k]].command
    BY <1>2, <1>4, <1>5, <1>6
  <1>8. \A i, j \in 1 .. n : i # j => keep[i] # keep[j] /\ keep[i] \in 1 .. Len(p)
    <2> SUFFICES ASSUME NEW i \in 1 .. n, NEW j \in 1 .. n, i # j
                 PROVE  keep[i] # keep[j] /\ keep[i] \in 1 .. Len(p)
      OBVIOUS
    <2>1. keep[i] \in 1 .. Len(p) /\ keep[j] \in 1 .. Len(p)
      BY <1>1, <1>4
    <2>2. i < j \/ j < i
      BY <1>2
    <2> QED BY <1>4, <2>1, <2>2
  <1>9. \A i, j \in 1 .. n : i # j => ~SameEffect(v.pending[i], v.pending[j])
    BY <1>1, <1>4, <1>7, <1>8 DEF SoundTable, SameEffect
  <1>10. \A i \in 1 .. n : Matches(v.pending[i])
    <2> SUFFICES ASSUME NEW i \in 1 .. n PROVE Matches(v.pending[i])
      OBVIOUS
    <2>1. keep[i] \in keepSet
      BY <1>4
    <2>2. keep[i] \in 1 .. Len(p)
      BY <1>1, <2>1
    <2>3. DOMAIN p = 1 .. Len(p)
      OBVIOUS
    <2>4. Matches(p[keep[i]])
      BY <2>2, <2>3 DEF SoundTable
    <2> QED BY <1>7, <2>4 DEF Matches
  <1>11. Len(v.pending) <= MaxPending
    BY <1>1, <1>2, <1>7, TrackerAssumption DEF SoundTable
  <1> QED BY <1>7, <1>9, <1>10, <1>11 DEF SoundTable

(* Every call keeps the tracker sound. *)
LEMMA NextKeepsPending ==
    TypeOK /\ PendingSound /\ [AppNext]_appVars => PendingSound'
  <1> SUFFICES ASSUME TypeOK, SoundTable(pending), [AppNext]_appVars
               PROVE  SoundTable(pending')
    BY SoundTablePending, Zenon DEF PendingSound, PendingDistinct, PendingMatchesCommand,
       SoundTable, SameEffect, Matches
  <1>1. pending \in Seq(PendingCommands) /\ queue \in Seq(Commands)
    BY DEF TypeOK
  <1>2. ASSUME NEW f \in Frames, ProcessStatus(f) PROVE SoundTable(pending')
    <2>1. f.status \in Statuses
      BY <1>2, SpaAppAssumption, StatusFrameCarriesStatus DEF ProcessStatus
    <2>2. PICK v \in Verify(pending, f.status) : pending' = v.pending
      BY <1>2 DEF ProcessStatus
    <2> QED BY <1>1, <2>1, <2>2, VerifySound
  <1>3. ASSUME NEW f \in Frames, ProcessReady(f) PROVE SoundTable(pending')
    <2>1. CASE queue # <<>> /\ lastStatus # NoStatus
      <3>1. pending' = Track(pending, Head(queue), lastStatus)
        BY <1>3, <2>1 DEF ProcessReady
      <3>2. Head(queue) \in Commands /\ lastStatus \in Statuses
        BY <1>1, <2>1 DEF TypeOK
      <3> QED BY <1>1, <3>1, <3>2, TrackSound
    <2>2. CASE ~(queue # <<>> /\ lastStatus # NoStatus)
      <3>1. pending' = pending
        BY <1>3, <2>2 DEF ProcessReady
      <3> QED BY <3>1
    <2> QED BY <2>1, <2>2
  <1>4. SoundTable(<<>>)
    BY TrackerAssumption DEF SoundTable
  <1>5. ASSUME Tick PROVE SoundTable(pending')
    <2>1. pending' = <<>> \/ pending' = pending
      BY <1>5 DEF Tick
    <2> QED BY <1>4, <2>1
  <1>6. ASSUME Advance PROVE SoundTable(pending')
    <2>1. pending' = [i \in 1 .. Len(pending) |->
              [pending[i] EXCEPT !.sentAt = Older(pending[i].sentAt, AckTimeout)]]
      BY <1>1, <1>6 DEF Advance
    <2>2. \A i \in 1 .. Len(pending) : pending[i] \in PendingCommands
      BY <1>1
    <2>3. \A i \in 1 .. Len(pending) :
              /\ pending'[i].expected = pending[i].expected
              /\ pending'[i].command = pending[i].command
      BY <2>1, <2>2 DEF PendingCommands
    <2>4. DOMAIN pending' = 1 .. Len(pending) /\ Len(pending') = Len(pending)
      BY <1>1, <2>1
    <2> QED BY <1>1, <2>3, <2>4 DEF SoundTable, SameEffect, Matches
  <1>7. CASE UNCHANGED pending
    <2>1. pending' = pending
      BY <1>7
    <2> QED BY <2>1
  <1>8. ASSUME \/ UNCHANGED appVars
               \/ \E f \in Frames : ProcessRegistration(f) \/ ProcessAssignment(f) \/ IgnoreFrame(f)
               \/ \E cmd \in UserCommands : OnMqttCommand(cmd)
               \/ \E pump \in Pumps, duration \in Durations : StartPumpTimer(pump, duration)
               \/ ForcePublish
        PROVE  UNCHANGED pending
    BY <1>8 DEF appVars, commandVars, ProcessRegistration, ProcessAssignment, IgnoreFrame,
                OnMqttCommand, StartPumpTimer, ForcePublish
  <1> QED BY <1>2, <1>3, <1>5, <1>6, <1>7, <1>8 DEF AppNext, ProcessFrame

(* The tracker waits for each change once, within its limit, and for the   *)
(* effect of the command it would send again, whatever retries and         *)
(* statuses came in between (track, verify).                               *)
THEOREM PendingIsSound == AppSpec => []PendingSound
  <1>1. AppInit => PendingSound
    BY TrackerAssumption DEF AppInit, PendingSound, PendingDistinct, PendingMatchesCommand
  <1> QED BY <1>1, NextKeepsPending, TypeCorrect, PTL DEF AppSpec

-----------------------------------------------------------------------------
(* The timers. *)

(* A status that is kept has an age.  Without it a timer started now could *)
(* not be compared with the status.                                        *)
StatusHasAge == lastStatus # NoStatus => statusAge # None
TimersInv == StatusHasAge /\ TimerForRunningPump

(* A status cancels the timer of every pump it shows off (tick_all). *)
LEMMA StatusKeepsTimers ==
    ASSUME TypeOK, NEW f \in Frames, ProcessStatus(f)
    PROVE  TimersInv'
  <1>1. /\ lastStatus' = f.status /\ statusAge' = 0
        /\ timers' = AfterTickAll(timers, f.status)
    BY DEF ProcessStatus
  <1>2. \A i \in Pumps : timers[i] \in PumpTimers
    BY DEF TypeOK
  <1>3. \A i \in Pumps : f.status.items[i] = 0 => timers'[i].startedAt = None
    BY <1>1, <1>2 DEF AfterTickAll, PumpTimers
  <1> QED BY <1>1, <1>3 DEF TimersInv, StatusHasAge, TimerForRunningPump, None

(* A timer and the status grow older together. *)
LEMMA AdvanceKeepsTimers ==
    ASSUME TypeOK, TimersInv, Advance
    PROVE  TimersInv'
  <1>1. /\ lastStatus' = lastStatus /\ statusAge' = Older(statusAge, StaleThreshold)
        /\ timers' = OlderTimers(timers)
    BY DEF Advance
  <1>2. statusAge \in Ages(StaleThreshold) /\ StaleThreshold \in Nat
    BY SpaAppAssumption DEF TypeOK
  <1>3. statusAge' = None <=> statusAge = None
    BY <1>1, <1>2, OlderTyped
  <1>4. ASSUME NEW i \in Pumps, timers'[i].startedAt # None, lastStatus # NoStatus,
               lastStatus.items[i] = 0
        PROVE  timers'[i].startedAt <= statusAge' \/ statusAge' = StaleThreshold
    <2>1. /\ timers[i] \in PumpTimers /\ timers[i].duration \in Nat
          /\ timers[i].startedAt \in Ages(timers[i].duration)
      BY TimerAssumption DEF TypeOK, PumpTimers
    <2>2. timers'[i].startedAt = Older(timers[i].startedAt, timers[i].duration)
      BY <1>1, <2>1 DEF OlderTimers, PumpTimers
    <2>3. timers[i].startedAt # None
      BY <1>4, <2>1, <2>2, OlderTyped
    <2>4. timers[i].startedAt <= statusAge \/ statusAge = StaleThreshold
      BY <1>4, <2>3 DEF TimersInv, TimerForRunningPump
    <2>5. statusAge # None
      BY <1>4 DEF TimersInv, StatusHasAge
    <2>6. timers[i].startedAt \in Nat /\ statusAge \in 0 .. StaleThreshold
      BY <2>1, <2>3, <2>5, <1>2 DEF Ages
    <2>7. timers'[i].startedAt <= timers[i].startedAt + 1 /\ timers'[i].startedAt \in Nat
      BY <2>1, <2>2, <2>6 DEF Older
    <2>8. CASE statusAge = StaleThreshold
      BY <1>1, <1>2, <2>8 DEF Older
    <2>9. CASE statusAge # StaleThreshold
      <3>1. statusAge' = statusAge + 1
        BY <1>1, <1>2, <2>5, <2>6, <2>9 DEF Older
      <3> QED BY <2>4, <2>6, <2>7, <2>9, <3>1
    <2> QED BY <2>8, <2>9
  <1> QED BY <1>1, <1>3, <1>4 DEF TimersInv, StatusHasAge, TimerForRunningPump

(* Every call keeps a timer to a pump that may be on. *)
LEMMA NextKeepsTimers == TypeOK /\ TimersInv /\ [AppNext]_appVars => TimersInv'
  <1> SUFFICES ASSUME TypeOK, TimersInv, [AppNext]_appVars PROVE TimersInv'
    OBVIOUS
  <1>1. ASSUME NEW pump \in Pumps, NEW duration \in Durations, StartPumpTimer(pump, duration)
        PROVE  TimersInv'
    <2>1. /\ timers' = [timers EXCEPT ![pump] = [startedAt |-> 0, duration |-> duration]]
          /\ UNCHANGED <<lastStatus, statusAge>>
      BY <1>1 DEF StartPumpTimer, StartTimer, statusVars
    <2>2. timers \in [Pumps -> PumpTimers] /\ statusAge \in Ages(StaleThreshold)
      BY DEF TypeOK
    <2>3. \A i \in Pumps : timers'[i] = timers[i] \/ timers'[i].startedAt = 0
      BY <2>1, <2>2
    <2>4. lastStatus # NoStatus => 0 <= statusAge
      BY <2>2, SpaAppAssumption DEF TimersInv, StatusHasAge, Ages
    <2> QED BY <2>1, <2>3, <2>4 DEF TimersInv, StatusHasAge, TimerForRunningPump
  <1>2. ASSUME Tick PROVE TimersInv'
    <2>1. UNCHANGED <<lastStatus, statusAge>> /\ timers' \in {CancelAll(timers), timers}
      BY <1>2 DEF Tick
    <2>2. \A i \in Pumps : timers'[i] = timers[i] \/ timers'[i].startedAt = None
      BY <2>1 DEF CancelAll, TypeOK, PumpTimers
    <2> QED BY <2>1, <2>2 DEF TimersInv, StatusHasAge, TimerForRunningPump
  <1>3. ASSUME \/ UNCHANGED appVars
               \/ \E f \in Frames : \/ ProcessRegistration(f) \/ ProcessReady(f)
                                    \/ ProcessAssignment(f) \/ IgnoreFrame(f)
               \/ \E cmd \in UserCommands : OnMqttCommand(cmd)
               \/ ForcePublish
        PROVE  TimersInv'
    <2>1. UNCHANGED <<timers, lastStatus, statusAge>>
      BY <1>3 DEF appVars, commandVars, statusVars, ProcessRegistration, ProcessReady,
                  ProcessAssignment, IgnoreFrame, OnMqttCommand, ForcePublish
    <2> QED BY <2>1 DEF TimersInv, StatusHasAge, TimerForRunningPump
  <1> QED BY <1>1, <1>2, <1>3, StatusKeepsTimers, AdvanceKeepsTimers DEF AppNext, ProcessFrame

(* A running timer belongs to a pump that is on as far as the controller   *)
(* knows, however statuses, user requests and time interleave (tick_all,   *)
(* start_pump_timer).                                                      *)
THEOREM TimersBelongToRunningPumps == AppSpec => []TimerForRunningPump
  <1>1. AppInit => TimersInv
    BY DEF AppInit, NewPumpTimer, TimersInv, StatusHasAge, TimerForRunningPump
  <1>2. TimersInv => TimerForRunningPump
    BY DEF TimersInv
  <1> QED BY <1>1, <1>2, NextKeepsTimers, TypeCorrect, PTL DEF AppSpec

-----------------------------------------------------------------------------
(* The command queue. *)

(* What is put behind a sequence leaves it as a prefix. *)
LEMMA PrefixConcat ==
    ASSUME NEW S, NEW s \in Seq(S), NEW t \in Seq(S)
    PROVE  IsPrefix(s, s \o t)
  <1>1. Len(s \o t) = Len(s) + Len(t) /\ Len(s) \in Nat /\ Len(t) \in Nat
    OBVIOUS
  <1>2. \A i \in 1 .. Len(s) : (s \o t)[i] = s[i]
    OBVIOUS
  <1>3. SubSeq(s, 1, Len(s)) = SubSeq(s \o t, 1, Len(s))
    BY <1>1, <1>2
  <1> QED BY <1>1, <1>3 DEF IsPrefix

(* A sequence is a prefix of itself, and of itself with one more element. *)
LEMMA PrefixPush ==
    ASSUME NEW S, NEW s \in Seq(S), NEW a \in S
    PROVE  IsPrefix(s, s) /\ IsPrefix(s, Append(s, a))
  <1>1. SubSeq(s, 1, Len(s)) = SubSeq(Append(s, a), 1, Len(s))
    BY SMTT(20)
  <1> QED BY <1>1 DEF IsPrefix

(* To be a prefix is transitive. *)
LEMMA PrefixTransitive ==
    ASSUME NEW S, NEW s \in Seq(S), NEW t \in Seq(S), NEW u \in Seq(S),
           IsPrefix(s, t), IsPrefix(t, u)
    PROVE  IsPrefix(s, u)
  <1>1. Len(s) <= Len(t) /\ Len(t) <= Len(u)
    BY DEF IsPrefix
  <1>2. \A i \in 1 .. Len(s) : s[i] = t[i]
    BY <1>1 DEF IsPrefix
  <1>3. \A i \in 1 .. Len(t) : t[i] = u[i]
    BY <1>1 DEF IsPrefix
  <1>4. \A i \in 1 .. Len(s) : s[i] = u[i]
    BY <1>1, <1>2, <1>3
  <1>5. SubSeq(s, 1, Len(s)) = SubSeq(u, 1, Len(s))
    BY <1>1, <1>4
  <1> QED BY <1>1, <1>5 DEF IsPrefix

(* What is put behind a sequence are the elements it has behind its old    *)
(* end.                                                                    *)
LEMMA AddedBehind ==
    ASSUME NEW S, NEW s \in Seq(S), NEW t \in Seq(S), NEW D, NEW n \in Nat, n <= Len(s),
           \A i \in n + 1 .. Len(s) : s[i] \in D, \A k \in 1 .. Len(t) : t[k] \in D
    PROVE  /\ Len(s \o t) = Len(s) + Len(t)
           /\ \A i \in n + 1 .. Len(s \o t) : (s \o t)[i] \in D
  <1>1. Len(s \o t) = Len(s) + Len(t) /\ Len(s) \in Nat /\ Len(t) \in Nat
    OBVIOUS
  <1>2. ASSUME NEW i \in n + 1 .. Len(s \o t) PROVE (s \o t)[i] \in D
    <2>1. CASE i <= Len(s)
      <3>1. i \in n + 1 .. Len(s) /\ i \in 1 .. Len(s)
        BY <1>1, <2>1
      <3>2. (s \o t)[i] = s[i]
        BY <3>1
      <3> QED BY <3>1, <3>2
    <2>2. CASE Len(s) < i
      <3>1. PICK k \in 1 .. Len(t) : k = i - Len(s)
        BY <1>1, <2>2
      <3>2. (s \o t)[i] = t[k]
        BY <1>1, <2>2, <3>1
      <3> QED BY <3>1, <3>2
    <2> QED BY <1>1, <2>1, <2>2
  <1> QED BY <1>1, <1>2

(* A condition adds an element or none. *)
LEMMA WhenAdds ==
    ASSUME NEW D, NEW cond, NEW a, cond => a \in D
    PROVE  /\ Len(When(cond, a)) \in Nat /\ Len(When(cond, a)) <= 1
           /\ \A k \in 1 .. Len(When(cond, a)) : When(cond, a)[k] \in D
  <1>1. CASE cond
    <2>1. PICK w : w = <<a>>
      OBVIOUS
    <2>2. Len(w) = 1 /\ w[1] = a
      BY <2>1
    <2>3. When(cond, a) = w
      BY <1>1, <2>1 DEF When
    <2>4. a \in D
      BY <1>1
    <2>5. Len(w) \in Nat /\ Len(w) <= 1 /\ \A k \in 1 .. Len(w) : w[k] \in D
      BY ONLY <2>2, <2>4
    <2> QED BY <2>3, <2>5
  <1>2. CASE ~cond
    <2>1. PICK w : w = <<>>
      OBVIOUS
    <2>2. Len(w) = 0
      BY <2>1
    <2>3. When(cond, a) = w
      BY <1>2, <2>1 DEF When
    <2> QED BY <2>2, <2>3
  <1> QED BY <1>1, <1>2

(* A queue that is left as it is grows by nothing.                         *)
LEMMA QueueRests ==
    ASSUME TypeOK, queue' = queue
    PROVE  QueueGrows
  <1>1. queue \in Seq(Commands)
    BY DEF TypeOK
  <1>2. IsPrefix(queue, queue)
    BY <1>1 DEF IsPrefix
  <1>3. PICK n \in Nat : n = Len(queue)
    BY <1>1
  <1>4. PICK m \in Nat : m = Len(pending)
    BY DEF TypeOK
  <1>5. n <= n + m + NumPumps + 1
    BY ItemAssumption
  <1>6. n + 1 .. n = {}
    OBVIOUS
  <1> QED BY <1>2, <1>3, <1>4, <1>5, <1>6 DEF QueueGrows

(* One call's effect on the queue, the relation QueueDiscipline asks of    *)
(* every step.                                                             *)
QueueStep ==
    \/ QueueGrows
    \/ queue # <<>> /\ queue' = Tail(queue)
         /\ Published(SendFrame(CommandFrame(Head(queue))))
    \/ IsRegistered(reg) /\ ~IsRegistered(reg') /\ queue' = <<>>
    \/ wasStale' /\ ~wasStale /\ queue' = <<>>
    \/ \E i \in DOMAIN queue : /\ queue[i].kind = "ToggleItem"
                               /\ queue' = RemoveAt(queue, i)
    \/ \E i \in DOMAIN queue, t \in Temps :
          /\ queue[i].kind = "SetTemperature"
          /\ queue' = [queue EXCEPT ![i] = SetTemperature(t)]

(* A status only puts commands behind those that wait: a retry of each     *)
(* overdue entry and a toggle of each expired timer (process_frame).       *)
LEMMA StatusKeepsQueue ==
    ASSUME TypeOK, NEW f \in Frames, ProcessStatus(f)
    PROVE  QueueGrows
  <1> DEFINE s == f.status
             dueSet == Expired(timers, s)
             isHold == s.items[HoldMode] = 1
  <1>1. s \in Statuses
    BY SpaAppAssumption, StatusFrameCarriesStatus DEF ProcessStatus
  <1>2. PICK v \in Verify(pending, s), due \in Increasing(dueSet) :
            queue' = queue \o v.retries
                       \o [k \in 1 .. Cardinality(dueSet) |-> Toggle(due[k])]
                       \o When(HoldFires(hold, isHold), Toggle(HoldMode))
    BY DEF ProcessStatus
  <1>3. v.retries \in Seq(Commands) /\ queue \in Seq(Commands)
    BY <1>1, VerifyTyped DEF TypeOK
  <1>4. \A i \in Pumps \cup {HoldMode} : Toggle(i) \in Commands
    BY ItemAssumption DEF Toggle, Command, Commands, ToggleItems, UntrackedItem, Pumps,
                          HoldMode
  <1>5. [k \in 1 .. Cardinality(dueSet) |-> Toggle(due[k])] \in Seq(Commands)
    <2>1. dueSet \in SUBSET (1 .. NumPumps)
      BY DEF Expired, Pumps
    <2>2. Cardinality(dueSet) \in Nat
      BY <2>1, ItemAssumption, IndexSetSize
    <2>3. \A k \in 1 .. Cardinality(dueSet) : due[k] \in dueSet
      BY DEF Increasing
    <2>4. \A k \in 1 .. Cardinality(dueSet) : Toggle(due[k]) \in Commands
      BY <1>4, <2>1, <2>3 DEF Pumps
    <2> HIDE DEF dueSet
    <2> QED BY <2>2, <2>4
  <1>6. When(HoldFires(hold, isHold), Toggle(HoldMode)) \in Seq(Commands)
    BY <1>4, WhenTyped
  <1> DEFINE a == [k \in 1 .. Cardinality(dueSet) |-> Toggle(due[k])]
             b == When(HoldFires(hold, isHold), Toggle(HoldMode))
             q1 == queue \o v.retries
             q2 == q1 \o a
  <1>7. a \in Seq(Commands) /\ b \in Seq(Commands) /\ queue' = q2 \o b
    BY <1>2, <1>5, <1>6
  <1>12. /\ Len(v.retries) \in Nat /\ Len(v.retries) <= Len(pending)
         /\ \A k \in 1 .. Len(v.retries) : v.retries[k] \in OwnCommands
    <2>1. pending \in Seq(PendingCommands)
      BY DEF TypeOK
    <2>2. PICK retry \in Decreasing(ToRetry(pending, s)) :
              v.retries = VerifyRetries(pending, s, retry)
      BY DEF Verify
    <2>3. ToRetry(pending, s) \in SUBSET (1 .. Len(pending)) /\ Len(pending) \in Nat
      BY <2>1 DEF ToRetry, Overdue
    <2>4. PICK c : c = Cardinality(ToRetry(pending, s))
      OBVIOUS
    <2>5. c \in Nat /\ c <= Len(pending)
      BY <2>3, <2>4, IndexSetSize
    <2>6. v.retries = [k \in 1 .. c |-> pending[retry[k]].command]
      BY <2>2, <2>4 DEF VerifyRetries
    <2>7. \A k \in 1 .. c : retry[k] \in ToRetry(pending, s)
      BY <2>4 DEF Decreasing
    <2>8. \A i \in ToRetry(pending, s) : pending[i].command \in OwnCommands
      BY DEF ToRetry, Overdue, OwnCommands
    <2>9. Len(v.retries) = c
      BY <1>3, <2>5, <2>6
    <2> QED BY <2>5, <2>6, <2>7, <2>8, <2>9
  <1>13. /\ Len(a) \in Nat /\ Len(a) <= NumPumps
         /\ \A k \in 1 .. Len(a) : a[k] \in OwnCommands
    <2>1. dueSet \in SUBSET (1 .. NumPumps)
      BY DEF Expired, Pumps
    <2>2. PICK c : c = Cardinality(dueSet)
      OBVIOUS
    <2>3. c \in Nat /\ c <= NumPumps
      BY <2>1, <2>2, ItemAssumption, IndexSetSize
    <2>4. \A k \in 1 .. c : due[k] \in dueSet
      BY <2>2 DEF Increasing
    <2>5. \A i \in dueSet : Toggle(i) \in OwnCommands
      BY DEF Expired, OwnCommands
    <2>6. a = [k \in 1 .. c |-> Toggle(due[k])]
      BY <2>2
    <2> HIDE DEF a, dueSet
    <2>7. Len(a) = c
      BY <1>7, <2>3, <2>6
    <2> QED BY <2>3, <2>4, <2>5, <2>6, <2>7
  <1>14. /\ Len(b) \in Nat /\ Len(b) <= 1
         /\ \A k \in 1 .. Len(b) : b[k] \in OwnCommands
    <2>1. HoldFires(hold, isHold) => Toggle(HoldMode) \in OwnCommands
      BY DEF HoldFires, OwnCommands
    <2> QED BY <2>1, WhenAdds
  <1> HIDE DEF a, b
  <1>8. q1 \in Seq(Commands) /\ IsPrefix(queue, q1)
    BY <1>3, ConcatTyped, PrefixConcat
  <1> HIDE DEF q1
  <1>9. q2 \in Seq(Commands) /\ IsPrefix(q1, q2)
    BY <1>7, <1>8, ConcatTyped, PrefixConcat
  <1> HIDE DEF q2
  <1>10. q2 \o b \in Seq(Commands) /\ IsPrefix(q2, q2 \o b)
    BY <1>7, <1>9, ConcatTyped, PrefixConcat
  <1>11. IsPrefix(queue, q2)
    BY <1>3, <1>8, <1>9, PrefixTransitive
  <1>15. IsPrefix(queue, queue')
    BY <1>3, <1>7, <1>9, <1>10, <1>11, PrefixTransitive
  <1>16. Len(queue) \in Nat /\ Len(pending) \in Nat /\ NumPumps \in Nat
    BY <1>3, ItemAssumption DEF TypeOK
  <1>17. /\ Len(q1) = Len(queue) + Len(v.retries)
         /\ \A i \in Len(queue) + 1 .. Len(q1) : q1[i] \in OwnCommands
    <2>1. \A i \in Len(queue) + 1 .. Len(queue) : queue[i] \in OwnCommands
      BY <1>16
    <2> QED BY <1>3, <1>12, <1>16, <2>1, AddedBehind DEF q1
  <1>18. /\ Len(q2) = Len(q1) + Len(a)
         /\ \A i \in Len(queue) + 1 .. Len(q2) : q2[i] \in OwnCommands
    <2>1. Len(queue) <= Len(q1)
      BY <1>12, <1>16, <1>17
    <2> QED BY <1>7, <1>8, <1>13, <1>16, <1>17, <2>1, AddedBehind DEF q2
  <1>19. /\ Len(queue') = Len(q2) + Len(b)
         /\ \A i \in Len(queue) + 1 .. Len(queue') : queue'[i] \in OwnCommands
    <2>1. Len(queue) <= Len(q2)
      BY <1>12, <1>13, <1>16, <1>17, <1>18
    <2> QED BY <1>7, <1>9, <1>14, <1>16, <1>18, <2>1, AddedBehind
  <1>20. Len(queue') <= Len(queue) + Len(pending) + NumPumps + 1
    <2>1. PICK l, m, n, x, y, z : /\ l = Len(queue) /\ m = Len(pending) /\ n = NumPumps
                                  /\ x = Len(v.retries) /\ y = Len(a) /\ z = Len(b)
      OBVIOUS
    <2>2. /\ l \in Nat /\ m \in Nat /\ n \in Nat /\ x \in Nat /\ y \in Nat /\ z \in Nat
          /\ x <= m /\ y <= n /\ z <= 1
      BY <1>12, <1>13, <1>14, <1>16, <2>1
    <2>3. Len(queue') = l + x + y + z
      BY <1>17, <1>18, <1>19, <2>1
    <2>4. l + x + y + z <= l + m + n + 1
      BY <2>2
    <2> QED BY <2>1, <2>3, <2>4
  <1> QED BY <1>15, <1>19, <1>20 DEF QueueGrows

(* A Ready frame of ours sends the head (process_frame). *)
LEMMA ReadyKeepsQueue ==
    ASSUME TypeOK, NEW f \in Frames, ProcessReady(f)
    PROVE  QueueStep
  <1>1. queue \in Seq(Commands)
    BY DEF TypeOK
  <1>2. CASE queue # <<>>
    <2> DEFINE a == SendFrame(CommandFrame(Head(queue)))
               dropped == /\ lastStatus # NoStatus
                          /\ TrackDrops(pending, Head(queue), lastStatus)
    <2>1. queue' = Tail(queue) /\ out' = <<a>> \o When(dropped, RecordDropped)
      BY <1>2 DEF ProcessReady
    <2>2. a \in AppActions
      BY <1>1, <1>2, SentFramesTyped
    <2>3. When(dropped, RecordDropped) \in Seq(AppActions)
      BY PublishedTyped, WhenTyped
    <2> HIDE DEF a, dropped
    <2>4. 1 \in DOMAIN out' /\ out'[1] = a
      BY <2>1, <2>2, <2>3
    <2>5. Published(a)
      BY <2>4 DEF Published
    <2> QED BY <1>2, <2>1, <2>5 DEF QueueStep, a
  <1>3. CASE queue = <<>>
    <2>1. queue' = queue
      BY <1>3 DEF ProcessReady
    <2> QED BY <2>1, QueueRests DEF QueueStep
  <1> QED BY <1>2, <1>3

(* A user's command replaces a set temperature, takes back a toggle or     *)
(* joins the queue at its end (on_mqtt_command).                           *)
LEMMA CommandKeepsQueue ==
    ASSUME TypeOK, NEW cmd \in UserCommands, OnMqttCommand(cmd)
    PROVE  QueueStep
  <1>1. cmd \in Commands /\ queue \in Seq(Commands)
    BY SpaAppAssumption DEF TypeOK
  <1>2. CASE ReplaceTemperature(cmd)
    <2> DEFINE i == Min(QueuedTemperatures)
    <2>1. queue' = [queue EXCEPT ![i] = cmd] /\ cmd.kind = "SetTemperature"
      BY <1>2 DEF ReplaceTemperature
    <2>2. QueuedTemperatures \in SUBSET Nat /\ QueuedTemperatures # {}
      BY <1>1, <1>2 DEF ReplaceTemperature, QueuedTemperatures
    <2>3. i \in DOMAIN queue /\ queue[i].kind = "SetTemperature"
      BY <2>2, LeastIndex DEF QueuedTemperatures
    <2> HIDE DEF i
    <2>4. cmd.arg \in Temps /\ cmd = SetTemperature(cmd.arg)
      BY <1>1, <2>1 DEF Commands, SetTemperature, Command
    <2> QED BY <2>1, <2>3, <2>4 DEF QueueStep
  <1>3. CASE CancelToggle(cmd)
    <2> DEFINE i == Min(QueuedToggles(cmd))
    <2>1. queue' = RemoveAt(queue, i)
      BY <1>3 DEF CancelToggle
    <2>2. QueuedToggles(cmd) \in SUBSET Nat /\ QueuedToggles(cmd) # {}
      BY <1>1, <1>3 DEF CancelToggle, QueuedToggles
    <2>3. i \in DOMAIN queue /\ queue[i].kind = "ToggleItem"
      BY <2>2, LeastIndex DEF QueuedToggles
    <2> HIDE DEF i
    <2> QED BY <2>1, <2>3 DEF QueueStep
  <1>4. CASE PushCommand(cmd)
    <2>1. ASSUME NEW q \in Seq(Commands), NEW c \in Commands
          PROVE  /\ PushBack(q, c) \in Seq(Commands) /\ IsPrefix(q, PushBack(q, c))
                 /\ PushBack(q, c) = q \/ Len(PushBack(q, c)) <= MaxQueue
      <3>1. CASE Len(q) >= MaxQueue
        BY <3>1, PrefixPush DEF PushBack
      <3>2. CASE Len(q) < MaxQueue
        <4>1. Len(Append(q, c)) = Len(q) + 1 /\ Len(q) \in Nat /\ MaxQueue \in Nat
          BY SpaAppAssumption
        <4>2. PushBack(q, c) = Append(q, c)
          BY <3>2, <4>1 DEF PushBack
        <4> QED BY <3>2, <4>1, <4>2, PrefixPush
      <3> QED BY <3>1, <3>2, SpaAppAssumption
    <2>2. ClockPreference \in Commands
      BY DEF ClockPreference, ClockMode, Command, Commands
    <2>3. PICK q \in {queue, PushBack(queue, ClockPreference)} : queue' = PushBack(q, cmd)
      BY <1>4 DEF PushCommand
    <2>4. /\ q \in Seq(Commands) /\ IsPrefix(queue, q)
          /\ q = queue \/ Len(q) <= MaxQueue
      BY <1>1, <2>1, <2>2, PrefixPush
    <2>5. /\ queue' \in Seq(Commands) /\ IsPrefix(q, queue')
          /\ queue' = q \/ Len(queue') <= MaxQueue
      BY <1>1, <2>1, <2>3, <2>4
    <2>6. IsPrefix(queue, queue')
      BY <1>1, <2>4, <2>5, PrefixTransitive
    <2>7. CASE queue' = queue
      BY <2>7, QueueRests DEF QueueStep
    <2>8. CASE Len(queue') <= MaxQueue
      BY <2>6, <2>8 DEF QueueStep, QueueGrows
    <2> QED BY <2>4, <2>5, <2>7, <2>8
  <1> QED BY <1>2, <1>3, <1>4 DEF OnMqttCommand

(* The command queue is a queue: a command leaves it only at its head and  *)
(* by being sent, or cancelled by the same toggle, or with the session,    *)
(* whatever the tracker, the timers and the user put in; and what passes   *)
(* MAX_COMMAND_QUEUE are one round of retries and expired timers, never    *)
(* commands of the user (process_frame, on_mqtt_command, tick).            *)
THEOREM QueueIsDisciplined == AppSpec => QueueDiscipline
  <1>1. ASSUME TypeOK, [AppNext]_appVars PROVE [QueueStep]_appVars
    <2>1. ASSUME Tick PROVE QueueStep
      <3>1. CASE CtsLost
        BY <2>1, <3>1 DEF Tick, SessionReset, CtsLost, RegReset, IsRegistered, TypeOK,
           RegistrationMachines, QueueStep
      <3>2. CASE GoesStale
        BY <2>1, <3>2 DEF Tick, SessionReset, GoesStale, QueueStep
      <3>3. CASE ~CtsLost /\ ~GoesStale
        <4>1. queue' = queue
          BY <2>1, <3>3 DEF Tick, SessionReset
        <4> QED BY <1>1, <4>1, QueueRests DEF QueueStep
      <3> QED BY <3>1, <3>2, <3>3
    <2>2. ASSUME \/ \E f \in Frames : \/ ProcessRegistration(f) \/ ProcessAssignment(f)
                                      \/ IgnoreFrame(f)
                 \/ \E pump \in Pumps, duration \in Durations : StartPumpTimer(pump, duration)
                 \/ ForcePublish
                 \/ Advance
          PROVE  QueueStep
      <3>1. queue' = queue
        BY <2>2 DEF commandVars, ProcessRegistration, ProcessAssignment, IgnoreFrame,
                    StartPumpTimer, ForcePublish, Advance
      <3> QED BY <1>1, <3>1, QueueRests DEF QueueStep
    <2>3. ASSUME NEW f \in Frames, ProcessStatus(f) PROVE QueueStep
      BY <1>1, <2>3, StatusKeepsQueue DEF QueueStep
    <2> QED BY <1>1, <2>1, <2>2, <2>3, ReadyKeepsQueue, CommandKeepsQueue
            DEF AppNext, ProcessFrame
  <1> QED BY <1>1, TypeCorrect, PTL DEF AppSpec, QueueDiscipline, QueueStep


-----------------------------------------------------------------------------
(* Queues.  A queue of the bus is a sequence over some set: the frames of  *)
(* the spa carry whatever the spa is.                                      *)

IsQueue(s) == \E S : s \in Seq(S)

LEMMA EmptyQueue == IsQueue(<<>>) /\ DOMAIN <<>> = {}
  BY DEF IsQueue

LEMMA SingleQueue == \A x : IsQueue(<<x>>)
  <1> TAKE x
  <1>1. <<x>> \in Seq({x})
    BY SingletonTyped
  <1>2. PICK S : <<x>> \in Seq(S)
    BY <1>1
  <1> QED BY <1>2 DEF IsQueue

LEMMA QueueIndices ==
    ASSUME NEW s, IsQueue(s)
    PROVE  /\ Len(s) \in Nat /\ DOMAIN s = 1 .. Len(s)
           /\ s # <<>> => 1 \in DOMAIN s /\ Head(s) = s[1]
  BY DEF IsQueue

LEMMA ShorterQueue ==
    ASSUME NEW s, IsQueue(s), s # <<>>
    PROVE  /\ IsQueue(Tail(s))
           /\ DOMAIN Tail(s) = 1 .. Len(s) - 1
           /\ \A i \in DOMAIN Tail(s) : i + 1 \in DOMAIN s /\ Tail(s)[i] = s[i + 1]
  BY DEF IsQueue

LEMMA LongerQueue ==
    ASSUME NEW s, IsQueue(s), NEW t, IsQueue(t)
    PROVE  /\ IsQueue(s \o t)
           /\ DOMAIN (s \o t) = 1 .. Len(s) + Len(t)
           /\ \A i \in DOMAIN s : (s \o t)[i] = s[i]
           /\ \A i \in DOMAIN t : Len(s) + i \in DOMAIN (s \o t) /\ (s \o t)[Len(s) + i] = t[i]
           /\ \A i \in DOMAIN (s \o t) : i \notin DOMAIN s =>
                 i - Len(s) \in DOMAIN t /\ (s \o t)[i] = t[i - Len(s)]
  <1>1. PICK S : s \in Seq(S)
    BY DEF IsQueue
  <1>2. PICK T : t \in Seq(T)
    BY DEF IsQueue
  <1>3. s \in Seq(S \cup T) /\ t \in Seq(S \cup T)
    BY <1>1, <1>2
  <1>4. s \o t \in Seq(S \cup T)
    BY <1>3
  <1> QED BY <1>3, <1>4 DEF IsQueue

LEMMA AppendedQueue ==
    ASSUME NEW s, IsQueue(s), NEW x
    PROVE  /\ IsQueue(Append(s, x))
           /\ DOMAIN Append(s, x) = 1 .. Len(s) + 1
           /\ \A i \in DOMAIN s : Append(s, x)[i] = s[i]
           /\ Append(s, x)[Len(s) + 1] = x
           /\ \A i \in DOMAIN Append(s, x) : i \notin DOMAIN s => i = Len(s) + 1
  <1>1. PICK S : s \in Seq(S)
    BY DEF IsQueue
  <1>2. s \in Seq(S \cup {x}) /\ x \in S \cup {x}
    BY <1>1
  <1>3. Append(s, x) \in Seq(S \cup {x})
    BY <1>2
  <1> QED BY <1>2, <1>3 DEF IsQueue

LEMMA ListedQueue ==
    ASSUME NEW n \in Nat, NEW f, DOMAIN f = 1 .. n, f = [i \in 1 .. n |-> f[i]]
    PROVE  IsQueue(f) /\ Len(f) = n
  <1>1. f \in [1 .. n -> {f[i] : i \in 1 .. n}]
    OBVIOUS
  <1>2. f \in Seq({f[i] : i \in 1 .. n})
    BY <1>1
  <1>3. PICK S : f \in Seq(S)
    BY <1>2
  <1> QED BY <1>3 DEF IsQueue

-----------------------------------------------------------------------------
(* The spa. *)

IsAssignment(f) == ParseRegistration(f).msg = "ClientIdAssignment"
Harmless(f) == f # NewClientQuery /\ ~IsAssignment(f)
Parts == {"whole", "middle", "end", "rest"}
HarmlessElement(e) == e.part \in Parts /\ Harmless(e.frame)

(* What the spa has sent: only whole frames belong to the handshake. *)
LineFits(l) ==
    /\ IsQueue(l)
    /\ \A i \in DOMAIN l : l[i].part \in Parts /\ (l[i].part # "whole" => Harmless(l[i].frame))

(* What the spa sends in a second: a query comes first, and only from a    *)
(* spa that holds no registration.                                         *)
SecondsLine(l, registered) ==
    /\ LineFits(l)
    /\ \A i \in DOMAIN l :
          /\ ~IsAssignment(l[i].frame)
          /\ l[i].frame = NewClientQuery => i = 1 /\ ~registered

SimFields ==
    {"spa", "client", "next", "registered", "hash", "queryAge", "deferred", "events",
     "readyIn", "silence", "corrupt", "duplicate", "split", "rest"}
RemainderFits(rest) ==
    rest # <<>> => /\ IsQueue(Head(rest))
                   /\ \A i \in DOMAIN Head(rest) : HarmlessElement(Head(rest)[i])
SimFits(s) ==
    /\ s = [k \in SimFields |-> s[k]]
    /\ s.registered \in BOOLEAN
    /\ RemainderFits(s.rest)
SameSession(r, s) ==
    /\ SimFits(r)
    /\ r.client = s.client /\ r.registered = s.registered /\ r.next = s.next

LEMMA WhatIsHarmless ==
    /\ \A st : Harmless(StatusFrame(st))
    /\ \A ch : Harmless(ClearToSend(ch))
    /\ \A ch, h : Harmless(ExistingClientResponse(ch, h))
    /\ Harmless(OtherFrame) /\ Harmless(Garbled) /\ Harmless(NoFrame)
  BY DEF Harmless, IsAssignment, StatusFrame, ClearToSend, ExistingClientResponse, OtherFrame,
         Garbled, NoFrame, NewClientQuery, Febf, Chbf, ParseRegistration, Message,
         NotARegistrationMessage

LEMMA HarmlessElements ==
    ASSUME NEW f, Harmless(f)
    PROVE  /\ HarmlessElement(Whole(f)) /\ HarmlessElement(Rest(f))
           /\ \A at \in {"middle", "end"} : HarmlessElement(First(f, at))
  BY DEF HarmlessElement, Whole, Rest, First, Parts

LEMMA LineGrows ==
    ASSUME NEW l, NEW b, SecondsLine(l, b), NEW e, HarmlessElement(e)
    PROVE  SecondsLine(Append(l, e), b)
  <1>1. IsQueue(l) /\ Harmless(e.frame) /\ e.part \in Parts
    BY DEF SecondsLine, LineFits, HarmlessElement
  <1>2. /\ IsQueue(Append(l, e))
        /\ \A i \in DOMAIN Append(l, e) : i \in DOMAIN l \/ Append(l, e)[i] = e
        /\ \A i \in DOMAIN l : Append(l, e)[i] = l[i]
    BY <1>1, AppendedQueue
  <1>3. ASSUME NEW i \in DOMAIN Append(l, e), i \notin DOMAIN l
        PROVE  /\ Append(l, e)[i].part \in Parts
               /\ Harmless(Append(l, e)[i].frame)
    BY <1>1, <1>2, <1>3
  <1> QED BY <1>2, <1>3 DEF SecondsLine, LineFits, Harmless

LEMMA FirstLine ==
    /\ \A b : SecondsLine(<<>>, b)
    /\ SecondsLine(<<Whole(NewClientQuery)>>, FALSE)
  <1>1. IsQueue(<<Whole(NewClientQuery)>>)
    BY SingleQueue
  <1>2. ~IsAssignment(NewClientQuery)
    BY DEF IsAssignment, NewClientQuery, Febf, ParseRegistration, Message
  <1> QED BY <1>1, <1>2, EmptyQueue DEF SecondsLine, LineFits, Whole, Parts

LEMMA RemainderLine ==
    ASSUME NEW s, SimFits(s), s.rest # <<>>, NEW e, HarmlessElement(e), NEW b
    PROVE  SecondsLine(Append(Head(s.rest), e), b)
  <1>1. SecondsLine(Head(s.rest), b)
    BY DEF SimFits, RemainderFits, SecondsLine, LineFits, HarmlessElement, Harmless
  <1> QED BY <1>1, LineGrows

LEMMA StatusRemainder ==
    ASSUME NEW f, Harmless(f)
    PROVE  RemainderFits(<<>>) /\ RemainderFits(<<<<>>>>) /\ RemainderFits(<<<<Rest(f)>>>>)
  <1>1. IsQueue(<<Rest(f)>>)
    BY SingleQueue
  <1>2. HarmlessElement(Rest(f))
    BY HarmlessElements
  <1> QED BY <1>1, <1>2, EmptyQueue DEF RemainderFits

(* A second of the spa: commands and events. *)
LEMMA SecondStarts ==
    ASSUME NEW s, SimFits(s)
    PROVE  LET now == ProcessPendingCommands(SecondPasses(s))
           IN  SameSession(now, s) /\ now.rest = s.rest
  <1>1. SameSession(SecondPasses(s), s) /\ SecondPasses(s).rest = s.rest
    BY DEF SecondPasses, SameSession, SimFits, SimFields
  <1>2. ASSUME NEW u, SimFits(u)
        PROVE  SameSession(ProcessPendingCommands(u), u) /\ ProcessPendingCommands(u).rest = u.rest
    BY <1>2 DEF ProcessPendingCommands, SameSession, SimFits, SimFields
  <1> QED BY <1>1, <1>2 DEF SameSession

LEMMA CycleStarts ==
    ASSUME NEW s, SimFits(s)
    PROVE  LET aged == IF s.registered THEN s ELSE [s EXCEPT !.queryAge = 0]
               evolved == [ProcessPendingEvents(aged) EXCEPT !.spa = SimulatePhysics(@)]
           IN  SameSession(evolved, s)
  <1>1. ASSUME NEW u, SimFits(u)
        PROVE  SameSession(ProcessPendingEvents(u), u)
    BY <1>1 DEF ProcessPendingEvents, SameSession, SimFits, SimFields
  <1>2. ASSUME NEW u, SimFits(u)
        PROVE  SameSession([u EXCEPT !.spa = SimulatePhysics(@)], u)
    BY <1>2 DEF SameSession, SimFits, SimFields
  <1> DEFINE aged == IF s.registered THEN s ELSE [s EXCEPT !.queryAge = 0]
  <1>3. SameSession(aged, s)
    BY DEF SameSession, SimFits, SimFields
  <1> HIDE DEF aged
  <1>4. SameSession(ProcessPendingEvents(aged), aged)
    BY <1>1, <1>3 DEF SameSession
  <1>5. SameSession([ProcessPendingEvents(aged) EXCEPT !.spa = SimulatePhysics(@)],
                    ProcessPendingEvents(aged))
    BY <1>2, <1>4 DEF SameSession
  <1>6. SameSession([ProcessPendingEvents(aged) EXCEPT !.spa = SimulatePhysics(@)], s)
    BY <1>3, <1>4, <1>5 DEF SameSession
  <1> QED BY <1>6 DEF aged

(* The Ready frame at the end of a second. *)
LEMMA ReadyEnds ==
    ASSUME NEW s, SimFits(s), NEW l, NEW b, SecondsLine(l, b), NEW r \in MaybeEmitReady(s, l)
    PROVE  SameSession(r.sim, s) /\ SecondsLine(r.line, b)
  <1>1. \A n : SameSession([s EXCEPT !.readyIn = n], s)
    BY DEF SameSession, SimFits, SimFields
  <1>2. HarmlessElement(Whole(ReadyFrame(s)))
    BY WhatIsHarmless, HarmlessElements DEF ReadyFrame
  <1>3. SecondsLine(Append(l, Whole(ReadyFrame(s))), b)
    BY <1>2, LineGrows
  <1>4. PICK n : \/ r = [sim |-> [s EXCEPT !.readyIn = n], line |-> l]
              \/ r = [sim |-> [s EXCEPT !.readyIn = n],
                      line |-> Append(l, Whole(ReadyFrame(s)))]
    BY DEF MaybeEmitReady
  <1>5. /\ r.sim = [s EXCEPT !.readyIn = n]
        /\ r.line = l \/ r.line = Append(l, Whole(ReadyFrame(s)))
    BY <1>4
  <1> QED BY <1>1, <1>3, <1>5

LEMMA StatusEnds ==
    ASSUME NEW s, SimFits(s), NEW l, NEW b, SecondsLine(l, b), NEW r \in EmitStatus(s, l)
    PROVE  SameSession(r.sim, s) /\ SecondsLine(r.line, b)
  <1> DEFINE f == IF s.corrupt THEN Garbled ELSE StatusFrame(StatusOf(s.spa))
             sent == [s EXCEPT !.corrupt = FALSE, !.split = NoSplit]
  <1>1. Harmless(f)
    BY WhatIsHarmless
  <1>2. /\ SameSession(sent, s) /\ sent.rest = s.rest
        /\ SameSession([sent EXCEPT !.duplicate = FALSE], s)
    BY DEF SameSession, SimFits, SimFields
  <1>3. \A rest : RemainderFits(rest) => SameSession([sent EXCEPT !.rest = rest], s)
    BY <1>2 DEF SameSession, SimFits, SimFields
  <1> HIDE DEF f, sent
  <1>4. SecondsLine(Append(l, Whole(f)), b)
    BY <1>1, HarmlessElements, LineGrows
  <1>5. SecondsLine(Append(Append(l, Whole(f)), Whole(f)), b)
    BY <1>1, <1>4, HarmlessElements, LineGrows
  <1>6. \A at \in {"middle", "end"} : SecondsLine(Append(l, First(f, at)), b)
    BY <1>1, HarmlessElements, LineGrows
  <1>7. l \o <<Whole(f), Whole(f)>> = Append(Append(l, Whole(f)), Whole(f))
    <2>1. PICK S : l \in Seq(S)
      BY DEF SecondsLine, LineFits, IsQueue
    <2>2. l \in Seq(S \cup {Whole(f)}) /\ Whole(f) \in S \cup {Whole(f)}
      BY <2>1
    <2> QED BY <2>2
  <1>8. RemainderFits(<<<<>>>>) /\ RemainderFits(<<<<Rest(f)>>>>)
    BY <1>1, StatusRemainder
  <1>9. \/ r = [sim |-> [sent EXCEPT !.rest = <<<<>>>>], line |-> Append(l, Whole(f))]
        \/ /\ s.split \in {"middle", "end"}
           /\ r = [sim |-> [sent EXCEPT !.rest = <<<<Rest(f)>>>>],
                   line |-> Append(l, First(f, s.split))]
        \/ r \in MaybeEmitReady(sent, Append(l, Whole(f)))
        \/ r \in MaybeEmitReady([sent EXCEPT !.duplicate = FALSE], l \o <<Whole(f), Whole(f)>>)
    BY DEF EmitStatus, f, sent
  <1>10. ASSUME NEW u, SameSession(u, s), NEW k, SecondsLine(k, b), r \in MaybeEmitReady(u, k)
         PROVE  SameSession(r.sim, s) /\ SecondsLine(r.line, b)
    BY <1>10, ReadyEnds DEF SameSession
  <1>11. CASE r = [sim |-> [sent EXCEPT !.rest = <<<<>>>>], line |-> Append(l, Whole(f))]
    BY <1>3, <1>4, <1>8, <1>11
  <1>12. CASE /\ s.split \in {"middle", "end"}
              /\ r = [sim |-> [sent EXCEPT !.rest = <<<<Rest(f)>>>>],
                      line |-> Append(l, First(f, s.split))]
    BY <1>3, <1>6, <1>8, <1>12
  <1>13. CASE r \in MaybeEmitReady(sent, Append(l, Whole(f)))
    BY <1>2, <1>4, <1>10, <1>13
  <1>14. CASE r \in MaybeEmitReady([sent EXCEPT !.duplicate = FALSE],
                                  l \o <<Whole(f), Whole(f)>>)
    <2>1. SecondsLine(l \o <<Whole(f), Whole(f)>>, b)
      BY <1>5, <1>7
    <2> QED BY <1>2, <1>10, <1>14, <2>1
  <1> QED BY <1>9, <1>11, <1>12, <1>13, <1>14

LEMMA SecondOfTheSpa ==
    ASSUME NEW s, SimFits(s), NEW r \in SimTick(s)
    PROVE  SameSession(r.sim, s) /\ SecondsLine(r.line, s.registered)
  <1> DEFINE now == ProcessPendingCommands(SecondPasses(s))
             aged == IF now.registered THEN now ELSE [now EXCEPT !.queryAge = 0]
             evolved == [ProcessPendingEvents(aged) EXCEPT !.spa = SimulatePhysics(@)]
             before == IF now.registered THEN <<>> ELSE <<Whole(NewClientQuery)>>
  <1>1. SameSession(now, s)
    BY SecondStarts
  <1> HIDE DEF now
  <1>2. CASE r = [sim |-> [now EXCEPT !.silence = @ - 1], line |-> <<>>]
    <2>1. SameSession([now EXCEPT !.silence = @ - 1], s)
      BY <1>1 DEF SameSession, SimFits, SimFields
    <2> QED BY <1>2, <2>1, FirstLine
  <1>3. CASE now.rest # <<>> /\ r \in EmitRemainder(now)
    <2>1. \A n : SameSession([now EXCEPT !.rest = <<>>, !.readyIn = n], s)
      BY <1>1 DEF SameSession, SimFits, SimFields, RemainderFits
    <2>2. HarmlessElement(Whole(ReadyFrame(now)))
      BY WhatIsHarmless, HarmlessElements DEF ReadyFrame
    <2>3. SecondsLine(Append(Head(now.rest), Whole(ReadyFrame(now))), s.registered)
      BY <1>1, <1>3, <2>2, RemainderLine DEF SameSession
    <2>4. PICK n : r = [sim |-> [now EXCEPT !.rest = <<>>, !.readyIn = n],
                     line |-> Append(Head(now.rest), Whole(ReadyFrame(now)))]
      BY <1>3 DEF EmitRemainder
    <2>5. /\ r.sim = [now EXCEPT !.rest = <<>>, !.readyIn = n]
          /\ r.line = Append(Head(now.rest), Whole(ReadyFrame(now)))
      BY <2>4
    <2> QED BY <2>1, <2>3, <2>5
  <1>4. CASE r \in EmitStatus(evolved, before)
    <2>1. SameSession(evolved, s)
      BY <1>1, CycleStarts DEF SameSession
    <2>2. SecondsLine(before, s.registered)
      BY <1>1, FirstLine DEF SameSession, SimFits
    <2> HIDE DEF evolved, before
    <2>3. SameSession(r.sim, evolved) /\ SecondsLine(r.line, s.registered)
      BY <1>4, <2>1, <2>2, StatusEnds DEF SameSession
    <2> QED BY <2>1, <2>3 DEF SameSession
  <1>5. \/ r = [sim |-> [now EXCEPT !.silence = @ - 1], line |-> <<>>]
        \/ now.rest # <<>> /\ r \in EmitRemainder(now)
        \/ r \in EmitStatus(evolved, before)
    BY DEF SimTick, EmitCycle, now
  <1> QED BY <1>2, <1>3, <1>4, <1>5

-----------------------------------------------------------------------------
(* What the spa makes of the frames it is sent. *)

IsAck(f) == f.type = "CHBF" /\ f.sub = 3
IsExistingRequest(f) == f.type = "FEBF" /\ f.sub = 4

(* The frames of the main loop: commands, acknowledgements, "nothing to    *)
(* send" and requests for an earlier channel, but no answer to a query,    *)
(* which is uart_task's.                                                   *)
Sendable(f) == f.type = "0ABF" \/ (f.type = "CHBF" /\ f.sub \in {3, 7}) \/ IsExistingRequest(f)

HarmlessAnswer(l) == l = <<>> \/ \E f : Harmless(f) /\ l = <<Whole(f)>>

LEMMA AnswerLine ==
    ASSUME NEW s
    PROVE  /\ Answer(s, <<>>).sim = s /\ Answer(s, <<>>).line = <<>>
           /\ \A f : /\ Answer(s, <<f>>).sim = s
                     /\ Answer(s, <<f>>).line = <<Whole(f)>>
  BY DEF Answer

LEMMA SpaAnswersResponse ==
    ASSUME NEW s, SimFits(s), NEW h, NEW r \in SimProcess(s, NewClientResponse(h))
    PROVE  /\ SimFits(r.sim)
           /\ r.sim.registered = s.registered /\ r.sim.client = s.client
           /\ \/ r.line = <<>>
              \/ \E ch : r.line = <<Whole(ClientIdAssignment(ch, h))>>
  <1> DEFINE known == s.registered /\ s.client # None /\ s.hash = h
             id == IF known THEN s.client ELSE s.next
             given == [s EXCEPT !.next = IF known THEN @ ELSE NextClient(@),
                                !.hash = h, !.queryAge = None]
  <1>1. r = ProcessNewClient(s, h)
    BY DEF SimProcess, NewClientResponse, Febf
  <1>2. /\ SimFits(given)
        /\ given.registered = s.registered /\ given.client = s.client
    BY DEF SimFits, SimFields
  <1>3. \/ r = Answer(s, <<>>)
        \/ r = Answer(given, <<ClientIdAssignment(id, h)>>)
    BY <1>1 DEF ProcessNewClient
  <1> HIDE DEF given, id
  <1>4. PICK ch : ch = id
    OBVIOUS
  <1>5. PICK g : g = ClientIdAssignment(ch, h)
    OBVIOUS
  <1>6. CASE r = Answer(s, <<>>)
    BY <1>6, AnswerLine
  <1>7. CASE r = Answer(given, <<g>>)
    <2>1. r.sim = given /\ r.line = <<Whole(g)>>
      BY <1>7, AnswerLine
    <2> QED BY <1>2, <1>5, <2>1
  <1> QED BY <1>3, <1>4, <1>5, <1>6, <1>7

LEMMA SpaTakesCommand ==
    ASSUME NEW s, SimFits(s), NEW cmd, NEW r \in ProcessCommand(s, cmd)
    PROVE  SameSession(r.sim, s) /\ HarmlessAnswer(r.line)
  <1>1. SameSession(s, s) /\ SameSession(CommandAccepted(s, cmd), s)
    BY DEF SameSession, CommandAccepted, SimFits, SimFields
  <1>2. \/ r = Answer(s, <<>>) \/ r = Answer(s, <<OtherFrame>>)
        \/ r = Answer(CommandAccepted(s, cmd), <<>>)
    BY DEF ProcessCommand
  <1> QED BY <1>1, <1>2, AnswerLine, WhatIsHarmless DEF HarmlessAnswer

LEMMA SpaTakesFrame ==
    ASSUME NEW s, SimFits(s), NEW f, Sendable(f), NEW r \in SimProcess(s, f)
    PROVE  /\ SimFits(r.sim) /\ r.sim.next = s.next /\ HarmlessAnswer(r.line)
           /\ IsAck(f) => r.sim.registered /\ r.sim.client = f.ch
           /\ ~IsAck(f) /\ ~IsExistingRequest(f) => SameSession(r.sim, s)
  <1>1. CASE f.type = "0ABF"
    <2>1. r \in ProcessCommand(s, f.cmd)
      BY <1>1 DEF SimProcess
    <2> QED BY <1>1, <2>1, SpaTakesCommand DEF SameSession, IsAck
  <1>2. CASE f.type = "CHBF" /\ f.sub = 3
    <2>1. r = ProcessAck(s, f.ch)
      BY <1>2 DEF SimProcess
    <2> DEFINE taken == [s EXCEPT !.client = f.ch, !.registered = TRUE]
    <2>2. r = Answer(taken, <<>>)
      BY <2>1 DEF ProcessAck
    <2>3. /\ SimFits(taken) /\ taken.next = s.next
          /\ taken.registered /\ taken.client = f.ch
      BY DEF SimFits, SimFields
    <2> HIDE DEF taken
    <2> QED BY <1>2, <2>2, <2>3, AnswerLine DEF HarmlessAnswer, IsAck
  <1>3. CASE f.type = "CHBF" /\ f.sub = 7
    <2>1. r = Answer(s, <<>>)
      BY <1>3 DEF SimProcess
    <2> QED BY <1>3, <2>1, AnswerLine DEF HarmlessAnswer, IsAck, SameSession
  <1>4. CASE IsExistingRequest(f)
    <2>1. r = ProcessExistingClient(s, f.ch, f.hash)
      BY <1>4 DEF SimProcess, IsExistingRequest
    <2> DEFINE taken == [s EXCEPT !.client = f.ch, !.registered = TRUE, !.hash = f.hash]
    <2>2. r = Answer(taken, <<ExistingClientResponse(f.ch, f.hash)>>)
      BY <2>1 DEF ProcessExistingClient
    <2>3. SimFits(taken) /\ taken.next = s.next
      BY DEF SimFits, SimFields
    <2> HIDE DEF taken
    <2>4. HarmlessAnswer(r.line)
      <3>1. PICK g : g = ExistingClientResponse(f.ch, f.hash)
        OBVIOUS
      <3>2. Harmless(g) /\ r.line = <<Whole(g)>>
        BY <2>2, <3>1, AnswerLine, WhatIsHarmless
      <3> QED BY <3>2 DEF HarmlessAnswer
    <2> QED BY <1>4, <2>2, <2>3, <2>4, AnswerLine DEF IsAck, IsExistingRequest
  <1> QED BY <1>1, <1>2, <1>3, <1>4 DEF Sendable

(* What a fault does to the spa: a reboot forgets the client. *)
LEMMA FaultOfTheSpa ==
    ASSUME SimFits(sim), sim' \in Injected
    PROVE  /\ SimFits(sim') /\ sim'.next = sim.next
           /\ ~sim'.registered \/ SameSession(sim', sim)
  <1>1. \/ sim' = SimReboot(sim) \/ sim' = SimCorrupt(sim) \/ sim' = SimDuplicate(sim)
        \/ \E ticks : sim' = SimSilence(sim, ticks)
        \/ \E at : sim' = SimSplit(sim, at)
        \/ \E pump : sim' = SimFilterCycle(sim, pump, 1)
    BY DEF Injected
  <1>2. /\ SimFits(SimReboot(sim)) /\ SimReboot(sim).next = sim.next
        /\ ~SimReboot(sim).registered
    BY DEF SimReboot, SimFits, SimFields
  <1>3. SameSession(SimCorrupt(sim), sim) /\ SameSession(SimDuplicate(sim), sim)
    BY DEF SimCorrupt, SimDuplicate, SameSession, SimFits, SimFields
  <1>4. \A ticks : SameSession(SimSilence(sim, ticks), sim)
    BY DEF SimSilence, SameSession, SimFits, SimFields
  <1>5. \A at : SameSession(SimSplit(sim, at), sim)
    BY DEF SimSplit, SameSession, SimFits, SimFields, RemainderFits
  <1>6. \A pump : SameSession(SimFilterCycle(sim, pump, 1), sim)
    BY DEF SimFilterCycle, SameSession, SimFits, SimFields
  <1> QED BY <1>1, <1>2, <1>3, <1>4, <1>5, <1>6 DEF SameSession

-----------------------------------------------------------------------------
(* What the controller makes of a frame, and what it sends. *)

RegFields == {"state", "id", "prev"}
MachineFits(sm) == sm = [k \in RegFields |-> sm[k]]
RegFits == MachineFits(reg)

(* A list of actions that sends no acknowledgement, and nothing but what   *)
(* the main loop may send.                                                 *)
Quiets(o) ==
    /\ IsQueue(o)
    /\ \A k \in DOMAIN o :
          o[k].act = "SendFrame" => /\ Sendable(o[k].frame)
                                    /\ ~IsAck(o[k].frame)
                                    /\ IsExistingRequest(o[k].frame) => reg.prev # None

LEMMA QuietActions ==
    ASSUME NEW S, \A a \in S : a.act = "SendFrame" =>
                      Sendable(a.frame) /\ ~IsAck(a.frame) /\ ~IsExistingRequest(a.frame),
           NEW o \in Seq(S)
    PROVE  Quiets(o)
  BY DEF Quiets, IsQueue

LEMMA WhatIsSent ==
    /\ \A c : /\ Sendable(CommandFrame(c)) /\ ~IsAck(CommandFrame(c))
              /\ ~IsExistingRequest(CommandFrame(c))
    /\ \A ch : /\ Sendable(NothingToSend(ch)) /\ ~IsAck(NothingToSend(ch))
               /\ ~IsExistingRequest(NothingToSend(ch))
    /\ \A ch : /\ Sendable(ClientIdAck(ch)) /\ IsAck(ClientIdAck(ch))
               /\ ClientIdAck(ch).ch = ch /\ ~IsExistingRequest(ClientIdAck(ch))
    /\ \A ch, h : /\ Sendable(ExistingClientRequest(ch, h))
                  /\ ~IsAck(ExistingClientRequest(ch, h))
  BY DEF CommandFrame, NothingToSend, ClientIdAck, ExistingClientRequest, Chbf, Febf,
         Sendable, IsAck, IsExistingRequest

(* The session after a frame: kept as it is, taken over, won, or asked for.*)
Kept == reg' = reg /\ clientId' = clientId /\ Quiets(out')
TakenOver(f) ==
    IsRegistered(reg) /\ IsAssignment(f) /\ reg' = reg /\ clientId' = f.ch /\ out' = <<>>
Won(f) ==
    /\ ~IsRegistered(reg) /\ IsAssignment(f) /\ IsRegistered(reg')
    /\ clientId' = f.ch /\ out' = <<SendFrame(ClientIdAck(f.ch))>>
    /\ reg'.prev = reg.prev
AskedFor ==
    /\ ~IsRegistered(reg) /\ ~IsRegistered(reg')
    /\ clientId' = clientId /\ Quiets(out') /\ reg'.prev = reg.prev
    /\ reg'.state = "WaitingForExistingResponse" => reg.prev # None
Resumed ==
    /\ reg.state = "WaitingForExistingResponse" /\ IsRegistered(reg')
    /\ clientId' = clientId /\ Quiets(out') /\ reg'.prev = reg.prev
SessionAfter(f) ==
    /\ RegFits'
    /\ Kept \/ TakenOver(f) \/ Won(f) \/ AskedFor \/ Resumed

LEMMA NothingIsQuiet == Quiets(<<>>)
  BY EmptyQueue DEF Quiets

LEMMA RegistrationSession ==
    ASSUME RegFits, NEW f, ProcessRegistration(f)
    PROVE  SessionAfter(f)
  <1> DEFINE m == ParseRegistration(f)
             step == RegProcess(reg, m)
  <1>1. /\ ~IsRegistered(reg) /\ reg' = step.sm
        /\ clientId' = ClientIdAfter(step.action, f)
        /\ out' = CASE step.action = "SendClientIdAck" ->
                            <<SendFrame(ClientIdAck(f.ch))>>
                    [] step.action = "SendExistingClientRequest" ->
                            <<SendFrame(ExistingClientRequest(reg.prev, OwnHash))>>
                    [] OTHER -> <<>>
    BY DEF ProcessRegistration
  <1>2. \A st, id, action :
           LET u == RegStep(reg, st, id, action)
           IN  /\ u.action = action
               /\ u.sm.state = st /\ u.sm.prev = reg.prev
               /\ MachineFits(u.sm)
    BY DEF RegFits, RegStep, MachineFits, RegFields
  <1>3. CASE step = RegStep(reg, "WaitingForExistingResponse", None, "SendExistingClientRequest")
             /\ reg.prev # None
    <2>1. out' = <<SendFrame(ExistingClientRequest(reg.prev, OwnHash))>>
      BY <1>1, <1>2, <1>3
    <2>2. Quiets(out')
      <3>1. IsQueue(out') /\ DOMAIN out' = {1}
        BY <2>1, SingleQueue
      <3> QED BY <1>3, <2>1, <3>1, WhatIsSent DEF Quiets, SendFrame
    <2> QED BY <1>1, <1>2, <1>3, <2>2 DEF SessionAfter, AskedFor, ClientIdAfter, IsRegistered, RegFits
  <1>4. CASE step = RegStep(reg, "WaitingForAssignment", None, "SendNewClientResponse")
    <2>1. out' = <<>>
      BY <1>1, <1>2, <1>4
    <2> QED BY <1>1, <1>2, <1>4, <2>1, NothingIsQuiet
            DEF SessionAfter, AskedFor, ClientIdAfter, IsRegistered, RegFits
  <1>5. CASE m.msg = "ClientIdAssignment" /\ step = RegStep(reg, "Registered", m.ch, "SendClientIdAck")
    <2>1. out' = <<SendFrame(ClientIdAck(f.ch))>>
      BY <1>1, <1>2, <1>5
    <2> QED BY <1>1, <1>2, <1>5, <2>1
            DEF SessionAfter, Won, ClientIdAfter, IsRegistered, RegFits, IsAssignment
  <1>6. CASE /\ reg.state = "WaitingForExistingResponse"
             /\ step = RegStep(reg, "Registered", m.ch, "None")
    <2>1. out' = <<>>
      BY <1>1, <1>2, <1>6
    <2> QED BY <1>1, <1>2, <1>6, <2>1, NothingIsQuiet
            DEF SessionAfter, Resumed, ClientIdAfter, IsRegistered, RegFits
  <1>7. CASE step = [sm |-> reg, action |-> "None"]
    <2>1. out' = <<>>
      BY <1>1, <1>7
    <2> QED BY <1>1, <1>7, <2>1, NothingIsQuiet DEF SessionAfter, Kept, ClientIdAfter, RegFits
  <1>8. \/ step = RegStep(reg, "WaitingForExistingResponse", None, "SendExistingClientRequest")
             /\ reg.prev # None
        \/ step = RegStep(reg, "WaitingForAssignment", None, "SendNewClientResponse")
        \/ m.msg = "ClientIdAssignment" /\ step = RegStep(reg, "Registered", m.ch, "SendClientIdAck")
        \/ /\ reg.state = "WaitingForExistingResponse"
           /\ step = RegStep(reg, "Registered", m.ch, "None")
        \/ step = [sm |-> reg, action |-> "None"]
    <2> HIDE DEF m
    <2> QED BY DEF RegProcess
  <1> QED BY <1>3, <1>4, <1>5, <1>6, <1>7, <1>8

LEMMA FrameSession ==
    ASSUME RegFits, NEW f, ProcessFrame(f)
    PROVE  SessionAfter(f)
  <1>1. CASE ProcessStatus(f)
    <2> DEFINE S == {RecordDropped, PublishState(wasStale, reg.state)}
    <2>1. \E v : out' = When(v.dropped, RecordDropped) \o <<PublishState(wasStale, reg.state)>>
      BY <1>1 DEF ProcessStatus
    <2>2. out' \in Seq(S)
      BY <2>1, WhenTyped, SingletonTyped, ConcatTyped
    <2>3. \A a \in S : a.act # "SendFrame"
      BY DEF RecordDropped, PublishState
    <2>4. Quiets(out')
      BY <2>2, <2>3, QuietActions
    <2> QED BY <1>1, <2>4 DEF ProcessStatus, sessionVars, SessionAfter, Kept, RegFits
  <1>2. CASE ProcessReady(f)
    <2> DEFINE S == {RecordDropped, SendFrame(CommandFrame(Head(queue))),
                     SendFrame(NothingToSend(clientId))}
    <2>1. out' \in Seq(S)
      <3>1. CASE queue # <<>>
        <4>1. \E c : out' = <<SendFrame(CommandFrame(Head(queue)))>> \o When(c, RecordDropped)
          BY <1>2, <3>1 DEF ProcessReady
        <4> QED BY <4>1, WhenTyped, SingletonTyped, ConcatTyped
      <3>2. CASE queue = <<>>
        <4>1. out' = <<>> \/ out' = <<SendFrame(NothingToSend(clientId))>>
          BY <1>2, <3>2 DEF ProcessReady
        <4>2. SendFrame(NothingToSend(clientId)) \in S
          OBVIOUS
        <4> HIDE DEF S
        <4>3. <<>> \in Seq(S) /\ <<SendFrame(NothingToSend(clientId))>> \in Seq(S)
          BY <4>2, SingletonTyped
        <4> QED BY <4>1, <4>3
      <3> QED BY <3>1, <3>2
    <2>2. \A a \in S : a.act = "SendFrame" =>
             Sendable(a.frame) /\ ~IsAck(a.frame) /\ ~IsExistingRequest(a.frame)
      BY WhatIsSent DEF RecordDropped, SendFrame
    <2>3. Quiets(out')
      BY <2>1, <2>2, QuietActions
    <2> QED BY <1>2, <2>3 DEF ProcessReady, SessionAfter, Kept, RegFits
  <1>3. CASE ProcessAssignment(f)
    BY <1>3 DEF ProcessAssignment, SessionAfter, TakenOver, IsAssignment, RegFits
  <1>4. CASE IgnoreFrame(f)
    BY <1>4, NothingIsQuiet DEF IgnoreFrame, sessionVars, SessionAfter, Kept, RegFits
  <1> QED BY <1>1, <1>2, <1>3, <1>4, RegistrationSession DEF ProcessFrame

(* A command only touches the queue. *)
LEMMA CommandSession ==
    ASSUME RegFits, NEW cmd, OnMqttCommand(cmd)
    PROVE  Kept
  <1>1. out' \in Seq({RecordDropped})
    <2> DEFINE S == {RecordDropped}
    <2>1. out' = <<>> \/ \E c, d : out' = When(c, RecordDropped) \o When(d, RecordDropped)
      BY DEF OnMqttCommand, ReplaceTemperature, CancelToggle, PushCommand
    <2>2. RecordDropped \in S
      OBVIOUS
    <2> HIDE DEF S
    <2>3. <<>> \in Seq(S) /\ \A c : When(c, RecordDropped) \in Seq(S)
      BY <2>2, WhenTyped
    <2>4. out' \in Seq(S)
      BY <2>1, <2>3, ConcatTyped
    <2> QED BY <2>4 DEF S
  <1>2. RecordDropped.act # "SendFrame"
    BY DEF RecordDropped
  <1>3. Quiets(out')
    BY <1>1, <1>2, QuietActions
  <1> QED BY <1>3 DEF OnMqttCommand, sessionVars, Kept

(* A tick keeps the session or gives it up. *)
LEMMA TickSession ==
    ASSUME RegFits, Tick
    PROVE  /\ RegFits' /\ reg'.prev = reg.prev /\ Quiets(out')
           /\ \/ reg' = reg /\ clientId' = clientId
              \/ reg'.state = "WaitingForQuery"
  <1>1. reg' = reg \/ reg' = RegReset(reg)
    BY DEF Tick
  <1>2. \A sm : MachineFits(sm) =>
          /\ MachineFits(RegReset(sm))
          /\ RegReset(sm).state = "WaitingForQuery" /\ RegReset(sm).prev = sm.prev
    BY DEF RegReset, MachineFits, RegFields
  <1>3. reg' = reg /\ ~(reg' = RegReset(reg)) => clientId' = clientId
    BY DEF Tick
  <1> DEFINE S == {PublishAlert("registration_timeout"), PublishAlert("no_registration_query"),
                   PublishAlert("cts_loss"), SendFrame(NothingToSend(clientId)),
                   PublishAlert("spa_communication_lost"),
                   PublishState(FALSE, "WaitingForQuery"), PublishStaleAvailability,
                   PublishDiagnostics}
  <1>4. out' \in Seq(S)
    <2> DEFINE a1 == When(RegistrationTimedOut, PublishAlert("registration_timeout"))
               a2 == When(NoQuerySeen, PublishAlert("no_registration_query"))
               a3 == When(CtsLost, PublishAlert("cts_loss"))
               a4 == When(ProbeDue /\ clientId # None /\ ~CtsLost,
                          SendFrame(NothingToSend(clientId)))
               a5 == When(GoesStale, PublishAlert("spa_communication_lost"))
               a6 == When(GoesStale /\ lastStatus # NoStatus,
                          PublishState(FALSE, "WaitingForQuery"))
               a7 == When(GoesStale /\ lastStatus # NoStatus, PublishStaleAvailability)
               a8 == When(DiagDue, PublishDiagnostics)
    <2>1. out' = a1 \o a2 \o a3 \o a4 \o a5 \o a6 \o a7 \o a8
      BY DEF Tick
    <2>2. /\ a1 \in Seq(S) /\ a2 \in Seq(S) /\ a3 \in Seq(S) /\ a4 \in Seq(S)
          /\ a5 \in Seq(S) /\ a6 \in Seq(S) /\ a7 \in Seq(S) /\ a8 \in Seq(S)
      BY WhenTyped
    <2> HIDE DEF S, a1, a2, a3, a4, a5, a6, a7, a8
    <2> QED BY <2>1, <2>2, ConcatTyped, Zenon
  <1>5. \A a \in S : a.act = "SendFrame" =>
           Sendable(a.frame) /\ ~IsAck(a.frame) /\ ~IsExistingRequest(a.frame)
    BY WhatIsSent DEF PublishAlert, SendFrame, PublishState, PublishStaleAvailability,
                      PublishDiagnostics
  <1> HIDE DEF S
  <1>6. Quiets(out')
    BY <1>4, <1>5, QuietActions
  <1> QED BY <1>1, <1>2, <1>3, <1>6 DEF RegFits

-----------------------------------------------------------------------------
(* execute_actions: what is new in UART_TX_CHANNEL was asked for. *)

LEMMA PositivePart ==
    ASSUME NEW c \in Nat, NEW z \in Int, z <= c
    PROVE  \E n \in Nat : n <= c /\ 1 .. z = 1 .. n
  <1>1. CASE z >= 0
    BY <1>1
  <1>2. CASE z < 0
    <2>1. 1 .. z = 1 .. 0
      BY <1>2
    <2> QED BY <2>1
  <1> QED BY <1>1, <1>2

LEMMA AtMostOne ==
    ASSUME NEW I \in SUBSET {1}
    PROVE  Cardinality(I) <= 1
  <1>1. CASE I = {}
    BY <1>1, FS_EmptySet
  <1>2. CASE I = {1}
    BY <1>2, FS_Singleton
  <1> QED BY <1>1, <1>2

LEMMA Transmission ==
    ASSUME IsQueue(tx), IsQueue(out'), ExecuteActions
    PROVE  /\ IsQueue(tx')
           /\ \A i \in DOMAIN tx : i \in DOMAIN tx' /\ tx'[i] = tx[i]
           /\ \A i \in DOMAIN tx' : i \notin DOMAIN tx =>
                 \E k \in DOMAIN out' : out'[k].act = "SendFrame" /\ tx'[i] = out'[k].frame
           /\ (\A k \in DOMAIN out' : out'[k].act = "SendFrame" => k = 1) =>
                 \A i, j \in DOMAIN tx' : i \notin DOMAIN tx /\ j \notin DOMAIN tx => i = j
  <1> DEFINE sends == {k \in DOMAIN out' : out'[k].act = "SendFrame"}
             fits == Smaller(Cardinality(sends), ChannelCapacity - Len(tx))
             FirstOnly == \A k \in DOMAIN out' : out'[k].act = "SendFrame" => k = 1
  <1>1. /\ DOMAIN out' = 1 .. Len(out') /\ Len(out') \in Nat
        /\ DOMAIN tx = 1 .. Len(tx) /\ Len(tx) \in Nat
    BY QueueIndices
  <1>2. Cardinality(sends) \in Nat
    BY <1>1, IndexSetSize
  <1>3. fits \in Int /\ fits <= Cardinality(sends)
    BY <1>1, <1>2, BusAssumption DEF Smaller
  <1>4. PICK order \in Increasing(sends) :
           tx' = tx \o [k \in 1 .. fits |-> out'[order[k]].frame]
    BY DEF ExecuteActions
  <1>5. \A k \in 1 .. Cardinality(sends) : order[k] \in sends
    BY <1>4 DEF Increasing
  <1>6. PICK n \in Nat : n <= Cardinality(sends) /\ 1 .. fits = 1 .. n
    <2> HIDE DEF fits, sends
    <2> QED BY <1>2, <1>3, PositivePart
  <1> DEFINE new == [k \in 1 .. n |-> out'[order[k]].frame]
  <1>7. tx' = tx \o new
    BY <1>4, <1>6
  <1>8. IsQueue(new) /\ Len(new) = n /\ DOMAIN new = 1 .. n
    BY ListedQueue
  <1>9. \A k \in DOMAIN new : \E j \in DOMAIN out' :
           out'[j].act = "SendFrame" /\ new[k] = out'[j].frame
    BY <1>2, <1>5, <1>6, <1>8
  <1>10. FirstOnly => n <= 1
    <2> SUFFICES ASSUME FirstOnly PROVE n <= 1
      OBVIOUS
    <2>1. sends \in SUBSET {1}
      OBVIOUS
    <2>2. Cardinality(sends) <= 1
      BY <2>1, AtMostOne
    <2> QED BY <1>2, <1>6, <2>2
  <1> HIDE DEF new, sends, fits
  <1>11. /\ IsQueue(tx \o new)
         /\ \A i \in DOMAIN tx : i \in DOMAIN (tx \o new) /\ (tx \o new)[i] = tx[i]
         /\ DOMAIN (tx \o new) = 1 .. Len(tx) + n
         /\ \A i \in DOMAIN (tx \o new) : i \notin DOMAIN tx =>
               i - Len(tx) \in DOMAIN new /\ (tx \o new)[i] = new[i - Len(tx)]
    <2>0. IsQueue(tx) /\ IsQueue(new)
      BY <1>8
    <2>1. IsQueue(tx \o new)
      BY <2>0, LongerQueue
    <2>2. \A i \in DOMAIN tx : (tx \o new)[i] = tx[i]
      BY <2>0, LongerQueue
    <2>3. DOMAIN (tx \o new) = 1 .. Len(tx) + Len(new)
      BY <2>0, LongerQueue
    <2>4. \A i \in DOMAIN (tx \o new) : i \notin DOMAIN tx =>
             i - Len(tx) \in DOMAIN new /\ (tx \o new)[i] = new[i - Len(tx)]
      BY <2>0, LongerQueue
    <2> QED BY <1>1, <1>8, <2>1, <2>2, <2>3, <2>4
  <1>12. /\ IsQueue(tx')
         /\ \A i \in DOMAIN tx : i \in DOMAIN tx' /\ tx'[i] = tx[i]
    BY <1>7, <1>11
  <1>13. ASSUME NEW i \in DOMAIN tx', i \notin DOMAIN tx
         PROVE  \E k \in DOMAIN out' : out'[k].act = "SendFrame" /\ tx'[i] = out'[k].frame
    BY <1>7, <1>9, <1>11, <1>13
  <1>14. ASSUME FirstOnly, NEW i \in DOMAIN tx', NEW j \in DOMAIN tx',
                i \notin DOMAIN tx, j \notin DOMAIN tx
         PROVE  i = j
    BY <1>1, <1>7, <1>10, <1>11, <1>14
  <1> QED BY <1>12, <1>13, <1>14

(* After quiet actions the channel holds the same acknowledgements. *)
LEMMA QuietTransmission ==
    ASSUME IsQueue(tx), Quiets(out'), ExecuteActions
    PROVE  /\ IsQueue(tx')
           /\ \A i \in DOMAIN tx : i \in DOMAIN tx' /\ tx'[i] = tx[i]
           /\ \A i \in DOMAIN tx' : i \notin DOMAIN tx =>
                 /\ Sendable(tx'[i]) /\ ~IsAck(tx'[i])
                 /\ IsExistingRequest(tx'[i]) => reg.prev # None
  <1>1. IsQueue(out')
    BY DEF Quiets
  <1> QED BY <1>1, Transmission DEF Quiets

(* The channel after the acknowledgement of an assignment. *)
LEMMA AckTransmission ==
    ASSUME IsQueue(tx), NEW ch, out' = <<SendFrame(ClientIdAck(ch))>>, ExecuteActions
    PROVE  /\ IsQueue(tx')
           /\ \A i \in DOMAIN tx : i \in DOMAIN tx' /\ tx'[i] = tx[i]
           /\ \A i \in DOMAIN tx' : i \notin DOMAIN tx => tx'[i] = ClientIdAck(ch)
           /\ \A i, j \in DOMAIN tx' : i \notin DOMAIN tx /\ j \notin DOMAIN tx => i = j
  <1>1. IsQueue(out') /\ Len(out') = 1 /\ DOMAIN out' = {1} /\ out'[1] = SendFrame(ClientIdAck(ch))
    BY SingleQueue
  <1> QED BY <1>1, Transmission DEF SendFrame

-----------------------------------------------------------------------------
(* One channel for a session. *)

(* The values the tasks pass around, and the flag: the main loop stores it *)
(* before it waits again, and only its own steps change the registration.  *)
MainFits ==
    /\ SimFits(sim) /\ RegFits
    /\ IsQueue(tx) /\ \A i \in DOMAIN tx : Sendable(tx[i])
FlagIsFresh == phase = "wait" => appRegistered = IsRegistered(reg)
FlagInv == MainFits /\ FlagIsFresh

LEMMA FirstSpa ==
    ASSUME Init
    PROVE  SimFits(sim) /\ ~sim.registered
  BY DEF Init, SimNew, SimFits, SimFields, RemainderFits

LEMMA FlagInit == Init => FlagInv
  <1> SUFFICES ASSUME Init PROVE FlagInv
    OBVIOUS
  <1>1. SimFits(sim)
    BY FirstSpa
  <1>2. PICK prev : reg = RegNew(prev)
    BY DEF Init, AppInit
  <1>3. RegFits /\ ~IsRegistered(reg)
    BY <1>2 DEF RegFits, MachineFits, RegFields, RegNew, IsRegistered
  <1>4. IsQueue(tx) /\ DOMAIN tx = {} /\ appRegistered = FALSE
    BY EmptyQueue DEF Init
  <1>5. MainFits
    BY <1>1, <1>3, <1>4 DEF MainFits
  <1>6. appRegistered = IsRegistered(reg)
    BY <1>3, <1>4, Zenon DEF IsRegistered
  <1> QED BY <1>5, <1>6 DEF FlagInv, FlagIsFresh

(* Actions that sent only what may be sent keep the channel as it should be. *)
LEMMA SentStaysSendable ==
    ASSUME MainFits, ExecuteActions, RegFits', UNCHANGED sim,
           Quiets(out') \/ \E ch : out' = <<SendFrame(ClientIdAck(ch))>>
    PROVE  MainFits'
  <1>1. CASE Quiets(out')
    <2>1. IsQueue(tx') /\ \A i \in DOMAIN tx' : Sendable(tx'[i])
      BY <1>1, QuietTransmission DEF MainFits
    <2> QED BY <2>1 DEF MainFits
  <1>2. ASSUME NEW ch, out' = <<SendFrame(ClientIdAck(ch))>> PROVE MainFits'
    <2>1. IsQueue(tx') /\ \A i \in DOMAIN tx' : Sendable(tx'[i])
      BY <1>2, AckTransmission, WhatIsSent DEF MainFits
    <2> QED BY <2>1 DEF MainFits
  <1> QED BY <1>1, <1>2

LEMMA FrameKeepsMain ==
    ASSUME MainFits, NEW f, ProcessFrame(f), ExecuteActions, UNCHANGED sim
    PROVE  MainFits'
  <1>1. SessionAfter(f)
    BY FrameSession DEF MainFits
  <1>2. Quiets(out') \/ \E ch : out' = <<SendFrame(ClientIdAck(ch))>>
    BY <1>1, NothingIsQuiet DEF SessionAfter, Kept, TakenOver, Won, AskedFor, Resumed
  <1> QED BY <1>1, <1>2, SentStaysSendable DEF SessionAfter

LEMMA TransmitKeepsMain ==
    ASSUME MainFits, tx # <<>>, NEW rest, WriteTo(Head(tx), rest), tx' = Tail(tx), UNCHANGED reg
    PROVE  MainFits' /\ sim'.next = sim.next
  <1>1. Sendable(Head(tx))
    BY QueueIndices DEF MainFits
  <1>2. PICK r \in SimProcess(sim, Head(tx)) : sim' = r.sim
    BY DEF WriteTo
  <1>3. SimFits(sim') /\ sim'.next = sim.next
    BY <1>1, <1>2, SpaTakesFrame DEF MainFits
  <1>4. IsQueue(tx') /\ \A i \in DOMAIN tx' : Sendable(tx'[i])
    BY ShorterQueue DEF MainFits
  <1> QED BY <1>3, <1>4 DEF MainFits, RegFits

(* Only the fast path of uart_task moves the spa's next channel. *)
LEMMA ReadingKeepsMain ==
    ASSUME MainFits, UartReads
    PROVE  MainFits' /\ (sim'.next # sim.next => ~appRegistered)
  <1>1. UNCHANGED <<reg, tx>>
    BY DEF UartReads, appVars, sessionVars
  <1>2. CASE sim' = sim
    BY <1>1, <1>2 DEF MainFits, RegFits
  <1>3. CASE /\ ~appRegistered
             /\ WriteTo(NewClientResponse(OwnHash), Tail(line))
    <2>1. PICK r \in SimProcess(sim, NewClientResponse(OwnHash)) : sim' = r.sim
      BY <1>3 DEF WriteTo
    <2>2. SimFits(sim')
      BY <2>1, SpaAnswersResponse DEF MainFits
    <2> QED BY <1>1, <1>3, <2>2 DEF MainFits, RegFits
  <1> QED BY <1>2, <1>3 DEF UartReads, FastPath

LEMMA FlagStep ==
    ASSUME FlagInv, [Next]_vars
    PROVE  FlagInv' /\ (sim'.next # sim.next => ~IsRegistered(reg))
  <1> USE DEF FlagInv
  <1>1. CASE UartReads
    <2>1. MainFits' /\ (sim'.next # sim.next => ~appRegistered)
      BY <1>1, ReadingKeepsMain
    <2>2. phase = "wait" /\ UNCHANGED <<phase, appRegistered, reg>>
      BY <1>1 DEF UartReads, appVars, sessionVars
    <2> QED BY <2>1, <2>2 DEF FlagIsFresh
  <1>2. CASE UartSends
    BY <1>2 DEF UartSends, appVars, sessionVars, MainFits, RegFits, FlagIsFresh
  <1>3. CASE UartTransmits
    <2>1. MainFits' /\ sim'.next = sim.next
      BY <1>3, TransmitKeepsMain DEF UartTransmits, appVars, sessionVars
    <2> QED BY <1>3, <2>1 DEF UartTransmits, appVars, sessionVars, FlagIsFresh
  <1>4. CASE MainTakesFrame
    <2>1. MainFits'
      BY <1>4, FrameKeepsMain DEF MainTakesFrame
    <2> QED BY <1>4, <2>1 DEF MainTakesFrame, FlagIsFresh
  <1>5. CASE MainDrainsFrame
    <2>1. MainFits'
      BY <1>5, FrameKeepsMain DEF MainDrainsFrame
    <2> QED BY <1>5, <2>1 DEF MainDrainsFrame, FlagIsFresh
  <1>6. CASE MainDrained
    BY <1>6 DEF MainDrained, appVars, sessionVars, MainFits, RegFits, FlagIsFresh
  <1>7. CASE MainTimer
    BY <1>7 DEF MainTimer, appVars, sessionVars, MainFits, RegFits, FlagIsFresh
  <1>8. CASE MainTick
    <2>1. RegFits' /\ Quiets(out')
      BY <1>8, TickSession DEF MainTick, MainFits
    <2>2. MainFits'
      BY <1>8, <2>1, SentStaysSendable DEF MainTick
    <2> QED BY <1>8, <2>2 DEF MainTick, FlagIsFresh
  <1>9. CASE MainTakesCommand
    <2>1. Kept
      BY <1>9, CommandSession DEF MainTakesCommand, MainFits
    <2>2. MainFits'
      <3>1. RegFits' /\ Quiets(out')
        BY <2>1 DEF Kept, MainFits, RegFits
      <3> QED BY <1>9, <3>1, SentStaysSendable DEF MainTakesCommand
    <2> QED BY <1>9, <2>2 DEF MainTakesCommand, FlagIsFresh
  <1>10. CASE Second
    <2>1. PICK r \in SimTick(sim) : sim' = r.sim
      BY <1>10 DEF Second
    <2>2. SimFits(sim') /\ sim'.next = sim.next
      BY <2>1, SecondOfTheSpa DEF SameSession, MainFits
    <2> QED BY <1>10, <2>2 DEF Second, Advance, MainFits, RegFits, FlagIsFresh
  <1>11. CASE Inject
    <2>1. SimFits(sim') /\ sim'.next = sim.next
      BY <1>11, FaultOfTheSpa DEF Inject, MainFits
    <2> QED BY <1>11, <2>1 DEF Inject, appVars, sessionVars, MainFits, RegFits, FlagIsFresh
  <1>12. CASE UNCHANGED vars
    BY <1>12 DEF vars, busVars, appVars, sessionVars, MainFits, RegFits, FlagIsFresh
  <1> QED BY <1>1, <1>2, <1>3, <1>4, <1>5, <1>6, <1>7, <1>8, <1>9, <1>10, <1>11, <1>12
          DEF Next, Device

(* A registered device is never answered for by the fast path: whatever    *)
(* the two tasks, the spa and the faults do, the spa does not hand out     *)
(* another channel during a session (uart_task, APP_REGISTERED).           *)
THEOREM SessionKeepsItsChannel == Spec => OneChannelPerSession
  <1>1. FlagInv /\ [Next]_vars => FlagInv' /\ [sim'.next # sim.next => ~IsRegistered(reg)]_vars
    BY FlagStep
  <1> QED BY <1>1, FlagInit, PTL DEF Spec, OneChannelPerSession

-----------------------------------------------------------------------------
(* The channel the spa and the device agree on.                            *)

(* Queries, assignments and acknowledgements in the queues. *)
QueryFirst(l) == \A i \in DOMAIN l : l[i].frame = NewClientQuery => i = 1
NoQuery(l) == \A i \in DOMAIN l : l[i].frame # NewClientQuery
GrantsNone(l) == \A i \in DOMAIN l : ~IsAssignment(l[i].frame)
GrantsOnce(l) ==
    \A i, j \in DOMAIN l : IsAssignment(l[i].frame) /\ IsAssignment(l[j].frame) => i = j
CarriesNone(q) == \A i \in DOMAIN q : ~IsAssignment(q[i])
CarriesOne(q) == \A i, j \in DOMAIN q : IsAssignment(q[i]) /\ IsAssignment(q[j]) => i = j
NoAck(q) == \A i \in DOMAIN q : ~IsAck(q[i])

(* No channel is on its way to the device, or on its way back to the spa:  *)
(* an assignment is on the line, in the hands of uart_task or in           *)
(* FRAME_CHANNEL, its acknowledgement in UART_TX_CHANNEL.                  *)
NothingGranted == GrantsNone(line) /\ ~IsAssignment(held) /\ CarriesNone(frames)
NothingAcknowledged == NoAck(tx) /\ ~sim.registered

(* One grant at a time: a query finds nothing of an earlier handshake, the *)
(* assignment that answers it is the only one and finds no acknowledgement *)
(* of another, the acknowledgement is of the channel the device took, and  *)
(* the spa takes up no registration before it.                             *)
GrantInv ==
    /\ QueryFirst(line)
    /\ NoQuery(line) \/ (NothingGranted /\ NothingAcknowledged)
    /\ GrantsOnce(line) /\ CarriesOne(frames)
    /\ GrantsNone(line) \/ (~IsAssignment(held) /\ CarriesNone(frames))
    /\ ~IsAssignment(held) \/ CarriesNone(frames)
    /\ NothingGranted \/ NothingAcknowledged
AckInv ==
    /\ \A i, j \in DOMAIN tx : IsAck(tx[i]) /\ IsAck(tx[j]) => i = j
    /\ \A i \in DOMAIN tx :
          IsAck(tx[i]) => ~sim.registered /\ (IsRegistered(reg) => clientId = tx[i].ch)
    /\ sim.registered /\ IsRegistered(reg) => sim.client = clientId

(* A device that knows no earlier channel never asks for one. *)
NewClient ==
    /\ reg.prev = None /\ reg.state # "WaitingForExistingResponse"
    /\ \A i \in DOMAIN tx : ~IsExistingRequest(tx[i])
QueuesFit ==
    /\ LineFits(line) /\ IsQueue(frames)
    /\ partial # Idle => Harmless(partial.frame)
AgreeInv == MainFits /\ QueuesFit /\ NewClient /\ GrantInv /\ AckInv

LEMMA AgreeInit ==
    ASSUME Init, PrevChannels = {}
    PROVE  AgreeInv
  <1>1. MainFits
    BY FlagInit DEF FlagInv
  <1>2. reg = RegNew(None)
    BY DEF Init, AppInit
  <1>3. NewClient /\ ~IsRegistered(reg)
    BY <1>2, EmptyQueue DEF NewClient, RegNew, IsRegistered, Init
  <1>4. ~sim.registered
    BY FirstSpa
  <1>5. /\ line = <<>> /\ frames = <<>> /\ tx = <<>> /\ partial = Idle
        /\ ~IsAssignment(held)
    BY WhatIsHarmless DEF Init, Harmless
  <1>6. QueuesFit
    BY <1>5, EmptyQueue DEF QueuesFit, LineFits
  <1>7. GrantInv
    BY <1>4, <1>5, EmptyQueue
       DEF GrantInv, QueryFirst, NoQuery, NothingGranted, NothingAcknowledged, GrantsOnce,
           GrantsNone, CarriesOne, CarriesNone, NoAck
  <1>8. AckInv
    BY <1>3, <1>4, <1>5, EmptyQueue DEF AckInv
  <1> QED BY <1>1, <1>3, <1>6, <1>7, <1>8 DEF AgreeInv

(* Queues that lose their head or gain an element. *)
LEMMA QueryIsNoGrant == ~IsAssignment(NewClientQuery)
  BY DEF IsAssignment, NewClientQuery, Febf, ParseRegistration, Message

LEMMA LineRead ==
    ASSUME NEW l, LineFits(l), l # <<>>
    PROVE  /\ LineFits(Tail(l))
           /\ Head(l).part \in Parts /\ (Head(l).part # "whole" => Harmless(Head(l).frame))
           /\ QueryFirst(l) => NoQuery(Tail(l))
           /\ NoQuery(l) => Head(l).frame # NewClientQuery /\ NoQuery(Tail(l))
           /\ GrantsOnce(l) => GrantsOnce(Tail(l))
           /\ GrantsNone(l) => GrantsNone(Tail(l)) /\ ~IsAssignment(Head(l).frame)
           /\ GrantsOnce(l) /\ IsAssignment(Head(l).frame) => GrantsNone(Tail(l))
  <1>1. /\ IsQueue(Tail(l)) /\ DOMAIN Tail(l) = 1 .. Len(l) - 1
        /\ \A i \in DOMAIN Tail(l) : i + 1 \in DOMAIN l /\ Tail(l)[i] = l[i + 1]
    BY ShorterQueue DEF LineFits
  <1>2. 1 \in DOMAIN l /\ Head(l) = l[1] /\ Len(l) \in Nat
    BY QueueIndices DEF LineFits
  <1>3. \A i \in DOMAIN Tail(l) : i \in Nat /\ i >= 1 /\ i + 1 # 1
    BY <1>1, <1>2
  <1>4. LineFits(Tail(l))
    BY <1>1 DEF LineFits
  <1>5. Head(l).part \in Parts /\ (Head(l).part # "whole" => Harmless(Head(l).frame))
    BY <1>2 DEF LineFits
  <1>6. QueryFirst(l) => NoQuery(Tail(l))
    BY <1>1, <1>3 DEF QueryFirst, NoQuery
  <1>7. NoQuery(l) => Head(l).frame # NewClientQuery /\ NoQuery(Tail(l))
    BY <1>1, <1>2 DEF NoQuery
  <1>8. GrantsOnce(l) => GrantsOnce(Tail(l))
    <2> SUFFICES ASSUME GrantsOnce(l), NEW i \in DOMAIN Tail(l), NEW j \in DOMAIN Tail(l),
                        IsAssignment(Tail(l)[i].frame), IsAssignment(Tail(l)[j].frame)
                 PROVE  i = j
      BY DEF GrantsOnce
    <2>1. i + 1 = j + 1
      BY <1>1 DEF GrantsOnce
    <2> QED BY <1>3, <2>1
  <1>9. GrantsNone(l) => GrantsNone(Tail(l)) /\ ~IsAssignment(Head(l).frame)
    BY <1>1, <1>2 DEF GrantsNone
  <1>10. GrantsOnce(l) /\ IsAssignment(Head(l).frame) => GrantsNone(Tail(l))
    BY <1>1, <1>2, <1>3 DEF GrantsNone, GrantsOnce
  <1> QED BY <1>4, <1>5, <1>6, <1>7, <1>8, <1>9, <1>10

LEMMA LineAnswered ==
    ASSUME NEW l, LineFits(l), NoQuery(l), GrantsNone(l), NEW f, f # NewClientQuery
    PROVE  /\ LineFits(l \o <<Whole(f)>>) /\ NoQuery(l \o <<Whole(f)>>)
           /\ GrantsOnce(l \o <<Whole(f)>>)
           /\ ~IsAssignment(f) => GrantsNone(l \o <<Whole(f)>>)
  <1> DEFINE a == <<Whole(f)>>
  <1>1. IsQueue(a) /\ IsQueue(l) /\ DOMAIN a = {1} /\ a[1] = Whole(f) /\ Len(a) = 1
    BY SingleQueue DEF LineFits
  <1>2. Whole(f).part = "whole" /\ Whole(f).frame = f
    BY DEF Whole
  <1> HIDE DEF a
  <1>3. IsQueue(l \o a)
    BY <1>1, LongerQueue
  <1>4. \A i \in DOMAIN l : (l \o a)[i] = l[i]
    BY <1>1, LongerQueue
  <1>5. \A i \in DOMAIN (l \o a) : i \notin DOMAIN l =>
           i - Len(l) \in DOMAIN a /\ (l \o a)[i] = a[i - Len(l)]
    BY <1>1, LongerQueue
  <1>6. DOMAIN (l \o a) = 1 .. Len(l) + 1 /\ Len(l) \in Nat
    BY <1>1, LongerQueue, QueueIndices
  <1>7. \A i \in DOMAIN (l \o a) : i \notin DOMAIN l =>
           i = Len(l) + 1 /\ (l \o a)[i].part = "whole" /\ (l \o a)[i].frame = f
    BY <1>1, <1>2, <1>5, <1>6
  <1>8. LineFits(l \o a)
    BY <1>3, <1>4, <1>7 DEF LineFits, Parts
  <1>9. NoQuery(l \o a)
    BY <1>4, <1>7 DEF NoQuery
  <1>10. GrantsOnce(l \o a)
    BY <1>4, <1>7 DEF GrantsOnce, GrantsNone
  <1>11. ~IsAssignment(f) => GrantsNone(l \o a)
    BY <1>4, <1>7 DEF GrantsNone
  <1> QED BY <1>8, <1>9, <1>10, <1>11 DEF a

LEMMA FramesTaken ==
    ASSUME NEW q, IsQueue(q), q # <<>>
    PROVE  /\ IsQueue(Tail(q))
           /\ CarriesOne(q) => CarriesOne(Tail(q))
           /\ CarriesNone(q) => CarriesNone(Tail(q)) /\ ~IsAssignment(Head(q))
           /\ CarriesOne(q) /\ IsAssignment(Head(q)) => CarriesNone(Tail(q))
  <1>1. /\ IsQueue(Tail(q)) /\ DOMAIN Tail(q) = 1 .. Len(q) - 1
        /\ \A i \in DOMAIN Tail(q) : i + 1 \in DOMAIN q /\ Tail(q)[i] = q[i + 1]
    BY ShorterQueue
  <1>2. 1 \in DOMAIN q /\ Head(q) = q[1] /\ Len(q) \in Nat
    BY QueueIndices
  <1>3. \A i \in DOMAIN Tail(q) : i \in Nat /\ i >= 1 /\ i + 1 # 1
    BY <1>1, <1>2
  <1>4. CarriesOne(q) => CarriesOne(Tail(q))
    <2> SUFFICES ASSUME CarriesOne(q), NEW i \in DOMAIN Tail(q), NEW j \in DOMAIN Tail(q),
                        IsAssignment(Tail(q)[i]), IsAssignment(Tail(q)[j])
                 PROVE  i = j
      BY DEF CarriesOne
    <2>1. i + 1 = j + 1
      BY <1>1 DEF CarriesOne
    <2> QED BY <1>3, <2>1
  <1>5. CarriesNone(q) => CarriesNone(Tail(q)) /\ ~IsAssignment(Head(q))
    BY <1>1, <1>2 DEF CarriesNone
  <1>6. CarriesOne(q) /\ IsAssignment(Head(q)) => CarriesNone(Tail(q))
    BY <1>1, <1>2, <1>3 DEF CarriesOne, CarriesNone
  <1> QED BY <1>1, <1>4, <1>5, <1>6

LEMMA FramesJoined ==
    ASSUME NEW q, IsQueue(q), NEW f
    PROVE  /\ IsQueue(Append(q, f))
           /\ CarriesNone(q) => CarriesOne(Append(q, f))
           /\ ~IsAssignment(f) /\ CarriesOne(q) => CarriesOne(Append(q, f))
           /\ ~IsAssignment(f) /\ CarriesNone(q) => CarriesNone(Append(q, f))
  <1>1. /\ IsQueue(Append(q, f))
        /\ \A i \in DOMAIN q : Append(q, f)[i] = q[i]
        /\ \A i \in DOMAIN Append(q, f) : i \notin DOMAIN q => i = Len(q) + 1
        /\ Append(q, f)[Len(q) + 1] = f
    BY AppendedQueue
  <1> QED BY <1>1 DEF CarriesNone, CarriesOne

(* uart_task reads: an assignment answers a query, and finds nothing of    *)
(* another handshake.                                                      *)
LEMMA DecoderKeepsGrants ==
    ASSUME QueuesFit, line # <<>>
    PROVE  LET d == Decode(partial, Head(line))
               f == IF d.frame = Garbled THEN NoFrame ELSE d.frame
           IN  /\ d.partial # Idle => Harmless(d.partial.frame)
               /\ Harmless(f) \/ f = Head(line).frame
  <1> DEFINE e == Head(line)
             d == Decode(partial, e)
             f == IF d.frame = Garbled THEN NoFrame ELSE d.frame
  <1>1. e.part \in Parts /\ (e.part # "whole" => Harmless(e.frame))
    BY LineRead DEF QueuesFit
  <1>2. partial # Idle => Harmless(partial.frame)
    BY DEF QueuesFit
  <1> HIDE DEF e
  <1>3. /\ d.partial = Idle \/ (d.partial = e /\ e.part # "whole")
        /\ d.frame = e.frame \/ d.frame = NoFrame \/ (partial # Idle /\ d.frame = partial.frame)
    BY <1>1 DEF Decode, Parts
  <1>4. d.partial # Idle => Harmless(d.partial.frame)
    BY <1>1, <1>3
  <1>5. Harmless(f) \/ f = e.frame
    BY <1>2, <1>3, WhatIsHarmless
  <1> QED BY <1>4, <1>5 DEF e

LEMMA ReadingKeepsAgreement ==
    ASSUME AgreeInv, UartReads
    PROVE  AgreeInv'
  <1> USE DEF AgreeInv
  <1> DEFINE f == held'
  <1>1. /\ line # <<>> /\ held = NoFrame
        /\ UNCHANGED <<reg, clientId, tx, frames>>
        /\ \/ line' = Tail(line) /\ sim' = sim
           \/ f = NewClientQuery /\ WriteTo(NewClientResponse(OwnHash), Tail(line))
    BY DEF UartReads, FastPath, appVars, sessionVars
  <1>2. /\ partial' # Idle => Harmless(partial'.frame)
        /\ Harmless(f) \/ f = Head(line).frame
    BY <1>1, DecoderKeepsGrants DEF UartReads
  <1>3. MainFits'
    BY ReadingKeepsMain
  <1>4. /\ LineFits(Tail(line)) /\ NoQuery(Tail(line)) /\ GrantsOnce(Tail(line))
        /\ NoQuery(line) => Head(line).frame # NewClientQuery
        /\ GrantsNone(line) => GrantsNone(Tail(line)) /\ ~IsAssignment(Head(line).frame)
        /\ IsAssignment(Head(line).frame) => GrantsNone(Tail(line))
    BY <1>1, LineRead DEF QueuesFit, GrantInv
  <1>5. NewClient'
    BY <1>1 DEF NewClient
  <1>6. \A l : NoQuery(l) => QueryFirst(l)
    BY DEF NoQuery, QueryFirst
  <1>7. CASE line' = Tail(line) /\ sim' = sim
    <2>1. QueuesFit'
      BY <1>1, <1>2, <1>4, <1>7 DEF QueuesFit
    <2>2. IsAssignment(f) => IsAssignment(Head(line).frame)
      BY <1>2 DEF Harmless
    <2>3. GrantInv'
      BY <1>1, <1>4, <1>6, <1>7, <2>2 DEF GrantInv, NothingGranted, NothingAcknowledged
    <2>4. AckInv'
      BY <1>1, <1>7 DEF AckInv
    <2> QED BY <1>3, <1>5, <2>1, <2>3, <2>4
  <1>8. CASE f = NewClientQuery /\ WriteTo(NewClientResponse(OwnHash), Tail(line))
    <2>1. Head(line).frame = NewClientQuery
      BY <1>2, <1>8 DEF Harmless
    <2>2. NothingGranted /\ NothingAcknowledged /\ GrantsNone(Tail(line))
      BY <1>4, <2>1 DEF GrantInv, NothingGranted
    <2>3. PICK r \in SimProcess(sim, NewClientResponse(OwnHash)) :
             sim' = r.sim /\ line' = Tail(line) \o r.line
      BY <1>8 DEF WriteTo
    <2>4. /\ sim'.registered = sim.registered /\ sim'.client = sim.client
          /\ \/ r.line = <<>>
             \/ \E ch : r.line = <<Whole(ClientIdAssignment(ch, OwnHash))>>
      BY <2>3, SpaAnswersResponse DEF MainFits
    <2>5. /\ LineFits(line') /\ NoQuery(line') /\ GrantsOnce(line')
      <3>1. CASE r.line = <<>>
        <4>1. line' = Tail(line)
          <5>1. PICK S : Tail(line) \in Seq(S)
            BY <1>4 DEF LineFits, IsQueue
          <5> QED BY <2>3, <3>1, <5>1
        <4> QED BY <1>4, <4>1
      <3>2. ASSUME NEW ch, r.line = <<Whole(ClientIdAssignment(ch, OwnHash))>>
            PROVE  LineFits(line') /\ NoQuery(line') /\ GrantsOnce(line')
        <4>1. PICK a : a = ClientIdAssignment(ch, OwnHash)
          OBVIOUS
        <4>2. a # NewClientQuery
          BY <4>1 DEF ClientIdAssignment, NewClientQuery, Febf
        <4>3. line' = Tail(line) \o <<Whole(a)>>
          BY <2>3, <3>2, <4>1
        <4> QED BY <1>4, <2>2, <4>2, <4>3, LineAnswered
      <3> QED BY <2>4, <3>1, <3>2
    <2>6. ~IsAssignment(f)
      BY <1>8, QueryIsNoGrant
    <2>7. QueuesFit'
      BY <1>1, <1>2, <2>5 DEF QueuesFit
    <2>8. GrantInv'
      BY <1>1, <1>6, <2>2, <2>4, <2>5, <2>6 DEF GrantInv, NothingGranted, NothingAcknowledged,
         CarriesOne, CarriesNone
    <2>9. AckInv'
      BY <1>1, <2>4 DEF AckInv
    <2> QED BY <1>3, <1>5, <2>7, <2>8, <2>9
  <1> QED BY <1>1, <1>7, <1>8

(* uart_task hands a frame to the main loop. *)
LEMMA SendingKeepsAgreement ==
    ASSUME AgreeInv, UartSends
    PROVE  AgreeInv'
  <1> USE DEF AgreeInv
  <1>1. /\ frames' = Append(frames, held) /\ held' = NoFrame
        /\ UNCHANGED <<reg, clientId, sim, line, partial, tx>>
    BY DEF UartSends, appVars, sessionVars
  <1>2. ~IsAssignment(held')
    BY <1>1, WhatIsHarmless DEF Harmless
  <1>3. /\ IsQueue(frames')
        /\ CarriesNone(frames) => CarriesOne(frames')
        /\ ~IsAssignment(held) /\ CarriesOne(frames) => CarriesOne(frames')
        /\ ~IsAssignment(held) /\ CarriesNone(frames) => CarriesNone(frames')
    BY <1>1, FramesJoined DEF QueuesFit
  <1>4. MainFits' /\ NewClient' /\ AckInv'
    BY <1>1 DEF MainFits, RegFits, NewClient, AckInv
  <1>5. QueuesFit'
    BY <1>1, <1>3 DEF QueuesFit
  <1>6. GrantInv'
    BY <1>1, <1>2, <1>3 DEF GrantInv, NothingGranted, NothingAcknowledged
  <1> QED BY <1>4, <1>5, <1>6

(* uart_task transmits: the acknowledgement brings the spa the channel the *)
(* device took.                                                            *)
LEMMA TransmittingKeepsAgreement ==
    ASSUME AgreeInv, UartTransmits
    PROVE  AgreeInv'
  <1> USE DEF AgreeInv
  <1>1. /\ line = <<>> /\ held = NoFrame /\ tx # <<>> /\ tx' = Tail(tx)
        /\ WriteTo(Head(tx), <<>>)
        /\ UNCHANGED <<reg, clientId, partial, held, frames>>
    BY DEF UartTransmits, appVars, sessionVars
  <1>2. PICK r \in SimProcess(sim, Head(tx)) : sim' = r.sim /\ line' = <<>> \o r.line
    BY <1>1 DEF WriteTo
  <1>3. /\ Head(tx) = tx[1] /\ 1 \in DOMAIN tx /\ IsQueue(tx)
        /\ Sendable(Head(tx)) /\ ~IsExistingRequest(Head(tx))
    BY <1>1, QueueIndices DEF MainFits, NewClient
  <1>4. /\ HarmlessAnswer(r.line)
        /\ IsAck(Head(tx)) => sim'.registered /\ sim'.client = Head(tx).ch
        /\ ~IsAck(Head(tx)) => SameSession(sim', sim)
    BY <1>2, <1>3, SpaTakesFrame DEF MainFits
  <1>5. LineFits(line') /\ NoQuery(line') /\ GrantsOnce(line') /\ GrantsNone(line')
    <2>1. CASE r.line = <<>>
      BY <1>2, <2>1, EmptyQueue DEF LineFits, NoQuery, GrantsOnce, GrantsNone
    <2>2. ASSUME NEW f, Harmless(f), r.line = <<Whole(f)>>
          PROVE  LineFits(line') /\ NoQuery(line') /\ GrantsOnce(line') /\ GrantsNone(line')
      <3>1. LineFits(<<>>) /\ NoQuery(<<>>) /\ GrantsNone(<<>>)
        BY EmptyQueue DEF LineFits, NoQuery, GrantsNone
      <3>2. line' = <<>> \o <<Whole(f)>>
        BY <1>2, <2>2
      <3>3. f # NewClientQuery /\ ~IsAssignment(f)
        BY <2>2 DEF Harmless
      <3> QED BY <3>1, <3>2, <3>3, LineAnswered
    <2> QED BY <1>4, <2>1, <2>2 DEF HarmlessAnswer
  <1>6. /\ IsQueue(tx') /\ \A i \in DOMAIN tx' : i + 1 \in DOMAIN tx /\ tx'[i] = tx[i + 1]
        /\ \A i \in DOMAIN tx' : i \in Nat /\ i >= 1 /\ i + 1 # 1
    <2>1. DOMAIN Tail(tx) = 1 .. Len(tx) - 1 /\ Len(tx) \in Nat
      BY <1>1, <1>3, ShorterQueue, QueueIndices
    <2> QED BY <1>1, <1>3, <2>1, ShorterQueue
  <1>7. MainFits' /\ NewClient'
    BY <1>1, <1>6, TransmitKeepsMain DEF NewClient
  <1>8. QueuesFit'
    BY <1>1, <1>5 DEF QueuesFit
  <1>9. NothingGranted' \/ (NoAck(tx) /\ ~sim.registered /\ ~sim'.registered)
    <2>1. CASE NothingGranted
      BY <1>1, <1>5, <2>1 DEF NothingGranted
    <2>2. CASE NothingAcknowledged
      BY <1>3, <1>4, <2>2 DEF NothingAcknowledged, NoAck, SameSession
    <2> QED BY <2>1, <2>2 DEF GrantInv
  <1>10. GrantInv'
    <2>1. QueryFirst(line')
      BY <1>5 DEF NoQuery, QueryFirst
    <2>2. NoAck(tx) => NoAck(tx')
      BY <1>6 DEF NoAck
    <2> QED BY <1>1, <1>5, <1>9, <2>1, <2>2 DEF GrantInv, NothingAcknowledged
  <1>11. AckInv'
    <2>1. \A i, j \in DOMAIN tx' : IsAck(tx'[i]) /\ IsAck(tx'[j]) => i = j
      <3> SUFFICES ASSUME NEW i \in DOMAIN tx', NEW j \in DOMAIN tx',
                          IsAck(tx'[i]), IsAck(tx'[j])
                   PROVE  i = j
        OBVIOUS
      <3>1. i + 1 = j + 1
        BY <1>6 DEF AckInv
      <3> QED BY <1>6, <3>1
    <2>2. CASE IsAck(Head(tx))
      <3>1. NoAck(tx')
        BY <1>3, <1>6, <2>2 DEF AckInv, NoAck
      <3>2. IsRegistered(reg) => clientId = Head(tx).ch
        BY <1>3, <2>2 DEF AckInv
      <3> QED BY <1>1, <1>4, <2>1, <2>2, <3>1, <3>2 DEF AckInv, NoAck
    <2>3. CASE ~IsAck(Head(tx))
      <3>1. sim'.registered = sim.registered /\ sim'.client = sim.client
        BY <1>4, <2>3 DEF SameSession
      <3> QED BY <1>1, <1>6, <2>1, <3>1 DEF AckInv
    <2> QED BY <2>2, <2>3
  <1> QED BY <1>7, <1>8, <1>10, <1>11

(* Actions of a session that is kept, or given up. *)
LEMMA QuietKeepsAgreement ==
    ASSUME AgreeInv, Quiets(out'), ExecuteActions, RegFits', reg'.prev = reg.prev,
           reg'.state # "WaitingForExistingResponse",
           clientId' = clientId \/ ~IsRegistered(reg'),
           IsRegistered(reg') => IsRegistered(reg),
           UNCHANGED sim,
           QueuesFit', UNCHANGED <<line, held>>,
           CarriesOne(frames'), CarriesNone(frames) => CarriesNone(frames')
    PROVE  AgreeInv'
  <1> USE DEF AgreeInv
  <1>1. /\ IsQueue(tx')
        /\ \A i \in DOMAIN tx : i \in DOMAIN tx' /\ tx'[i] = tx[i]
        /\ \A i \in DOMAIN tx' : i \notin DOMAIN tx =>
              ~IsAck(tx'[i]) /\ (IsExistingRequest(tx'[i]) => reg.prev # None)
    BY QuietTransmission DEF MainFits
  <1>2. MainFits'
    BY SentStaysSendable
  <1>3. NewClient'
    BY <1>1 DEF NewClient
  <1>4. \A i \in DOMAIN tx' : IsAck(tx'[i]) => i \in DOMAIN tx /\ IsAck(tx[i]) /\ tx'[i] = tx[i]
    BY <1>1
  <1>5. NoAck(tx) => NoAck(tx')
    BY <1>4 DEF NoAck
  <1>6. GrantInv'
    BY <1>5 DEF GrantInv, NothingGranted, NothingAcknowledged
  <1>7. AckInv'
    BY <1>4 DEF AckInv
  <1> QED BY <1>2, <1>3, <1>6, <1>7

(* The main loop takes a frame: an assignment that comes finds no          *)
(* acknowledgement of another on its way.                                  *)
LEMMA FrameKeepsAgreement ==
    ASSUME AgreeInv, frames # <<>>, ProcessFrame(Head(frames)), ExecuteActions,
           frames' = Tail(frames), UNCHANGED <<sim, line, partial, held>>
    PROVE  AgreeInv'
  <1> USE DEF AgreeInv
  <1> DEFINE f == Head(frames)
  <1>1. SessionAfter(f)
    BY FrameSession DEF MainFits
  <1>2. MainFits'
    BY FrameKeepsMain
  <1>3. /\ IsQueue(Tail(frames)) /\ CarriesOne(Tail(frames))
        /\ CarriesNone(frames) => CarriesNone(Tail(frames)) /\ ~IsAssignment(f)
        /\ IsAssignment(f) => CarriesNone(Tail(frames))
    BY FramesTaken DEF QueuesFit, GrantInv
  <1>4. QueuesFit'
    BY <1>3 DEF QueuesFit
  <1>5. IsAssignment(f) => /\ NothingAcknowledged
                           /\ NoQuery(line) /\ GrantsNone(line) /\ ~IsAssignment(held)
    BY <1>3 DEF GrantInv, NothingGranted
  <1>6. CASE Kept
    <2>1. /\ reg' = reg /\ clientId' = clientId /\ Quiets(out') /\ RegFits'
      BY <1>1, <1>6 DEF Kept, SessionAfter
    <2> QED BY <1>3, <1>4, <2>1, QuietKeepsAgreement DEF NewClient
  <1>7. CASE AskedFor
    <2>1. /\ RegFits' /\ Quiets(out') /\ ~IsRegistered(reg') /\ reg'.prev = reg.prev
          /\ reg'.state # "WaitingForExistingResponse"
      BY <1>1, <1>7 DEF AskedFor, SessionAfter, NewClient
    <2> QED BY <1>3, <1>4, <2>1, QuietKeepsAgreement
  <1>8. CASE TakenOver(f)
    <2>1. /\ IsAssignment(f) /\ reg' = reg /\ clientId' = f.ch /\ out' = <<>>
      BY <1>8 DEF TakenOver
    <2>2. /\ IsQueue(tx')
          /\ \A i \in DOMAIN tx' : i \notin DOMAIN tx =>
                ~IsAck(tx'[i]) /\ (IsExistingRequest(tx'[i]) => reg.prev # None)
          /\ \A i \in DOMAIN tx : tx'[i] = tx[i]
      BY <2>1, NothingIsQuiet, QuietTransmission DEF MainFits
    <2>3. NoAck(tx')
      BY <1>5, <2>1, <2>2 DEF NoAck, NothingAcknowledged
    <2>4. NewClient'
      BY <2>1, <2>2 DEF NewClient
    <2>5. NothingGranted' /\ ~sim'.registered
      BY <1>3, <1>5, <2>1 DEF NothingGranted, NothingAcknowledged
    <2>6. GrantInv'
      <3>1. QueryFirst(line') /\ NoQuery(line') /\ NothingAcknowledged'
        BY <1>5, <2>1, <2>3, <2>5 DEF GrantInv, NothingAcknowledged
      <3> QED BY <1>3, <2>5, <3>1 DEF GrantInv, NothingGranted
    <2>7. AckInv'
      BY <2>3, <2>5 DEF AckInv, NoAck
    <2> QED BY <1>2, <1>4, <2>4, <2>6, <2>7
  <1>9. CASE Won(f)
    <2>1. /\ IsAssignment(f) /\ IsRegistered(reg') /\ reg'.prev = reg.prev
          /\ clientId' = f.ch /\ out' = <<SendFrame(ClientIdAck(f.ch))>>
      BY <1>9 DEF Won
    <2>2. /\ \A i \in DOMAIN tx : i \in DOMAIN tx' /\ tx'[i] = tx[i]
          /\ \A i \in DOMAIN tx' : i \notin DOMAIN tx => tx'[i] = ClientIdAck(f.ch)
          /\ \A i, j \in DOMAIN tx' : i \notin DOMAIN tx /\ j \notin DOMAIN tx => i = j
      BY <2>1, AckTransmission DEF MainFits
    <2>3. \A i \in DOMAIN tx' :
             IsAck(tx'[i]) => i \notin DOMAIN tx /\ tx'[i].ch = f.ch
      BY <1>5, <2>1, <2>2, WhatIsSent DEF NoAck, NothingAcknowledged
    <2>4. NewClient'
      BY <2>1, <2>2, WhatIsSent DEF NewClient, IsRegistered
    <2>5. NothingGranted' /\ ~sim'.registered
      BY <1>3, <1>5, <2>1 DEF NothingGranted, NothingAcknowledged
    <2>6. GrantInv'
      <3>1. QueryFirst(line') /\ NoQuery(line')
        BY <1>5, <2>1 DEF GrantInv
      <3> QED BY <1>3, <2>5, <3>1 DEF GrantInv, NothingGranted
    <2>7. AckInv'
      BY <2>1, <2>2, <2>3, <2>5 DEF AckInv
    <2> QED BY <1>2, <1>4, <2>4, <2>6, <2>7
  <1>10. ~Resumed
    BY DEF Resumed, NewClient
  <1> QED BY <1>1, <1>6, <1>7, <1>8, <1>9, <1>10 DEF SessionAfter

(* A second of the spa: it asks, if it does, on an empty bus. *)
LEMMA SecondKeepsAgreement ==
    ASSUME AgreeInv, Second
    PROVE  AgreeInv'
  <1> USE DEF AgreeInv
  <1>1. /\ line = <<>> /\ held = NoFrame /\ frames = <<>> /\ tx = <<>>
        /\ UNCHANGED <<reg, clientId, partial, held, frames, tx>>
    BY DEF Second, DeviceIsIdle, Advance
  <1>2. PICK r \in SimTick(sim) : sim' = r.sim /\ line' = r.line
    BY DEF Second
  <1>3. SameSession(sim', sim) /\ SecondsLine(line', sim.registered)
    BY <1>2, SecondOfTheSpa DEF MainFits
  <1>4. DOMAIN tx = {} /\ DOMAIN frames = {} /\ ~IsAssignment(held)
    BY <1>1, EmptyQueue, WhatIsHarmless DEF Harmless
  <1>5. MainFits' /\ NewClient'
    BY <1>1, <1>3 DEF MainFits, RegFits, NewClient, SameSession
  <1>6. QueuesFit'
    BY <1>1, <1>3 DEF QueuesFit, SecondsLine
  <1>7. GrantsNone(line') /\ GrantsOnce(line') /\ QueryFirst(line')
    BY <1>3 DEF SecondsLine, GrantsNone, GrantsOnce, QueryFirst
  <1>8. NoQuery(line') \/ ~sim'.registered
    BY <1>3 DEF SecondsLine, NoQuery, SameSession
  <1>9. NothingGranted' /\ CarriesOne(frames')
    BY <1>1, <1>4, <1>7 DEF NothingGranted, CarriesNone, CarriesOne
  <1>10. GrantInv'
    BY <1>1, <1>4, <1>7, <1>8, <1>9 DEF GrantInv, NothingGranted, NothingAcknowledged, NoAck
  <1>11. AckInv'
    BY <1>1, <1>3, <1>4 DEF AckInv, SameSession
  <1> QED BY <1>5, <1>6, <1>10, <1>11

LEMMA FaultKeepsAgreement ==
    ASSUME AgreeInv, Inject
    PROVE  AgreeInv'
  <1> USE DEF AgreeInv
  <1>1. UNCHANGED <<reg, clientId, line, partial, held, frames, tx>>
    BY DEF Inject, appVars, sessionVars
  <1>2. SimFits(sim') /\ (~sim'.registered \/ SameSession(sim', sim))
    BY FaultOfTheSpa DEF MainFits, Inject
  <1>3. MainFits' /\ QueuesFit' /\ NewClient'
    BY <1>1, <1>2 DEF MainFits, RegFits, QueuesFit, NewClient
  <1>4. GrantInv'
    BY <1>1, <1>2 DEF GrantInv, NothingGranted, NothingAcknowledged, SameSession
  <1>5. AckInv'
    BY <1>1, <1>2 DEF AckInv, SameSession
  <1> QED BY <1>3, <1>4, <1>5

LEMMA AgreeStep ==
    ASSUME AgreeInv, [Next]_vars
    PROVE  AgreeInv'
  <1> USE DEF AgreeInv
  <1>1. ASSUME UNCHANGED <<reg, clientId, sim, line, partial, held, frames, tx>>
        PROVE  AgreeInv'
    BY <1>1 DEF MainFits, RegFits, QueuesFit, NewClient, GrantInv, AckInv, NothingGranted,
                NothingAcknowledged
  <1>2. CASE MainTakesFrame
    BY <1>2, FrameKeepsAgreement DEF MainTakesFrame
  <1>3. CASE MainDrainsFrame
    BY <1>3, FrameKeepsAgreement DEF MainDrainsFrame
  <1>4. CASE MainDrained
    BY <1>1, <1>4 DEF MainDrained, appVars, sessionVars
  <1>5. CASE MainTimer
    BY <1>1, <1>5 DEF MainTimer, appVars, sessionVars
  <1>6. CASE MainTick
    <2>1. /\ RegFits' /\ reg'.prev = reg.prev /\ Quiets(out')
          /\ \/ reg' = reg /\ clientId' = clientId
             \/ reg'.state = "WaitingForQuery"
      BY <1>6, TickSession DEF MainTick, MainFits
    <2>2. /\ UNCHANGED <<sim, line, partial, held, frames>> /\ ExecuteActions
      BY <1>6 DEF MainTick
    <2>3. /\ reg'.state # "WaitingForExistingResponse"
          /\ clientId' = clientId \/ ~IsRegistered(reg')
          /\ IsRegistered(reg') => IsRegistered(reg)
      BY <2>1 DEF NewClient, IsRegistered
    <2>4. QueuesFit' /\ CarriesOne(frames')
      BY <2>2 DEF QueuesFit, GrantInv
    <2> QED BY <2>1, <2>2, <2>3, <2>4, QuietKeepsAgreement
  <1>7. CASE MainTakesCommand
    <2>1. /\ reg' = reg /\ clientId' = clientId /\ Quiets(out')
      BY <1>7, CommandSession DEF MainTakesCommand, MainFits, Kept
    <2>2. /\ UNCHANGED <<sim, line, partial, held, frames>> /\ ExecuteActions
      BY <1>7 DEF MainTakesCommand
    <2>3. RegFits' /\ QueuesFit' /\ CarriesOne(frames')
      BY <2>1, <2>2 DEF RegFits, MainFits, QueuesFit, GrantInv
    <2> QED BY <2>1, <2>2, <2>3, QuietKeepsAgreement DEF NewClient
  <1>8. CASE UNCHANGED vars
    BY <1>1, <1>8 DEF vars, busVars, appVars, sessionVars
  <1> QED BY <1>2, <1>3, <1>4, <1>5, <1>6, <1>7, <1>8, ReadingKeepsAgreement,
             SendingKeepsAgreement, TransmittingKeepsAgreement, SecondKeepsAgreement,
             FaultKeepsAgreement DEF Next, Device

(* The spa and the device agree on the channel whenever both believe in    *)
(* the session, whatever reboots, corrupted, split or repeated frames came *)
(* before (uart_task, process_uart_frames, SpaSim), if the device starts   *)
(* without an earlier channel, as the firmware's SpaApp::new does.  A      *)
(* device resumed on an earlier channel leaves client_id unset.            *)
THEOREM SpaAndDeviceAgree == PrevChannels = {} => (Spec => []ChannelsAgree)
  <1> SUFFICES ASSUME PrevChannels = {} PROVE Spec => []ChannelsAgree
    OBVIOUS
  <1>1. Init => AgreeInv
    BY AgreeInit
  <1>2. AgreeInv /\ [Next]_vars => AgreeInv'
    BY AgreeStep
  <1>3. AgreeInv => ChannelsAgree
    BY DEF AgreeInv, AckInv, ChannelsAgree
  <1> QED BY <1>1, <1>2, <1>3, PTL DEF Spec

-----------------------------------------------------------------------------
(* The two recursions of the spa's second.                                 *)

PickedUpto(f, s, I, n) ==
    f = [k \in 0 .. n |-> IF k = 0 THEN <<>>
                          ELSE IF k \in I THEN Append(f[k - 1], s[k]) ELSE f[k - 1]]

(* What is picked from a queue is a queue of its elements at the indices   *)
(* asked for.                                                              *)
LEMMA PickedQueue ==
    ASSUME NEW s, IsQueue(s), NEW I
    PROVE  /\ IsQueue(Picked(s, I))
           /\ \A k \in DOMAIN Picked(s, I) :
                 \E j \in DOMAIN s : j \in I /\ Picked(s, I)[k] = s[j]
  <1> DEFINE N == Len(s)
             Bad == {n \in 0 .. N : ~\E f : PickedUpto(f, s, I, n)}
             S == {s[j] : j \in DOMAIN s \cap I}
  <1>1. N \in Nat /\ DOMAIN s = 1 .. N
    BY QueueIndices
  <1>2. \E f : PickedUpto(f, s, I, N)
    <2>1. SUFFICES ASSUME Bad # {} PROVE FALSE
      BY <1>1
    <2>2. Bad \in SUBSET Nat /\ \A n : n \in Bad <=> n \in 0 .. N /\ ~\E f : PickedUpto(f, s, I, n)
      OBVIOUS
    <2> HIDE DEF Bad
    <2>3. PICK n \in Bad : \A j \in Bad : n <= j
      BY <2>1, <2>2, LeastIndex
    <2>4. n \in 0 .. N /\ ~\E f : PickedUpto(f, s, I, n)
      BY <2>2, <2>3
    <2>5. CASE n = 0
      <3> DEFINE g == [k \in 0 .. 0 |-> <<>>]
      <3>1. PickedUpto(g, s, I, 0)
        BY DEF PickedUpto
      <3> QED BY <2>4, <2>5, <3>1
    <2>6. CASE n # 0
      <3>1. n - 1 \in 0 .. N /\ ~(n <= n - 1)
        BY <1>1, <2>4, <2>6
      <3>2. PICK f : PickedUpto(f, s, I, n - 1)
        BY <2>2, <2>3, <3>1
      <3> DEFINE last == IF n \in I THEN Append(f[n - 1], s[n]) ELSE f[n - 1]
                 g == [k \in 0 .. n |-> IF k = n THEN last ELSE f[k]]
      <3>3. \A k \in 0 .. n : k = n \/ k \in 0 .. n - 1
        BY <1>1, <2>4
      <3>4. \A k \in 0 .. n - 1 : k \in 0 .. n /\ k # n /\ g[k] = f[k]
        BY <1>1, <2>4
      <3>5. \A k \in 0 .. n : k # 0 => k - 1 \in 0 .. n - 1
        BY <1>1, <2>4
      <3>6. \A k \in 0 .. n : g[k] = IF k = 0 THEN <<>>
                     ELSE IF k \in I THEN Append(g[k - 1], s[k]) ELSE g[k - 1]
        <4> TAKE k \in 0 .. n
        <4>1. CASE k = n
          BY <2>6, <3>4, <3>5, <4>1
        <4>2. CASE k # n
          <5>1. k \in 0 .. n - 1 /\ g[k] = f[k]
            BY <3>3, <3>4, <4>2
          <5>2. k # 0 => g[k - 1] = f[k - 1]
            BY <3>4, <3>5
          <5> HIDE DEF g
          <5> QED BY <3>2, <5>1, <5>2 DEF PickedUpto
        <4> QED BY <4>1, <4>2
      <3>7. g = [k \in 0 .. n |-> g[k]]
        OBVIOUS
      <3> HIDE DEF g
      <3>8. PickedUpto(g, s, I, n)
        BY <3>6, <3>7 DEF PickedUpto
      <3> QED BY <2>4, <3>8
    <2> QED BY <2>5, <2>6
  <1> DEFINE g == CHOOSE g : PickedUpto(g, s, I, N)
  <1>3. PickedUpto(g, s, I, N)
    BY <1>2
  <1>4. Picked(s, I) = g[N]
    BY DEF Picked, PickedUpto
  <1> HIDE DEF g, N
  <1>5. \A k \in 0 .. N : g[k] = IF k = 0 THEN <<>>
                                 ELSE IF k \in I THEN Append(g[k - 1], s[k]) ELSE g[k - 1]
    BY <1>3 DEF PickedUpto
  <1>6. \A k \in 0 .. N : g[k] \in Seq(S)
    <2> DEFINE Wrong == {k \in 0 .. N : g[k] \notin Seq(S)}
    <2>1. SUFFICES ASSUME Wrong # {} PROVE FALSE
      OBVIOUS
    <2>2. Wrong \in SUBSET Nat /\ \A k : k \in Wrong <=> k \in 0 .. N /\ g[k] \notin Seq(S)
      BY <1>1
    <2> HIDE DEF Wrong
    <2>3. PICK k \in Wrong : \A j \in Wrong : k <= j
      BY <2>1, <2>2, LeastIndex
    <2>4. k \in 0 .. N /\ g[k] \notin Seq(S)
      BY <2>2, <2>3
    <2>5. k # 0
      <3>1. g[0] = <<>>
        BY <1>1, <1>5
      <3> HIDE DEF S
      <3>2. <<>> \in Seq(S)
        OBVIOUS
      <3> QED BY <2>4, <3>1, <3>2
    <2>6. k - 1 \in 0 .. N /\ ~(k <= k - 1) /\ k \in 1 .. N
      BY <1>1, <2>4, <2>5
    <2>7. g[k - 1] \in Seq(S)
      BY <2>2, <2>3, <2>6
    <2>8. k \in I => s[k] \in S
      BY <1>1, <2>6
    <2> HIDE DEF S
    <2>9. k \in I => Append(g[k - 1], s[k]) \in Seq(S)
      BY <2>7, <2>8
    <2>10. g[k] = IF k \in I THEN Append(g[k - 1], s[k]) ELSE g[k - 1]
      BY <1>5, <2>4, <2>5
    <2> QED BY <2>4, <2>7, <2>9, <2>10
  <1>7. g[N] \in Seq(S)
    BY <1>1, <1>6
  <1> DEFINE p == g[N]
  <1>8. \A k \in DOMAIN p : p[k] \in S
    <2> HIDE DEF S, p
    <2>1. p \in Seq(S)
      BY <1>7 DEF p
    <2> QED BY <2>1
  <1> QED BY <1>4, <1>7, <1>8 DEF IsQueue

-----------------------------------------------------------------------------
(* The water.                                                              *)

SpaFields ==
    {"items", "mode", "range", "set", "setHigh", "setLow", "scale", "temp", "heating", "circ"}
SpaFits(s) ==
    /\ s = [k \in SpaFields |-> s[k]]
    /\ DOMAIN s.items = TrackedItems
    /\ \A j \in Pumps : s.items[j] \in 0 .. 2
Moves(effect, i) == "item" \in DOMAIN effect /\ effect.item = i
Effects(d, i) == {k \in DOMAIN d : Moves(d[k].effect, i)}
Single(I) == \A j, k \in I : j = k
Stepped(i, x) == IF i \in Pumps THEN CyclePump(x) ELSE 1 - x

(* The pumps and hold mode are among the items whose toggles the tracker   *)
(* waits for; the heating mode and the temperature range are not.          *)
LEMMA PumpsAreTracked ==
    /\ Pumps \subseteq TrackedItems /\ HoldMode \in TrackedItems \ Pumps
    /\ HeatingModeItem \notin TrackedItems /\ TempRangeItem \notin TrackedItems
    /\ HeatingModeItem # TempRangeItem
  BY ItemAssumption DEF Pumps, TrackedItems, HoldMode, HeatingModeItem, TempRangeItem,
     UntrackedItem

(* A toggle moves its item one step on, and no other (apply_toggle_by_code).*)
LEMMA ToggleMoves ==
    ASSUME NEW s, SpaFits(s), NEW item
    PROVE  /\ SpaFits(ApplyToggle(s, item))
           /\ \A i \in TrackedItems : ApplyToggle(s, item).items[i] =
                 IF item = i THEN Stepped(i, s.items[i]) ELSE s.items[i]
  <1> DEFINE Moved(t) == /\ SpaFits(t)
                         /\ \A i \in TrackedItems : t.items[i] =
                               IF item = i THEN Stepped(i, s.items[i]) ELSE s.items[i]
             Same(t) == /\ t = [k \in SpaFields |-> t[k]] /\ t.items = s.items
  <1>0. \A t : Same(t) => SpaFits(t)
    BY DEF SpaFits
  <1>1. CASE item \in Pumps
    <2>1. ApplyToggle(s, item) = [s EXCEPT !.items[item] = CyclePump(@)]
      BY <1>1, PumpsAreTracked, Zenon DEF ApplyToggle
    <2> DEFINE t == [s EXCEPT !.items[item] = CyclePump(@)]
               cycled == [s.items EXCEPT ![item] = CyclePump(@)]
    <2>2. t = [k \in SpaFields |-> t[k]] /\ t.items = cycled
      BY DEF SpaFits, SpaFields
    <2>3. \A i \in TrackedItems :
             cycled[i] = IF item = i THEN Stepped(i, s.items[i]) ELSE s.items[i]
      BY <1>1, PumpsAreTracked DEF SpaFits, Stepped
    <2>4. \A p \in 0 .. 2 : CyclePump(p) \in 0 .. 2
      BY DEF CyclePump
    <2>5. \A i \in Pumps : cycled[i] \in 0 .. 2
      BY <1>1, <2>3, <2>4, PumpsAreTracked DEF SpaFits, Stepped
    <2>6. DOMAIN cycled = TrackedItems
      BY DEF SpaFits
    <2> HIDE DEF t, cycled
    <2>7. Moved(t)
      BY <2>2, <2>3, <2>5, <2>6 DEF SpaFits
    <2> QED BY <2>1, <2>7 DEF t
  <1>2. CASE item \in TrackedItems \ Pumps
    <2>1. ApplyToggle(s, item) = [s EXCEPT !.items[item] = 1 - @]
      BY <1>2, PumpsAreTracked, Zenon DEF ApplyToggle
    <2> DEFINE t == [s EXCEPT !.items[item] = 1 - @]
               flipped == [s.items EXCEPT ![item] = 1 - @]
    <2>2. t = [k \in SpaFields |-> t[k]] /\ t.items = flipped
      BY DEF SpaFits, SpaFields
    <2>3. \A i \in TrackedItems :
             flipped[i] = IF item = i THEN Stepped(i, s.items[i]) ELSE s.items[i]
      BY <1>2, PumpsAreTracked DEF SpaFits, Stepped
    <2>4. \A i \in Pumps : flipped[i] = s.items[i]
      BY <1>2, PumpsAreTracked DEF SpaFits
    <2>6. DOMAIN flipped = TrackedItems
      BY DEF SpaFits
    <2> HIDE DEF t, flipped
    <2>7. Moved(t)
      BY <2>2, <2>3, <2>4, <2>6 DEF SpaFits
    <2> QED BY <2>1, <2>7 DEF t
  <1>3. CASE item \notin TrackedItems
    <2>1. item \notin Pumps
      BY <1>3, PumpsAreTracked
    <2>2. Same(s)
      BY DEF SpaFits
    <2>3. Same([s EXCEPT !.mode = CycleHeatingMode(@)])
      BY DEF SpaFits, SpaFields
    <2>4. Same(SwitchRange(s))
      <3>1. ASSUME NEW u, NEW t, Same(u) PROVE Same(SetTargetTemp(u, t))
        <4>1. /\ Same([u EXCEPT !.set = t, !.setHigh = t])
              /\ Same([u EXCEPT !.set = t, !.setLow = t])
          BY <3>1 DEF SpaFields
        <4> QED BY <4>1 DEF SetTargetTemp
      <3>2. \A u, a, b : Same(u) => Same([u EXCEPT !.range = a, !.set = b])
        BY DEF SpaFields
      <3> HIDE DEF Same
      <3> QED BY <2>2, <3>1, <3>2 DEF SwitchRange
    <2>5. Same(ApplyToggle(s, item))
      <3>1. \/ ApplyToggle(s, item) = [s EXCEPT !.mode = CycleHeatingMode(@)]
            \/ ApplyToggle(s, item) = SwitchRange(s)
            \/ ApplyToggle(s, item) = s
        BY <1>3, <2>1 DEF ApplyToggle
      <3> HIDE DEF Same
      <3> QED BY <2>2, <2>3, <2>4, <3>1
    <2>6. \A t : Same(t) => Moved(t)
      BY <1>0, <1>3
    <2> HIDE DEF Same, Moved
    <2>7. Moved(ApplyToggle(s, item))
      BY <2>5, <2>6
    <2> QED BY <2>7 DEF Moved
  <1> QED BY <1>1, <1>2, <1>3

(* An effect moves the item it is about. *)
LEMMA EffectMoves ==
    ASSUME NEW s, SpaFits(s), NEW e
    PROVE  /\ SpaFits(Apply(s, e))
           /\ \A i \in TrackedItems : Apply(s, e).items[i] =
                 IF Moves(e, i) THEN Stepped(i, s.items[i]) ELSE s.items[i]
  <1>1. CASE "item" \in DOMAIN e
    BY <1>1, ToggleMoves DEF Apply, Moves
  <1>2. CASE "item" \notin DOMAIN e
    <2>1. \A t : /\ SetTargetTemp(s, t) = [k \in SpaFields |-> SetTargetTemp(s, t)[k]]
                 /\ SetTargetTemp(s, t).items = s.items
      BY DEF SetTargetTemp, SpaFits, SpaFields
    <2>2. PICK t : t = SetTargetTemp(s, e.temp)
      OBVIOUS
    <2>3. Apply(s, e) = t /\ t.items = s.items /\ t = [k \in SpaFields |-> t[k]]
      BY <1>2, <2>1, <2>2 DEF Apply
    <2> QED BY <1>2, <2>3 DEF SpaFits, Moves
  <1> QED BY <1>1, <1>2

(* A second moves no pump but by a command or a filter cycle. *)
LEMMA PhysicsMovesNone ==
    ASSUME NEW s, SpaFits(s)
    PROVE  SpaFits(SimulatePhysics(s)) /\ SimulatePhysics(s).items = s.items
  <1>1. \A a, b : LET t == [s EXCEPT !.temp = a, !.heating = b]
                  IN  t = [k \in SpaFields |-> t[k]] /\ t.items = s.items
    BY DEF SpaFits, SpaFields
  <1>2. PICK a, b : SimulatePhysics(s) = [s EXCEPT !.temp = a, !.heating = b]
    BY DEF SimulatePhysics
  <1> QED BY <1>1, <1>2 DEF SpaFits

AfterUpto(f, s, n) ==
    f = [k \in 0 .. n |-> IF k = 0 THEN s.spa
                          ELSE IF s.deferred[k].left = 1
                               THEN Apply(f[k - 1], s.deferred[k].effect) ELSE f[k - 1]]

(* What the deferred commands up to the n-th leave behind is defined for   *)
(* every n, so the recursion of process_pending_commands computes it.      *)
LEMMA AfterIsThere ==
    ASSUME NEW s, NEW N \in Nat
    PROVE  \E f : AfterUpto(f, s, N)
  <1> DEFINE Bad == {n \in 0 .. N : ~\E f : AfterUpto(f, s, n)}
  <1>1. SUFFICES ASSUME Bad # {} PROVE FALSE
    OBVIOUS
  <1>2. Bad \in SUBSET Nat /\ \A n : n \in Bad <=> n \in 0 .. N /\ ~\E f : AfterUpto(f, s, n)
    OBVIOUS
  <1> HIDE DEF Bad
  <1>3. PICK n \in Bad : \A j \in Bad : n <= j
    BY <1>1, <1>2, LeastIndex
  <1>4. n \in 0 .. N /\ ~\E f : AfterUpto(f, s, n)
    BY <1>2, <1>3
  <1>5. CASE n = 0
    <2> DEFINE g == [k \in 0 .. 0 |-> s.spa]
    <2>1. AfterUpto(g, s, 0)
      BY DEF AfterUpto
    <2> QED BY <1>4, <1>5, <2>1
  <1>6. CASE n # 0
    <2>1. n - 1 \in 0 .. N /\ ~(n <= n - 1)
      BY <1>4, <1>6
    <2>2. PICK f : AfterUpto(f, s, n - 1)
      BY <1>2, <1>3, <2>1
    <2> DEFINE last == IF s.deferred[n].left = 1 THEN Apply(f[n - 1], s.deferred[n].effect)
                                                 ELSE f[n - 1]
               g == [k \in 0 .. n |-> IF k = n THEN last ELSE f[k]]
    <2>3. \A k \in 0 .. n : k = n \/ k \in 0 .. n - 1
      BY <1>4
    <2>4. \A k \in 0 .. n - 1 : k \in 0 .. n /\ k # n /\ g[k] = f[k]
      BY <1>4
    <2>5. \A k \in 0 .. n : k # 0 => k - 1 \in 0 .. n - 1
      BY <1>4
    <2>6. \A k \in 0 .. n : g[k] = IF k = 0 THEN s.spa
                                   ELSE IF s.deferred[k].left = 1
                                        THEN Apply(g[k - 1], s.deferred[k].effect)
                                        ELSE g[k - 1]
      <3> TAKE k \in 0 .. n
      <3>1. CASE k = n
        BY <1>6, <2>4, <2>5, <3>1
      <3>2. CASE k # n
        <4>1. k \in 0 .. n - 1 /\ g[k] = f[k]
          BY <2>3, <2>4, <3>2
        <4>2. k # 0 => g[k - 1] = f[k - 1]
          BY <2>4, <2>5
        <4> HIDE DEF g
        <4> QED BY <2>2, <4>1, <4>2 DEF AfterUpto
      <3> QED BY <3>1, <3>2
    <2>7. g = [k \in 0 .. n |-> g[k]]
      OBVIOUS
    <2> HIDE DEF g
    <2>8. AfterUpto(g, s, n)
      BY <2>6, <2>7 DEF AfterUpto
    <2> QED BY <1>4, <2>8
  <1> QED BY <1>5, <1>6

(* When every command that waits is due, all are applied in one second:    *)
(* the pump of the only toggle moves one step (process_pending_commands).  *)
LEMMA ExpiringMoves ==
    ASSUME NEW s, SpaFits(s.spa), IsQueue(s.deferred),
           \A k \in DOMAIN s.deferred : s.deferred[k].left = 1
    PROVE  /\ SpaFits(AfterExpiring(s))
           /\ IsQueue(Waiting(s)) /\ DOMAIN Waiting(s) = {}
           /\ \A i \in TrackedItems : Single(Effects(s.deferred, i)) =>
                 AfterExpiring(s).items[i] =
                     IF Effects(s.deferred, i) = {} THEN s.spa.items[i]
                                                    ELSE Stepped(i, s.spa.items[i])
  <1> DEFINE N == Len(s.deferred)
             g == CHOOSE g : AfterUpto(g, s, N)
             d == s.deferred
  <1>1. N \in Nat /\ DOMAIN d = 1 .. N
    BY QueueIndices
  <1>2. AfterUpto(g, s, N)
    BY <1>1, AfterIsThere
  <1>3. AfterExpiring(s) = g[N]
    BY DEF AfterExpiring, AfterUpto
  <1> HIDE DEF g, N
  <1>4. g[0] = s.spa /\ \A k \in 1 .. N : g[k] = Apply(g[k - 1], d[k].effect)
    <2>1. \A k \in 0 .. N : g[k] = IF k = 0 THEN s.spa
                                   ELSE IF d[k].left = 1 THEN Apply(g[k - 1], d[k].effect)
                                                         ELSE g[k - 1]
      BY <1>2 DEF AfterUpto
    <2>2. \A k \in 1 .. N : d[k].left = 1 /\ k # 0 /\ k \in 0 .. N
      BY <1>1
    <2> HIDE DEF d
    <2> QED BY <1>1, <2>1, <2>2
  <1> HIDE DEF d
  <1>5. \A k \in 0 .. N : SpaFits(g[k])
    <2> DEFINE Wrong == {k \in 0 .. N : ~SpaFits(g[k])}
    <2>1. SUFFICES ASSUME Wrong # {} PROVE FALSE
      OBVIOUS
    <2>2. Wrong \in SUBSET Nat /\ \A k : k \in Wrong <=> k \in 0 .. N /\ ~SpaFits(g[k])
      BY <1>1
    <2> HIDE DEF Wrong
    <2>3. PICK k \in Wrong : \A j \in Wrong : k <= j
      BY <2>1, <2>2, LeastIndex
    <2>4. k \in 1 .. N /\ k - 1 \in 0 .. N /\ ~(k <= k - 1)
      BY <1>1, <1>4, <2>2, <2>3
    <2>5. SpaFits(g[k - 1])
      BY <2>2, <2>3, <2>4
    <2> QED BY <1>4, <2>2, <2>4, <2>5, EffectMoves
  <1>6. ASSUME NEW i \in TrackedItems, Single(Effects(d, i))
        PROVE  g[N].items[i] = IF Effects(d, i) = {} THEN s.spa.items[i]
                                                     ELSE Stepped(i, s.spa.items[i])
    <2> DEFINE old == s.spa.items[i]
               Due(k) == \E j \in Effects(d, i) : j <= k
               Wrong == {k \in 0 .. N : g[k].items[i] # IF Due(k) THEN Stepped(i, old) ELSE old}
    <2>0. \A j \in Effects(d, i) : j \in 1 .. N
      BY <1>1 DEF Effects
    <2>1. \A k \in 0 .. N : g[k].items[i] = IF Due(k) THEN Stepped(i, old) ELSE old
      <3>1. SUFFICES ASSUME Wrong # {} PROVE FALSE
        OBVIOUS
      <3>2. Wrong \in SUBSET Nat
            /\ \A k : k \in Wrong <=>
                  k \in 0 .. N /\ g[k].items[i] # IF Due(k) THEN Stepped(i, old) ELSE old
        BY <1>1
      <3> HIDE DEF Wrong
      <3>3. PICK k \in Wrong : \A j \in Wrong : k <= j
        BY <3>1, <3>2, LeastIndex
      <3>4. k \in 1 .. N /\ k - 1 \in 0 .. N /\ ~(k <= k - 1)
        <4>1. k \in 0 .. N
          BY <3>2, <3>3
        <4>2. ~Due(0)
          BY <1>1, <2>0
        <4>3. k # 0
          BY <1>4, <3>2, <3>3, <4>2
        <4> QED BY <1>1, <4>1, <4>3
      <3>5. g[k - 1].items[i] = IF Due(k - 1) THEN Stepped(i, old) ELSE old
        BY <3>2, <3>3, <3>4
      <3>6. g[k].items[i] = IF Moves(d[k].effect, i) THEN Stepped(i, g[k - 1].items[i])
                                                     ELSE g[k - 1].items[i]
        BY <1>4, <1>5, <3>4, EffectMoves
      <3>7. Moves(d[k].effect, i) <=> k \in Effects(d, i)
        BY <1>1, <3>4 DEF Effects
      <3>8. k \in Effects(d, i) => ~Due(k - 1) /\ Due(k)
        BY <1>6, <2>0, <3>4 DEF Single
      <3>9. k \notin Effects(d, i) => (Due(k) <=> Due(k - 1))
        BY <2>0, <3>4
      <3> HIDE DEF Due, old
      <3> QED BY <3>2, <3>3, <3>5, <3>6, <3>7, <3>8, <3>9
    <2>2. Due(N) <=> Effects(d, i) # {}
      BY <1>1, <2>0
    <2> HIDE DEF Due
    <2> QED BY <1>1, <2>1, <2>2
  <1>7. IsQueue(Waiting(s)) /\ DOMAIN Waiting(s) = {}
    <2> DEFINE I == {k \in DOMAIN d : d[k].left > 1}
               later == Picked(d, I)
               w == [k \in DOMAIN later |-> [later[k] EXCEPT !.left = @ - 1]]
    <2>1. Waiting(s) = w
      BY DEF Waiting, d
    <2>2. I = {}
      BY DEF d
    <2>3. DOMAIN later = {}
      <3>1. IsQueue(d)
        BY DEF d
      <3> HIDE DEF I
      <3>2. \A k \in DOMAIN Picked(d, I) : \E j \in DOMAIN d : j \in I
        BY <3>1, PickedQueue
      <3> QED BY <2>2, <3>2
    <2>4. DOMAIN w = 1 .. 0 /\ w = [k \in 1 .. 0 |-> w[k]]
      <3>1. 1 .. 0 = {}
        OBVIOUS
      <3> HIDE DEF later
      <3> QED BY <2>3, <3>1
    <2> HIDE DEF w
    <2>5. IsQueue(w)
      BY <2>4, ListedQueue
    <2> QED BY <2>1, <2>4, <2>5
  <1> QED BY <1>1, <1>3, <1>5, <1>6, <1>7 DEF d

-----------------------------------------------------------------------------
(* What the spa shows of the water on the line.  No status follows a Ready *)
(* frame there.                                                            *)

IsStatus(f) == f.type = "FFAF"
IsReady(f) == f.type = "CHBF"
Shows(e) == e.part # "rest" /\ IsStatus(e.frame)
ElementFits(e) == e.part \in Parts /\ (e.part # "whole" => ~IsReady(e.frame))

Ordered(l) ==
    /\ IsQueue(l) /\ \A k \in DOMAIN l : ElementFits(l[k])
    /\ \A j, k \in DOMAIN l : j < k /\ IsReady(l[j].frame) => ~Shows(l[k])
LineShows(l, items) == \A k \in DOMAIN l : Shows(l[k]) => l[k].frame.status.items = items
NoReady(l) == \A k \in DOMAIN l : ~IsReady(l[k].frame)

(* Which frames the spa puts on the line are statuses and Ready frames,    *)
(* and how their parts show.                                               *)
LEMMA ElementsOfTheSpa ==
    /\ \A f : /\ Whole(f).frame = f /\ ElementFits(Whole(f))
              /\ Rest(f).frame = f /\ ~Shows(Rest(f)) /\ Rest(f).part = "rest"
              /\ \A at : First(f, at).frame = f
              /\ ~IsReady(f) => /\ ElementFits(Rest(f))
                                /\ \A at \in {"middle", "end"} : ElementFits(First(f, at))
    /\ \A s : IsStatus(StatusFrame(s)) /\ ~IsReady(StatusFrame(s)) /\ StatusFrame(s).status = s
    /\ \A ch : IsReady(ClearToSend(ch)) /\ ~IsStatus(ClearToSend(ch))
    /\ ~IsReady(Garbled) /\ ~IsStatus(Garbled)
    /\ ~IsReady(NewClientQuery) /\ ~IsStatus(NewClientQuery)
    /\ ~IsReady(NoFrame) /\ ~IsStatus(NoFrame)
  BY DEF Whole, First, Rest, ElementFits, Shows, Parts, StatusFrame, ClearToSend, NewClientQuery,
         Chbf, Febf, Garbled, NoFrame, IsReady, IsStatus

(* A line without a Ready frame stays in order with one more element.      *)
LEMMA OpenLineGrows ==
    ASSUME NEW l, NEW items, Ordered(l), NoReady(l), LineShows(l, items),
           NEW e, ElementFits(e), Shows(e) => e.frame.status.items = items
    PROVE  /\ Ordered(Append(l, e)) /\ LineShows(Append(l, e), items)
           /\ ~IsReady(e.frame) => NoReady(Append(l, e))
  <1> DEFINE t == Append(l, e)
  <1>1. IsQueue(l) /\ DOMAIN l = 1 .. Len(l) /\ Len(l) \in Nat
    BY QueueIndices DEF Ordered
  <1>2. /\ IsQueue(t) /\ DOMAIN t = 1 .. Len(l) + 1
        /\ \A i \in DOMAIN l : t[i] = l[i]
        /\ t[Len(l) + 1] = e
    BY <1>1, AppendedQueue
  <1> HIDE DEF t
  <1>3. \A k \in DOMAIN t : (k \in DOMAIN l /\ t[k] = l[k]) \/ (k = Len(l) + 1 /\ t[k] = e)
    BY <1>1, <1>2
  <1>4. \A k \in DOMAIN t : ElementFits(t[k]) /\ (Shows(t[k]) => t[k].frame.status.items = items)
    BY <1>3 DEF Ordered, LineShows
  <1>5. \A j, k \in DOMAIN t : j < k => j \in DOMAIN l /\ t[j] = l[j]
    BY <1>1, <1>2
  <1>6. \A j, k \in DOMAIN t : ~(j < k /\ IsReady(t[j].frame))
    BY <1>5 DEF NoReady
  <1>7. ~IsReady(e.frame) => NoReady(t)
    BY <1>3 DEF NoReady
  <1> QED BY <1>2, <1>4, <1>6, <1>7 DEF Ordered, LineShows, t

(* The empty line is in order and shows nothing.                           *)
LEMMA EmptyLine == \A items : Ordered(<<>>) /\ NoReady(<<>>) /\ LineShows(<<>>, items)
  BY EmptyQueue DEF Ordered, NoReady, LineShows

(* The water of a spa: commands that wait are due in its next second, only *)
(* the pumps of the filter cycles have events, and what remains of a split *)
(* frame only completes it.                                                *)
EventsFit(events) ==
    /\ IsQueue(events)
    /\ \A k \in DOMAIN events :
          /\ events[k] = [left |-> events[k].left, pump |-> events[k].pump]
          /\ events[k].pump \in FilterPumps
DueNext(d) == IsQueue(d) /\ \A k \in DOMAIN d : d[k].left = 1
RestFits(rest) ==
    rest # <<>> => /\ IsQueue(Head(rest))
                   /\ \A k \in DOMAIN Head(rest) :
                         Head(rest)[k].part = "rest" /\ ~IsReady(Head(rest)[k].frame)
WaterFits(s) ==
    SpaFits(s.spa) /\ EventsFit(s.events) /\ DueNext(s.deferred) /\ RestFits(s.rest)
SameWater(r, s) ==
    SimFits(r) /\ r.spa = s.spa /\ r.events = s.events /\ r.deferred = s.deferred

(* A spa with the same water and a fitting remainder is well formed.       *)
LEMMA SameWaterFits ==
    ASSUME NEW s, WaterFits(s), NEW r, SameWater(r, s), RestFits(r.rest)
    PROVE  WaterFits(r)
  BY DEF WaterFits, SameWater

(* The remainder of a split status holds no Ready frame.                   *)
LEMMA StatusRests ==
    ASSUME NEW f, ~IsReady(f)
    PROVE  RestFits(<<>>) /\ RestFits(<<<<>>>>) /\ RestFits(<<<<Rest(f)>>>>)
  <1>1. IsQueue(<<Rest(f)>>)
    BY SingleQueue
  <1> QED BY <1>1, EmptyQueue, ElementsOfTheSpa DEF RestFits

(* A second ages the events of the filter cycles and moves none to another *)
(* pump.                                                                   *)
LEMMA EventsPass ==
    ASSUME NEW events, EventsFit(events)
    PROVE  EventsFit(Aged(events))
  <1> DEFINE older == [k \in DOMAIN events |->
                         [events[k] EXCEPT !.left = IF @ = 0 THEN 0 ELSE @ - 1]]
  <1>1. DOMAIN events = 1 .. Len(events) /\ Len(events) \in Nat
    BY QueueIndices DEF EventsFit
  <1>2. \A e, x : e = [left |-> e.left, pump |-> e.pump] =>
           LET o == [e EXCEPT !.left = x]
           IN  o = [left |-> o.left, pump |-> o.pump] /\ o.pump = e.pump
    OBVIOUS
  <1>3. \A k \in DOMAIN events : /\ older[k] = [left |-> older[k].left, pump |-> older[k].pump]
                                 /\ older[k].pump = events[k].pump
    BY <1>2 DEF EventsFit
  <1>4. DOMAIN older = 1 .. Len(events) /\ older = [k \in 1 .. Len(events) |-> older[k]]
    BY <1>1
  <1> HIDE DEF older
  <1>5. IsQueue(older)
    BY <1>1, <1>4, ListedQueue
  <1>6. EventsFit(older)
    BY <1>1, <1>3, <1>4, <1>5 DEF EventsFit
  <1> QED BY <1>6 DEF older, Aged

(* A filter cycle switches its pump only (process_pending_events). *)
LEMMA CyclesMoveFilters ==
    ASSUME NEW s, SimFits(s), WaterFits(s)
    PROVE  LET r == ProcessPendingEvents(s)
           IN  /\ SpaFits(r.spa) /\ EventsFit(r.events) /\ r.deferred = s.deferred /\ r.rest = s.rest
               /\ \A i \in TrackedItems \ FilterPumps : r.spa.items[i] = s.spa.items[i]
  <1> DEFINE old == s.spa.items
             items == [i \in DOMAIN old |-> IF i \in EventPumps(s) /\ old[i] = 0 THEN 1 ELSE old[i]]
             spa == [s.spa EXCEPT !.items = items]
             r == ProcessPendingEvents(s)
  <1>1. r.spa = spa /\ r.events = EventsToCome(s) /\ r.deferred = s.deferred /\ r.rest = s.rest
    BY DEF ProcessPendingEvents, SimFits, SimFields
  <1>2. EventPumps(s) \subseteq FilterPumps
    BY DEF EventPumps, WaterFits, EventsFit
  <1>3. /\ DOMAIN items = TrackedItems
        /\ \A i \in Pumps : items[i] \in 0 .. 2
        /\ \A i \in TrackedItems \ FilterPumps : items[i] = old[i]
    BY <1>2, PumpsAreTracked DEF WaterFits, SpaFits
  <1> HIDE DEF items
  <1>4. spa = [k \in SpaFields |-> spa[k]] /\ spa.items = items
    BY DEF WaterFits, SpaFits, SpaFields
  <1>5. SpaFits(spa)
    BY <1>3, <1>4 DEF SpaFits
  <1>6. EventsFit(EventsToCome(s))
    <2> DEFINE I == {k \in DOMAIN s.events : s.events[k].left > 0}
    <2>1. IsQueue(s.events)
      BY DEF WaterFits, EventsFit
    <2> HIDE DEF I
    <2>2. /\ IsQueue(Picked(s.events, I))
          /\ \A k \in DOMAIN Picked(s.events, I) :
                \E j \in DOMAIN s.events : Picked(s.events, I)[k] = s.events[j]
      BY <2>1, PickedQueue
    <2>3. EventsToCome(s) = Picked(s.events, I)
      BY DEF EventsToCome, I
    <2> QED BY <2>2, <2>3 DEF WaterFits, EventsFit
  <1> HIDE DEF spa, r
  <1>7. /\ SpaFits(r.spa) /\ EventsFit(r.events) /\ r.deferred = s.deferred /\ r.rest = s.rest
        /\ \A i \in TrackedItems \ FilterPumps : r.spa.items[i] = s.spa.items[i]
    BY <1>1, <1>3, <1>4, <1>5, <1>6
  <1> QED BY <1>7 DEF r

(* The Ready frame ends the second. *)
LEMMA ReadyComesLast ==
    ASSUME NEW s, SimFits(s), NEW l, NEW items, Ordered(l), NoReady(l), LineShows(l, items),
           NEW r \in MaybeEmitReady(s, l)
    PROVE  /\ SameWater(r.sim, s) /\ r.sim.rest = s.rest
           /\ Ordered(r.line) /\ LineShows(r.line, items)
  <1>1. \A n : LET u == [s EXCEPT !.readyIn = n] IN SameWater(u, s) /\ u.rest = s.rest
    BY DEF SameWater, SimFits, SimFields
  <1> DEFINE e == Whole(ReadyFrame(s))
  <1>2. ElementFits(e) /\ ~Shows(e)
    BY ElementsOfTheSpa DEF ReadyFrame, Shows
  <1> HIDE DEF e
  <1>3. Ordered(Append(l, e)) /\ LineShows(Append(l, e), items)
    BY <1>2, OpenLineGrows
  <1>4. PICK n : \/ r = [sim |-> [s EXCEPT !.readyIn = n], line |-> l]
                 \/ r = [sim |-> [s EXCEPT !.readyIn = n], line |-> Append(l, e)]
    BY DEF MaybeEmitReady, e
  <1>5. /\ r.sim = [s EXCEPT !.readyIn = n]
        /\ r.line = l \/ r.line = Append(l, e)
    BY <1>4
  <1> QED BY <1>1, <1>3, <1>5

(* The status shows the water as it is. *)
LEMMA StatusShowsWater ==
    ASSUME NEW s, SimFits(s), WaterFits(s),
           NEW l, Ordered(l), NoReady(l), LineShows(l, s.spa.items), NEW r \in EmitStatus(s, l)
    PROVE  /\ WaterFits(r.sim) /\ SameWater(r.sim, s)
           /\ Ordered(r.line) /\ LineShows(r.line, s.spa.items)
  <1> DEFINE f == IF s.corrupt THEN Garbled ELSE StatusFrame(StatusOf(s.spa))
             sent == [s EXCEPT !.corrupt = FALSE, !.split = NoSplit]
             items == s.spa.items
  <1>1. ~IsReady(f) /\ (IsStatus(f) => f.status.items = items)
    BY ElementsOfTheSpa DEF StatusOf
  <1>2. /\ SameWater(sent, s) /\ sent.rest = s.rest
        /\ SameWater([sent EXCEPT !.duplicate = FALSE], s)
        /\ [sent EXCEPT !.duplicate = FALSE].rest = s.rest
    BY DEF SameWater, SimFits, SimFields
  <1>3. /\ RemainderFits(<<<<>>>>) /\ RemainderFits(<<<<Rest(f)>>>>)
        /\ RestFits(<<<<>>>>) /\ RestFits(<<<<Rest(f)>>>>)
    <2>1. Harmless(f)
      BY WhatIsHarmless
    <2> HIDE DEF f
    <2> QED BY <1>1, <2>1, StatusRemainder, StatusRests
  <1>4. \A rest : RemainderFits(rest) =>
           LET u == [sent EXCEPT !.rest = rest] IN SameWater(u, s) /\ u.rest = rest
    BY <1>2 DEF SameWater, SimFits, SimFields
  <1> HIDE DEF f, sent, items
  <1> DEFINE Open(t) == Ordered(t) /\ NoReady(t) /\ LineShows(t, items)
  <1>5. \A t, e : Open(t) /\ ElementFits(e) /\ e.frame = f => Open(Append(t, e))
    BY <1>1, OpenLineGrows DEF Shows
  <1>6. /\ ElementFits(Whole(f)) /\ Whole(f).frame = f
        /\ \A at \in {"middle", "end"} : ElementFits(First(f, at)) /\ First(f, at).frame = f
    BY <1>1, ElementsOfTheSpa
  <1>7. Open(l)
    BY DEF items
  <1>8. l \o <<Whole(f), Whole(f)>> = Append(Append(l, Whole(f)), Whole(f))
    <2>1. PICK S : l \in Seq(S)
      BY DEF Ordered, IsQueue
    <2>2. l \in Seq(S \cup {Whole(f)}) /\ Whole(f) \in S \cup {Whole(f)}
      BY <2>1
    <2> QED BY <2>2
  <1> HIDE DEF Open
  <1>9. /\ Open(Append(l, Whole(f))) /\ Open(Append(Append(l, Whole(f)), Whole(f)))
        /\ \A at \in {"middle", "end"} : Open(Append(l, First(f, at)))
    BY <1>5, <1>6, <1>7
  <1>10. \/ r = [sim |-> [sent EXCEPT !.rest = <<<<>>>>], line |-> Append(l, Whole(f))]
         \/ /\ s.split \in {"middle", "end"}
            /\ r = [sim |-> [sent EXCEPT !.rest = <<<<Rest(f)>>>>],
                    line |-> Append(l, First(f, s.split))]
         \/ r \in MaybeEmitReady(sent, Append(l, Whole(f)))
         \/ r \in MaybeEmitReady([sent EXCEPT !.duplicate = FALSE], l \o <<Whole(f), Whole(f)>>)
    BY DEF EmitStatus, f, sent
  <1>11. \A u : SameWater(u, s) /\ RestFits(u.rest) => WaterFits(u)
    BY SameWaterFits
  <1>12. CASE r = [sim |-> [sent EXCEPT !.rest = <<<<>>>>], line |-> Append(l, Whole(f))]
    <2>1. r.sim = [sent EXCEPT !.rest = <<<<>>>>] /\ r.line = Append(l, Whole(f))
      BY <1>12
    <2> QED BY <1>3, <1>4, <1>9, <1>11, <2>1 DEF Open, items
  <1>13. CASE /\ s.split \in {"middle", "end"}
              /\ r = [sim |-> [sent EXCEPT !.rest = <<<<Rest(f)>>>>],
                      line |-> Append(l, First(f, s.split))]
    <2>1. /\ r.sim = [sent EXCEPT !.rest = <<<<Rest(f)>>>>]
          /\ r.line = Append(l, First(f, s.split))
      BY <1>13
    <2> QED BY <1>3, <1>4, <1>9, <1>11, <1>13, <2>1 DEF Open, items
  <1>14. ASSUME NEW u, SameWater(u, s), u.rest = s.rest, NEW t, Open(t), r \in MaybeEmitReady(u, t)
         PROVE  /\ WaterFits(r.sim) /\ SameWater(r.sim, s)
                /\ Ordered(r.line) /\ LineShows(r.line, items)
    <2>1. /\ SameWater(r.sim, u) /\ r.sim.rest = u.rest
          /\ Ordered(r.line) /\ LineShows(r.line, items)
      BY <1>14, ReadyComesLast DEF SameWater, Open
    <2>2. SameWater(r.sim, s) /\ RestFits(r.sim.rest)
      BY <1>14, <2>1 DEF SameWater, WaterFits
    <2> QED BY <1>11, <2>1, <2>2
  <1>15. CASE \/ r \in MaybeEmitReady(sent, Append(l, Whole(f)))
              \/ r \in MaybeEmitReady([sent EXCEPT !.duplicate = FALSE], l \o <<Whole(f), Whole(f)>>)
    BY <1>2, <1>8, <1>9, <1>14, <1>15 DEF items
  <1> QED BY <1>10, <1>12, <1>13, <1>15

(* A second of the spa moves an item that no filter cycle owns only by the *)
(* command that waits for it, and shows the water after that.              *)
MovesInSecond(r, s) ==
    \A i \in TrackedItems \ FilterPumps : Single(Effects(s.deferred, i)) =>
        r.items[i] = IF Effects(s.deferred, i) = {} THEN s.spa.items[i]
                                                    ELSE Stepped(i, s.spa.items[i])

(* A second applies every command that waits; each item moves as its       *)
(* toggle says (process_pending_commands).                                 *)
LEMMA CommandsTakeEffect ==
    ASSUME NEW s, SimFits(s), WaterFits(s)
    PROVE  LET now == ProcessPendingCommands(SecondPasses(s))
           IN  /\ WaterFits(now) /\ DOMAIN now.deferred = {} /\ MovesInSecond(now.spa, s)
               /\ now.registered = s.registered
  <1> DEFINE u == SecondPasses(s)
             now == ProcessPendingCommands(u)
  <1>1. /\ SimFits(u) /\ u.spa = s.spa /\ u.deferred = s.deferred /\ u.rest = s.rest
        /\ u.events = Aged(s.events) /\ u.registered = s.registered
    <2> DEFINE age == IF s.queryAge = None \/ s.queryAge > RegistrationWindow
                      THEN s.queryAge ELSE s.queryAge + 1
               v == [s EXCEPT !.queryAge = age]
    <2>1. u = [v EXCEPT !.events = Aged(s.events)]
      BY DEF SecondPasses
    <2> HIDE DEF age
    <2>2. SimFits(v) /\ SameWater(v, s) /\ v.rest = s.rest /\ v.registered = s.registered
      BY DEF SameWater, SimFits, SimFields
    <2> HIDE DEF v
    <2> HIDE DEF u
    <2>3. u.events = Aged(s.events)
      BY <2>1, <2>2 DEF SimFits, SimFields, SameWater
    <2>4. /\ SimFits(u) /\ u.spa = v.spa /\ u.deferred = v.deferred /\ u.rest = v.rest
          /\ u.registered = v.registered
      BY <2>1, <2>2 DEF SimFits, SimFields
    <2> QED BY <2>2, <2>3, <2>4 DEF SameWater
  <1>2. EventsFit(u.events)
    BY <1>1, EventsPass DEF WaterFits
  <1> HIDE DEF u
  <1>3. /\ now.spa = AfterExpiring(u) /\ now.deferred = Waiting(u) /\ now.rest = s.rest
        /\ now.events = u.events /\ now.registered = s.registered
    BY <1>1 DEF ProcessPendingCommands, SimFits, SimFields
  <1>4. /\ SpaFits(u.spa) /\ IsQueue(u.deferred)
        /\ \A k \in DOMAIN u.deferred : u.deferred[k].left = 1
    BY <1>1 DEF WaterFits, DueNext
  <1>5. /\ SpaFits(AfterExpiring(u)) /\ IsQueue(Waiting(u)) /\ DOMAIN Waiting(u) = {}
        /\ \A i \in TrackedItems : Single(Effects(u.deferred, i)) =>
              AfterExpiring(u).items[i] = IF Effects(u.deferred, i) = {} THEN u.spa.items[i]
                                          ELSE Stepped(i, u.spa.items[i])
    BY <1>4, ExpiringMoves
  <1> HIDE DEF now
  <1>6. MovesInSecond(now.spa, s)
    BY <1>1, <1>3, <1>5 DEF MovesInSecond
  <1>7. WaterFits(now)
    BY <1>2, <1>3, <1>5 DEF WaterFits, DueNext
  <1> QED BY <1>3, <1>5, <1>6, <1>7 DEF now, u

(* A second of the spa (tick): the commands, the filter cycles, the        *)
(* physics and the frames it sends, which show the water after it.         *)
LEMMA SecondMoves ==
    ASSUME NEW s, SimFits(s), WaterFits(s), NEW r \in SimTick(s)
    PROVE  /\ WaterFits(r.sim) /\ DOMAIN r.sim.deferred = {} /\ MovesInSecond(r.sim.spa, s)
           /\ Ordered(r.line) /\ LineShows(r.line, r.sim.spa.items)
  <1> DEFINE now == ProcessPendingCommands(SecondPasses(s))
             aged == IF now.registered THEN now ELSE [now EXCEPT !.queryAge = 0]
             cycled == ProcessPendingEvents(aged)
             evolved == [cycled EXCEPT !.spa = SimulatePhysics(@)]
             before == IF now.registered THEN <<>> ELSE <<Whole(NewClientQuery)>>
  <1>1. /\ WaterFits(now) /\ DOMAIN now.deferred = {} /\ MovesInSecond(now.spa, s)
        /\ SimFits(now)
    BY CommandsTakeEffect, SecondStarts DEF SameSession
  <1>2. \/ r = [sim |-> [now EXCEPT !.silence = @ - 1], line |-> <<>>]
        \/ now.rest # <<>> /\ r \in EmitRemainder(now)
        \/ r \in EmitStatus(evolved, before)
    BY DEF SimTick, EmitCycle
  <1> HIDE DEF now
  <1>3. CASE r = [sim |-> [now EXCEPT !.silence = @ - 1], line |-> <<>>]
    <2>1. /\ SameWater([now EXCEPT !.silence = @ - 1], now)
          /\ [now EXCEPT !.silence = @ - 1].rest = now.rest
      BY <1>1 DEF SameWater, SimFits, SimFields
    <2>2. r.sim = [now EXCEPT !.silence = @ - 1] /\ r.line = <<>>
      BY <1>3
    <2>3. SameWater(r.sim, now) /\ WaterFits(r.sim)
      BY <1>1, <2>1, <2>2, SameWaterFits DEF WaterFits
    <2> QED BY <1>1, <2>2, <2>3, EmptyLine DEF SameWater
  <1>4. CASE now.rest # <<>> /\ r \in EmitRemainder(now)
    <2> DEFINE e == Whole(ReadyFrame(now))
               l == Head(now.rest)
    <2>1. \A n : LET u == [now EXCEPT !.rest = <<>>, !.readyIn = n]
                 IN  SameWater(u, now) /\ u.rest = <<>>
      BY <1>1 DEF SameWater, SimFits, SimFields, RemainderFits
    <2>2. PICK n : r = [sim |-> [now EXCEPT !.rest = <<>>, !.readyIn = n], line |-> Append(l, e)]
      BY <1>4 DEF EmitRemainder
    <2>3. /\ r.sim = [now EXCEPT !.rest = <<>>, !.readyIn = n] /\ r.line = Append(l, e)
      BY <2>2
    <2>4. ElementFits(e) /\ ~Shows(e)
      BY ElementsOfTheSpa DEF ReadyFrame, Shows
    <2> HIDE DEF e
    <2>5. Ordered(l) /\ NoReady(l) /\ \A items : LineShows(l, items)
      <3>1. IsQueue(l) /\ \A k \in DOMAIN l : l[k].part = "rest" /\ ~IsReady(l[k].frame)
        BY <1>1, <1>4 DEF WaterFits, RestFits
      <3> HIDE DEF l
      <3> QED BY <3>1 DEF Ordered, NoReady, LineShows, ElementFits, Shows, Parts
    <2> HIDE DEF l
    <2>6. Ordered(r.line) /\ LineShows(r.line, r.sim.spa.items)
      BY <2>3, <2>4, <2>5, OpenLineGrows
    <2>7. SameWater(r.sim, now) /\ r.sim.rest = <<>>
      BY <2>1, <2>3
    <2>8. WaterFits(r.sim)
      BY <1>1, <2>7, SameWaterFits DEF RestFits
    <2> QED BY <1>1, <2>6, <2>7, <2>8 DEF SameWater
  <1>5. CASE r \in EmitStatus(evolved, before)
    <2>1. SimFits(aged) /\ SameWater(aged, now) /\ aged.rest = now.rest
      BY <1>1 DEF SameWater, SimFits, SimFields
    <2>2. WaterFits(aged)
      BY <1>1, <2>1, SameWaterFits DEF WaterFits
    <2>3. SimFits(evolved)
      BY <1>1, CycleStarts DEF SameSession
    <2> HIDE DEF aged
    <2>4. /\ SpaFits(cycled.spa) /\ EventsFit(cycled.events)
          /\ cycled.deferred = now.deferred /\ cycled.rest = now.rest
          /\ \A i \in TrackedItems \ FilterPumps : cycled.spa.items[i] = now.spa.items[i]
      BY <2>1, <2>2, CyclesMoveFilters DEF SameWater
    <2>5. SimFits(cycled)
      BY <2>1 DEF ProcessPendingEvents, SimFits, SimFields
    <2> HIDE DEF cycled
    <2>6. /\ evolved.spa = SimulatePhysics(cycled.spa) /\ evolved.events = cycled.events
          /\ evolved.deferred = now.deferred /\ evolved.rest = now.rest
      BY <2>4, <2>5 DEF SimFits, SimFields
    <2> HIDE DEF evolved
    <2>7. SpaFits(evolved.spa) /\ evolved.spa.items = cycled.spa.items
      BY <2>4, <2>6, PhysicsMovesNone
    <2>8. WaterFits(evolved) /\ MovesInSecond(evolved.spa, s)
      BY <1>1, <2>4, <2>6, <2>7 DEF WaterFits, MovesInSecond
    <2>9. Ordered(before) /\ NoReady(before) /\ LineShows(before, evolved.spa.items)
      <3> DEFINE e == Whole(NewClientQuery)
      <3>1. ElementFits(e) /\ ~Shows(e) /\ ~IsReady(e.frame)
        BY ElementsOfTheSpa DEF Shows
      <3>2. before = <<>> \/ before = Append(<<>>, e)
        OBVIOUS
      <3> HIDE DEF e, before
      <3> QED BY <3>1, <3>2, EmptyLine, OpenLineGrows
    <2> HIDE DEF before
    <2>10. /\ WaterFits(r.sim) /\ SameWater(r.sim, evolved)
           /\ Ordered(r.line) /\ LineShows(r.line, evolved.spa.items)
      BY <1>5, <2>3, <2>8, <2>9, StatusShowsWater
    <2> QED BY <1>1, <2>6, <2>8, <2>10 DEF SameWater
  <1> QED BY <1>2, <1>3, <1>4, <1>5

(* What a frame of the device does to the water.                           *)

IsFor(c, i) == c.kind = "ToggleItem" /\ c.arg = i
IsToggle(f, i) == f.type = "0ABF" /\ IsFor(f.cmd, i)
Unmoved(r, s, i) ==
    r.spa.items[i] = s.spa.items[i] /\ Effects(r.deferred, i) = Effects(s.deferred, i)
Put(r, s, i) ==
    /\ r.spa.items[i] = s.spa.items[i]
    /\ Effects(r.deferred, i) = Effects(s.deferred, i) \cup {Len(s.deferred) + 1}
MovedOn(r, s, i) ==
    /\ r.spa.items[i] = Stepped(i, s.spa.items[i])
    /\ Effects(r.deferred, i) = Effects(s.deferred, i)

(* A command that is taken waits for the next second or moves its pump at  *)
(* once (process_command).                                                 *)
LEMMA CommandMoves ==
    ASSUME CommandLatency \in {0, 1}, NEW s, SimFits(s), WaterFits(s),
           NEW cmd, cmd.kind \in {"ToggleItem", "SetTemperature"}
    PROVE  LET r == CommandAccepted(s, cmd)
           IN  /\ WaterFits(r)
               /\ \A i \in TrackedItems : \/ Unmoved(r, s, i)
                                          \/ IsFor(cmd, i) /\ (Put(r, s, i) \/ MovedOn(r, s, i))
  <1> DEFINE e == Effect(s.spa, cmd)
             r == CommandAccepted(s, cmd)
  <1>1. \A i : Moves(e, i) <=> IsFor(cmd, i)
    BY DEF Effect, Moves, IsFor
  <1> HIDE DEF e
  <1>2. CASE CommandLatency = 0
    <2> DEFINE spa == Apply(s.spa, e)
    <2>1. /\ SpaFits(spa)
          /\ \A i \in TrackedItems : spa.items[i] = IF Moves(e, i) THEN Stepped(i, s.spa.items[i])
                                                            ELSE s.spa.items[i]
      BY EffectMoves DEF WaterFits
    <2>2. r = [s EXCEPT !.spa = spa]
      BY <1>2 DEF CommandAccepted, e
    <2> HIDE DEF r, spa
    <2>3. r.spa = spa /\ r.deferred = s.deferred /\ r.events = s.events /\ r.rest = s.rest
      BY <2>2 DEF SimFits, SimFields
    <2>4. WaterFits(r)
      BY <2>1, <2>3 DEF WaterFits
    <2> QED BY <1>1, <2>1, <2>3, <2>4 DEF Unmoved, MovedOn, r
  <1>3. CASE CommandLatency = 1
    <2> DEFINE w == [left |-> CommandLatency, effect |-> e]
               d == Append(s.deferred, w)
    <2>1. r = [s EXCEPT !.deferred = d]
      BY <1>3 DEF CommandAccepted, e
    <2>2. w.left = 1 /\ w.effect = e
      BY <1>3
    <2> HIDE DEF w
    <2>3. IsQueue(s.deferred) /\ DOMAIN s.deferred = 1 .. Len(s.deferred) /\ Len(s.deferred) \in Nat
      BY QueueIndices DEF WaterFits, DueNext
    <2>4. /\ IsQueue(d) /\ DOMAIN d = 1 .. Len(s.deferred) + 1
          /\ \A k \in DOMAIN s.deferred : d[k] = s.deferred[k]
          /\ d[Len(s.deferred) + 1] = w
      BY <2>3, AppendedQueue
    <2> HIDE DEF r, d
    <2>5. r.spa = s.spa /\ r.deferred = d /\ r.events = s.events /\ r.rest = s.rest
      BY <2>1 DEF SimFits, SimFields
    <2>6. \A k \in DOMAIN d : (k \in DOMAIN s.deferred /\ d[k] = s.deferred[k])
                              \/ (k = Len(s.deferred) + 1 /\ d[k] = w)
      BY <2>3, <2>4
    <2>7. WaterFits(r)
      BY <2>2, <2>4, <2>5, <2>6 DEF WaterFits, DueNext
    <2>8. \A i : Effects(d, i) = Effects(s.deferred, i)
                    \cup (IF Moves(e, i) THEN {Len(s.deferred) + 1} ELSE {})
      BY <2>2, <2>3, <2>4, <2>6 DEF Effects
    <2> QED BY <1>1, <2>5, <2>7, <2>8 DEF Unmoved, Put, r
  <1> QED BY <1>2, <1>3

(* An answer of the spa shows no status. *)
NoStatusIn(l) == l = <<>> \/ \E g : ~IsStatus(g) /\ l = <<Whole(g)>>

(* What the spa does with a frame of the device: an item moves, or is to   *)
(* be moved, only by its toggle, and no answer shows a status.             *)
LEMMA FrameMoves ==
    ASSUME CommandLatency \in {0, 1}, NEW s, SimFits(s), WaterFits(s),
           NEW f, Sendable(f), NEW r \in SimProcess(s, f)
    PROVE  /\ WaterFits(r.sim) /\ NoStatusIn(r.line)
           /\ \A i \in TrackedItems : \/ Unmoved(r.sim, s, i)
                                      \/ /\ IsToggle(f, i)
                                         /\ Put(r.sim, s, i) \/ MovedOn(r.sim, s, i)
  <1>1. NoStatusIn(<<>>)
    BY DEF NoStatusIn
  <1>2. \A g : ~IsStatus(g) => NoStatusIn(<<Whole(g)>>)
    BY DEF NoStatusIn
  <1>3. \A u : SameWater(u, s) /\ u.rest = s.rest =>
                  WaterFits(u) /\ \A i : Unmoved(u, s, i)
    BY DEF SameWater, WaterFits, Unmoved
  <1>4. SameWater(s, s)
    BY DEF SameWater
  <1>5. CASE f.type = "0ABF"
    <2> DEFINE cmd == f.cmd
    <2>1. r \in ProcessCommand(s, cmd)
      BY <1>5 DEF SimProcess
    <2>2. \/ r = Answer(s, <<>>) \/ r = Answer(s, <<OtherFrame>>)
          \/ /\ cmd.kind \in {"ToggleItem", "SetTemperature"}
             /\ r = Answer(CommandAccepted(s, cmd), <<>>)
      BY <2>1 DEF ProcessCommand
    <2>3. ~IsStatus(OtherFrame)
      BY DEF OtherFrame, IsStatus
    <2>4. CASE r = Answer(s, <<>>) \/ r = Answer(s, <<OtherFrame>>)
      <3>1. r.sim = s /\ (r.line = <<>> \/ r.line = <<Whole(OtherFrame)>>)
        BY <2>4, AnswerLine
      <3> QED BY <1>1, <1>2, <1>3, <1>4, <2>3, <3>1
    <2>5. CASE /\ cmd.kind \in {"ToggleItem", "SetTemperature"}
               /\ r = Answer(CommandAccepted(s, cmd), <<>>)
      <3>1. r.sim = CommandAccepted(s, cmd) /\ r.line = <<>>
        BY <2>5, AnswerLine
      <3>2. /\ WaterFits(r.sim)
            /\ \A i \in TrackedItems : \/ Unmoved(r.sim, s, i)
                                       \/ IsFor(cmd, i) /\ (Put(r.sim, s, i) \/ MovedOn(r.sim, s, i))
        BY <2>5, <3>1, CommandMoves
      <3> QED BY <1>1, <1>5, <3>1, <3>2 DEF IsToggle
    <2> QED BY <2>2, <2>4, <2>5
  <1>6. CASE f.type = "CHBF" /\ f.sub = 3
    <2> DEFINE taken == [s EXCEPT !.client = f.ch, !.registered = TRUE]
    <2>1. r = Answer(taken, <<>>)
      BY <1>6 DEF SimProcess, ProcessAck
    <2>2. SameWater(taken, s) /\ taken.rest = s.rest
      BY DEF SameWater, SimFits, SimFields
    <2> HIDE DEF taken
    <2> QED BY <1>1, <1>3, <2>1, <2>2, AnswerLine
  <1>7. CASE f.type = "CHBF" /\ f.sub = 7
    <2>1. r = Answer(s, <<>>)
      BY <1>7 DEF SimProcess
    <2> QED BY <1>1, <1>3, <1>4, <2>1, AnswerLine
  <1>8. CASE IsExistingRequest(f)
    <2> DEFINE taken == [s EXCEPT !.client = f.ch, !.registered = TRUE, !.hash = f.hash]
               g == ExistingClientResponse(f.ch, f.hash)
    <2>1. r = Answer(taken, <<g>>)
      BY <1>8 DEF SimProcess, ProcessExistingClient, IsExistingRequest
    <2>2. SameWater(taken, s) /\ taken.rest = s.rest
      BY DEF SameWater, SimFits, SimFields
    <2>3. ~IsStatus(g)
      BY DEF ExistingClientResponse, Chbf, IsStatus
    <2> HIDE DEF taken, g
    <2>4. r.sim = taken /\ r.line = <<Whole(g)>>
      BY <2>1, AnswerLine
    <2> QED BY <1>2, <1>3, <2>2, <2>3, <2>4
  <1> QED BY <1>5, <1>6, <1>7, <1>8 DEF Sendable

(* The answer to a registration leaves the water alone. *)
LEMMA RegistrationMovesNone ==
    ASSUME NEW s, SimFits(s), NEW h, NEW r \in SimProcess(s, NewClientResponse(h))
    PROVE  SameWater(r.sim, s) /\ r.sim.rest = s.rest /\ NoStatusIn(r.line)
  <1> DEFINE known == s.registered /\ s.client # None /\ s.hash = h
             id == IF known THEN s.client ELSE s.next
             given == [s EXCEPT !.next = IF known THEN @ ELSE NextClient(@),
                                !.hash = h, !.queryAge = None]
             g == ClientIdAssignment(id, h)
  <1>1. \/ r = Answer(s, <<>>) \/ r = Answer(given, <<g>>)
    BY DEF SimProcess, NewClientResponse, Febf, ProcessNewClient
  <1>2. SameWater(s, s) /\ SameWater(given, s) /\ given.rest = s.rest
    BY DEF SameWater, SimFits, SimFields
  <1>3. ~IsStatus(g)
    BY DEF ClientIdAssignment, Febf, IsStatus
  <1> HIDE DEF given, g
  <1>4. \/ r.sim = s /\ r.line = <<>>
        \/ r.sim = given /\ r.line = <<Whole(g)>>
    BY <1>1, AnswerLine
  <1> QED BY <1>2, <1>3, <1>4 DEF NoStatusIn

(* A fault leaves the water alone; a filter cycle is still to come. *)
LEMMA FaultMovesNone ==
    ASSUME NEW s, SimFits(s), WaterFits(s), s = sim, sim' \in Injected
    PROVE  WaterFits(sim') /\ sim'.spa = s.spa /\ sim'.deferred = s.deferred
  <1>1. \/ sim' = SimReboot(s) \/ sim' = SimCorrupt(s) \/ sim' = SimDuplicate(s)
        \/ \E ticks : sim' = SimSilence(s, ticks)
        \/ \E at : sim' = SimSplit(s, at)
        \/ \E pump \in FilterPumps : sim' = SimFilterCycle(s, pump, 1)
    BY DEF Injected
  <1> DEFINE Good(u) == WaterFits(u) /\ u.spa = s.spa /\ u.deferred = s.deferred
  <1>2. \A u : SameWater(u, s) /\ (u.rest = s.rest \/ u.rest = <<>>) => Good(u)
    BY DEF SameWater, WaterFits, RestFits
  <1>3. /\ SameWater(SimReboot(s), s) /\ SimReboot(s).rest = s.rest
        /\ SameWater(SimCorrupt(s), s) /\ SimCorrupt(s).rest = s.rest
        /\ SameWater(SimDuplicate(s), s) /\ SimDuplicate(s).rest = s.rest
    BY DEF SimReboot, SimCorrupt, SimDuplicate, SameWater, SimFits, SimFields
  <1>4. \A ticks : SameWater(SimSilence(s, ticks), s) /\ SimSilence(s, ticks).rest = s.rest
    BY DEF SimSilence, SameWater, SimFits, SimFields
  <1>5. \A at : SameWater(SimSplit(s, at), s) /\ SimSplit(s, at).rest = <<>>
    BY DEF SimSplit, SameWater, SimFits, SimFields, RemainderFits
  <1>6. ASSUME NEW pump \in FilterPumps PROVE Good(SimFilterCycle(s, pump, 1))
    <2> DEFINE u == SimFilterCycle(s, pump, 1)
               e == [left |-> 1, pump |-> pump]
               later == Append(s.events, e)
    <2>1. u.spa = s.spa /\ u.deferred = s.deferred /\ u.rest = s.rest /\ u.events = later
      BY DEF SimFilterCycle, SimFits, SimFields
    <2>2. e = [left |-> e.left, pump |-> e.pump] /\ e.pump \in FilterPumps
      BY <1>6
    <2> HIDE DEF e
    <2>3. IsQueue(s.events)
      BY DEF WaterFits, EventsFit
    <2>4. /\ IsQueue(later)
          /\ \A k \in DOMAIN later : k \in DOMAIN s.events \/ k = Len(s.events) + 1
          /\ \A k \in DOMAIN s.events : later[k] = s.events[k]
          /\ later[Len(s.events) + 1] = e
      BY <2>3, AppendedQueue
    <2> HIDE DEF later
    <2>5. EventsFit(later)
      BY <2>2, <2>4 DEF WaterFits, EventsFit
    <2> HIDE DEF u
    <2>6. Good(u)
      BY <2>1, <2>5 DEF WaterFits
    <2> QED BY <2>6 DEF u
  <1> HIDE DEF Good
  <1>7. Good(sim')
    BY <1>1, <1>2, <1>3, <1>4, <1>5, <1>6
  <1> QED BY <1>7 DEF Good

-----------------------------------------------------------------------------
(* The statuses on their way: none follows a Ready frame.                  *)

NoneOnLine(l) == \A k \in DOMAIN l : ~Shows(l[k])
NoneInPart(p) == p = Idle \/ ~IsStatus(p.frame)
PartFits(p) == p = Idle \/ (p.part \in {"middle", "end"} /\ ~IsReady(p.frame))
NoneBehind == NoneOnLine(line) /\ NoneInPart(partial)
OrderInv ==
    /\ Ordered(line) /\ IsQueue(frames) /\ PartFits(partial)
    /\ IsReady(held) => NoneBehind
    /\ (\E j \in DOMAIN frames : IsReady(frames[j])) => NoneBehind /\ ~IsStatus(held)
    /\ \A j, k \in DOMAIN frames : j < k /\ IsReady(frames[j]) => ~IsStatus(frames[k])
OnWay(f) ==
    /\ IsStatus(f)
    /\ \/ \E k \in DOMAIN frames : frames[k] = f
       \/ held = f
       \/ partial # Idle /\ partial.frame = f
       \/ \E k \in DOMAIN line : Shows(line[k]) /\ line[k].frame = f
Coming == \A f : OnWay(f)' => OnWay(f)

(* A line that loses its head, and the line an answer is put on. *)
LEMMA OrderedTail ==
    ASSUME NEW l, Ordered(l), l # <<>>
    PROVE  /\ Ordered(Tail(l)) /\ ElementFits(Head(l))
           /\ IsReady(Head(l).frame) => NoneOnLine(Tail(l))
           /\ NoneOnLine(l) => NoneOnLine(Tail(l)) /\ ~Shows(Head(l))
           /\ \A k \in DOMAIN Tail(l) : \E j \in DOMAIN l : Tail(l)[k] = l[j]
           /\ \E j \in DOMAIN l : Head(l) = l[j]
  <1>1. /\ IsQueue(Tail(l)) /\ DOMAIN Tail(l) = 1 .. Len(l) - 1
        /\ \A i \in DOMAIN Tail(l) : i + 1 \in DOMAIN l /\ Tail(l)[i] = l[i + 1]
    BY ShorterQueue DEF Ordered
  <1>2. 1 \in DOMAIN l /\ Head(l) = l[1] /\ Len(l) \in Nat
    BY QueueIndices DEF Ordered
  <1>3. \A i \in DOMAIN Tail(l) : i \in Nat /\ 1 < i + 1
    BY <1>1, <1>2
  <1>4. \A i, j \in DOMAIN Tail(l) : i < j => i + 1 < j + 1
    BY <1>3
  <1>5. Ordered(Tail(l))
    BY <1>1, <1>4 DEF Ordered
  <1>6. ElementFits(Head(l)) /\ (IsReady(Head(l).frame) => NoneOnLine(Tail(l)))
    BY <1>1, <1>2, <1>3 DEF Ordered, NoneOnLine
  <1>7. NoneOnLine(l) => NoneOnLine(Tail(l)) /\ ~Shows(Head(l))
    BY <1>1, <1>2 DEF NoneOnLine
  <1> QED BY <1>1, <1>2, <1>5, <1>6, <1>7

(* An answer of the spa keeps the line in order and shows nothing more.    *)
LEMMA OrderedAnswer ==
    ASSUME NEW l, Ordered(l), NEW a, NoStatusIn(a)
    PROVE  /\ Ordered(l \o a)
           /\ NoneOnLine(l) => NoneOnLine(l \o a)
           /\ \A k \in DOMAIN (l \o a) : Shows((l \o a)[k]) =>
                 \E j \in DOMAIN l : (l \o a)[k] = l[j]
  <1>1. CASE a = <<>>
    <2>1. l \o a = l
      BY <1>1 DEF Ordered, IsQueue
    <2> QED BY <2>1
  <1>2. ASSUME NEW g, ~IsStatus(g), a = <<Whole(g)>>
        PROVE  /\ Ordered(l \o a)
               /\ NoneOnLine(l) => NoneOnLine(l \o a)
               /\ \A k \in DOMAIN (l \o a) : Shows((l \o a)[k]) =>
                     \E j \in DOMAIN l : (l \o a)[k] = l[j]
    <2>1. IsQueue(a) /\ IsQueue(l) /\ DOMAIN a = {1} /\ a[1] = Whole(g) /\ Len(a) = 1
      BY <1>2, SingleQueue DEF Ordered
    <2>2. ElementFits(Whole(g)) /\ ~Shows(Whole(g))
      BY <1>2, ElementsOfTheSpa DEF Shows
    <2>3. IsQueue(l \o a)
      BY <2>1, LongerQueue
    <2>4. \A i \in DOMAIN l : (l \o a)[i] = l[i]
      BY <2>1, LongerQueue
    <2>5. \A i \in DOMAIN (l \o a) : i \notin DOMAIN l =>
             i - Len(l) \in DOMAIN a /\ (l \o a)[i] = a[i - Len(l)]
      BY <2>1, LongerQueue
    <2>6. DOMAIN (l \o a) = 1 .. Len(l) + 1 /\ Len(l) \in Nat /\ DOMAIN l = 1 .. Len(l)
      BY <2>1, LongerQueue, QueueIndices
    <2> DEFINE x == l \o a
    <2>7. \A i \in DOMAIN x :
             (i \in DOMAIN l /\ x[i] = l[i]) \/ (i = Len(l) + 1 /\ x[i] = Whole(g))
      BY <2>1, <2>4, <2>5, <2>6
    <2> HIDE DEF x
    <2>8. \A i, j \in DOMAIN x : i < j => i \in DOMAIN l
      BY <2>6 DEF x
    <2>9. \A i \in DOMAIN x : ElementFits(x[i])
      BY <2>2, <2>7 DEF Ordered
    <2>10. \A i, j \in DOMAIN x : i < j /\ IsReady(x[i].frame) => ~Shows(x[j])
      <3> SUFFICES ASSUME NEW i \in DOMAIN x, NEW j \in DOMAIN x, i < j, IsReady(x[i].frame)
                   PROVE  ~Shows(x[j])
        OBVIOUS
      <3>1. i \in DOMAIN l /\ x[i] = l[i]
        BY <2>4, <2>8 DEF x
      <3> QED BY <2>2, <2>7, <3>1 DEF Ordered
    <2>11. Ordered(x)
      BY <2>3, <2>9, <2>10 DEF Ordered, x
    <2>12. NoneOnLine(l) => NoneOnLine(x)
      BY <2>2, <2>7 DEF NoneOnLine
    <2>13. \A k \in DOMAIN x : Shows(x[k]) => \E j \in DOMAIN l : x[k] = l[j]
      BY <2>2, <2>7
    <2> QED BY <2>11, <2>12, <2>13 DEF x
  <1> QED BY <1>1, <1>2 DEF NoStatusIn

(* uart_task reads: the frame is the one it read, or the split one that is *)
(* complete.                                                               *)
LEMMA ReadingKeepsOrder ==
    ASSUME MainFits, OrderInv, UartReads
    PROVE  OrderInv' /\ Coming
  <1> DEFINE e == Head(line)
             d == Decode(partial, e)
             f == IF d.frame = Garbled THEN NoFrame ELSE d.frame
  <1>1. /\ Ordered(Tail(line)) /\ ElementFits(e)
        /\ IsReady(e.frame) => NoneOnLine(Tail(line))
        /\ NoneOnLine(line) => NoneOnLine(Tail(line)) /\ ~Shows(e)
        /\ \A k \in DOMAIN Tail(line) : \E j \in DOMAIN line : Tail(line)[k] = line[j]
        /\ \E j \in DOMAIN line : e = line[j]
    BY OrderedTail DEF OrderInv, UartReads
  <1>2. /\ partial' = d.partial /\ held' = f /\ held = NoFrame /\ frames' = frames
    BY DEF UartReads
  <1>3. /\ Ordered(line')
        /\ NoneOnLine(Tail(line)) => NoneOnLine(line')
        /\ \A k \in DOMAIN line' : Shows(line'[k]) =>
              \E j \in DOMAIN Tail(line) : line'[k] = Tail(line)[j]
    <2>1. CASE line' = Tail(line)
      BY <1>1, <2>1
    <2>2. CASE WriteTo(NewClientResponse(OwnHash), Tail(line))
      <3>1. PICK r \in SimProcess(sim, NewClientResponse(OwnHash)) : line' = Tail(line) \o r.line
        BY <2>2 DEF WriteTo
      <3>2. NoStatusIn(r.line)
        BY <3>1, RegistrationMovesNone DEF MainFits
      <3> DEFINE l == Tail(line)
                 x == l \o r.line
      <3>3. Ordered(l)
        BY <1>1
      <3> HIDE DEF l
      <3>4. /\ Ordered(x)
            /\ NoneOnLine(l) => NoneOnLine(x)
            /\ \A k \in DOMAIN x : Shows(x[k]) => \E j \in DOMAIN l : x[k] = l[j]
        BY <3>2, <3>3, OrderedAnswer
      <3>5. line' = x
        BY <3>1 DEF l
      <3> HIDE DEF x
      <3> QED BY <3>4, <3>5 DEF l
    <2> QED BY <2>1, <2>2 DEF UartReads
  <1>4. /\ IsReady(NoFrame) = FALSE /\ IsStatus(NoFrame) = FALSE
    BY ElementsOfTheSpa
  <1>5. \/ partial = Idle /\ e.part = "whole" /\ d.partial = Idle /\ d.frame = e.frame
        \/ partial = Idle /\ e.part \in {"middle", "end"} /\ d.partial = e /\ d.frame = NoFrame
        \/ d.partial = Idle /\ d.frame = NoFrame
        \/ partial # Idle /\ d.partial = Idle /\ d.frame = partial.frame
    BY <1>1 DEF Decode, ElementFits, Parts
  <1>6. f = d.frame \/ f = NoFrame
    OBVIOUS
  <1>7. PartFits(partial')
    BY <1>1, <1>2, <1>5 DEF PartFits, ElementFits
  <1>8. NoneInPart(partial) /\ ~Shows(e) => NoneInPart(partial') /\ ~IsStatus(held')
    BY <1>2, <1>4, <1>5, <1>6 DEF NoneInPart, Shows
  <1>9. IsReady(held') => partial' = Idle /\ IsReady(e.frame)
    BY <1>2, <1>4, <1>5, <1>6 DEF OrderInv, PartFits
  <1>10. OrderInv'
    <2>1. IsReady(held') => NoneBehind'
      BY <1>1, <1>3, <1>9 DEF NoneBehind, NoneInPart
    <2>2. (\E j \in DOMAIN frames' : IsReady(frames'[j])) => NoneBehind' /\ ~IsStatus(held')
      BY <1>1, <1>2, <1>3, <1>8 DEF OrderInv, NoneBehind
    <2> QED BY <1>2, <1>3, <1>7, <2>1, <2>2 DEF OrderInv
  <1>11. ASSUME NEW g, OnWay(g)' PROVE OnWay(g)
    <2>1. IsStatus(g)
      BY <1>11 DEF OnWay
    <2>2. CASE \E k \in DOMAIN frames' : frames'[k] = g
      BY <1>2, <2>1, <2>2 DEF OnWay
    <2>3. CASE held' = g \/ (partial' # Idle /\ partial'.frame = g)
      <3>1. \/ e.part # "rest" /\ e.frame = g
            \/ partial # Idle /\ partial.frame = g
        BY <1>2, <1>4, <1>5, <1>6, <2>1, <2>3
      <3> QED BY <1>1, <2>1, <3>1 DEF OnWay, Shows
    <2>4. ASSUME NEW k \in DOMAIN line', Shows(line'[k]), line'[k].frame = g PROVE OnWay(g)
      <3>1. \E j \in DOMAIN line : line'[k] = line[j]
        BY <1>1, <1>3, <2>4
      <3> QED BY <2>1, <2>4, <3>1 DEF OnWay
    <2> QED BY <1>11, <2>2, <2>3, <2>4 DEF OnWay
  <1> QED BY <1>10, <1>11 DEF Coming

(* frame_sender.send hands the frame over: nothing more is on its way.     *)
LEMMA SendingKeepsOrder ==
    ASSUME OrderInv, UartSends
    PROVE  OrderInv' /\ Coming
  <1>1. /\ IsQueue(frames') /\ DOMAIN frames' = 1 .. Len(frames) + 1
        /\ DOMAIN frames = 1 .. Len(frames) /\ Len(frames) \in Nat
        /\ \A i \in DOMAIN frames : frames'[i] = frames[i]
        /\ frames'[Len(frames) + 1] = held
    BY AppendedQueue, QueueIndices DEF OrderInv, UartSends
  <1>2. /\ UNCHANGED <<line, partial>> /\ ~IsReady(held') /\ ~IsStatus(held')
    BY ElementsOfTheSpa DEF UartSends
  <1>3. \A i \in DOMAIN frames' : (i \in DOMAIN frames /\ frames'[i] = frames[i]) \/
                                  (i = Len(frames) + 1 /\ frames'[i] = held)
    BY <1>1
  <1>4. (\E j \in DOMAIN frames' : IsReady(frames'[j])) => NoneBehind'
    BY <1>2, <1>3 DEF OrderInv, NoneBehind
  <1>5. ASSUME NEW j \in DOMAIN frames', NEW k \in DOMAIN frames', j < k, IsReady(frames'[j])
        PROVE  ~IsStatus(frames'[k])
    <2>1. j \in DOMAIN frames /\ frames'[j] = frames[j]
      BY <1>1, <1>5
    <2> QED BY <1>3, <1>5, <2>1 DEF OrderInv
  <1>6. OrderInv'
    BY <1>1, <1>2, <1>4, <1>5 DEF OrderInv
  <1>7. ASSUME NEW g, OnWay(g)' PROVE OnWay(g)
    <2>1. IsStatus(g) /\ held' # g
      BY <1>2, <1>7 DEF OnWay
    <2>2. (\E k \in DOMAIN frames' : frames'[k] = g) => OnWay(g)
      BY <1>3, <2>1 DEF OnWay
    <2> QED BY <1>2, <1>7, <2>1, <2>2 DEF OnWay
  <1> QED BY <1>6, <1>7 DEF Coming

(* A frame goes out when the line is empty, and its answer shows no        *)
(* status.                                                                 *)
LEMMA TransmittingKeepsOrder ==
    ASSUME OrderInv, UartTransmits, NEW a, NoStatusIn(a), line' = <<>> \o a
    PROVE  OrderInv' /\ Coming
  <1>1. /\ UNCHANGED <<partial, held, frames>> /\ line = <<>>
    BY DEF UartTransmits
  <1>2. Ordered(<<>>) /\ NoneOnLine(<<>>)
    BY EmptyQueue DEF Ordered, NoneOnLine
  <1>3. /\ Ordered(line') /\ NoneOnLine(line')
    BY <1>2, OrderedAnswer
  <1>4. NoneBehind => NoneBehind'
    BY <1>1, <1>3 DEF NoneBehind
  <1>5. OrderInv'
    BY <1>1, <1>3, <1>4 DEF OrderInv
  <1>6. \A g : OnWay(g)' => OnWay(g)
    BY <1>1, <1>3 DEF OnWay, NoneOnLine
  <1> QED BY <1>5, <1>6 DEF Coming

(* The main loop takes a frame: behind a Ready frame there is no status.   *)
LEMMA TakingKeepsOrder ==
    ASSUME OrderInv, frames # <<>>, frames' = Tail(frames), UNCHANGED <<line, partial, held>>
    PROVE  /\ OrderInv' /\ Coming
           /\ IsReady(Head(frames)) => \A g : ~OnWay(g)'
           /\ IsStatus(Head(frames)) => OnWay(Head(frames))
  <1>1. /\ IsQueue(frames') /\ DOMAIN frames' = 1 .. Len(frames) - 1
        /\ \A i \in DOMAIN frames' : i + 1 \in DOMAIN frames /\ frames'[i] = frames[i + 1]
    BY ShorterQueue DEF OrderInv
  <1>2. 1 \in DOMAIN frames /\ Head(frames) = frames[1] /\ Len(frames) \in Nat
    BY QueueIndices DEF OrderInv
  <1>3. \A i \in DOMAIN frames' : i \in Nat /\ 1 < i + 1
    BY <1>1, <1>2
  <1>4. \A i, j \in DOMAIN frames' : i < j => i + 1 < j + 1
    BY <1>3
  <1>5. NoneBehind' <=> NoneBehind
    BY DEF NoneBehind
  <1>6. OrderInv'
    BY <1>1, <1>4, <1>5 DEF OrderInv
  <1>7. \A g : OnWay(g)' => OnWay(g)
    BY <1>1 DEF OnWay
  <1>8. ASSUME IsReady(Head(frames)), NEW g, OnWay(g)' PROVE FALSE
    <2>1. NoneBehind /\ ~IsStatus(held)
      BY <1>2, <1>8 DEF OrderInv
    <2>2. \A k \in DOMAIN frames' : ~IsStatus(frames'[k])
      BY <1>1, <1>2, <1>3, <1>8 DEF OrderInv
    <2> QED BY <1>8, <2>1, <2>2 DEF OnWay, NoneBehind, NoneOnLine, NoneInPart
  <1>9. IsStatus(Head(frames)) => OnWay(Head(frames))
    BY <1>2 DEF OnWay
  <1> QED BY <1>6, <1>7, <1>8, <1>9 DEF Coming

(* A second starts with nothing under way and ends with the frames of the  *)
(* spa in order.                                                           *)
LEMMA SecondKeepsOrder ==
    ASSUME MainFits, WaterFits(sim), OrderInv, Second
    PROVE  /\ OrderInv'
           /\ \A g : OnWay(g)' => OnWay(g) \/ g.status.items = sim'.spa.items
           /\ WaterFits(sim') /\ DOMAIN sim'.deferred = {} /\ MovesInSecond(sim'.spa, sim)
  <1>1. /\ UNCHANGED <<partial, held, frames>> /\ held = NoFrame /\ frames = <<>>
    BY DEF Second, DeviceIsIdle
  <1>2. PICK r \in SimTick(sim) : sim' = r.sim /\ line' = r.line
    BY DEF Second
  <1>3. /\ WaterFits(sim') /\ DOMAIN sim'.deferred = {} /\ MovesInSecond(sim'.spa, sim)
        /\ Ordered(line') /\ LineShows(line', sim'.spa.items)
    BY <1>2, SecondMoves DEF MainFits
  <1>4. /\ ~IsReady(held') /\ ~IsStatus(held') /\ DOMAIN frames' = {}
    BY <1>1, ElementsOfTheSpa, EmptyQueue
  <1>5. OrderInv'
    BY <1>1, <1>3, <1>4 DEF OrderInv
  <1>6. \A g : OnWay(g)' => OnWay(g) \/ g.status.items = sim'.spa.items
    BY <1>1, <1>3, <1>4 DEF OnWay, LineShows
  <1> QED BY <1>3, <1>5, <1>6

-----------------------------------------------------------------------------
(* The queue and the tracker.                                              *)

CommandFits(c) == c = Command(c.kind, c.arg)
QueueFits(q) == IsQueue(q) /\ \A k \in DOMAIN q : CommandFits(q[k])
EntryFields == {"command", "expected", "sentAt", "retries"}
EntryFits(e) ==
    /\ e = [k \in EntryFields |-> e[k]]
    /\ e.sentAt \in Nat /\ CommandFits(e.command) /\ Matches(e)
TableFits(p) == IsQueue(p) /\ \A k \in DOMAIN p : EntryFits(p[k])
TimersFit(t) ==
    t = [j \in Pumps |-> [startedAt |-> None, duration |-> t[j].duration]]
CommandsFit == QueueFits(queue) /\ TableFits(pending) /\ TimersFit(timers)

Toggles(q, i) == {k \in DOMAIN q : IsFor(q[k], i)}
OnWire(q, i) == {k \in DOMAIN q : IsToggle(q[k], i)}
Awaited(p, i) == {k \in DOMAIN p : IsFor(p[k].command, i)}
AwaitedFits(p, i) ==
    /\ Single(Awaited(p, i))
    /\ \A k \in Awaited(p, i) : p[k].expected = [kind |-> "ToggleItem", arg |-> i, pre |-> 0]

(* Commands, their frames and the items they toggle.                       *)
LEMMA CommandsOfTheDevice ==
    /\ \A k, a : CommandFits(Command(k, a)) /\ Command(k, a).kind = k /\ Command(k, a).arg = a
    /\ \A i, j : IsFor(Toggle(j), i) <=> j = i
    /\ \A i : ~IsFor(ClockPreference, i)
    /\ \A c \in Commands : CommandFits(c)
    /\ \A c, i : CommandFits(c) /\ IsFor(c, i) <=> c = Toggle(i)
    /\ \A c, i : IsToggle(CommandFrame(c), i) <=> IsFor(c, i)
  BY DEF CommandFits, Command, Toggle, ClockPreference, Commands, IsFor, IsToggle, CommandFrame

(* An entry of the tracker that takes a newer command or ages stays an     *)
(* entry for the same effect.                                              *)
LEMMA EntriesChange ==
    ASSUME NEW e, EntryFits(e)
    PROVE  /\ \A c : CommandFits(c) /\ c.kind = e.command.kind /\ c.arg = e.command.arg =>
                  LET u == [e EXCEPT !.command = c, !.sentAt = 0]
                  IN  EntryFits(u) /\ u.command = c /\ u.expected = e.expected
           /\ \A n \in Nat :
                  LET u == [e EXCEPT !.sentAt = n]
                  IN  /\ EntryFits(u) /\ u.command = e.command /\ u.expected = e.expected
                      /\ u.sentAt = n
  BY DEF EntryFits, EntryFields, Matches

(* An entry that is sent again keeps its command and its effect and starts *)
(* its timeout afresh (verify).                                            *)
LEMMA EntryRetried ==
    ASSUME NEW e, EntryFits(e), NEW r
    PROVE  LET u == [e EXCEPT !.sentAt = 0, !.retries = r]
           IN  /\ EntryFits(u) /\ u.command = e.command /\ u.expected = e.expected
               /\ u.sentAt = 0
  BY DEF EntryFits, EntryFields, Matches

(* track finds the entry that waits for the change, or adds one for it.    *)
LEMMA TrackKeeps ==
    ASSUME NEW p, TableFits(p), NEW cmd, CommandFits(cmd), NEW s, NEW i
    PROVE  /\ TableFits(Track(p, cmd, s))
           /\ \/ /\ Awaited(Track(p, cmd, s), i) = Awaited(p, i)
                 /\ \A k \in Awaited(p, i) : Track(p, cmd, s)[k].expected = p[k].expected
              \/ /\ IsFor(cmd, i) /\ SameExpected(p, cmd, s) = {}
                 /\ Awaited(Track(p, cmd, s), i) = Awaited(p, i) \cup {Len(p) + 1}
                 /\ Track(p, cmd, s)[Len(p) + 1].expected = FromCommand(cmd, s)
  <1> DEFINE x == FromCommand(cmd, s)
             t == Track(p, cmd, s)
             Good(u) == /\ TableFits(u)
                        /\ \/ /\ Awaited(u, i) = Awaited(p, i)
                              /\ \A k \in Awaited(p, i) : u[k].expected = p[k].expected
                           \/ /\ IsFor(cmd, i) /\ SameExpected(p, cmd, s) = {}
                              /\ Awaited(u, i) = Awaited(p, i) \cup {Len(p) + 1}
                              /\ u[Len(p) + 1].expected = x
  <1>0. x.kind = cmd.kind /\ x.arg = cmd.arg
    BY DEF FromCommand
  <1>1. DOMAIN p = 1 .. Len(p) /\ Len(p) \in Nat
    BY QueueIndices DEF TableFits
  <1> HIDE DEF x
  <1>2. CASE t = p
    <2>1. Good(p)
      OBVIOUS
    <2> QED BY <1>2, <2>1 DEF x
  <1>3. CASE HasExpectedChange(cmd) /\ SameExpected(p, cmd, s) # {}
    <2> DEFINE m == Min(SameExpected(p, cmd, s))
               e == [p[m] EXCEPT !.command = cmd, !.sentAt = 0]
               u == [p EXCEPT ![m] = e]
    <2>1. m \in DOMAIN p /\ p[m].expected = x
      <3>1. SameExpected(p, cmd, s) \in SUBSET Nat
        BY <1>1 DEF SameExpected
      <3>2. m \in SameExpected(p, cmd, s)
        BY <1>3, <3>1, LeastIndex
      <3> QED BY <3>2 DEF SameExpected, x
    <2>2. t = u
      BY <1>3, <2>1 DEF Track
    <2> HIDE DEF m, t
    <2>3. EntryFits(p[m])
      BY <2>1 DEF TableFits
    <2>4. cmd.kind = p[m].command.kind /\ cmd.arg = p[m].command.arg
      BY <1>0, <2>1, <2>3 DEF EntryFits, Matches
    <2>5. EntryFits(e) /\ e.command = cmd /\ e.expected = x
      <3>1. LET v == [p[m] EXCEPT !.command = cmd, !.sentAt = 0]
            IN  EntryFits(v) /\ v.command = cmd /\ v.expected = p[m].expected
        BY <2>3, <2>4, EntriesChange
      <3> QED BY <2>1, <3>1
    <2> HIDE DEF e
    <2>6. IsFor(p[m].command, i) <=> IsFor(cmd, i)
      BY <1>0, <2>1, <2>3 DEF EntryFits, Matches, IsFor
    <2>7. /\ DOMAIN u = 1 .. Len(p) /\ u = [k \in 1 .. Len(p) |-> u[k]]
          /\ \A k \in DOMAIN p : u[k] = IF k = m THEN e ELSE p[k]
      <3>1. p = [k \in 1 .. Len(p) |-> p[k]]
        <4>1. PICK S : p \in Seq(S)
          BY DEF TableFits, IsQueue
        <4> QED BY <4>1
      <3> QED BY <1>1, <3>1
    <2> HIDE DEF u
    <2>8. IsQueue(u)
      BY <1>1, <2>7, ListedQueue
    <2>9. TableFits(u)
      BY <1>1, <2>5, <2>7, <2>8 DEF TableFits
    <2>10. Awaited(u, i) = Awaited(p, i)
      BY <1>1, <2>5, <2>6, <2>7 DEF Awaited
    <2>11. \A k \in Awaited(p, i) : u[k].expected = p[k].expected
      BY <2>1, <2>5, <2>7 DEF Awaited
    <2> QED BY <2>2, <2>9, <2>10, <2>11 DEF t
  <1>4. CASE /\ HasExpectedChange(cmd) /\ SameExpected(p, cmd, s) = {}
             /\ t = Append(p, NewPending(cmd, s))
    <2> DEFINE e == NewPending(cmd, s)
               u == Append(p, e)
    <2>1. e = [command |-> cmd, expected |-> x, sentAt |-> 0, retries |-> 0]
      BY DEF NewPending, x
    <2> HIDE DEF e
    <2>2. EntryFits(e) /\ e.command = cmd /\ e.expected = x
      BY <1>0, <2>1 DEF EntryFits, EntryFields, Matches
    <2>3. /\ IsQueue(u) /\ DOMAIN u = 1 .. Len(p) + 1
          /\ \A k \in DOMAIN p : u[k] = p[k]
          /\ u[Len(p) + 1] = e
      BY AppendedQueue DEF TableFits
    <2> HIDE DEF u
    <2>4. \A k \in DOMAIN u : (k \in DOMAIN p /\ u[k] = p[k]) \/ (k = Len(p) + 1 /\ u[k] = e)
      BY <1>1, <2>3
    <2>5. TableFits(u)
      BY <2>2, <2>3, <2>4 DEF TableFits
    <2>6. IsFor(cmd, i) => Awaited(u, i) = Awaited(p, i) \cup {Len(p) + 1}
      BY <1>1, <2>2, <2>3, <2>4 DEF Awaited
    <2>7. ~IsFor(cmd, i) => Awaited(u, i) = Awaited(p, i)
      BY <1>1, <2>2, <2>3, <2>4 DEF Awaited
    <2>8. \A k \in Awaited(p, i) : u[k].expected = p[k].expected
      BY <2>3 DEF Awaited
    <2> QED BY <1>4, <2>2, <2>3, <2>5, <2>6, <2>7, <2>8 DEF u, e, x
  <1> QED BY <1>2, <1>3, <1>4 DEF Track

(* A tracked command was tracked before, or is the one that is sent.       *)
LEMMA TrackOrigin ==
    ASSUME NEW p, TableFits(p), NEW cmd, NEW s
    PROVE  \A k \in DOMAIN Track(p, cmd, s) :
              \/ Track(p, cmd, s)[k].command = cmd
              \/ \E j \in DOMAIN p : Track(p, cmd, s)[k].command = p[j].command
  <1> DEFINE t == Track(p, cmd, s)
             m == Min(SameExpected(p, cmd, s))
  <1>1. CASE t = p
    BY <1>1
  <1>2. CASE t = [p EXCEPT ![m].command = cmd, ![m].sentAt = 0]
    <2>1. DOMAIN t = DOMAIN p /\ \A k \in DOMAIN p : k # m => t[k] = p[k]
      BY <1>2
    <2>2. m \in DOMAIN p => t[m].command = cmd
      <3>1. m \in DOMAIN p => t[m] = [p[m] EXCEPT !.command = cmd, !.sentAt = 0]
        BY <1>2
      <3>2. m \in DOMAIN p => "command" \in DOMAIN p[m]
        BY DEF TableFits, EntryFits, EntryFields
      <3> QED BY <3>1, <3>2
    <2> HIDE DEF t, m
    <2> QED BY <2>1, <2>2 DEF t
  <1>3. CASE t = Append(p, NewPending(cmd, s))
    <2>1. /\ \A k \in DOMAIN p : t[k] = p[k]
          /\ t[Len(p) + 1] = NewPending(cmd, s)
          /\ \A k \in DOMAIN t : k \notin DOMAIN p => k = Len(p) + 1
      BY <1>3, AppendedQueue DEF TableFits
    <2>2. NewPending(cmd, s).command = cmd
      BY DEF NewPending
    <2> HIDE DEF t
    <2> QED BY <2>1, <2>2 DEF t
  <1> QED BY <1>1, <1>2, <1>3 DEF Track

(* The indices that are listed, in either order, are listed once.          *)
LEMMA ListedOnce ==
    ASSUME NEW n \in Nat, NEW I \in SUBSET (1 .. n), NEW f \in Increasing(I) \cup Decreasing(I)
    PROVE  /\ Cardinality(I) \in Nat
           /\ \A k \in 1 .. Cardinality(I) : f[k] \in I
           /\ \A j, k \in 1 .. Cardinality(I) : f[j] = f[k] => j = k
  <1>1. Cardinality(I) \in Nat
    BY IndexSetSize
  <1> DEFINE c == Cardinality(I)
  <1>2. \A k \in 1 .. c : f[k] \in I
    BY DEF Increasing, Decreasing
  <1>3. \/ \A i, j \in 1 .. c : i < j => f[i] < f[j]
        \/ \A i, j \in 1 .. c : i < j => f[i] > f[j]
    BY DEF Increasing, Decreasing
  <1> HIDE DEF c
  <1>4. \A k \in 1 .. c : f[k] \in Nat
    <2>1. \A x \in I : x \in Nat
      OBVIOUS
    <2> QED BY <1>2, <2>1
  <1>5. ASSUME NEW j \in 1 .. c, NEW k \in 1 .. c, f[j] = f[k] PROVE j = k
    <2>1. j \in Int /\ k \in Int
      OBVIOUS
    <2>2. ~(f[j] < f[k]) /\ ~(f[k] < f[j]) /\ ~(f[j] > f[k]) /\ ~(f[k] > f[j])
      BY <1>4, <1>5
    <2> QED BY <1>3, <2>1, <2>2
  <1> QED BY <1>1, <1>2, <1>5 DEF c

(* verify keeps entries as they are but for their age and retries, and     *)
(* sends again the command of an overdue one, each once.                   *)
LEMMA VerifyKeeps ==
    ASSUME NEW p, TableFits(p), NEW s, NEW v \in Verify(p, s), NEW i
    PROVE  /\ TableFits(v.pending) /\ QueueFits(v.retries)
           /\ Awaited(p, i) = {} => Awaited(v.pending, i) = {}
           /\ AwaitedFits(p, i) => AwaitedFits(v.pending, i)
           /\ Single(Awaited(p, i)) => Single(Toggles(v.retries, i))
           /\ Toggles(v.retries, i) # {} => \E j \in Awaited(p, i) : j \in ToRetry(p, s)
           /\ \A k \in DOMAIN v.pending : \E j \in DOMAIN p :
                 /\ v.pending[k].command = p[j].command
                 /\ v.pending[k].sentAt = IF j \in ToRetry(p, s) THEN 0 ELSE p[j].sentAt
           /\ \A k \in DOMAIN v.retries : \E j \in DOMAIN p : v.retries[k] = p[j].command
  <1>1. DOMAIN p = 1 .. Len(p) /\ Len(p) \in Nat
    BY QueueIndices DEF TableFits
  <1> DEFINE K == Survivors(p, s)
             R == ToRetry(p, s)
  <1>2. K \in SUBSET (1 .. Len(p)) /\ R \in SUBSET (1 .. Len(p)) /\ R = ToRetry(p, s)
    BY <1>1 DEF Survivors, ToRetry, Overdue
  <1>3. PICK keep \in Increasing(K), retry \in Decreasing(R) :
           v.pending = VerifyPending(p, s, keep) /\ v.retries = VerifyRetries(p, s, retry)
    BY DEF Verify
  <1> DEFINE n == Cardinality(K)
             c == Cardinality(R)
             q == v.pending
             t == v.retries
  <1>4. /\ n \in Nat /\ \A k \in 1 .. n : keep[k] \in K
        /\ \A j, k \in 1 .. n : keep[j] = keep[k] => j = k
    BY <1>1, <1>2, <1>3, ListedOnce
  <1>5. /\ c \in Nat /\ \A k \in 1 .. c : retry[k] \in R
        /\ \A j, k \in 1 .. c : retry[j] = retry[k] => j = k
    BY <1>1, <1>2, <1>3, ListedOnce
  <1>6. ASSUME NEW k \in DOMAIN p
        PROVE  /\ EntryFits(AfterVerify(p, s, k))
               /\ AfterVerify(p, s, k).command = p[k].command
               /\ AfterVerify(p, s, k).expected = p[k].expected
               /\ AfterVerify(p, s, k).sentAt = IF k \in ToRetry(p, s) THEN 0 ELSE p[k].sentAt
    <2>1. EntryFits(p[k])
      BY DEF TableFits
    <2>2. PICK r : r = p[k].retries + 1
      OBVIOUS
    <2> DEFINE u == [p[k] EXCEPT !.sentAt = 0, !.retries = r]
    <2>3. /\ EntryFits(u) /\ u.command = p[k].command /\ u.expected = p[k].expected
          /\ u.sentAt = 0
      BY <2>1, EntryRetried
    <2>4. AfterVerify(p, s, k) = IF k \in ToRetry(p, s) THEN u ELSE p[k]
      BY <2>1, <2>2 DEF AfterVerify, EntryFits, EntryFields
    <2> HIDE DEF u
    <2> QED BY <2>1, <2>3, <2>4
  <1>7. q = [k \in 1 .. n |-> AfterVerify(p, s, keep[k])]
    BY <1>3 DEF VerifyPending
  <1>8. t = [k \in 1 .. c |-> p[retry[k]].command]
    BY <1>3 DEF VerifyRetries
  <1> HIDE DEF n, c, q, t, K, R
  <1>9. /\ DOMAIN q = 1 .. n /\ IsQueue(q)
        /\ \A k \in 1 .. n : /\ keep[k] \in DOMAIN p /\ EntryFits(q[k])
                             /\ q[k].command = p[keep[k]].command
                             /\ q[k].expected = p[keep[k]].expected
                             /\ q[k].sentAt = IF keep[k] \in ToRetry(p, s) THEN 0
                                             ELSE p[keep[k]].sentAt
    <2>1. \A k \in 1 .. n : q[k] = AfterVerify(p, s, keep[k]) /\ keep[k] \in DOMAIN p
      BY <1>1, <1>2, <1>4, <1>7
    <2>2. DOMAIN q = 1 .. n /\ IsQueue(q)
      BY <1>4, <1>7, ListedQueue
    <2> QED BY <1>6, <2>1, <2>2
  <1>10. /\ DOMAIN t = 1 .. c /\ IsQueue(t)
         /\ \A k \in 1 .. c : retry[k] \in DOMAIN p /\ retry[k] \in ToRetry(p, s)
                              /\ t[k] = p[retry[k]].command
    <2>1. DOMAIN t = 1 .. c /\ IsQueue(t)
      BY <1>5, <1>8, ListedQueue
    <2> QED BY <1>1, <1>2, <1>5, <1>8, <2>1
  <1>11. TableFits(q)
    BY <1>9 DEF TableFits
  <1>12. QueueFits(t)
    BY <1>10 DEF QueueFits, TableFits, EntryFits
  <1>13. \A k \in Awaited(q, i) : k \in 1 .. n /\ keep[k] \in Awaited(p, i)
    BY <1>9 DEF Awaited
  <1>14. \A k \in Toggles(t, i) : k \in 1 .. c /\ retry[k] \in Awaited(p, i)
    BY <1>10 DEF Awaited, Toggles
  <1>15. AwaitedFits(p, i) => AwaitedFits(q, i)
    <2> SUFFICES ASSUME AwaitedFits(p, i) PROVE AwaitedFits(q, i)
      OBVIOUS
    <2>1. Single(Awaited(q, i))
      BY <1>4, <1>13 DEF AwaitedFits, Single
    <2> QED BY <1>9, <1>13, <2>1 DEF AwaitedFits
  <1>16. Single(Awaited(p, i)) => Single(Toggles(t, i))
    BY <1>5, <1>14 DEF Single
  <1>17. Toggles(t, i) # {} => \E j \in Awaited(p, i) : j \in ToRetry(p, s)
    BY <1>10, <1>14
  <1>18. \A k \in DOMAIN q : \E j \in DOMAIN p :
            /\ q[k].command = p[j].command
            /\ q[k].sentAt = IF j \in ToRetry(p, s) THEN 0 ELSE p[j].sentAt
    BY <1>9
  <1>19. \A k \in DOMAIN t : \E j \in DOMAIN p : t[k] = p[j].command
    BY <1>10
  <1> QED BY <1>11, <1>12, <1>13, <1>15, <1>16, <1>17, <1>18, <1>19 DEF q, t

-----------------------------------------------------------------------------
(* Where a toggle is. *)

Fewer(J, I) == (I = {} => J = {}) /\ (Single(I) => Single(J))
NothingComes == \A f : ~OnWay(f)
ToggledOnce(i) ==
    LET item == sim.spa.items[i]
    IN  /\ item \in {0, 1}
        /\ asked = 0 => /\ Toggles(queue, i) = {} /\ OnWire(tx, i) = {}
                        /\ Effects(sim.deferred, i) = {} /\ Awaited(pending, i) = {}
                        /\ item = 0
        /\ Single(Toggles(queue, i)) /\ Single(OnWire(tx, i)) /\ Single(Effects(sim.deferred, i))
        /\ AwaitedFits(pending, i)
        /\ Toggles(queue, i) # {} =>
              OnWire(tx, i) = {} /\ Effects(sim.deferred, i) = {} /\ item = 0
        /\ OnWire(tx, i) # {} => Effects(sim.deferred, i) = {} /\ item = 0 /\ NothingComes
        /\ Effects(sim.deferred, i) # {} => item = 0 /\ NothingComes
        /\ \A f : OnWay(f) => f.status.items[i] = item
        /\ item = 0 /\ lastStatus # NoStatus => lastStatus.items[i] = 0

(* A step after which there are no more toggles anywhere, and no more      *)
(* statuses, and the pump has not moved.                                   *)
LEMMA OnceKept ==
    ASSUME NEW i, ToggledOnce(i), Coming, sim'.spa.items[i] = sim.spa.items[i],
           Fewer(Toggles(queue', i), Toggles(queue, i)), Fewer(OnWire(tx', i), OnWire(tx, i)),
           Fewer(Effects(sim'.deferred, i), Effects(sim.deferred, i)),
           Awaited(pending, i) = {} => Awaited(pending', i) = {}, AwaitedFits(pending', i),
           sim.spa.items[i] = 0 /\ lastStatus' # NoStatus => lastStatus'.items[i] = 0,
           asked' = asked
    PROVE  ToggledOnce(i)'
  <1>1. NothingComes => NothingComes'
    BY DEF NothingComes, Coming
  <1>2. \A f : OnWay(f)' => f.status.items[i] = sim'.spa.items[i]
    BY DEF ToggledOnce, Coming
  <1>3. AwaitedFits(pending', i) <=> AwaitedFits(pending, i)'
    OBVIOUS
  <1> QED BY <1>1, <1>2 DEF ToggledOnce, Fewer

(* Fewer is reflexive and transitive.                                      *)
LEMMA FewerSame ==
    /\ \A I : Fewer(I, I) /\ Fewer({}, I)
    /\ \A I, J, K : Fewer(K, J) /\ Fewer(J, I) => Fewer(K, I)
  BY DEF Fewer, Single

(* The head leaves. *)
LEMMA TogglesLeft ==
    ASSUME NEW q, QueueFits(q), q # <<>>, NEW i
    PROVE  /\ QueueFits(Tail(q)) /\ CommandFits(Head(q))
           /\ Fewer(Toggles(Tail(q), i), Toggles(q, i))
           /\ IsFor(Head(q), i) => Toggles(q, i) # {}
           /\ IsFor(Head(q), i) /\ Single(Toggles(q, i)) => Toggles(Tail(q), i) = {}
  <1>1. /\ IsQueue(Tail(q)) /\ DOMAIN Tail(q) = 1 .. Len(q) - 1
        /\ \A k \in DOMAIN Tail(q) : k + 1 \in DOMAIN q /\ Tail(q)[k] = q[k + 1]
    BY ShorterQueue DEF QueueFits
  <1>2. 1 \in DOMAIN q /\ Head(q) = q[1] /\ Len(q) \in Nat
    BY QueueIndices DEF QueueFits
  <1>3. \A k \in Toggles(Tail(q), i) : k \in Nat /\ k + 1 \in Toggles(q, i) /\ k + 1 # 1
    BY <1>1, <1>2 DEF Toggles
  <1>4. Single(Toggles(q, i)) => Single(Toggles(Tail(q), i))
    <2> SUFFICES ASSUME Single(Toggles(q, i)), NEW j \in Toggles(Tail(q), i),
                        NEW k \in Toggles(Tail(q), i)
                 PROVE  j = k
      BY DEF Single
    <2>1. j + 1 = k + 1
      BY <1>3 DEF Single
    <2> QED BY <1>3, <2>1
  <1>5. IsFor(Head(q), i) => 1 \in Toggles(q, i)
    BY <1>2 DEF Toggles
  <1>6. QueueFits(Tail(q)) /\ CommandFits(Head(q))
    BY <1>1, <1>2 DEF QueueFits
  <1>7. Toggles(q, i) = {} => Toggles(Tail(q), i) = {}
    BY <1>3
  <1>8. IsFor(Head(q), i) /\ Single(Toggles(q, i)) => Toggles(Tail(q), i) = {}
    BY <1>3, <1>5 DEF Single
  <1> QED BY <1>4, <1>5, <1>6, <1>7, <1>8 DEF Fewer

(* A frame leaves UART_TX_CHANNEL: a toggle that left it is no longer on   *)
(* the wire.                                                               *)
LEMMA WireLeft ==
    ASSUME NEW q, IsQueue(q), q # <<>>, NEW i
    PROVE  /\ Fewer(OnWire(Tail(q), i), OnWire(q, i))
           /\ IsToggle(Head(q), i) => OnWire(q, i) # {}
           /\ IsToggle(Head(q), i) /\ Single(OnWire(q, i)) => OnWire(Tail(q), i) = {}
  <1>1. /\ DOMAIN Tail(q) = 1 .. Len(q) - 1
        /\ \A k \in DOMAIN Tail(q) : k + 1 \in DOMAIN q /\ Tail(q)[k] = q[k + 1]
    BY ShorterQueue
  <1>2. 1 \in DOMAIN q /\ Head(q) = q[1] /\ Len(q) \in Nat
    BY QueueIndices
  <1>3. \A k \in OnWire(Tail(q), i) : k \in Nat /\ k + 1 \in OnWire(q, i) /\ k + 1 # 1
    BY <1>1, <1>2 DEF OnWire
  <1>4. Single(OnWire(q, i)) => Single(OnWire(Tail(q), i))
    <2> SUFFICES ASSUME Single(OnWire(q, i)), NEW j \in OnWire(Tail(q), i),
                        NEW k \in OnWire(Tail(q), i)
                 PROVE  j = k
      BY DEF Single
    <2>1. j + 1 = k + 1
      BY <1>3 DEF Single
    <2> QED BY <1>3, <2>1
  <1>5. IsToggle(Head(q), i) => 1 \in OnWire(q, i)
    BY <1>2 DEF OnWire
  <1>6. OnWire(q, i) = {} => OnWire(Tail(q), i) = {}
    BY <1>3
  <1>7. IsToggle(Head(q), i) /\ Single(OnWire(q, i)) => OnWire(Tail(q), i) = {}
    BY <1>3, <1>5 DEF Single
  <1> QED BY <1>4, <1>5, <1>6, <1>7 DEF Fewer

(* What joins the queue. *)
LEMMA TogglesJoined ==
    ASSUME NEW q, QueueFits(q), NEW t, QueueFits(t), NEW i
    PROVE  /\ QueueFits(q \o t)
           /\ Toggles(t, i) = {} => Fewer(Toggles(q \o t, i), Toggles(q, i))
           /\ Toggles(q, i) = {} => Fewer(Toggles(q \o t, i), Toggles(t, i))
  <1> DEFINE x == q \o t
  <1>1. /\ IsQueue(x) /\ DOMAIN x = 1 .. Len(q) + Len(t)
        /\ \A k \in DOMAIN q : x[k] = q[k]
        /\ \A k \in DOMAIN x : k \notin DOMAIN q => k - Len(q) \in DOMAIN t /\ x[k] = t[k - Len(q)]
    BY LongerQueue DEF QueueFits
  <1>2. DOMAIN q = 1 .. Len(q) /\ DOMAIN t = 1 .. Len(t) /\ Len(q) \in Nat /\ Len(t) \in Nat
    BY QueueIndices DEF QueueFits
  <1> HIDE DEF x
  <1>3. QueueFits(x)
    BY <1>1 DEF QueueFits
  <1>4. \A k \in Toggles(x, i) : \/ k \in Toggles(q, i)
                                 \/ k - Len(q) \in Toggles(t, i) /\ k \in Int
    BY <1>1, <1>2 DEF Toggles
  <1>5. Toggles(t, i) = {} => Fewer(Toggles(x, i), Toggles(q, i))
    BY <1>4 DEF Fewer, Single
  <1>6. Toggles(q, i) = {} => Fewer(Toggles(x, i), Toggles(t, i))
    <2> SUFFICES ASSUME Toggles(q, i) = {} PROVE Fewer(Toggles(x, i), Toggles(t, i))
      OBVIOUS
    <2>1. \A k \in Toggles(x, i) : k - Len(q) \in Toggles(t, i) /\ k \in Int
      BY <1>4
    <2>2. ASSUME Single(Toggles(t, i)), NEW j \in Toggles(x, i), NEW k \in Toggles(x, i)
          PROVE  j = k
      <3>1. j - Len(q) = k - Len(q)
        BY <2>1, <2>2 DEF Single
      <3> QED BY <1>2, <2>1, <3>1
    <2> QED BY <2>1, <2>2 DEF Fewer, Single
  <1> QED BY <1>3, <1>5, <1>6 DEF x

-----------------------------------------------------------------------------
(* What the main loop sends. *)

Silent(o) ==
    IsQueue(o) /\ \A k \in DOMAIN o : o[k].act = "SendFrame" => o[k].frame.type # "0ABF"
SendsOnce(o, c) ==
    IsQueue(o) /\ \A k \in DOMAIN o : o[k].act = "SendFrame" => k = 1 /\ o[k].frame = CommandFrame(c)

(* Without a command among its actions the main loop puts no toggle on the *)
(* wire (execute_actions).                                                 *)
LEMMA SilentWire ==
    ASSUME IsQueue(tx), Silent(out'), ExecuteActions, NEW i
    PROVE  OnWire(tx', i) = OnWire(tx, i)
  <1>1. IsQueue(out')
    BY DEF Silent
  <1>2. /\ \A k \in DOMAIN tx : k \in DOMAIN tx' /\ tx'[k] = tx[k]
        /\ \A k \in DOMAIN tx' : k \notin DOMAIN tx =>
              \E j \in DOMAIN out' : out'[j].act = "SendFrame" /\ tx'[k] = out'[j].frame
    BY <1>1, Transmission
  <1>3. \A k \in DOMAIN tx' : k \notin DOMAIN tx => ~IsToggle(tx'[k], i)
    BY <1>2 DEF Silent, IsToggle
  <1> QED BY <1>2, <1>3 DEF OnWire

(* With one command among its actions the main loop puts at most that      *)
(* toggle on the wire.                                                     *)
LEMMA CommandOnWire ==
    ASSUME IsQueue(tx), NEW c, SendsOnce(out', c), ExecuteActions, NEW i
    PROVE  /\ ~IsFor(c, i) => OnWire(tx', i) = OnWire(tx, i)
           /\ OnWire(tx, i) = {} => Single(OnWire(tx', i))
  <1>1. IsQueue(out')
    BY DEF SendsOnce
  <1>2. \A k \in DOMAIN out' : out'[k].act = "SendFrame" => k = 1
    BY DEF SendsOnce
  <1>3. /\ \A k \in DOMAIN tx : k \in DOMAIN tx' /\ tx'[k] = tx[k]
        /\ \A k \in DOMAIN tx' : k \notin DOMAIN tx =>
              \E j \in DOMAIN out' : out'[j].act = "SendFrame" /\ tx'[k] = out'[j].frame
    BY <1>1, Transmission
  <1>4. \A j, k \in DOMAIN tx' : j \notin DOMAIN tx /\ k \notin DOMAIN tx => j = k
    BY <1>1, <1>2, Transmission
  <1>5. \A k \in DOMAIN tx' : k \notin DOMAIN tx => (IsToggle(tx'[k], i) <=> IsFor(c, i))
    BY <1>3, CommandsOfTheDevice DEF SendsOnce
  <1>6. ~IsFor(c, i) => OnWire(tx', i) = OnWire(tx, i)
    BY <1>3, <1>5 DEF OnWire
  <1>7. OnWire(tx, i) = {} => Single(OnWire(tx', i))
    BY <1>3, <1>4 DEF OnWire, Single
  <1> QED BY <1>6, <1>7

(* A list of actions none of which sends a command is silent.              *)
LEMMA SilentActions ==
    ASSUME NEW S, \A a \in S : a.act = "SendFrame" => a.frame.type # "0ABF", NEW o \in Seq(S)
    PROVE  Silent(o)
  BY DEF Silent, IsQueue

(* The frames of the handshake and the answer to a Ready frame are no      *)
(* commands.                                                               *)
LEMMA SilentFrames ==
    /\ \A ch : /\ CommandFrame(ch).type = "0ABF"
               /\ NothingToSend(ch).type # "0ABF" /\ ClientIdAck(ch).type # "0ABF"
    /\ \A ch, h : ExistingClientRequest(ch, h).type # "0ABF"
    /\ \A f : SendFrame(f).act = "SendFrame" /\ SendFrame(f).frame = f
    /\ RecordDropped.act # "SendFrame"
    /\ \A b, st : PublishState(b, st).act # "SendFrame"
    /\ \A m : PublishAlert(m).act # "SendFrame"
    /\ PublishStaleAvailability.act # "SendFrame" /\ PublishDiagnostics.act # "SendFrame"
  BY DEF CommandFrame, NothingToSend, ClientIdAck, ExistingClientRequest, Chbf, Febf, SendFrame,
         RecordDropped, PublishState, PublishAlert, PublishStaleAvailability, PublishDiagnostics

(* Nothing, or one frame that is no command, is silent.                    *)
LEMMA SilentOne ==
    /\ Silent(<<>>)
    /\ \A f : f.type # "0ABF" => Silent(<<SendFrame(f)>>)
  <1>1. ASSUME NEW f, f.type # "0ABF" PROVE Silent(<<SendFrame(f)>>)
    <2> DEFINE o == <<SendFrame(f)>>
    <2>1. IsQueue(o) /\ DOMAIN o = {1} /\ o[1] = SendFrame(f)
      BY SingleQueue
    <2> HIDE DEF o
    <2>2. Silent(o)
      BY <1>1, <2>1, SilentFrames DEF Silent
    <2> QED BY <2>2 DEF o
  <1> QED BY <1>1, EmptyQueue DEF Silent

(* The handshake sends no command (process_frame, not registered).         *)
LEMMA RegistrationIsSilent ==
    ASSUME NEW f, ProcessRegistration(f)
    PROVE  Silent(out')
  <1>1. \/ out' = <<>>
        \/ out' = <<SendFrame(ClientIdAck(f.ch))>>
        \/ out' = <<SendFrame(ExistingClientRequest(reg.prev, OwnHash))>>
    BY DEF ProcessRegistration
  <1> QED BY <1>1, SilentOne, SilentFrames

(* A status sends no command by itself: retries and timers go through the  *)
(* queue.                                                                  *)
LEMMA StatusIsSilent ==
    ASSUME NEW f, ProcessStatus(f)
    PROVE  Silent(out')
  <1> DEFINE S == {RecordDropped, PublishState(wasStale, reg.state)}
  <1>1. \E v : out' = When(v.dropped, RecordDropped) \o <<PublishState(wasStale, reg.state)>>
    BY DEF ProcessStatus
  <1>2. out' \in Seq(S)
    BY <1>1, WhenTyped, SingletonTyped, ConcatTyped
  <1>3. \A a \in S : a.act # "SendFrame"
    BY SilentFrames
  <1> QED BY <1>2, <1>3, SilentActions

(* A command of the user is queued, not sent (on_mqtt_command).            *)
LEMMA CommandIsSilent ==
    ASSUME NEW cmd, OnMqttCommand(cmd)
    PROVE  Silent(out')
  <1> DEFINE S == {RecordDropped}
  <1>1. out' = <<>> \/ \E c, d : out' = When(c, RecordDropped) \o When(d, RecordDropped)
    BY DEF OnMqttCommand, ReplaceTemperature, CancelToggle, PushCommand
  <1>2. RecordDropped \in S /\ \A a \in S : a.act # "SendFrame"
    BY SilentFrames
  <1> HIDE DEF S
  <1>3. <<>> \in Seq(S) /\ \A c : When(c, RecordDropped) \in Seq(S)
    BY <1>2, WhenTyped
  <1>4. out' \in Seq(S)
    BY <1>1, <1>3, ConcatTyped
  <1> QED BY <1>2, <1>4, SilentActions

(* A tick sends no toggle: its probe says nothing to send (tick).          *)
LEMMA TickIsSilent ==
    ASSUME Tick
    PROVE  Silent(out')
  <1> DEFINE S == {PublishAlert("registration_timeout"), PublishAlert("no_registration_query"),
                   PublishAlert("cts_loss"), SendFrame(NothingToSend(clientId)),
                   PublishAlert("spa_communication_lost"),
                   PublishState(FALSE, "WaitingForQuery"), PublishStaleAvailability,
                   PublishDiagnostics}
  <1>1. out' \in Seq(S)
    <2> DEFINE a1 == When(RegistrationTimedOut, PublishAlert("registration_timeout"))
               a2 == When(NoQuerySeen, PublishAlert("no_registration_query"))
               a3 == When(CtsLost, PublishAlert("cts_loss"))
               a4 == When(ProbeDue /\ clientId # None /\ ~CtsLost,
                          SendFrame(NothingToSend(clientId)))
               a5 == When(GoesStale, PublishAlert("spa_communication_lost"))
               a6 == When(GoesStale /\ lastStatus # NoStatus,
                          PublishState(FALSE, "WaitingForQuery"))
               a7 == When(GoesStale /\ lastStatus # NoStatus, PublishStaleAvailability)
               a8 == When(DiagDue, PublishDiagnostics)
    <2>1. out' = a1 \o a2 \o a3 \o a4 \o a5 \o a6 \o a7 \o a8
      BY DEF Tick
    <2>2. /\ a1 \in Seq(S) /\ a2 \in Seq(S) /\ a3 \in Seq(S) /\ a4 \in Seq(S)
          /\ a5 \in Seq(S) /\ a6 \in Seq(S) /\ a7 \in Seq(S) /\ a8 \in Seq(S)
      BY WhenTyped
    <2> HIDE DEF S, a1, a2, a3, a4, a5, a6, a7, a8
    <2> QED BY <2>1, <2>2, ConcatTyped, Zenon
  <1>2. \A a \in S : a.act = "SendFrame" => a.frame.type # "0ABF"
    BY DEF PublishAlert, SendFrame, PublishState, PublishStaleAvailability, PublishDiagnostics,
           NothingToSend, Chbf
  <1> HIDE DEF S
  <1> QED BY <1>1, <1>2, SilentActions

(* A Ready frame that is ours takes the head of the queue. *)
LEMMA ReadySendsHead ==
    ASSUME NEW f, ProcessReady(f)
    PROVE  /\ queue = <<>> => Silent(out')
           /\ queue # <<>> => SendsOnce(out', Head(queue))
  <1>1. CASE queue = <<>>
    <2>1. out' = <<>> \/ out' = <<SendFrame(NothingToSend(clientId))>>
      BY <1>1 DEF ProcessReady
    <2> QED BY <1>1, <2>1, SilentOne, SilentFrames
  <1>2. CASE queue # <<>>
    <2> DEFINE a == SendFrame(CommandFrame(Head(queue)))
    <2>1. PICK c : out' = <<a>> \o When(c, RecordDropped)
      BY <1>2 DEF ProcessReady
    <2> DEFINE u == <<a>>
               w == When(c, RecordDropped)
    <2>2. IsQueue(u) /\ DOMAIN u = {1} /\ u[1] = a /\ Len(u) = 1
      BY SingleQueue
    <2>3. /\ IsQueue(<<RecordDropped>>) /\ DOMAIN <<RecordDropped>> = {1}
          /\ <<RecordDropped>>[1] = RecordDropped
      BY SingleQueue
    <2>4. IsQueue(w) /\ \A k \in DOMAIN w : w[k] = RecordDropped
      BY <2>3, EmptyQueue DEF When
    <2>5. out' = u \o w
      BY <2>1
    <2> HIDE DEF u, w, a
    <2>6. IsQueue(u) /\ IsQueue(w)
      BY <2>2, <2>4
    <2> DEFINE x == u \o w
    <2>7. IsQueue(x) /\ x[1] = a /\ \A k \in DOMAIN x : k # 1 => x[k] = RecordDropped
      <3>1. IsQueue(u \o w)
        BY <2>6, LongerQueue
      <3>2. \A k \in DOMAIN u : (u \o w)[k] = u[k]
        BY <2>6, LongerQueue
      <3>3. \A k \in DOMAIN (u \o w) : k \notin DOMAIN u =>
               k - Len(u) \in DOMAIN w /\ (u \o w)[k] = w[k - Len(u)]
        BY <2>6, LongerQueue
      <3> HIDE DEF x
      <3> QED BY <2>2, <2>4, <3>1, <3>2, <3>3 DEF x
    <2>8. out' = x
      BY <2>5
    <2> HIDE DEF x
    <2>9. SendsOnce(x, Head(queue))
      BY <2>7, SilentFrames DEF SendsOnce, a
    <2> QED BY <1>2, <2>8, <2>9
  <1> QED BY <1>1, <1>2

-----------------------------------------------------------------------------
(* The tracker and the timers as time passes. *)

(* Pump timers nobody started never expire, and neither time, a status nor *)
(* a reset starts one.                                                     *)
LEMMA RestingTimers ==
    ASSUME NEW t, TimersFit(t)
    PROVE  /\ TimersFit(CancelAll(t)) /\ TimersFit(OlderTimers(t))
           /\ \A s : TimersFit(AfterTickAll(t, s)) /\ Expired(t, s) = {}
  <1>1. \A j \in Pumps : /\ t[j] = [startedAt |-> None, duration |-> t[j].duration]
                         /\ t[j].startedAt = None
    BY DEF TimersFit
  <1>2. \A j \in Pumps :
           /\ [t[j] EXCEPT !.startedAt = None] = [startedAt |-> None, duration |-> t[j].duration]
           /\ [t[j] EXCEPT !.startedAt = Older(@, t[j].duration)] =
                 [startedAt |-> None, duration |-> t[j].duration]
    <2> TAKE j \in Pumps
    <2>1. PICK d : t[j] = [startedAt |-> None, duration |-> d]
      BY <1>1
    <2>2. Older(None, d) = None
      BY DEF Older
    <2>3. t[j].duration = d
      BY <2>1
    <2> QED BY <2>1, <2>2, <2>3
  <1>3. \A u : (\A j \in Pumps : u[j] = [startedAt |-> None, duration |-> t[j].duration])
                  /\ u = [j \in Pumps |-> u[j]] => TimersFit(u)
    BY DEF TimersFit
  <1>4. TimersFit(CancelAll(t)) /\ TimersFit(OlderTimers(t))
    BY <1>2, <1>3 DEF CancelAll, OlderTimers
  <1>5. ASSUME NEW s PROVE TimersFit(AfterTickAll(t, s)) /\ Expired(t, s) = {}
    <2>1. Expired(t, s) = {}
      BY <1>1 DEF Expired
    <2>2. \A j \in Pumps : AfterTickAll(t, s)[j] = [startedAt |-> None, duration |-> t[j].duration]
      BY <1>1, <1>2 DEF AfterTickAll
    <2>3. AfterTickAll(t, s) = [j \in Pumps |-> AfterTickAll(t, s)[j]]
      BY DEF AfterTickAll
    <2> QED BY <1>3, <2>1, <2>2, <2>3
  <1> QED BY <1>4, <1>5

AgedTable(p) == [k \in DOMAIN p |-> [p[k] EXCEPT !.sentAt = Older(@, AckTimeout)]]

(* A second ages the entries of the tracker and changes nothing else in    *)
(* them.                                                                   *)
LEMMA TableAges ==
    ASSUME NEW p, TableFits(p), NEW i
    PROVE  /\ TableFits(AgedTable(p)) /\ Awaited(AgedTable(p), i) = Awaited(p, i)
           /\ AwaitedFits(p, i) => AwaitedFits(AgedTable(p), i)
           /\ DOMAIN AgedTable(p) = DOMAIN p
           /\ \A k \in DOMAIN p : /\ AgedTable(p)[k].command = p[k].command
                                 /\ AgedTable(p)[k].sentAt = Older(p[k].sentAt, AckTimeout)
  <1>1. DOMAIN p = 1 .. Len(p) /\ Len(p) \in Nat
    BY QueueIndices DEF TableFits
  <1> DEFINE q == AgedTable(p)
  <1>2. DOMAIN q = DOMAIN p /\ IsQueue(q)
    BY <1>1, ListedQueue DEF AgedTable
  <1>3. ASSUME NEW k \in DOMAIN p
        PROVE  /\ EntryFits(q[k]) /\ q[k].command = p[k].command /\ q[k].expected = p[k].expected
               /\ q[k].sentAt = Older(p[k].sentAt, AckTimeout)
    <2>1. EntryFits(p[k])
      BY DEF TableFits
    <2>2. Older(p[k].sentAt, AckTimeout) \in Nat
      BY <2>1 DEF EntryFits, Older
    <2>3. q[k] = [p[k] EXCEPT !.sentAt = Older(p[k].sentAt, AckTimeout)]
      BY <2>1 DEF EntryFits, EntryFields, AgedTable
    <2> HIDE DEF q
    <2>4. PICK n \in Nat : n = Older(p[k].sentAt, AckTimeout)
      BY <2>2
    <2>5. LET u == [p[k] EXCEPT !.sentAt = n]
          IN  /\ EntryFits(u) /\ u.command = p[k].command /\ u.expected = p[k].expected
              /\ u.sentAt = n
      BY <2>1, EntriesChange
    <2> QED BY <2>3, <2>4, <2>5
  <1> HIDE DEF q
  <1>4. TableFits(q) /\ Awaited(q, i) = Awaited(p, i)
    BY <1>2, <1>3 DEF TableFits, Awaited
  <1>5. AwaitedFits(p, i) => AwaitedFits(q, i)
    BY <1>3, <1>4 DEF AwaitedFits, Awaited
  <1> QED BY <1>2, <1>3, <1>4, <1>5 DEF q

-----------------------------------------------------------------------------
(* Every step keeps the toggles where they were, or takes one on.          *)

OncePumps == Pumps \ FilterPumps
OnceInv == OrderInv /\ CommandsFit /\ \A i \in OncePumps : ToggledOnce(i)

(* What a step that leaves the controller alone keeps. *)
LEMMA SpaStepKeepsOnce ==
    ASSUME OnceInv, OrderInv', Coming, UNCHANGED <<appVars, asked>>,
           \A i \in OncePumps : /\ sim'.spa.items[i] = sim.spa.items[i]
                                /\ Fewer(Effects(sim'.deferred, i), Effects(sim.deferred, i))
                                /\ Fewer(OnWire(tx', i), OnWire(tx, i))
    PROVE  OnceInv'
  <1>1. UNCHANGED <<queue, pending, timers, lastStatus>>
    BY DEF appVars, commandVars, statusVars
  <1>2. CommandsFit'
    BY <1>1 DEF OnceInv, CommandsFit
  <1>3. ASSUME NEW i \in OncePumps PROVE ToggledOnce(i)'
    <2>1. ToggledOnce(i)
      BY DEF OnceInv
    <2>2. AwaitedFits(pending', i) /\ Awaited(pending', i) = Awaited(pending, i)
      BY <1>1, <2>1 DEF ToggledOnce
    <2>3. Fewer(Toggles(queue', i), Toggles(queue, i))
      BY <1>1, FewerSame
    <2>4. sim.spa.items[i] = 0 /\ lastStatus' # NoStatus => lastStatus'.items[i] = 0
      BY <1>1, <2>1 DEF ToggledOnce
    <2> QED BY <2>1, <2>2, <2>3, <2>4, OnceKept
  <1> QED BY <1>2, <1>3 DEF OnceInv

(* The answer of the fast path leaves the water as it is.                  *)
LEMMA ReadingMovesNone ==
    ASSUME MainFits, WaterFits(sim), UartReads
    PROVE  WaterFits(sim') /\ sim'.spa = sim.spa /\ sim'.deferred = sim.deferred
  <1>1. CASE sim' = sim
    BY <1>1
  <1>2. CASE WriteTo(NewClientResponse(OwnHash), Tail(line))
    <2>1. PICK r \in SimProcess(sim, NewClientResponse(OwnHash)) : sim' = r.sim
      BY <1>2 DEF WriteTo
    <2>2. SameWater(r.sim, sim) /\ r.sim.rest = sim.rest
      BY <2>1, RegistrationMovesNone DEF MainFits
    <2> QED BY <2>1, <2>2 DEF SameWater, WaterFits
  <1> QED BY <1>1, <1>2 DEF UartReads

(* uart_task reads an element and answers a query itself: no toggle is     *)
(* sent or delayed.                                                        *)
LEMMA ReadingKeepsOnce ==
    ASSUME MainFits, WaterFits(sim), UartReads
    PROVE  WaterFits(sim') /\ (OnceInv => OnceInv')
  <1>1. WaterFits(sim') /\ sim'.spa = sim.spa /\ sim'.deferred = sim.deferred
    BY ReadingMovesNone
  <1>2. ASSUME OnceInv PROVE OnceInv'
    <2>1. OrderInv' /\ Coming
      BY <1>2, ReadingKeepsOrder DEF OnceInv
    <2>2. UNCHANGED <<appVars, asked>> /\ tx' = tx
      BY DEF UartReads
    <2> QED BY <1>1, <1>2, <2>1, <2>2, SpaStepKeepsOnce, FewerSame
  <1> QED BY <1>1, <1>2

(* uart_task hands a frame to the main loop.                               *)
LEMMA SendingKeepsOnce ==
    ASSUME OnceInv, UartSends
    PROVE  OnceInv'
  <1>1. OrderInv' /\ Coming
    BY SendingKeepsOrder DEF OnceInv
  <1>2. UNCHANGED <<appVars, asked, sim, tx>>
    BY DEF UartSends
  <1> QED BY <1>1, <1>2, SpaStepKeepsOnce, FewerSame

(* The spa takes the toggle that is next on the wire. *)
LEMMA TransmittingKeepsOnce ==
    ASSUME CommandLatency \in {0, 1}, MainFits, WaterFits(sim), UartTransmits
    PROVE  WaterFits(sim') /\ (OnceInv => OnceInv')
  <1>1. Sendable(Head(tx)) /\ IsQueue(tx) /\ tx # <<>> /\ tx' = Tail(tx)
    BY QueueIndices DEF MainFits, UartTransmits
  <1>2. PICK r \in SimProcess(sim, Head(tx)) : sim' = r.sim /\ line' = <<>> \o r.line
    BY DEF UartTransmits, WriteTo
  <1>3. /\ WaterFits(r.sim) /\ NoStatusIn(r.line)
        /\ \A i \in Pumps : \/ Unmoved(r.sim, sim, i)
                            \/ /\ IsToggle(Head(tx), i)
                               /\ Put(r.sim, sim, i) \/ MovedOn(r.sim, sim, i)
    BY <1>1, <1>2, FrameMoves, PumpsAreTracked DEF MainFits
  <1>4. ASSUME OnceInv PROVE OnceInv'
    <2>1. OrderInv' /\ Coming
      BY <1>2, <1>3, <1>4, TransmittingKeepsOrder DEF OnceInv
    <2>2. UNCHANGED <<queue, pending, timers, lastStatus, asked>>
      BY DEF UartTransmits, appVars, commandVars, statusVars
    <2>3. ASSUME NEW i \in OncePumps PROVE ToggledOnce(i)'
      <3>1. ToggledOnce(i) /\ i \in Pumps
        BY <1>4 DEF OnceInv, OncePumps
      <3>2. /\ Fewer(OnWire(tx', i), OnWire(tx, i))
            /\ IsToggle(Head(tx), i) => OnWire(tx, i) # {}
            /\ IsToggle(Head(tx), i) => OnWire(tx', i) = {}
        BY <1>1, <3>1, WireLeft DEF ToggledOnce
      <3>3. /\ Fewer(Toggles(queue', i), Toggles(queue, i))
            /\ Awaited(pending', i) = Awaited(pending, i) /\ AwaitedFits(pending', i)
            /\ sim.spa.items[i] = 0 /\ lastStatus' # NoStatus => lastStatus'.items[i] = 0
        BY <2>2, <3>1, FewerSame DEF ToggledOnce
      <3>4. CASE Unmoved(sim', sim, i)
        BY <2>1, <2>2, <3>1, <3>2, <3>3, <3>4, FewerSame, OnceKept DEF Unmoved
      <3>5. CASE IsToggle(Head(tx), i) /\ (Put(sim', sim, i) \/ MovedOn(sim', sim, i))
        <4>1. /\ Effects(sim.deferred, i) = {} /\ sim.spa.items[i] = 0 /\ NothingComes
              /\ Toggles(queue, i) = {} /\ asked # 0 /\ OnWire(tx', i) = {}
          BY <3>1, <3>2, <3>5 DEF ToggledOnce
        <4>2. NothingComes' /\ \A f : ~OnWay(f)'
          BY <2>1, <4>1 DEF NothingComes, Coming
        <4>3. \/ sim'.spa.items[i] = 0 /\ Single(Effects(sim'.deferred, i))
              \/ sim'.spa.items[i] = 1 /\ Effects(sim'.deferred, i) = {}
          BY <3>1, <3>5, <4>1 DEF Put, MovedOn, Stepped, CyclePump, Single
        <4> QED BY <2>2, <3>1, <3>3, <4>1, <4>2, <4>3 DEF ToggledOnce, Single
      <3> QED BY <1>2, <1>3, <3>1, <3>4, <3>5
    <2>4. CommandsFit'
      BY <1>4, <2>2 DEF OnceInv, CommandsFit
    <2> QED BY <2>1, <2>3, <2>4 DEF OnceInv
  <1> QED BY <1>2, <1>3, <1>4

(* A fault that is injected moves no pump. *)
LEMMA FaultKeepsOnce ==
    ASSUME MainFits, WaterFits(sim), Inject
    PROVE  WaterFits(sim') /\ (OnceInv => OnceInv')
  <1>1. WaterFits(sim') /\ sim'.spa = sim.spa /\ sim'.deferred = sim.deferred
    BY FaultMovesNone DEF Inject, MainFits
  <1>2. UNCHANGED <<appVars, line, partial, held, frames, tx, asked>>
    BY DEF Inject
  <1>3. (OrderInv => OrderInv') /\ Coming
    BY <1>2 DEF OrderInv, NoneBehind, Coming, OnWay
  <1> QED BY <1>1, <1>2, <1>3, SpaStepKeepsOnce, FewerSame DEF OnceInv

(* The second in which a toggle takes effect: no status shows the pump as  *)
(* it was.                                                                 *)
LEMMA SecondKeepsOnce ==
    ASSUME MainFits, WaterFits(sim), Second
    PROVE  WaterFits(sim') /\ (OnceInv => OnceInv')
  <1>1. WaterFits(sim')
    <2>1. PICK r \in SimTick(sim) : sim' = r.sim
      BY DEF Second
    <2> QED BY <2>1, SecondMoves DEF MainFits
  <1>2. ASSUME OnceInv PROVE OnceInv'
    <2>1. /\ OrderInv'
          /\ \A g : OnWay(g)' => OnWay(g) \/ g.status.items = sim'.spa.items
          /\ DOMAIN sim'.deferred = {} /\ MovesInSecond(sim'.spa, sim)
      BY <1>2, SecondKeepsOrder DEF OnceInv
    <2>2. /\ UNCHANGED <<tx, asked, queue, lastStatus>> /\ tx = <<>>
          /\ pending' = AgedTable(pending) /\ timers' = OlderTimers(timers)
      BY DEF Second, Advance, DeviceIsIdle, AgedTable
    <2>3. CommandsFit'
      <3>1. TableFits(pending) /\ TimersFit(timers)
        BY <1>2 DEF OnceInv, CommandsFit
      <3>2. TableFits(pending') /\ TimersFit(timers')
        BY <2>2, <3>1, TableAges, RestingTimers
      <3> QED BY <1>2, <2>2, <3>2 DEF OnceInv, CommandsFit
    <2>4. ASSUME NEW i \in OncePumps PROVE ToggledOnce(i)'
      <3>1. ToggledOnce(i) /\ i \in Pumps /\ i \in Pumps \ FilterPumps
        BY <1>2 DEF OnceInv, OncePumps
      <3>2. /\ OnWire(tx', i) = {} /\ Effects(sim'.deferred, i) = {}
            /\ Toggles(queue', i) = Toggles(queue, i)
        BY <2>1, <2>2, EmptyQueue DEF OnWire, Effects
      <3>3. Awaited(pending', i) = Awaited(pending, i) /\ AwaitedFits(pending', i)
        BY <1>2, <2>2, <3>1, TableAges DEF OnceInv, CommandsFit, ToggledOnce
      <3>4. sim'.spa.items[i] = IF Effects(sim.deferred, i) = {} THEN sim.spa.items[i]
                                ELSE CyclePump(sim.spa.items[i])
        BY <2>1, <3>1, PumpsAreTracked DEF MovesInSecond, ToggledOnce, Stepped
      <3>5. CASE Effects(sim.deferred, i) = {}
        <4>1. sim'.spa.items[i] = sim.spa.items[i]
          BY <3>4, <3>5
        <4>2. \A g : OnWay(g)' => g.status.items[i] = sim'.spa.items[i]
          BY <2>1, <3>1, <4>1 DEF ToggledOnce
        <4>3. asked' = asked /\ lastStatus' = lastStatus
          BY <2>2
        <4>4. Single({})
          BY DEF Single
        <4> QED BY <3>1, <3>2, <3>3, <4>1, <4>2, <4>3, <4>4 DEF ToggledOnce
      <3>6. CASE Effects(sim.deferred, i) # {}
        <4>1. sim.spa.items[i] = 0 /\ NothingComes /\ Toggles(queue, i) = {} /\ asked # 0
          BY <3>1, <3>6 DEF ToggledOnce
        <4>2. sim'.spa.items[i] = 1
          BY <3>4, <3>6, <4>1 DEF CyclePump
        <4>3. \A g : OnWay(g)' => g.status.items[i] = sim'.spa.items[i]
          BY <2>1, <4>1 DEF NothingComes
        <4>4. asked' = asked
          BY <2>2
        <4>5. Single({})
          BY DEF Single
        <4> QED BY <3>2, <3>3, <4>1, <4>2, <4>3, <4>4, <4>5 DEF ToggledOnce
      <3> QED BY <3>5, <3>6
    <2> QED BY <2>1, <2>3, <2>4 DEF OnceInv
  <1> QED BY <1>1, <1>2

(* What a step of the main loop keeps that queues no toggle and sends none.*)
LEMMA MainStepKeepsOnce ==
    ASSUME OnceInv, OrderInv', Coming, CommandsFit', UNCHANGED <<sim, asked>>,
           MainFits, ExecuteActions, Silent(out'),
           \A i \in OncePumps :
              /\ Fewer(Toggles(queue', i), Toggles(queue, i))
              /\ Awaited(pending, i) = {} => Awaited(pending', i) = {}
              /\ AwaitedFits(pending, i) => AwaitedFits(pending', i)
              /\ sim.spa.items[i] = 0 /\ lastStatus' # NoStatus => lastStatus'.items[i] = 0
    PROVE  OnceInv'
  <1>1. ASSUME NEW i \in OncePumps PROVE ToggledOnce(i)'
    <2>1. ToggledOnce(i) /\ AwaitedFits(pending', i)
      BY DEF OnceInv, ToggledOnce
    <2>2. Fewer(OnWire(tx', i), OnWire(tx, i))
      BY SilentWire, FewerSame DEF MainFits
    <2>3. /\ sim'.spa.items[i] = sim.spa.items[i] /\ asked' = asked
          /\ Fewer(Effects(sim'.deferred, i), Effects(sim.deferred, i))
      BY FewerSame
    <2> QED BY <2>1, <2>2, <2>3, OnceKept
  <1> QED BY <1>1 DEF OnceInv

(* A tick drops the commands of a lost session and repeats none (tick).    *)
LEMMA TickKeepsOnce ==
    ASSUME MainFits, OnceInv, MainTick
    PROVE  OnceInv'
  <1>1. Tick /\ ExecuteActions /\ UNCHANGED <<sim, line, partial, held, frames, asked>>
    BY DEF MainTick
  <1>2. OrderInv' /\ Coming
    BY <1>1 DEF OnceInv, OrderInv, NoneBehind, Coming, OnWay
  <1>3. /\ queue' = queue \/ queue' = <<>>
        /\ pending' = pending \/ pending' = <<>>
        /\ timers' = timers \/ timers' = CancelAll(timers)
        /\ lastStatus' = lastStatus
    BY <1>1 DEF Tick
  <1>4. /\ QueueFits(<<>>) /\ TableFits(<<>>)
        /\ \A i : Toggles(<<>>, i) = {} /\ Awaited(<<>>, i) = {} /\ AwaitedFits(<<>>, i)
    BY EmptyQueue DEF QueueFits, TableFits, Toggles, Awaited, AwaitedFits, Single
  <1>5. CommandsFit'
    BY <1>3, <1>4, RestingTimers DEF OnceInv, CommandsFit
  <1>6. Silent(out')
    BY <1>1, TickIsSilent
  <1>7. \A i \in OncePumps :
           /\ Fewer(Toggles(queue', i), Toggles(queue, i))
           /\ Awaited(pending, i) = {} => Awaited(pending', i) = {}
           /\ AwaitedFits(pending, i) => AwaitedFits(pending', i)
           /\ sim.spa.items[i] = 0 /\ lastStatus' # NoStatus => lastStatus'.items[i] = 0
    <2> TAKE i \in OncePumps
    <2>1. ToggledOnce(i)
      BY DEF OnceInv
    <2>2. Fewer(Toggles(queue', i), Toggles(queue, i))
      <3>1. CASE queue' = queue
        BY <3>1, FewerSame
      <3>2. CASE queue' = <<>>
        BY <1>4, <3>2, FewerSame
      <3> QED BY <1>3, <3>1, <3>2
    <2>3. /\ Awaited(pending, i) = {} => Awaited(pending', i) = {}
          /\ AwaitedFits(pending, i) => AwaitedFits(pending', i)
      <3>1. CASE pending' = pending
        BY <3>1
      <3>2. CASE pending' = <<>>
        BY <1>4, <3>2
      <3> QED BY <1>3, <3>1, <3>2
    <2>4. sim.spa.items[i] = 0 /\ lastStatus' # NoStatus => lastStatus'.items[i] = 0
      BY <1>3, <2>1 DEF ToggledOnce
    <2> QED BY <2>2, <2>3, <2>4
  <1> QED BY <1>1, <1>2, <1>5, <1>6, <1>7, MainStepKeepsOnce

-----------------------------------------------------------------------------
(* A toggle that is queued has been sent, if at all, within the            *)
(* acknowledgement timeout, so its retry is not queued behind it.          *)
SentInTime ==
    \A i \in OncePumps :
        Toggles(queue, i) # {} =>
            \A k \in Awaited(pending, i) : pending[k].sentAt < AckTimeout

(* What the main loop does with a frame, apart from what the frame says.   *)
Taken(f) ==
    /\ frames # <<>> /\ f = Head(frames) /\ ExecuteActions /\ frames' = Tail(frames)
    /\ UNCHANGED <<sim, line, partial, held, asked>>

(* A frame of the handshake and a frame that is ignored repeat no toggle.  *)
LEMMA QuietFrameKeepsOnce ==
    ASSUME MainFits, OnceInv, NEW f, Taken(f),
           ProcessRegistration(f) \/ ProcessAssignment(f) \/ IgnoreFrame(f)
    PROVE  OnceInv'
  <1>1. OrderInv' /\ Coming
    BY TakingKeepsOrder DEF OnceInv, Taken
  <1>2. UNCHANGED <<queue, pending, timers, lastStatus>>
    BY DEF ProcessRegistration, ProcessAssignment, IgnoreFrame, commandVars, statusVars
  <1>3. Silent(out')
    BY RegistrationIsSilent, SilentOne DEF ProcessAssignment, IgnoreFrame
  <1>4. CommandsFit'
    BY <1>2 DEF OnceInv, CommandsFit
  <1>5. ASSUME NEW i \in OncePumps
        PROVE  /\ Fewer(Toggles(queue', i), Toggles(queue, i))
               /\ Awaited(pending, i) = {} => Awaited(pending', i) = {}
               /\ AwaitedFits(pending, i) => AwaitedFits(pending', i)
               /\ sim.spa.items[i] = 0 /\ lastStatus' # NoStatus => lastStatus'.items[i] = 0
    <2>1. ToggledOnce(i)
      BY DEF OnceInv
    <2> QED BY <1>2, <2>1, FewerSame DEF ToggledOnce
  <1>6. ExecuteActions /\ UNCHANGED <<sim, asked>>
    BY DEF Taken
  <1> QED BY <1>1, <1>3, <1>4, <1>5, <1>6, MainStepKeepsOnce

(* The commands a status adds to the queue besides the retries: none of    *)
(* them toggles a pump.                                                    *)
LEMMA TimersToggleNoPump ==
    ASSUME TimersFit(timers), NEW s, NEW due
    PROVE  LET e == [k \in 1 .. Cardinality(Expired(timers, s)) |-> Toggle(due[k])]
               h == When(HoldFires(hold, s.items[HoldMode] = 1), Toggle(HoldMode))
           IN  /\ QueueFits(e) /\ QueueFits(h)
               /\ \A i \in Pumps : Toggles(e, i) = {} /\ Toggles(h, i) = {}
  <1> DEFINE e == [k \in 1 .. Cardinality(Expired(timers, s)) |-> Toggle(due[k])]
             h == When(HoldFires(hold, s.items[HoldMode] = 1), Toggle(HoldMode))
  <1>1. Cardinality(Expired(timers, s)) = 0
    BY RestingTimers, FS_EmptySet
  <1>2. DOMAIN e = 1 .. 0 /\ e = [k \in 1 .. 0 |-> e[k]]
    BY <1>1
  <1> HIDE DEF e
  <1>3. IsQueue(e) /\ DOMAIN e = {}
    <2>1. 0 \in Nat /\ 1 .. 0 = {}
      OBVIOUS
    <2>2. \A n \in Nat : DOMAIN e = 1 .. n /\ e = [k \in 1 .. n |-> e[k]] => IsQueue(e)
      BY ListedQueue
    <2> QED BY <1>2, <2>1, <2>2
  <1>4. QueueFits(e) /\ \A i : Toggles(e, i) = {}
    BY <1>3 DEF QueueFits, Toggles
  <1>5. h = <<>> \/ h = <<Toggle(HoldMode)>>
    BY DEF When
  <1>6. QueueFits(h) /\ \A i \in Pumps : Toggles(h, i) = {}
    <2>1. CASE h = <<>>
      BY <2>1, EmptyQueue DEF QueueFits, Toggles
    <2>2. CASE h = <<Toggle(HoldMode)>>
      <3>1. IsQueue(h) /\ \A k \in DOMAIN h : h[k] = Toggle(HoldMode)
        BY <2>2, SingleQueue
      <3>2. CommandFits(Toggle(HoldMode))
        BY CommandsOfTheDevice DEF Toggle
      <3>3. \A i \in Pumps : ~IsFor(Toggle(HoldMode), i)
        BY CommandsOfTheDevice, PumpsAreTracked
      <3> QED BY <3>1, <3>2, <3>3 DEF QueueFits, Toggles
    <2> QED BY <1>5, <2>1, <2>2
  <1> QED BY <1>4, <1>6 DEF e

(* A status: the tracker toggles a pump again only when the spa has not    *)
(* moved it, and nothing on its way to the spa will.                       *)
LEMMA StatusKeepsOnce ==
    ASSUME MainFits, OnceInv, SentInTime, NEW f, Taken(f), ProcessStatus(f)
    PROVE  OnceInv'
  <1> DEFINE s == f.status
  <1>1. IsStatus(f)
    BY DEF ProcessStatus, DispatchFrame, IsStatus
  <1>2. OrderInv' /\ Coming /\ OnWay(f)
    BY <1>1, TakingKeepsOrder DEF OnceInv, Taken
  <1>3. PICK v \in Verify(pending, s), due \in Increasing(Expired(timers, s)) :
           /\ pending' = v.pending
           /\ queue' = queue \o v.retries
                         \o [k \in 1 .. Cardinality(Expired(timers, s)) |-> Toggle(due[k])]
                         \o When(HoldFires(hold, s.items[HoldMode] = 1), Toggle(HoldMode))
    BY DEF ProcessStatus
  <1>4. timers' = AfterTickAll(timers, s) /\ lastStatus' = s
    BY DEF ProcessStatus
  <1>5. PICK e, h :
           /\ e = [k \in 1 .. Cardinality(Expired(timers, s)) |-> Toggle(due[k])]
           /\ h = When(HoldFires(hold, s.items[HoldMode] = 1), Toggle(HoldMode))
    OBVIOUS
  <1>6. QueueFits(queue) /\ TableFits(pending) /\ TimersFit(timers)
    BY DEF OnceInv, CommandsFit
  <1>7. QueueFits(e) /\ QueueFits(h) /\ \A i \in Pumps : Toggles(e, i) = {} /\ Toggles(h, i) = {}
    <2>1. LET x == [k \in 1 .. Cardinality(Expired(timers, s)) |-> Toggle(due[k])]
              y == When(HoldFires(hold, s.items[HoldMode] = 1), Toggle(HoldMode))
          IN  /\ QueueFits(x) /\ QueueFits(y)
              /\ \A i \in Pumps : Toggles(x, i) = {} /\ Toggles(y, i) = {}
      BY <1>6, TimersToggleNoPump
    <2> QED BY <1>5, <2>1
  <1>8. queue' = queue \o v.retries \o e \o h
    BY <1>3, <1>5
  <1> HIDE DEF s
  <1>9. TableFits(v.pending) /\ QueueFits(v.retries)
    BY <1>6, VerifyKeeps
  <1>10. QueueFits(queue \o v.retries) /\ QueueFits(queue \o v.retries \o e) /\ QueueFits(queue')
    <2>1. QueueFits(queue \o v.retries)
      BY <1>6, <1>9, TogglesJoined
    <2>2. QueueFits(queue \o v.retries \o e)
      BY <1>7, <2>1, TogglesJoined
    <2> QED BY <1>7, <1>8, <2>1, <2>2, TogglesJoined
  <1>11. CommandsFit'
    BY <1>3, <1>4, <1>6, <1>9, <1>10, RestingTimers DEF CommandsFit
  <1>12. Silent(out')
    BY StatusIsSilent
  <1>13. ASSUME NEW i \in OncePumps PROVE ToggledOnce(i)'
    <2>1. ToggledOnce(i) /\ i \in Pumps
      BY DEF OnceInv, OncePumps
    <2>2. s.items[i] = sim.spa.items[i]
      BY <1>2, <2>1 DEF ToggledOnce, s
    <2>3. OnWire(tx', i) = OnWire(tx, i)
      BY <1>12, SilentWire DEF MainFits, Taken
    <2>4. /\ Awaited(pending, i) = {} => Awaited(pending', i) = {}
          /\ AwaitedFits(pending', i)
          /\ Single(Toggles(v.retries, i))
          /\ Toggles(v.retries, i) # {} => \E j \in Awaited(pending, i) : j \in ToRetry(pending, s)
      <3>1. AwaitedFits(pending, i) /\ Single(Awaited(pending, i))
        BY <2>1 DEF ToggledOnce, AwaitedFits
      <3> QED BY <1>3, <1>6, <3>1, VerifyKeeps
    <2>5. Fewer(Toggles(queue', i), Toggles(queue \o v.retries, i))
      <3>1. Fewer(Toggles(queue \o v.retries \o e, i), Toggles(queue \o v.retries, i))
        BY <1>7, <1>10, <2>1, TogglesJoined
      <3>2. Fewer(Toggles(queue', i), Toggles(queue \o v.retries \o e, i))
        BY <1>7, <1>8, <1>10, <2>1, TogglesJoined
      <3> QED BY <3>1, <3>2, FewerSame
    <2>6. UNCHANGED <<sim, asked>>
      BY DEF Taken
    <2>7. CASE Toggles(v.retries, i) = {}
      <3>1. Fewer(Toggles(queue \o v.retries, i), Toggles(queue, i))
        BY <1>6, <1>9, <2>7, TogglesJoined
      <3>2. Fewer(Toggles(queue', i), Toggles(queue, i))
        BY <2>5, <3>1, FewerSame
      <3>3. Fewer(OnWire(tx', i), OnWire(tx, i))
        BY <2>3, FewerSame
      <3>4. /\ sim'.spa.items[i] = sim.spa.items[i] /\ asked' = asked
            /\ Fewer(Effects(sim'.deferred, i), Effects(sim.deferred, i))
        BY <2>6, FewerSame
      <3>5. sim.spa.items[i] = 0 /\ lastStatus' # NoStatus => lastStatus'.items[i] = 0
        BY <1>4, <2>2
      <3> QED BY <1>2, <2>1, <2>4, <3>2, <3>3, <3>4, <3>5, OnceKept
    <2>8. CASE Toggles(v.retries, i) # {}
      <3>1. PICK j \in Awaited(pending, i) : j \in ToRetry(pending, s)
        BY <2>4, <2>8
      <3>2. /\ j \in DOMAIN pending /\ IsFor(pending[j].command, i)
            /\ pending[j].expected = [kind |-> "ToggleItem", arg |-> i, pre |-> 0]
            /\ EntryFits(pending[j])
        BY <1>6, <2>1, <3>1 DEF Awaited, AwaitedFits, ToggledOnce, TableFits
      <3>3. ~IsConfirmed(pending[j].expected, s) /\ pending[j].sentAt >= AckTimeout
        BY <3>1 DEF Overdue, ToRetry
      <3>4. s.items[i] = 0
        BY <3>2, <3>3 DEF IsConfirmed
      <3>5. Toggles(queue, i) = {}
        <4>1. pending[j].sentAt \in Nat /\ AckTimeout \in Nat
          BY <3>2, TrackerAssumption DEF EntryFits
        <4> QED BY <3>1, <3>3, <4>1 DEF SentInTime
      <3>6. /\ asked # 0 /\ sim.spa.items[i] = 0
            /\ OnWire(tx, i) = {} /\ Effects(sim.deferred, i) = {}
        BY <1>2, <2>1, <2>2, <3>1, <3>4 DEF ToggledOnce, NothingComes
      <3>7. Single(Toggles(queue', i))
        <4>1. Fewer(Toggles(queue \o v.retries, i), Toggles(v.retries, i))
          BY <1>6, <1>9, <3>5, TogglesJoined
        <4> QED BY <2>4, <2>5, <4>1 DEF Fewer
      <3>8. \A g : OnWay(g)' => g.status.items[i] = 0
        BY <1>2, <2>1, <3>6 DEF Coming, ToggledOnce
      <3>9. lastStatus'.items[i] = 0
        BY <1>4, <3>4
      <3>10. Single({})
        BY DEF Single
      <3> QED BY <2>3, <2>4, <2>6, <3>6, <3>7, <3>8, <3>9, <3>10 DEF ToggledOnce
    <2> QED BY <2>7, <2>8
  <1> QED BY <1>2, <1>11, <1>13 DEF OnceInv

(* A Ready frame that lets the head of the queue go: no status is left on  *)
(* its way behind it, so nothing can ask for the toggle again before the   *)
(* spa has had it.                                                         *)
LEMMA HeadKeepsOnce ==
    ASSUME MainFits, OnceInv, NEW f, Taken(f), ProcessReady(f), queue # <<>>
    PROVE  OnceInv'
  <1> DEFINE c == Head(queue)
             t == Track(pending, c, lastStatus)
  <1>1. IsReady(f)
    BY DEF ProcessReady, DispatchFrame, IsReady
  <1>2. OrderInv' /\ Coming /\ \A g : ~OnWay(g)'
    BY <1>1, TakingKeepsOrder DEF OnceInv, Taken
  <1>3. SendsOnce(out', c)
    BY ReadySendsHead
  <1>4. /\ queue' = Tail(queue) /\ UNCHANGED <<timers, lastStatus>>
        /\ pending' = IF lastStatus = NoStatus THEN pending ELSE t
    BY DEF ProcessReady, statusVars
  <1>5. QueueFits(queue) /\ TableFits(pending) /\ TimersFit(timers)
    BY DEF OnceInv, CommandsFit
  <1>6. QueueFits(queue') /\ CommandFits(c)
    BY <1>4, <1>5, TogglesLeft
  <1> HIDE DEF c
  <1>7. \A i : /\ TableFits(t)
               /\ \/ /\ Awaited(t, i) = Awaited(pending, i)
                     /\ \A k \in Awaited(pending, i) : t[k].expected = pending[k].expected
                  \/ /\ IsFor(c, i) /\ SameExpected(pending, c, lastStatus) = {}
                     /\ Awaited(t, i) = Awaited(pending, i) \cup {Len(pending) + 1}
                     /\ t[Len(pending) + 1].expected = FromCommand(c, lastStatus)
    BY <1>5, <1>6, TrackKeeps
  <1> HIDE DEF t
  <1>8. CommandsFit'
    BY <1>4, <1>5, <1>6, <1>7 DEF CommandsFit
  <1>9. IsQueue(tx) /\ ExecuteActions /\ UNCHANGED <<sim, asked>>
    BY DEF MainFits, Taken
  <1>10. ASSUME NEW i \in OncePumps PROVE ToggledOnce(i)'
    <2>1. ToggledOnce(i)
      BY DEF OnceInv
    <2>2. /\ Fewer(Toggles(queue', i), Toggles(queue, i))
          /\ IsFor(c, i) => Toggles(queue, i) # {}
          /\ IsFor(c, i) => Toggles(queue', i) = {}
      <3>1. Single(Toggles(queue, i))
        BY <2>1 DEF ToggledOnce
      <3> QED BY <1>4, <1>5, <3>1, TogglesLeft DEF c
    <2>3. /\ ~IsFor(c, i) => OnWire(tx', i) = OnWire(tx, i)
          /\ OnWire(tx, i) = {} => Single(OnWire(tx', i))
      BY <1>3, <1>9, CommandOnWire
    <2>4. sim.spa.items[i] = 0 /\ lastStatus' # NoStatus => lastStatus'.items[i] = 0
      BY <1>4, <2>1 DEF ToggledOnce
    <2>5. AwaitedFits(pending, i)
      BY <2>1 DEF ToggledOnce
    <2>6. CASE ~IsFor(c, i)
      <3>1. /\ Awaited(pending', i) = Awaited(pending, i)
            /\ \A k \in Awaited(pending, i) : pending'[k].expected = pending[k].expected
        BY <1>4, <1>7, <2>6
      <3>2. AwaitedFits(pending', i)
        BY <2>5, <3>1 DEF AwaitedFits
      <3>3. /\ sim'.spa.items[i] = sim.spa.items[i] /\ asked' = asked
            /\ Fewer(Effects(sim'.deferred, i), Effects(sim.deferred, i))
            /\ Fewer(OnWire(tx', i), OnWire(tx, i))
        BY <1>9, <2>3, <2>6, FewerSame
      <3> QED BY <1>2, <2>1, <2>2, <2>4, <3>1, <3>2, <3>3, OnceKept
    <2>7. CASE IsFor(c, i)
      <3>1. /\ asked # 0 /\ sim.spa.items[i] = 0
            /\ OnWire(tx, i) = {} /\ Effects(sim.deferred, i) = {}
        BY <2>1, <2>2, <2>7 DEF ToggledOnce
      <3>2. AwaitedFits(pending', i)
        <4>1. CASE pending' = pending
          BY <2>5, <4>1
        <4>2. CASE /\ pending' = t /\ Awaited(t, i) = Awaited(pending, i)
                   /\ \A k \in Awaited(pending, i) : t[k].expected = pending[k].expected
          BY <2>5, <4>2 DEF AwaitedFits
        <4>3. CASE /\ pending' = t /\ lastStatus # NoStatus
                   /\ SameExpected(pending, c, lastStatus) = {}
                   /\ Awaited(t, i) = Awaited(pending, i) \cup {Len(pending) + 1}
                   /\ t[Len(pending) + 1].expected = FromCommand(c, lastStatus)
          <5>1. FromCommand(c, lastStatus) = [kind |-> "ToggleItem", arg |-> i, pre |-> 0]
            <6>1. lastStatus.items[i] = 0
              BY <1>4, <2>4, <3>1, <4>3
            <6> QED BY <2>7, <6>1 DEF FromCommand, IsFor
          <5>2. Awaited(pending, i) = {}
            BY <2>5, <4>3, <5>1 DEF AwaitedFits, SameExpected, Awaited
          <5> QED BY <4>3, <5>1, <5>2 DEF AwaitedFits, Single
        <4> QED BY <1>4, <1>7, <4>1, <4>2, <4>3
      <3>3. Single({})
        BY DEF Single
      <3>4. Single(OnWire(tx', i))
        BY <2>3, <3>1
      <3>5. \A g : ~OnWay(g)'
        BY <1>2
      <3>6. /\ sim'.spa.items[i] = 0 /\ Effects(sim'.deferred, i) = {} /\ asked' # 0
            /\ Toggles(queue', i) = {}
        BY <1>9, <2>2, <2>7, <3>1
      <3> QED BY <2>4, <3>1, <3>2, <3>3, <3>4, <3>5, <3>6 DEF ToggledOnce, NothingComes
    <2> QED BY <2>6, <2>7
  <1> QED BY <1>2, <1>8, <1>10 DEF OnceInv

(* A Ready frame sends the head of the queue, once (process_frame).        *)
LEMMA ReadyKeepsOnce ==
    ASSUME MainFits, OnceInv, NEW f, Taken(f), ProcessReady(f)
    PROVE  OnceInv'
  <1>1. CASE queue = <<>>
    <2>1. OrderInv' /\ Coming
      BY TakingKeepsOrder DEF OnceInv, Taken
    <2>2. UNCHANGED <<queue, pending, timers, lastStatus>>
      BY <1>1 DEF ProcessReady, statusVars
    <2>3. Silent(out')
      BY <1>1, ReadySendsHead
    <2>4. CommandsFit'
      BY <2>2 DEF OnceInv, CommandsFit
    <2>5. ASSUME NEW i \in OncePumps
          PROVE  /\ Fewer(Toggles(queue', i), Toggles(queue, i))
                 /\ Awaited(pending, i) = {} => Awaited(pending', i) = {}
                 /\ AwaitedFits(pending, i) => AwaitedFits(pending', i)
                 /\ sim.spa.items[i] = 0 /\ lastStatus' # NoStatus => lastStatus'.items[i] = 0
      <3>1. ToggledOnce(i)
        BY DEF OnceInv
      <3> QED BY <2>2, <3>1, FewerSame DEF ToggledOnce
    <2>6. ExecuteActions /\ UNCHANGED <<sim, asked>>
      BY DEF Taken
    <2> QED BY <2>1, <2>3, <2>4, <2>5, <2>6, MainStepKeepsOnce
  <1>2. CASE queue # <<>>
    BY <1>2, HeadKeepsOnce
  <1> QED BY <1>1, <1>2

(* No frame makes a toggle move its pump twice, if its retry is queued in  *)
(* time.                                                                   *)
LEMMA FrameKeepsOnce ==
    ASSUME MainFits, OnceInv, SentInTime, NEW f, Taken(f), ProcessFrame(f)
    PROVE  OnceInv'
  BY QuietFrameKeepsOnce, StatusKeepsOnce, ReadyKeepsOnce DEF ProcessFrame

(* A command: it may put its toggle in the queue, once.                    *)
LEMMA CommandQueuesOnce ==
    ASSUME QueueFits(queue), NEW cmd, CommandFits(cmd), OnMqttCommand(cmd)
    PROVE  /\ QueueFits(queue')
           /\ \A i : Toggles(queue, i) = {} => Single(Toggles(queue', i))
  <1>1. IsQueue(queue) /\ DOMAIN queue = 1 .. Len(queue) /\ Len(queue) \in Nat
    BY QueueIndices DEF QueueFits
  <1>2. CASE ReplaceTemperature(cmd)
    <2> DEFINE m == Min(QueuedTemperatures)
    <2>1. queue' = [queue EXCEPT ![m] = cmd] /\ cmd.kind = "SetTemperature"
      BY <1>2 DEF ReplaceTemperature
    <2> HIDE DEF m
    <2>2. queue = [k \in 1 .. Len(queue) |-> queue[k]]
      <3>1. PICK S : queue \in Seq(S)
        BY <1>1 DEF IsQueue
      <3> QED BY <3>1
    <2>3. /\ DOMAIN queue' = 1 .. Len(queue) /\ queue' = [k \in 1 .. Len(queue) |-> queue'[k]]
          /\ \A k \in DOMAIN queue' : k \in DOMAIN queue /\ (queue'[k] = queue[k] \/ queue'[k] = cmd)
      BY <1>1, <2>1, <2>2
    <2>4. IsQueue(queue')
      BY <1>1, <2>3, ListedQueue
    <2>5. QueueFits(queue')
      BY <2>3, <2>4 DEF QueueFits
    <2>6. \A i : Toggles(queue', i) \subseteq Toggles(queue, i)
      BY <2>1, <2>3 DEF Toggles, IsFor
    <2> QED BY <2>5, <2>6 DEF Single
  <1>3. CASE CancelToggle(cmd)
    <2> DEFINE m == Min(QueuedToggles(cmd))
               R == {queue[k] : k \in DOMAIN queue}
    <2>1. m \in DOMAIN queue /\ queue' = RemoveAt(queue, m)
      <3>1. QueuedToggles(cmd) \in SUBSET Nat /\ QueuedToggles(cmd) # {}
        BY <1>1, <1>3 DEF QueuedToggles, CancelToggle
      <3>2. m \in QueuedToggles(cmd)
        BY <3>1, LeastIndex
      <3> QED BY <1>3, <3>2 DEF CancelToggle, QueuedToggles
    <2> HIDE DEF m
    <2>2. queue \in Seq(R)
      <3>1. PICK S : queue \in Seq(S)
        BY <1>1 DEF IsQueue
      <3>2. queue = [k \in 1 .. Len(queue) |-> queue[k]]
        BY <3>1
      <3> QED BY <1>1, <3>2
    <2> HIDE DEF R
    <2>3. queue' \in Seq(R)
      <3>1. m \in 1 .. Len(queue)
        BY <1>1, <2>1
      <3>2. SubSeq(queue, 1, m - 1) \in Seq(R)
        BY <2>2, <3>1
      <3>3. SubSeq(queue, m + 1, Len(queue)) \in Seq(R)
        BY <2>2, <3>1
      <3> QED BY <2>1, <3>2, <3>3, ConcatTyped DEF RemoveAt
    <2>4. IsQueue(queue') /\ \A k \in DOMAIN queue' : queue'[k] \in R
      BY <2>3 DEF IsQueue
    <2>5. QueueFits(queue')
      BY <2>4 DEF QueueFits, R
    <2>6. ASSUME NEW i, Toggles(queue, i) = {} PROVE Toggles(queue', i) = {}
      BY <2>4, <2>6 DEF Toggles, R
    <2> QED BY <2>5, <2>6 DEF Single
  <1>4. CASE PushCommand(cmd)
    <2> DEFINE Pushed(q, c) == PushBack(q, c) = q \/ PushBack(q, c) = Append(q, c)
    <2>1. \A q, c : Pushed(q, c)
      BY DEF PushBack
    <2>2. ASSUME NEW q, QueueFits(q), NEW c, CommandFits(c)
          PROVE  /\ QueueFits(PushBack(q, c))
                 /\ \A i : Toggles(q, i) = {} => Single(Toggles(PushBack(q, c), i))
                 /\ \A i : Toggles(q, i) = {} /\ ~IsFor(c, i) => Toggles(PushBack(q, c), i) = {}
      <3>1. CASE PushBack(q, c) = q
        BY <2>2, <3>1 DEF Single
      <3>2. CASE PushBack(q, c) = Append(q, c)
        <4> DEFINE u == Append(q, c)
        <4>1. /\ IsQueue(u)
              /\ \A k \in DOMAIN q : u[k] = q[k]
              /\ u[Len(q) + 1] = c
              /\ \A k \in DOMAIN u : k \notin DOMAIN q => k = Len(q) + 1
          BY <2>2, AppendedQueue DEF QueueFits
        <4> HIDE DEF u
        <4>2. \A k \in DOMAIN u : (k \in DOMAIN q /\ u[k] = q[k]) \/ (k = Len(q) + 1 /\ u[k] = c)
          BY <4>1
        <4>3. QueueFits(u)
          BY <2>2, <4>1, <4>2 DEF QueueFits
        <4>4. \A i : Toggles(q, i) = {} => \A k \in Toggles(u, i) : k = Len(q) + 1 /\ IsFor(c, i)
          BY <4>2 DEF Toggles
        <4> QED BY <3>2, <4>3, <4>4 DEF u, Single
      <3> QED BY <2>1, <3>1, <3>2
    <2> HIDE DEF Pushed
    <2>3. CommandFits(ClockPreference) /\ \A i : ~IsFor(ClockPreference, i)
      BY CommandsOfTheDevice DEF ClockPreference
    <2>4. PICK q : /\ q = queue \/ q = PushBack(queue, ClockPreference)
                   /\ queue' = PushBack(q, cmd)
      BY <1>4 DEF PushCommand
    <2>5. QueueFits(q) /\ \A i : Toggles(queue, i) = {} => Toggles(q, i) = {}
      BY <2>2, <2>3, <2>4
    <2> QED BY <2>2, <2>4, <2>5
  <1> QED BY <1>2, <1>3, <1>4 DEF OnMqttCommand

(* The first command of the user puts its toggle in the queue once         *)
(* (on_mqtt_command).                                                      *)
LEMMA CommandKeepsOnce ==
    ASSUME MainFits, OnceInv, asked = 0, MainTakesCommand
    PROVE  OnceInv'
  <1>1. PICK cmd \in UserCommands : OnMqttCommand(cmd)
    BY DEF MainTakesCommand
  <1>2. CommandFits(cmd)
    BY SpaAppAssumption, CommandsOfTheDevice
  <1>3. QueueFits(queue) /\ TableFits(pending) /\ TimersFit(timers)
    BY DEF OnceInv, CommandsFit
  <1>4. /\ QueueFits(queue')
        /\ \A i : Toggles(queue, i) = {} => Single(Toggles(queue', i))
    BY <1>1, <1>2, <1>3, CommandQueuesOnce
  <1>5. UNCHANGED <<pending, timers, lastStatus>>
    BY <1>1 DEF OnMqttCommand, statusVars
  <1>6. /\ ExecuteActions /\ UNCHANGED <<sim, line, partial, held, frames>>
        /\ asked' = 1
    BY DEF MainTakesCommand
  <1>7. OrderInv' /\ Coming
    BY <1>6 DEF OnceInv, OrderInv, NoneBehind, Coming, OnWay
  <1>8. CommandsFit'
    BY <1>3, <1>4, <1>5 DEF CommandsFit
  <1>9. Silent(out')
    BY <1>1, CommandIsSilent
  <1>10. ASSUME NEW i \in OncePumps PROVE ToggledOnce(i)'
    <2>1. ToggledOnce(i)
      BY DEF OnceInv
    <2>2. /\ Toggles(queue, i) = {} /\ OnWire(tx, i) = {} /\ Effects(sim.deferred, i) = {}
          /\ sim.spa.items[i] = 0
      BY <2>1 DEF ToggledOnce
    <2>3. OnWire(tx', i) = {}
      BY <1>6, <1>9, <2>2, SilentWire DEF MainFits
    <2>4. /\ AwaitedFits(pending', i)
          /\ sim.spa.items[i] = 0 /\ lastStatus' # NoStatus => lastStatus'.items[i] = 0
      BY <1>5, <2>1 DEF ToggledOnce
    <2>5. \A g : OnWay(g)' => g.status.items[i] = 0
      BY <1>7, <2>1, <2>2 DEF Coming, ToggledOnce
    <2>6. Single({}) /\ Single(Toggles(queue', i))
      BY <1>4, <2>2 DEF Single
    <2> QED BY <1>6, <2>2, <2>3, <2>4, <2>5, <2>6 DEF ToggledOnce
  <1> QED BY <1>7, <1>8, <1>10 DEF OnceInv

-----------------------------------------------------------------------------
(* A toggle that waits in the queue again is sent, or lost with its        *)
(* session, before it would be queued a third time.                        *)

(* No status follows a Ready frame within a second. *)
ShownBeforeReady == \A f : OnWay(f) => lastCts # 0

(* The last tick has looked at the age of the last Ready frame. *)
CtsChecked ==
    phase = "wait" /\ ~timerDue /\ IsRegistered(reg) /\ ~wasStale /\ lastCts # None
        => lastCts < CtsLoss

(* Once a pump is toggled, its toggle is the only command there is.  Its   *)
(* retry is in the queue for less time than no Ready frame has come.       *)
Concerns(i) == Toggles(queue, i) # {} \/ Awaited(pending, i) # {}
OnlyFor(i) == /\ \A k \in DOMAIN queue : IsFor(queue[k], i)
              /\ \A k \in DOMAIN pending : IsFor(pending[k].command, i)
InTime(i) ==
    /\ Awaited(pending, i) # {} => IsRegistered(reg) /\ lastCts # None
    /\ Toggles(queue, i) # {} /\ Awaited(pending, i) # {} =>
          ~wasStale /\ \A k \in Awaited(pending, i) : pending[k].sentAt < lastCts
    /\ Concerns(i) => OnlyFor(i)

(* Hold mode stays off until it is toggled, so its timer puts no toggle of *)
(* its own before the pump's.                                              *)
HoldRests ==
    /\ sim.spa.items[HoldMode] = 0
    /\ OnWire(tx, HoldMode) = {} /\ Effects(sim.deferred, HoldMode) = {}
    /\ \A f : OnWay(f) => f.status.items[HoldMode] = 0
PumpFirst == asked = 0 \/ \E i \in OncePumps : Concerns(i)

TimeInv ==
    /\ lastCts \in Ages(CtsLoss)
    /\ ShownBeforeReady /\ CtsChecked
    /\ asked = 0 => queue = <<>> /\ pending = <<>>
    /\ \A i \in OncePumps : InTime(i)
    /\ PumpFirst => HoldRests

(* A step of the main loop that puts no toggle of hold mode on the wire    *)
(* leaves hold mode off.                                                   *)
LEMMA HoldKept ==
    ASSUME Coming, UNCHANGED sim, OnWire(tx', HoldMode) = OnWire(tx, HoldMode), HoldRests
    PROVE  HoldRests'
  BY DEF HoldRests, Coming

(* While the retry waits in the queue no Ready frame has come for longer   *)
(* than the entry has waited; as the session is given up after             *)
(* CTS_LOSS_THRESHOLD_MS without a Ready frame, the retry is gone before   *)
(* COMMAND_ACK_TIMEOUT_MS has passed again.                                *)
LEMMA NothingIsLate ==
    ASSUME CtsLoss <= AckTimeout, OnceInv, TimeInv
    PROVE  SentInTime
  <1> SUFFICES ASSUME NEW i \in OncePumps, Toggles(queue, i) # {}, NEW k \in Awaited(pending, i)
               PROVE  pending[k].sentAt < AckTimeout
    BY DEF SentInTime
  <1>1. lastCts \in Ages(CtsLoss) /\ lastCts # None /\ pending[k].sentAt < lastCts
    BY DEF TimeInv, InTime
  <1>2. pending[k].sentAt \in Nat
    BY DEF Awaited, OnceInv, CommandsFit, TableFits, EntryFits
  <1>3. CtsLoss \in Nat /\ AckTimeout \in Nat
    BY SpaAppAssumption, TrackerAssumption
  <1> QED BY <1>1, <1>2, <1>3 DEF Ages

(* A step of the spa or of uart_task changes no time the controller keeps. *)
LEMMA SpaStepKeepsTime ==
    ASSUME TimeInv, Coming, UNCHANGED <<appVars, asked>>,
           phase' = "wait" /\ ~timerDue' => phase = "wait" /\ ~timerDue,
           HoldRests => HoldRests'
    PROVE  TimeInv'
  <1>1. UNCHANGED <<queue, pending, lastCts, wasStale, reg>>
    BY DEF appVars, commandVars, statusVars, sessionVars
  <1>2. ShownBeforeReady'
    BY <1>1 DEF TimeInv, ShownBeforeReady, Coming
  <1>3. CtsChecked'
    BY <1>1 DEF TimeInv, CtsChecked
  <1>4. \A i \in OncePumps : InTime(i)'
    BY <1>1 DEF TimeInv, InTime, Concerns, OnlyFor
  <1>5. PumpFirst' => HoldRests'
    BY <1>1 DEF TimeInv, PumpFirst, Concerns
  <1> QED BY <1>1, <1>2, <1>3, <1>4, <1>5 DEF TimeInv

(* A second ages the last Ready frame and every entry of the tracker       *)
(* alike, and the tick before it has seen that the Ready frames are not    *)
(* lost.                                                                   *)
LEMMA SecondKeepsTime ==
    ASSUME MainFits, WaterFits(sim), OnceInv, TimeInv, Second
    PROVE  TimeInv'
  <1>1. /\ \A g : OnWay(g)' => OnWay(g) \/ g.status.items = sim'.spa.items
        /\ DOMAIN sim'.deferred = {} /\ MovesInSecond(sim'.spa, sim)
    BY SecondKeepsOrder DEF OnceInv
  <1>2. /\ UNCHANGED <<asked, queue, reg, wasStale, tx>> /\ phase = "wait" /\ ~timerDue /\ timerDue'
        /\ pending' = AgedTable(pending) /\ lastCts' = Older(lastCts, CtsLoss)
    BY DEF Second, Advance, DeviceIsIdle, AgedTable
  <1>3. lastCts \in Ages(CtsLoss) /\ CtsLoss \in Nat \ {0}
    BY SpaAppAssumption DEF TimeInv
  <1>4. /\ lastCts' \in Ages(CtsLoss) /\ lastCts' # 0
        /\ lastCts # None => lastCts' # None
        /\ lastCts # None /\ lastCts < CtsLoss => lastCts' = lastCts + 1
    BY <1>2, <1>3 DEF Older, Ages, None
  <1>5. TableFits(pending)
    BY DEF OnceInv, CommandsFit
  <1>6. /\ DOMAIN pending' = DOMAIN pending
        /\ \A k \in DOMAIN pending :
              /\ pending'[k].command = pending[k].command
              /\ pending'[k].sentAt = Older(pending[k].sentAt, AckTimeout)
        /\ \A i : Awaited(pending', i) = Awaited(pending, i)
    BY <1>2, <1>5, TableAges
  <1>7. ShownBeforeReady'
    BY <1>4 DEF ShownBeforeReady
  <1>8. CtsChecked'
    BY <1>2 DEF CtsChecked
  <1>9. asked' = 0 => queue' = <<>> /\ pending' = <<>>
    <2> SUFFICES ASSUME asked' = 0 PROVE queue' = <<>> /\ pending' = <<>>
      OBVIOUS
    <2>1. queue = <<>> /\ pending = <<>>
      BY <1>2 DEF TimeInv
    <2>2. IsQueue(pending') /\ DOMAIN pending' = {}
      BY <1>2, <1>5, <1>6, <2>1, EmptyQueue, TableAges DEF TableFits
    <2> QED BY <1>2, <2>1, <2>2, QueueIndices
  <1>10. ASSUME NEW i \in OncePumps PROVE InTime(i)'
    <2>1. InTime(i)
      BY DEF TimeInv
    <2>2. Awaited(pending', i) # {} => IsRegistered(reg') /\ lastCts' # None
      BY <1>2, <1>4, <1>6, <2>1 DEF InTime
    <2>3. ASSUME Toggles(queue', i) # {}, NEW k \in Awaited(pending', i)
          PROVE  ~wasStale' /\ pending'[k].sentAt < lastCts'
      <3>1. Toggles(queue, i) # {} /\ k \in Awaited(pending, i) /\ k \in DOMAIN pending
        BY <1>2, <1>6, <2>3 DEF Awaited
      <3>2. /\ IsRegistered(reg) /\ lastCts # None /\ ~wasStale
            /\ pending[k].sentAt < lastCts
        BY <2>1, <3>1 DEF InTime
      <3>3. lastCts < CtsLoss
        BY <1>2, <3>2 DEF TimeInv, CtsChecked
      <3>4. pending[k].sentAt \in Nat
        BY <1>5, <3>1 DEF TableFits, EntryFits
      <3>5. pending'[k].sentAt <= pending[k].sentAt + 1
        BY <1>6, <3>1, <3>4 DEF Older
      <3>6. pending'[k].sentAt \in Nat
        BY <1>6, <3>1, <3>4 DEF Older
      <3>7. lastCts' = lastCts + 1 /\ lastCts \in Nat
        BY <1>3, <1>4, <3>2, <3>3 DEF Ages
      <3> QED BY <1>2, <3>2, <3>4, <3>5, <3>6, <3>7
    <2>4. Concerns(i)' => OnlyFor(i)'
      BY <1>2, <1>6, <2>1 DEF InTime, Concerns, OnlyFor
    <2> QED BY <2>2, <2>3, <2>4 DEF InTime
  <1>11. PumpFirst' => HoldRests'
    <2> SUFFICES ASSUME PumpFirst' PROVE HoldRests'
      OBVIOUS
    <2>1. PumpFirst
      BY <1>2, <1>6 DEF PumpFirst, Concerns
    <2>2. HoldRests
      BY <2>1 DEF TimeInv
    <2>3. HoldMode \in TrackedItems \ FilterPumps
      BY BusAssumption, PumpsAreTracked
    <2>4. Effects(sim'.deferred, HoldMode) = {} /\ Single({})
      BY <1>1 DEF Effects, Single
    <2>5. sim'.spa.items[HoldMode] = 0
      BY <1>1, <2>2, <2>3, <2>4 DEF MovesInSecond, HoldRests
    <2> QED BY <1>1, <1>2, <2>2, <2>4, <2>5 DEF HoldRests
  <1> QED BY <1>4, <1>7, <1>8, <1>9, <1>10, <1>11 DEF TimeInv

(* A tick looks at the age of the last Ready frame and drops the queue     *)
(* with the tracker when it is too old (tick).                             *)
LEMMA TickKeepsTime ==
    ASSUME MainFits, TimeInv, MainTick
    PROVE  TimeInv'
  <1>1. Tick /\ UNCHANGED <<sim, line, partial, held, frames, asked>>
    BY DEF MainTick
  <1>2. Coming
    BY <1>1 DEF Coming, OnWay
  <1>3. \/ /\ ~SessionReset /\ UNCHANGED <<queue, pending, lastCts>>
           /\ wasStale' <=> wasStale
           /\ IsRegistered(reg) <=> IsRegistered(reg')
        \/ queue' = <<>> /\ pending' = <<>> /\ lastCts' = None
    <2>1. CASE SessionReset
      BY <1>1, <2>1 DEF Tick
    <2>2. CASE ~SessionReset
      <3>1. UNCHANGED <<queue, pending, lastCts>> /\ (wasStale' <=> wasStale)
        BY <1>1, <2>2 DEF Tick, SessionReset
      <3>2. reg' = IF RegistrationTimedOut THEN RegReset(reg) ELSE reg
        BY <1>1, <2>2 DEF Tick
      <3>3. RegReset(reg).state = "WaitingForQuery"
        BY DEF MainFits, RegFits, MachineFits, RegFields, RegReset
      <3>4. IsRegistered(reg) <=> IsRegistered(reg')
        BY <3>2, <3>3 DEF RegistrationTimedOut, IsRegistered
      <3> QED BY <2>2, <3>1, <3>4
    <2> QED BY <2>1, <2>2
  <1>4. \A i : Toggles(<<>>, i) = {} /\ Awaited(<<>>, i) = {}
    BY EmptyQueue DEF Toggles, Awaited
  <1>5. lastCts' \in Ages(CtsLoss) /\ ShownBeforeReady'
    BY <1>2, <1>3 DEF TimeInv, ShownBeforeReady, Coming, Ages, None
  <1>6. CtsChecked'
    <2>1. lastCts \in Ages(CtsLoss) /\ CtsLoss \in Nat
      BY SpaAppAssumption DEF TimeInv
    <2> QED BY <1>3, <2>1 DEF CtsChecked, SessionReset, CtsLost, Ages
  <1>7. asked' = 0 => queue' = <<>> /\ pending' = <<>>
    BY <1>1, <1>3 DEF TimeInv
  <1>8. ASSUME NEW i \in OncePumps PROVE InTime(i)'
    <2>1. InTime(i)
      BY DEF TimeInv
    <2>2. CASE queue' = <<>> /\ pending' = <<>>
      BY <1>4, <2>2 DEF InTime, Concerns
    <2>3. CASE /\ UNCHANGED <<queue, pending, lastCts>> /\ (wasStale' <=> wasStale)
               /\ IsRegistered(reg) <=> IsRegistered(reg')
      BY <2>1, <2>3 DEF InTime, Concerns, OnlyFor
    <2> QED BY <1>3, <2>2, <2>3
  <1>9. PumpFirst' => HoldRests'
    <2>1. PumpFirst' => PumpFirst
      <3>1. CASE queue' = <<>> /\ pending' = <<>>
        BY <1>1, <1>4, <3>1 DEF PumpFirst, Concerns
      <3>2. CASE UNCHANGED <<queue, pending>>
        BY <1>1, <3>2 DEF PumpFirst, Concerns
      <3> QED BY <1>3, <3>1, <3>2
    <2>2. OnWire(tx', HoldMode) = OnWire(tx, HoldMode)
      BY <1>1, SilentWire, TickIsSilent DEF MainTick, MainFits
    <2> QED BY <1>1, <1>2, <2>1, <2>2, HoldKept DEF TimeInv
  <1> QED BY <1>5, <1>6, <1>7, <1>8, <1>9 DEF TimeInv

(* A frame of the handshake and a frame that is ignored touch neither      *)
(* queue nor tracker.                                                      *)
LEMMA QuietFrameKeepsTime ==
    ASSUME MainFits, OnceInv, TimeInv, NEW f, Taken(f), phase' # "wait",
           ProcessRegistration(f) \/ ProcessAssignment(f) \/ IgnoreFrame(f)
    PROVE  TimeInv'
  <1>1. Coming
    BY TakingKeepsOrder DEF OnceInv, Taken
  <1>2. /\ UNCHANGED <<queue, pending, lastCts, wasStale, asked>>
        /\ IsRegistered(reg) => IsRegistered(reg')
    BY DEF ProcessRegistration, ProcessAssignment, IgnoreFrame, commandVars, statusVars,
           sessionVars, Taken
  <1>3. ShownBeforeReady' /\ CtsChecked'
    BY <1>1, <1>2 DEF TimeInv, ShownBeforeReady, Coming, CtsChecked
  <1>4. \A i \in OncePumps : InTime(i)'
    BY <1>2 DEF TimeInv, InTime, Concerns, OnlyFor
  <1>5. OnWire(tx', HoldMode) = OnWire(tx, HoldMode)
    <2>1. Silent(out')
      BY RegistrationIsSilent, SilentOne DEF ProcessAssignment, IgnoreFrame
    <2> QED BY <2>1, SilentWire DEF MainFits, Taken
  <1>6. HoldRests => HoldRests'
    BY <1>1, <1>5, HoldKept DEF Taken
  <1>7. PumpFirst' => HoldRests'
    BY <1>2, <1>6 DEF TimeInv, PumpFirst, Concerns
  <1> QED BY <1>2, <1>3, <1>4, <1>7 DEF TimeInv

(* A status puts a retry in the queue after the last Ready frame. *)
LEMMA StatusKeepsTime ==
    ASSUME MainFits, OnceInv, TimeInv, NEW f, Taken(f), ProcessStatus(f), phase' # "wait"
    PROVE  TimeInv'
  <1> DEFINE s == f.status
  <1>1. IsStatus(f)
    BY DEF ProcessStatus, DispatchFrame, IsStatus
  <1>2. Coming /\ OnWay(f)
    BY <1>1, TakingKeepsOrder DEF OnceInv, Taken
  <1>3. lastCts # 0 /\ (PumpFirst => s.items[HoldMode] = 0)
    BY <1>2 DEF TimeInv, ShownBeforeReady, HoldRests
  <1>4. PICK v \in Verify(pending, s), due \in Increasing(Expired(timers, s)) :
           /\ pending' = v.pending
           /\ queue' = queue \o v.retries
                         \o [k \in 1 .. Cardinality(Expired(timers, s)) |-> Toggle(due[k])]
                         \o When(HoldFires(hold, s.items[HoldMode] = 1), Toggle(HoldMode))
    BY DEF ProcessStatus
  <1>5. /\ UNCHANGED <<lastCts, reg, asked>> /\ wasStale' = FALSE /\ IsRegistered(reg)
    BY DEF ProcessStatus, sessionVars, Taken
  <1> HIDE DEF s
  <1>6. QueueFits(queue) /\ TableFits(pending) /\ TimersFit(timers)
    BY DEF OnceInv, CommandsFit
  <1>7. PICK h : /\ queue' = queue \o v.retries \o h
                 /\ h = <<>> \/ h = <<Toggle(HoldMode)>>
                 /\ PumpFirst => h = <<>>
    <2>1. PICK h : h = When(HoldFires(hold, s.items[HoldMode] = 1), Toggle(HoldMode))
      OBVIOUS
    <2>2. Cardinality(Expired(timers, s)) = 0
      BY <1>6, RestingTimers, FS_EmptySet
    <2>3. PICK e : e = [k \in 1 .. Cardinality(Expired(timers, s)) |-> Toggle(due[k])]
      OBVIOUS
    <2>4. e = <<>>
      <3>1. 0 \in Nat /\ e = [k \in 1 .. 0 |-> e[k]] /\ DOMAIN e = 1 .. 0
        BY <2>2, <2>3
      <3>2. IsQueue(e) /\ Len(e) = 0
        BY <3>1, ListedQueue
      <3> QED BY <3>2 DEF IsQueue
    <2>5. PICK q : q = queue \o v.retries
      OBVIOUS
    <2>6. IsQueue(q)
      BY <1>6, <2>5, VerifyKeeps, LongerQueue DEF QueueFits
    <2>7. q \o <<>> = q
      BY <2>6 DEF IsQueue
    <2>8. h = <<>> \/ h = <<Toggle(HoldMode)>>
      BY <2>1 DEF When
    <2>9. PumpFirst => h = <<>>
      BY <1>3, <2>1 DEF When, HoldFires
    <2>10. queue' = q \o e \o h
      BY <1>4, <2>1, <2>3, <2>5
    <2>11. queue' = q \o h
      BY <2>4, <2>7, <2>10
    <2> QED BY <2>5, <2>8, <2>9, <2>11
  <1>8. /\ QueueFits(v.retries)
        /\ \A k \in DOMAIN v.pending : \E j \in DOMAIN pending :
              /\ v.pending[k].command = pending[j].command
              /\ v.pending[k].sentAt = IF j \in ToRetry(pending, s) THEN 0 ELSE pending[j].sentAt
        /\ \A k \in DOMAIN v.retries : \E j \in DOMAIN pending :
              v.retries[k] = pending[j].command
    BY <1>6, VerifyKeeps
  <1>9. \A k \in DOMAIN queue' :
           \/ k \in DOMAIN queue /\ queue'[k] = queue[k]
           \/ \E j \in DOMAIN v.retries : queue'[k] = v.retries[j]
           \/ ~PumpFirst /\ queue'[k] = Toggle(HoldMode)
    <2>1. IsQueue(queue) /\ IsQueue(v.retries)
      BY <1>6, <1>8 DEF QueueFits
    <2>2. IsQueue(h) /\ \A k \in DOMAIN h : ~PumpFirst /\ h[k] = Toggle(HoldMode)
      BY <1>7, EmptyQueue, SingleQueue
    <2>3. \A a, b : IsQueue(a) /\ IsQueue(b) =>
             \A k \in DOMAIN (a \o b) : \/ k \in DOMAIN a /\ (a \o b)[k] = a[k]
                                       \/ \E j \in DOMAIN b : (a \o b)[k] = b[j]
      <3> SUFFICES ASSUME NEW a, IsQueue(a), NEW b, IsQueue(b), NEW k \in DOMAIN (a \o b),
                          ~(k \in DOMAIN a /\ (a \o b)[k] = a[k])
                   PROVE  \E j \in DOMAIN b : (a \o b)[k] = b[j]
        OBVIOUS
      <3>1. k \notin DOMAIN a
        BY LongerQueue
      <3>2. k - Len(a) \in DOMAIN b /\ (a \o b)[k] = b[k - Len(a)]
        BY <3>1, LongerQueue
      <3> QED BY <3>2
    <2>4. PICK q : q = queue \o v.retries
      OBVIOUS
    <2>5. IsQueue(q)
      BY <2>1, <2>4, LongerQueue
    <2>6. \A k \in DOMAIN q : \/ k \in DOMAIN queue /\ q[k] = queue[k]
                              \/ \E j \in DOMAIN v.retries : q[k] = v.retries[j]
      BY <2>1, <2>3, <2>4
    <2>7. \A k \in DOMAIN queue' : \/ k \in DOMAIN q /\ queue'[k] = q[k]
                                   \/ \E j \in DOMAIN h : queue'[k] = h[j]
      <3>1. queue' = q \o h
        BY <1>7, <2>4
      <3>2. \A k \in DOMAIN (q \o h) : \/ k \in DOMAIN q /\ (q \o h)[k] = q[k]
                                      \/ \E j \in DOMAIN h : (q \o h)[k] = h[j]
        BY <2>2, <2>3, <2>5
      <3> QED BY <3>1, <3>2
    <2> QED BY <2>2, <2>6, <2>7
  <1>10. ShownBeforeReady' /\ CtsChecked' /\ lastCts' \in Ages(CtsLoss)
    BY <1>2, <1>5 DEF TimeInv, ShownBeforeReady, Coming, CtsChecked
  <1>11. \A i \in OncePumps : Concerns(i)' => Concerns(i)
    <2> TAKE i \in OncePumps
    <2>1. /\ Awaited(pending, i) = {} => Awaited(pending', i) = {}
          /\ Toggles(v.retries, i) # {} => Awaited(pending, i) # {}
      BY <1>4, <1>6, VerifyKeeps
    <2>2. Toggles(queue', i) # {} => Toggles(queue, i) # {} \/ Toggles(v.retries, i) # {}
      BY <1>9, CommandsOfTheDevice, PumpsAreTracked DEF Toggles, OncePumps
    <2> QED BY <2>1, <2>2 DEF Concerns
  <1>12. ASSUME NEW i \in OncePumps PROVE InTime(i)'
    <2>1. InTime(i)
      BY DEF TimeInv
    <2>2. Awaited(pending, i) = {} => Awaited(pending', i) = {}
      BY <1>4, <1>6, VerifyKeeps
    <2>3. Awaited(pending', i) # {} => IsRegistered(reg') /\ lastCts' # None
      BY <1>5, <2>1, <2>2 DEF InTime
    <2>4. ASSUME Toggles(queue', i) # {}, NEW k \in Awaited(pending', i)
          PROVE  ~wasStale' /\ pending'[k].sentAt < lastCts'
      <3>1. PICK j \in DOMAIN pending :
               /\ pending'[k].command = pending[j].command
               /\ pending'[k].sentAt = IF j \in ToRetry(pending, s) THEN 0 ELSE pending[j].sentAt
        BY <1>4, <1>8 DEF Awaited
      <3>2. j \in Awaited(pending, i)
        BY <3>1 DEF Awaited
      <3>3. lastCts \in Nat /\ lastCts > 0
        BY <1>3, <2>1, <3>2 DEF InTime, TimeInv, Ages
      <3>4. CASE j \in ToRetry(pending, s)
        BY <1>5, <3>1, <3>3, <3>4
      <3>5. CASE j \notin ToRetry(pending, s)
        <4>1. Single(Awaited(pending, i))
          BY DEF OnceInv, ToggledOnce, AwaitedFits
        <4>2. Toggles(v.retries, i) = {}
          <5>1. Toggles(v.retries, i) # {} =>
                   \E m \in Awaited(pending, i) : m \in ToRetry(pending, s)
            BY <1>6, VerifyKeeps
          <5> QED BY <3>2, <3>5, <4>1, <5>1 DEF Single
        <4>3. Toggles(queue, i) # {}
          BY <1>9, <2>4, <4>2, CommandsOfTheDevice, PumpsAreTracked DEF Toggles, OncePumps
        <4>4. pending[j].sentAt < lastCts
          BY <2>1, <3>2, <4>3 DEF InTime
        <4> QED BY <1>5, <3>1, <3>5, <4>4
      <3> QED BY <3>4, <3>5
    <2>5. Concerns(i)' => OnlyFor(i)'
      <3> SUFFICES ASSUME Concerns(i)' PROVE OnlyFor(i)'
        OBVIOUS
      <3>1. OnlyFor(i) /\ PumpFirst
        BY <1>11, <2>1 DEF InTime, PumpFirst
      <3>2. \A k \in DOMAIN v.retries : IsFor(v.retries[k], i)
        BY <1>8, <3>1 DEF OnlyFor
      <3>3. \A k \in DOMAIN pending' : IsFor(pending'[k].command, i)
        BY <1>4, <1>8, <3>1 DEF OnlyFor
      <3> QED BY <1>9, <3>1, <3>2, <3>3 DEF OnlyFor
    <2> QED BY <2>3, <2>4, <2>5 DEF InTime
  <1>13. asked' = 0 => queue' = <<>> /\ pending' = <<>>
    <2> SUFFICES ASSUME asked = 0 PROVE queue' = <<>> /\ pending' = <<>>
      BY <1>5
    <2>1. queue = <<>> /\ pending = <<>>
      BY DEF TimeInv
    <2>2. DOMAIN v.pending = {} /\ DOMAIN v.retries = {}
      BY <1>8, <2>1, EmptyQueue
    <2>3. IsQueue(v.pending) /\ IsQueue(v.retries)
      BY <1>6, VerifyKeeps DEF TableFits, QueueFits
    <2>4. v.pending = <<>> /\ v.retries = <<>>
      BY <2>2, <2>3, QueueIndices
    <2>5. <<>> \o <<>> = <<>> /\ h = <<>>
      BY <1>7 DEF PumpFirst
    <2>6. queue' = <<>>
      BY <1>7, <2>1, <2>4, <2>5
    <2> QED BY <1>4, <2>4, <2>6
  <1>14. PumpFirst' => HoldRests'
    <2>1. PumpFirst' => PumpFirst
      BY <1>5, <1>11 DEF PumpFirst
    <2>2. OnWire(tx', HoldMode) = OnWire(tx, HoldMode)
      BY SilentWire, StatusIsSilent DEF MainFits, Taken
    <2> QED BY <1>2, <2>1, <2>2, HoldKept DEF TimeInv, Taken
  <1> QED BY <1>10, <1>12, <1>13, <1>14 DEF TimeInv

(* A Ready frame lets the head of the queue go, and nothing for the pump   *)
(* stands behind it.                                                       *)
LEMMA ReadyKeepsTime ==
    ASSUME MainFits, OnceInv, TimeInv, NEW f, Taken(f), ProcessReady(f), phase' # "wait"
    PROVE  TimeInv'
  <1> DEFINE c == Head(queue)
             t == Track(pending, c, lastStatus)
  <1>1. IsReady(f)
    BY DEF ProcessReady, DispatchFrame, IsReady
  <1>2. \A g : ~OnWay(g)'
    BY <1>1, TakingKeepsOrder DEF OnceInv, Taken
  <1>3. /\ lastCts' = 0 /\ UNCHANGED <<reg, asked>> /\ IsRegistered(reg)
        /\ queue = <<>> => UNCHANGED <<queue, pending>>
        /\ queue # <<>> => /\ queue' = Tail(queue)
                           /\ pending' = pending \/ pending' = t
    BY DEF ProcessReady, Taken
  <1>4. QueueFits(queue) /\ TableFits(pending)
    BY DEF OnceInv, CommandsFit
  <1>5. queue # <<>> =>
           /\ CommandFits(c)
           /\ \A k \in DOMAIN queue' : \E j \in DOMAIN queue : queue'[k] = queue[j]
           /\ \E j \in DOMAIN queue : c = queue[j]
    BY <1>3, <1>4, TogglesLeft, ShorterQueue, QueueIndices DEF QueueFits
  <1>6. \A k \in DOMAIN t : \/ t[k].command = c
                            \/ \E j \in DOMAIN pending : t[k].command = pending[j].command
    BY <1>4, TrackOrigin
  <1>7. \A i : IsFor(c, i) \/ Awaited(pending, i) # {} \/ Awaited(t, i) = {}
    BY <1>6 DEF Awaited
  <1> HIDE DEF t
  <1>8. ASSUME NEW i \in OncePumps PROVE InTime(i)'
    <2>1. InTime(i) /\ Single(Toggles(queue, i))
      BY DEF TimeInv, OnceInv, ToggledOnce
    <2>2. lastCts' # None
      BY <1>3 DEF None
    <2>3. CASE queue = <<>>
      <3>1. Toggles(queue', i) = {}
        BY <1>3, <2>3, EmptyQueue DEF Toggles
      <3>2. Concerns(i)' => OnlyFor(i)'
        BY <1>3, <2>1, <2>3 DEF InTime, Concerns, OnlyFor
      <3> QED BY <1>3, <2>2, <3>1, <3>2 DEF InTime
    <2>4. CASE queue # <<>>
      <3>1. /\ Fewer(Toggles(queue', i), Toggles(queue, i))
            /\ IsFor(c, i) => Toggles(queue, i) # {}
            /\ IsFor(c, i) => Toggles(queue', i) = {}
        BY <1>3, <1>4, <2>1, <2>4, TogglesLeft
      <3>2. Concerns(i)' => Concerns(i)
        BY <1>3, <1>7, <2>4, <3>1 DEF Concerns, Fewer
      <3>3. Concerns(i) => IsFor(c, i)
        BY <1>5, <2>1, <2>4 DEF InTime, OnlyFor
      <3>4. Toggles(queue', i) = {}
        BY <3>1, <3>3 DEF Concerns, Fewer
      <3>5. Concerns(i)' => OnlyFor(i)'
        <4> SUFFICES ASSUME Concerns(i)' PROVE OnlyFor(i)'
          OBVIOUS
        <4>1. OnlyFor(i) /\ IsFor(c, i)
          BY <2>1, <3>2, <3>3 DEF InTime
        <4>2. \A k \in DOMAIN queue' : IsFor(queue'[k], i)
          BY <1>5, <2>4, <4>1 DEF OnlyFor
        <4>3. \A k \in DOMAIN t : IsFor(t[k].command, i)
          BY <1>6, <4>1 DEF OnlyFor
        <4>4. \A k \in DOMAIN pending' : IsFor(pending'[k].command, i)
          BY <1>3, <2>4, <4>1, <4>3 DEF OnlyFor
        <4> QED BY <4>2, <4>4 DEF OnlyFor
      <3> QED BY <1>3, <2>2, <3>4, <3>5 DEF InTime
    <2> QED BY <2>3, <2>4
  <1>9. ShownBeforeReady' /\ CtsChecked'
    BY <1>2 DEF ShownBeforeReady, CtsChecked
  <1>10. lastCts' \in Ages(CtsLoss)
    BY <1>3, SpaAppAssumption DEF Ages
  <1>11. asked' = 0 => queue' = <<>> /\ pending' = <<>>
    BY <1>3 DEF TimeInv
  <1>12. PumpFirst' => HoldRests'
    <2> SUFFICES ASSUME PumpFirst' PROVE HoldRests'
      OBVIOUS
    <2>1. CASE queue = <<>>
      <3>1. PumpFirst
        BY <1>3, <2>1 DEF PumpFirst, Concerns
      <3>2. Silent(out')
        BY <2>1, ReadySendsHead
      <3>3. OnWire(tx', HoldMode) = OnWire(tx, HoldMode)
        BY <3>2, SilentWire DEF MainFits, Taken
      <3>4. Coming
        BY TakingKeepsOrder DEF OnceInv, Taken
      <3> QED BY <3>1, <3>3, <3>4, HoldKept DEF TimeInv, Taken
    <2>2. CASE queue # <<>>
      <3>1. asked # 0
        BY <2>2 DEF TimeInv
      <3>2. PICK i \in OncePumps : Concerns(i)'
        BY <1>3, <3>1 DEF PumpFirst
      <3>3. InTime(i) /\ Fewer(Toggles(queue', i), Toggles(queue, i))
        BY <1>3, <1>4, <2>2, TogglesLeft DEF TimeInv
      <3>4. Concerns(i)
        <4>1. Awaited(pending', i) # {} => Awaited(pending, i) # {} \/ IsFor(c, i)
          BY <1>3, <1>7, <2>2
        <4>2. IsFor(c, i) => Toggles(queue, i) # {}
          BY <1>4, <2>2, TogglesLeft
        <4> QED BY <3>2, <3>3, <4>1, <4>2 DEF Concerns, Fewer
      <3>5. IsFor(c, i) /\ PumpFirst
        BY <1>5, <2>2, <3>3, <3>4 DEF InTime, OnlyFor, PumpFirst
      <3>6. ~IsFor(c, HoldMode)
        BY <3>2, <3>5, PumpsAreTracked DEF IsFor, OncePumps
      <3>7. SendsOnce(out', c)
        BY <2>2, ReadySendsHead
      <3>8. OnWire(tx', HoldMode) = OnWire(tx, HoldMode)
        BY <3>6, <3>7, CommandOnWire DEF MainFits, Taken
      <3>9. Coming
        BY TakingKeepsOrder DEF OnceInv, Taken
      <3> QED BY <3>5, <3>8, <3>9, HoldKept DEF TimeInv, Taken
    <2> QED BY <2>1, <2>2
  <1> QED BY <1>8, <1>9, <1>10, <1>11, <1>12 DEF TimeInv

(* A frame keeps the times of queue, tracker and last Ready frame in step. *)
LEMMA FrameKeepsTime ==
    ASSUME MainFits, OnceInv, TimeInv, NEW f, Taken(f), ProcessFrame(f), phase' # "wait"
    PROVE  TimeInv'
  BY QuietFrameKeepsTime, StatusKeepsTime, ReadyKeepsTime DEF ProcessFrame

(* The one command there is. *)
LEMMA CommandKeepsTime ==
    ASSUME MainFits, OnceInv, TimeInv, asked = 0, MainTakesCommand
    PROVE  TimeInv'
  <1>1. PICK cmd \in UserCommands : OnMqttCommand(cmd)
    BY DEF MainTakesCommand
  <1>2. /\ UNCHANGED <<sim, line, partial, held, frames, reg, lastCts, wasStale, pending>>
        /\ asked' = 1 /\ phase' = "tick"
    BY <1>1 DEF MainTakesCommand, OnMqttCommand, sessionVars, statusVars
  <1>3. Coming
    BY <1>2 DEF Coming, OnWay
  <1>4. queue = <<>> /\ pending = <<>> /\ DOMAIN queue = {} /\ DOMAIN pending = {}
    BY EmptyQueue DEF TimeInv
  <1>5. CommandFits(cmd)
    BY SpaAppAssumption, CommandsOfTheDevice
  <1>6. PushCommand(cmd)
    BY <1>1, <1>4 DEF OnMqttCommand, ReplaceTemperature, CancelToggle, QueuedTemperatures,
          QueuedToggles
  <1>7. \A i : IsFor(cmd, i) => \A k \in DOMAIN queue' : queue'[k] = cmd
    <2> SUFFICES ASSUME NEW i, IsFor(cmd, i) PROVE \A k \in DOMAIN queue' : queue'[k] = cmd
      OBVIOUS
    <2>1. cmd # Command("SetTime", 1)
      BY CommandsOfTheDevice DEF IsFor
    <2>2. queue' = PushBack(queue, cmd)
      BY <1>6, <2>1 DEF PushCommand
    <2>3. queue' = queue \/ queue' = Append(queue, cmd)
      BY <2>2 DEF PushBack
    <2>4. IsQueue(<<>>)
      BY EmptyQueue
    <2>5. \A k \in DOMAIN Append(<<>>, cmd) : Append(<<>>, cmd)[k] = cmd
      <3>1. \A k \in DOMAIN Append(<<>>, cmd) : k \notin DOMAIN <<>> => k = Len(<<>>) + 1
        BY <2>4, AppendedQueue
      <3>2. Append(<<>>, cmd)[Len(<<>>) + 1] = cmd
        BY <2>4, AppendedQueue
      <3>3. DOMAIN <<>> = {}
        BY EmptyQueue
      <3> QED BY <3>1, <3>2, <3>3
    <2> QED BY <1>4, <2>3, <2>5
  <1>8. \A i : IsFor(cmd, i) \/ Toggles(queue', i) = {}
    <2>1. QueueFits(queue) /\ \A i : Toggles(queue, i) = {}
      BY <1>4 DEF OnceInv, CommandsFit, Toggles
    <2>2. ClockPreference.kind # "ToggleItem"
      BY DEF ClockPreference, Command
    <2>3. \A i : ~IsFor(ClockPreference, i)
      BY CommandsOfTheDevice
    <2>4. ASSUME NEW q, QueueFits(q), NEW d PROVE
             \A k \in DOMAIN PushBack(q, d) :
                \/ k \in DOMAIN q /\ PushBack(q, d)[k] = q[k]
                \/ PushBack(q, d)[k] = d
      <3>1. PushBack(q, d) = q \/ PushBack(q, d) = Append(q, d)
        BY DEF PushBack
      <3>2. \A k \in DOMAIN Append(q, d) : k \notin DOMAIN q => Append(q, d)[k] = d
        BY <2>4, AppendedQueue DEF QueueFits
      <3>3. \A k \in DOMAIN q : Append(q, d)[k] = q[k]
        BY <2>4, AppendedQueue DEF QueueFits
      <3> QED BY <3>1, <3>2, <3>3
    <2>5. PICK q : /\ q = queue \/ q = PushBack(queue, ClockPreference)
                   /\ queue' = PushBack(q, cmd)
      BY <1>6 DEF PushCommand
    <2>6. QueueFits(q) /\ \A k \in DOMAIN q : q[k] = ClockPreference
      <3>1. CommandFits(ClockPreference)
        BY CommandsOfTheDevice DEF ClockPreference
      <3>2. \A k \in DOMAIN q : q[k] = ClockPreference
        BY <1>4, <2>1, <2>4, <2>5
      <3>3. IsQueue(queue) /\ IsQueue(Append(queue, ClockPreference))
        BY <2>1, AppendedQueue DEF QueueFits
      <3>4. q = queue \/ q = Append(queue, ClockPreference)
        BY <2>5 DEF PushBack
      <3> QED BY <3>1, <3>2, <3>3, <3>4 DEF QueueFits
    <2>7. \A k \in DOMAIN queue' : queue'[k] = ClockPreference \/ queue'[k] = cmd
      BY <2>4, <2>5, <2>6
    <2> QED BY <2>3, <2>7 DEF Toggles
  <1>9. ShownBeforeReady' /\ CtsChecked'
    BY <1>2, <1>3 DEF TimeInv, ShownBeforeReady, Coming, CtsChecked
  <1>10. ASSUME NEW i \in OncePumps PROVE InTime(i)'
    <2>1. Awaited(pending', i) = {}
      BY <1>2, <1>4 DEF Awaited
    <2>2. Concerns(i)' => OnlyFor(i)'
      BY <1>2, <1>4, <1>7, <1>8, <2>1 DEF Concerns, OnlyFor
    <2> QED BY <2>1, <2>2 DEF InTime
  <1>11. HoldRests'
    <2>1. HoldRests
      BY DEF TimeInv, PumpFirst
    <2>2. OnWire(tx', HoldMode) = OnWire(tx, HoldMode)
      BY <1>1, CommandIsSilent, SilentWire DEF MainFits, MainTakesCommand
    <2> QED BY <1>2, <1>3, <2>1, <2>2, HoldKept
  <1> QED BY <1>2, <1>9, <1>10, <1>11 DEF TimeInv

-----------------------------------------------------------------------------
(* A pump moves once.                                                      *)

MovedInv == /\ asked \in Nat /\ FlagInv /\ WaterFits(sim)
            /\ asked \in {0, 1} => OnceInv /\ TimeInv

(* At the start nothing is queued, awaited, on the wire or under way.      *)
LEMMA MovedInit == Init => MovedInv
  <1> SUFFICES ASSUME Init PROVE MovedInv
    OBVIOUS
  <1>1. /\ queue = <<>> /\ pending = <<>> /\ tx = <<>> /\ line = <<>> /\ frames = <<>>
        /\ partial = Idle /\ held = NoFrame /\ asked = 0 /\ lastStatus = NoStatus
        /\ timers = [j \in Pumps |-> NewPumpTimer]
    BY DEF Init, AppInit
  <1>2. \E a, b, c, d : sim = SimNew(DefaultSpa(a, b, c, d))
    BY DEF Init
  <1>3. PICK a, b, c, d : sim = SimNew(DefaultSpa(a, b, c, d))
    BY <1>2
  <1>4. /\ sim.spa = DefaultSpa(a, b, c, d)
        /\ sim.deferred = <<>> /\ sim.events = <<>> /\ sim.rest = <<>>
    BY <1>3 DEF SimNew
  <1>5. SpaFits(sim.spa) /\ \A j \in TrackedItems : sim.spa.items[j] = 0
    <2>1. sim.spa.items = [j \in TrackedItems |-> 0]
      BY <1>4 DEF DefaultSpa
    <2>2. sim.spa = [k \in SpaFields |-> sim.spa[k]]
      BY <1>4 DEF DefaultSpa, SpaFields
    <2> QED BY <2>1, <2>2, PumpsAreTracked DEF SpaFits
  <1>6. WaterFits(sim)
    BY <1>4, <1>5, EmptyQueue DEF WaterFits, EventsFit, DueNext, RestFits
  <1>7. OrderInv /\ \A f : ~OnWay(f)
    BY <1>1, EmptyQueue DEF OrderInv, OnWay, Ordered, PartFits, IsReady, IsStatus, NoFrame, Idle
  <1>8. CommandsFit
    <2>1. TimersFit(timers)
      BY <1>1 DEF TimersFit, NewPumpTimer
    <2> QED BY <1>1, <2>1, EmptyQueue DEF CommandsFit, QueueFits, TableFits
  <1>9. \A i : /\ Toggles(queue, i) = {} /\ OnWire(tx, i) = {} /\ Awaited(pending, i) = {}
               /\ Effects(sim.deferred, i) = {}
    BY <1>1, <1>4, EmptyQueue DEF Toggles, OnWire, Awaited, Effects
  <1>10. \A i \in OncePumps : ToggledOnce(i)
    BY <1>1, <1>5, PumpsAreTracked, <1>7, <1>9 DEF ToggledOnce, AwaitedFits, Single, OncePumps
  <1>11. TimeInv
    <2>1. lastCts = None
      BY DEF Init, AppInit
    <2>2. lastCts \in Ages(CtsLoss)
      BY <2>1 DEF Ages
    <2>3. \A i \in OncePumps : InTime(i)
      BY <1>9, <2>1 DEF InTime, Concerns
    <2>4. HoldRests
      BY <1>5, <1>7, <1>9, PumpsAreTracked DEF HoldRests
    <2> QED BY <1>1, <1>7, <2>1, <2>2, <2>3, <2>4 DEF TimeInv, ShownBeforeReady, CtsChecked
  <1> QED BY <1>1, <1>6, <1>7, <1>8, <1>10, <1>11, FlagInit DEF MovedInv, OnceInv

(* Every step keeps the invariant: until the user has given a second       *)
(* command, the toggle of a pump is in at most one place.                  *)
LEMMA MovedStep ==
    ASSUME CommandLatency <= 1, CtsLoss <= AckTimeout, MovedInv, [Next]_vars
    PROVE  MovedInv'
  <1>1. FlagInv' /\ FlagInv /\ MainFits /\ WaterFits(sim) /\ asked \in Nat
    BY FlagStep DEF MovedInv, FlagInv
  <1>2. CommandLatency \in {0, 1}
    BY SimAssumption
  <1> DEFINE Both == OnceInv /\ TimeInv
             KeptBoth == WaterFits(sim') /\ asked' = asked /\ (Both => Both')
  <1>3. KeptBoth => MovedInv'
    BY <1>1 DEF MovedInv
  <1>4. \A f : Taken(f) /\ ProcessFrame(f) /\ phase' # "wait" => KeptBoth
    <2> TAKE f
    <2>1. HAVE Taken(f) /\ ProcessFrame(f) /\ phase' # "wait"
    <2>2. sim' = sim /\ asked' = asked
      BY <2>1 DEF Taken
    <2>3. Both => SentInTime
      BY NothingIsLate
    <2>4. Both => OnceInv'
      BY <1>1, <2>1, <2>3, FrameKeepsOnce
    <2>5. Both => TimeInv'
      BY <1>1, <2>1, FrameKeepsTime
    <2> QED BY <1>1, <2>2, <2>4, <2>5
  <1>5. CASE UartReads
    <2>1. UNCHANGED <<appVars, asked, phase, timerDue>>
      BY <1>5 DEF UartReads
    <2>2. WaterFits(sim') /\ (OnceInv => OnceInv')
      BY <1>1, <1>5, ReadingKeepsOnce
    <2>3. OnceInv => Coming
      BY <1>1, <1>5, ReadingKeepsOrder DEF OnceInv
    <2>4. sim'.spa = sim.spa /\ sim'.deferred = sim.deferred /\ tx' = tx
      BY <1>1, <1>5, ReadingMovesNone DEF UartReads
    <2>5. Coming => (HoldRests => HoldRests')
      BY <2>4 DEF HoldRests, Coming
    <2> QED BY <1>3, <2>1, <2>2, <2>3, <2>5, SpaStepKeepsTime
  <1>6. CASE UartSends
    <2>1. UNCHANGED <<appVars, asked, phase, timerDue, sim>>
      BY <1>6 DEF UartSends
    <2>2. OnceInv => Coming /\ OnceInv'
      BY <1>6, SendingKeepsOnce, SendingKeepsOrder DEF OnceInv
    <2>3. Coming => (HoldRests => HoldRests')
      BY <1>6, HoldKept DEF UartSends
    <2> QED BY <1>1, <1>3, <2>1, <2>2, <2>3, SpaStepKeepsTime
  <1>7. CASE UartTransmits
    <2>1. UNCHANGED <<appVars, asked, phase, timerDue>>
      BY <1>7 DEF UartTransmits
    <2>2. WaterFits(sim') /\ (OnceInv => OnceInv')
      BY <1>1, <1>2, <1>7, TransmittingKeepsOnce
    <2>3. PICK r \in SimProcess(sim, Head(tx)) : sim' = r.sim /\ line' = <<>> \o r.line
      BY <1>7 DEF UartTransmits, WriteTo
    <2>4. Sendable(Head(tx)) /\ IsQueue(tx) /\ tx # <<>> /\ tx' = Tail(tx)
      BY <1>1, <1>7, QueueIndices DEF MainFits, UartTransmits
    <2>5. /\ NoStatusIn(r.line)
          /\ Unmoved(sim', sim, HoldMode) \/ IsToggle(Head(tx), HoldMode)
      BY <1>1, <1>2, <2>3, <2>4, FrameMoves, PumpsAreTracked DEF MainFits
    <2>6. OnceInv => Coming
      BY <1>7, <2>3, <2>5, TransmittingKeepsOrder DEF OnceInv
    <2>7. Coming => (HoldRests => HoldRests')
      <3>1. /\ Fewer(OnWire(tx', HoldMode), OnWire(tx, HoldMode))
            /\ IsToggle(Head(tx), HoldMode) => OnWire(tx, HoldMode) # {}
        BY <2>4, WireLeft
      <3> QED BY <2>5, <3>1 DEF HoldRests, Coming, Unmoved, Fewer
    <2> QED BY <1>3, <2>1, <2>2, <2>6, <2>7, SpaStepKeepsTime
  <1>8. CASE MainTakesFrame \/ MainDrainsFrame
    <2>1. Taken(Head(frames)) /\ ProcessFrame(Head(frames)) /\ phase' # "wait"
      BY <1>8 DEF MainTakesFrame, MainDrainsFrame, Taken
    <2> QED BY <1>3, <1>4, <2>1
  <1>9. CASE MainDrained \/ MainTimer \/ UNCHANGED vars
    <2>1. /\ UNCHANGED <<appVars, sim, line, partial, held, frames, tx, asked>>
          /\ phase' = "wait" /\ ~timerDue' => phase = "wait" /\ ~timerDue
      BY <1>9 DEF MainDrained, MainTimer, vars, busVars
    <2>2. Coming
      BY <2>1 DEF Coming, OnWay
    <2>3. OnceInv => OnceInv'
      <3>1. OnceInv => OrderInv'
        BY <2>1 DEF OnceInv, OrderInv, NoneBehind
      <3> QED BY <2>1, <2>2, <3>1, SpaStepKeepsOnce, FewerSame
    <2>4. HoldRests => HoldRests'
      BY <2>1, <2>2, HoldKept
    <2> QED BY <1>1, <1>3, <2>1, <2>2, <2>3, <2>4, SpaStepKeepsTime
  <1>10. CASE MainTick
    <2>1. asked' = asked /\ sim' = sim
      BY <1>10 DEF MainTick
    <2> QED BY <1>1, <1>3, <1>10, <2>1, TickKeepsOnce, TickKeepsTime
  <1>11. CASE MainTakesCommand
    <2>1. asked' = asked + 1 /\ sim' = sim
      BY <1>11 DEF MainTakesCommand
    <2>2. asked' \in {0, 1} => asked = 0
      BY <1>1, <2>1
    <2>3. asked' \in {0, 1} => OnceInv' /\ TimeInv'
      BY <1>1, <1>11, <2>2, CommandKeepsOnce, CommandKeepsTime DEF MovedInv
    <2> QED BY <1>1, <2>1, <2>3 DEF MovedInv
  <1>12. CASE Second
    <2>1. asked' = asked
      BY <1>12 DEF Second
    <2> QED BY <1>1, <1>3, <1>12, <2>1, SecondKeepsOnce, SecondKeepsTime
  <1>13. CASE Inject
    <2>1. UNCHANGED <<appVars, asked, phase, timerDue, line, partial, held, frames, tx>>
      BY <1>13 DEF Inject
    <2>2. Coming
      BY <2>1 DEF Coming, OnWay
    <2>3. sim'.spa = sim.spa /\ sim'.deferred = sim.deferred
      BY <1>1, <1>13, FaultMovesNone DEF Inject, MainFits
    <2>4. HoldRests => HoldRests'
      BY <2>1, <2>2, <2>3 DEF HoldRests, Coming
    <2> QED BY <1>1, <1>3, <1>13, <2>1, <2>2, <2>4, FaultKeepsOnce, SpaStepKeepsTime
  <1> QED BY <1>5, <1>6, <1>7, <1>8, <1>9, <1>10, <1>11, <1>12, <1>13 DEF Next, Device

(* With one command given a pump has moved at most one step from off; with *)
(* two or more, the two steps a pump has are no more than that.            *)
LEMMA MovedOnce == MovedInv => NoDoubleToggle
  <1> SUFFICES ASSUME MovedInv, NEW i \in OncePumps PROVE sim.spa.items[i] <= asked
    BY DEF NoDoubleToggle, OncePumps
  <1>1. asked \in Nat /\ sim.spa.items[i] \in 0 .. 2
    BY DEF MovedInv, WaterFits, SpaFits, OncePumps
  <1>2. CASE asked \in {0, 1}
    <2>1. /\ sim.spa.items[i] \in {0, 1}
          /\ asked = 0 => sim.spa.items[i] = 0
      BY <1>2 DEF MovedInv, OnceInv, ToggledOnce
    <2> QED BY <1>2, <2>1
  <1>3. CASE asked \notin {0, 1}
    <2>1. asked >= 2
      BY <1>1, <1>3
    <2> QED BY <1>1, <2>1
  <1> QED BY <1>2, <1>3

(* A toggle the user gave once never moves a pump twice, however statuses, *)
(* retries, split, repeated, corrupted or missing frames, reboots and      *)
(* silences interleave with its two tasks (track, verify, process_frame,   *)
(* tick), for every number of faults, pumps and retries, until the owner   *)
(* gives another command: provided the spa takes a command within a second *)
(* and a session without Ready frames is given up no later than a command  *)
(* is sent again, as CTS_LOSS_THRESHOLD_MS and COMMAND_ACK_TIMEOUT_MS have *)
(* it, which are both 5000.                                                *)
THEOREM PumpsMoveOnce ==
    CommandLatency <= 1 /\ CtsLoss <= AckTimeout => (Spec => []NoDoubleToggle)
  <1> SUFFICES ASSUME CommandLatency <= 1, CtsLoss <= AckTimeout
               PROVE  Spec => []NoDoubleToggle
    OBVIOUS
  <1>1. Init => MovedInv
    BY MovedInit
  <1>2. MovedInv /\ [Next]_vars => MovedInv'
    BY MovedStep
  <1>3. MovedInv => NoDoubleToggle
    BY MovedOnce
  <1> QED BY <1>1, <1>2, <1>3, PTL DEF Spec
=============================================================================
