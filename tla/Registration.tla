---------------------------- MODULE Registration ----------------------------
(***************************************************************************)
(* RegistrationStateMachine of launa-protocol: the client's side of the    *)
(* handshake that obtains a channel on the bus.  The machine is a value;   *)
(* RegProcess returns the machine after a message and the action the       *)
(* caller has to take.                                                     *)
(***************************************************************************)
EXTENDS Protocol

RegistrationStates == {"WaitingForQuery", "WaitingForAssignment",
                       "WaitingForExistingResponse", "Registered"}
RegistrationActions == {"SendNewClientResponse", "SendClientIdAck",
                        "SendExistingClientRequest", "None"}

(* id is the client_id of Registered { client_id }, prev previous_channel. *)
RegistrationMachines ==
    [state : RegistrationStates, id : Channels \cup {None},
     prev : Channels \cup {None}]

RegNew(prev) == [state |-> "WaitingForQuery", id |-> None, prev |-> prev]
RegReset(sm) == [sm EXCEPT !.state = "WaitingForQuery", !.id = None]
IsRegistered(sm) == sm.state = "Registered"

(* Only an assignment with our hash, or with none, is ours. *)
AssignmentIsOurs(m) == m.hash \in {LegacyHash, OwnHash}

RegStep(sm, state, id, action) ==
    [sm |-> [sm EXCEPT !.state = state, !.id = id], action |-> action]

RegProcess(sm, m) ==
    CASE /\ sm.state = "WaitingForQuery"
         /\ m.msg = "NewClientQuery"
         /\ sm.prev # None ->
            RegStep(sm, "WaitingForExistingResponse", None, "SendExistingClientRequest")
      [] /\ sm.state = "WaitingForQuery"
         /\ m.msg = "NewClientQuery"
         /\ sm.prev = None ->
            RegStep(sm, "WaitingForAssignment", None, "SendNewClientResponse")
      [] /\ sm.state = "WaitingForAssignment"
         /\ m.msg = "ClientIdAssignment"
         /\ AssignmentIsOurs(m) ->
            RegStep(sm, "Registered", m.ch, "SendClientIdAck")
      [] /\ sm.state = "WaitingForExistingResponse"
         /\ m.msg = "ExistingClientResponse"
         /\ m.hash = OwnHash ->
            RegStep(sm, "Registered", m.ch, "None")
      [] /\ sm.state = "WaitingForExistingResponse"
         /\ m.msg = "NewClientQuery" ->
            RegStep(sm, "WaitingForAssignment", None, "SendNewClientResponse")
      [] OTHER -> [sm |-> sm, action |-> "None"]
=============================================================================
