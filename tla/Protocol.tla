------------------------------ MODULE Protocol ------------------------------
(***************************************************************************)
(* The vocabulary of the RS-485 bus as launa-protocol sees it: frames,     *)
(* their two decoders (RegistrationMessage::parse and dispatch_frame), the *)
(* commands a client sends and the spa status a client receives.           *)
(*                                                                         *)
(* Data is cut down to what the controller's decisions tell apart.  A      *)
(* frame keeps its address, its sub-type byte, the channel and the hash;   *)
(* a status keeps the state of every item whose change is awaited and the  *)
(* set temperature.  An Option<u8> is None or a number, None being -1.     *)
(***************************************************************************)
EXTENDS Integers, Sequences, FiniteSets

CONSTANTS
    Channels,       \* client channels the spa may assign, e.g. 16..17
    OwnHash,        \* this device's client hash
    PeerHashes,     \* hashes of the other devices on the bus
    NumPumps,       \* pumps 1..NumPumps (6 in the code)
    NumSwitches,    \* two-state items: lights, blower, heating mode, range
    Temps           \* raw set temperatures

ASSUME ChannelsAssumption == Channels \subseteq Nat
ASSUME HashAssumption ==
    /\ OwnHash \in Nat \ {0}
    /\ PeerHashes \subseteq Nat \ {0, OwnHash}
ASSUME ItemAssumption == NumPumps \in Nat /\ NumSwitches \in Nat
ASSUME TempAssumption == Temps \subseteq Nat

None == -1

(* The hash 00 00 that stands for "the spa sent no hash". *)
LegacyHash == 0
Hashes == {LegacyHash, OwnHash} \cup PeerHashes

-----------------------------------------------------------------------------
(* Toggle items.  HoldMode, the pumps and the switches are awaited by the  *)
(* command tracker; UntrackedItem stands for the others (mister, aux,      *)
(* circulation pump, soak mode, ...).                                      *)

HoldMode == 0
Pumps == 1 .. NumPumps
TrackedItems == 0 .. (NumPumps + NumSwitches)
UntrackedItem == NumPumps + NumSwitches + 1
ToggleItems == 0 .. UntrackedItem

(* Pumps cycle Off, Low, High (0, 1, 2); every other item is off or on. *)
ItemStates == 0 .. 2
Statuses ==
    [items : {f \in [TrackedItems -> ItemStates] :
                  \A i \in TrackedItems \ Pumps : f[i] <= 1},
     temp  : Temps]

(* Option<StatusUpdate>::None *)
NoStatus == [items |-> <<>>, temp |-> None]

-----------------------------------------------------------------------------
(* Commands.  SetTime keeps its is_24h flag, SetPreference its code; the   *)
(* commands that only ask for data are one "Request".                      *)

ClockMode == 2
Command(kind, arg) == [kind |-> kind, arg |-> arg]
Toggle(item) == Command("ToggleItem", item)
SetTemperature(t) == Command("SetTemperature", t)
ClockPreference == Command("SetPreference", ClockMode)

Commands ==
    [kind : {"ToggleItem"}, arg : ToggleItems]
      \cup [kind : {"SetTemperature"}, arg : Temps]
      \cup [kind : {"SetTime"}, arg : {0, 1}]
      \cup [kind : {"SetPreference"}, arg : {0, ClockMode}]
      \cup [kind : {"Request"}, arg : {0}]

-----------------------------------------------------------------------------
(* Frames.  FEBF is the registration broadcast address, CHBF a frame        *)
(* addressed to (or sent by) one client channel, FFAF a status update and   *)
(* 0ABF a command on its way to the spa.  "Other" is any frame that both    *)
(* decoders reject or that only carries data the controller does not keep.  *)

Febf(sub, ch, hash) == [type |-> "FEBF", sub |-> sub, ch |-> ch, hash |-> hash]
Chbf(ch, sub, hash) == [type |-> "CHBF", sub |-> sub, ch |-> ch, hash |-> hash]
StatusFrame(s) == [type |-> "FFAF", status |-> s]
CommandFrame(c) == [type |-> "0ABF", cmd |-> c]
OtherFrame == [type |-> "Other"]

NewClientQuery == Febf(0, None, None)
NewClientResponse(h) == Febf(1, None, h)
ClientIdAssignment(ch, h) == Febf(2, ch, h)
ShortAssignment(ch) == Febf(2, ch, None)
ExistingClientRequest(ch, h) == Febf(4, ch, h)
ClientIdAck(ch) == Chbf(ch, 3, None)
ExistingClientResponse(ch, h) == Chbf(ch, 5, h)
ClearToSend(ch) == Chbf(ch, 6, None)
NothingToSend(ch) == Chbf(ch, 7, None)

(* Every frame a well-behaved bus carries. *)
BusFrames ==
    {NewClientQuery, OtherFrame}
      \cup {NewClientResponse(h) : h \in Hashes}
      \cup {ClientIdAssignment(c, h) : c \in Channels, h \in Hashes}
      \cup {ShortAssignment(c) : c \in Channels}
      \cup {ExistingClientRequest(c, h) : c \in Channels, h \in Hashes}
      \cup {ExistingClientResponse(c, h) : c \in Channels, h \in Hashes}
      \cup {ClientIdAck(c) : c \in Channels}
      \cup {ClearToSend(c) : c \in Channels}
      \cup {NothingToSend(c) : c \in Channels}
      \cup {StatusFrame(s) : s \in Statuses}
      \cup {CommandFrame(c) : c \in Commands}

Message(msg, ch, hash) == [msg |-> msg, ch |-> ch, hash |-> hash]
NotARegistrationMessage == Message("Err", None, None)

(* RegistrationMessage::parse.  An assignment without a hash is the two-   *)
(* byte legacy form and is given the hash 00 00.                           *)
ParseRegistration(f) ==
    CASE f.type = "FEBF" /\ f.sub = 0 -> Message("NewClientQuery", None, None)
      [] f.type = "FEBF" /\ f.sub = 1 -> Message("NewClientResponse", None, f.hash)
      [] f.type = "FEBF" /\ f.sub = 2 ->
            Message("ClientIdAssignment", f.ch,
                    IF f.hash = None THEN LegacyHash ELSE f.hash)
      [] f.type = "FEBF" /\ f.sub = 4 -> Message("ExistingClientRequest", f.ch, f.hash)
      [] f.type = "CHBF" /\ f.sub = 3 -> Message("ClientIdAck", f.ch, None)
      [] f.type = "CHBF" /\ f.sub = 5 -> Message("ExistingClientResponse", f.ch, f.hash)
      [] f.type = "CHBF" /\ f.sub = 6 -> Message("ClearToSend", f.ch, None)
      [] OTHER -> NotARegistrationMessage

(* dispatch_frame.  Every <ch> BF frame is Ready for ch, whatever its      *)
(* sub-type: the payload is not looked at.                                 *)
DispatchFrame(f) ==
    CASE f.type = "FFAF" -> "StatusUpdate"
      [] f.type = "FEBF" -> "Registration"
      [] f.type = "CHBF" -> "Ready"
      [] OTHER -> "Unknown"
=============================================================================
