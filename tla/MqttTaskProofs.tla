--------------------------- MODULE MqttTaskProofs ---------------------------
(***************************************************************************)
(* Proofs about MqttTask for every set of statuses and inputs, every       *)
(* capacity of the channels and every bound.                               *)
(***************************************************************************)
EXTENDS MqttTask, SequenceTheorems, FiniteSetTheorems, TLAPS

Serving == {"serve", "dispatch", "publishState", "publishAvailability"}

(* What change detection remembers between two awaits: the message being   *)
(* published is the one remembered, and before the first connection there  *)
(* is none.                                                                *)
TakenIsRemembered ==
    pc = "publishState" => State(msg.status, msg.sniff, msg.reg)
                             = State(lastStatus, lastSniff, lastReg)
NothingBeforeFirst ==
    pc \in {"connect", "online", "subscribe"} /\ ~resync => lastStatus = NoValue

RememberInv == TakenIsRemembered /\ NothingBeforeFirst /\ LastPublishedWasSeen

(* A live connection is announced from post_connect_publish on.            *)
AnnouncedInv ==
    pc \in Serving \cup {"subscribe", "resync"} /\ sock = "open" => avail \in {"online", "stale"}

-----------------------------------------------------------------------------
(* A step of the main loop or of the environment leaves the task alone and *)
(* may only break the connection; a reset starts the task anew.            *)
LEMMA RememberStep == RememberInv /\ [Next]_vars => RememberInv'
<1> SUFFICES ASSUME RememberInv, [Next]_vars PROVE RememberInv'
    OBVIOUS
<1> USE DEF RememberInv, TakenIsRemembered, NothingBeforeFirst, LastPublishedWasSeen, State
<1>1. CASE ConnectOk
    BY <1>1 DEF ConnectOk, lastVars
<1>2. CASE PostConnectPublish
    BY <1>2 DEF PostConnectPublish, lastVars
<1>3. CASE Subscribe
    BY <1>3 DEF Subscribe, AfterSubscribe, lastVars
<1>4. CASE SubscribeFails
    BY <1>4 DEF SubscribeFails, AfterSubscribe, lastVars, brokerVars
<1>5. CASE RepublishLastState
    BY <1>5 DEF RepublishLastState, PublishState, lastVars
<1>6. CASE TakeWifiSignal
    BY <1>6 DEF TakeWifiSignal, Reconnect, lastVars
<1>7. CASE TakeState
    BY <1>7 DEF TakeState, Changed, brokerVars
<1>8. CASE PublishTakenState
    BY <1>8 DEF PublishTakenState, PublishState, lastVars
<1>9. CASE PublishTakenAvailability
    BY <1>9 DEF PublishTakenAvailability, lastVars
<1>10. CASE Receive
    BY <1>10 DEF Receive, Receives, lastVars
<1>11. CASE ConnectionLost
    BY <1>11 DEF ConnectionLost, Receives, Reconnect, lastVars
<1>12. CASE DispatchCommand \/ RateLimited \/ DispatchOta \/ DispatchHaOnline
    BY <1>12 DEF DispatchCommand, RateLimited, DispatchOta, DispatchHaOnline, lastVars, brokerVars
<1>13. CASE \E s \in Statuses : StatusChanges(s)
    BY <1>13 DEF StatusChanges, OnStatus, taskVars, lastVars, brokerVars
<1>14. CASE StatusRepeats
    BY <1>14 DEF StatusRepeats, OnStatus, taskVars, lastVars, brokerVars
<1>15. CASE GoesStale \/ RegistrationChanges \/ SniffModeChanges
    BY <1>15 DEF GoesStale, RegistrationChanges, SniffModeChanges, taskVars, lastVars, brokerVars
<1>16. CASE HandleCommand
    BY <1>16 DEF HandleCommand, Reset, Fresh, taskVars, lastVars, brokerVars
<1>17. CASE HandleOta
    BY <1>17 DEF HandleOta, Reset, Fresh, taskVars, lastVars, brokerVars
<1>18. CASE ConnectFails
    BY <1>18 DEF ConnectFails, Fresh, lastVars
<1>19. CASE ReceiveCancelled \/ Break \/ WifiReconnects \/ BrokerNotices
    BY <1>19 DEF ReceiveCancelled, Break, WifiReconnects, BrokerNotices, taskVars, lastVars
<1>20. CASE \E i \in Inputs : UserPublishes(i)
    BY <1>20 DEF UserPublishes, taskVars, lastVars
<1>21. CASE UNCHANGED vars
    BY <1>21 DEF vars, taskVars, lastVars, brokerVars
<1> QED
    BY <1>1, <1>2, <1>3, <1>4, <1>5, <1>6, <1>7, <1>8, <1>9, <1>10, <1>11, <1>12, <1>13, <1>14,
       <1>15, <1>16, <1>17, <1>18, <1>19, <1>20, <1>21 DEF Next, Task, Main

(* Change detection never suppresses a state the broker has not seen: what *)
(* mqtt_task remembers as published was published on the connection it     *)
(* serves, or again by reconnect_and_sync.                                 *)
THEOREM RememberedWasSeen == Spec => []LastPublishedWasSeen
<1>1. Init => RememberInv
    BY DEF Init, RememberInv, TakenIsRemembered, NothingBeforeFirst, LastPublishedWasSeen
<1>2. RememberInv => LastPublishedWasSeen
    BY DEF RememberInv
<1> QED
    BY <1>1, <1>2, RememberStep, PTL DEF Spec

-----------------------------------------------------------------------------
LEMMA AnnouncedStep == AnnouncedInv /\ [Next]_vars => AnnouncedInv'
<1> SUFFICES ASSUME AnnouncedInv, [Next]_vars PROVE AnnouncedInv'
    OBVIOUS
<1> USE DEF AnnouncedInv, Serving
<1>1. CASE ConnectOk
    BY <1>1 DEF ConnectOk
<1>2. CASE PostConnectPublish
    BY <1>2 DEF PostConnectPublish, PublishAvailability
<1>3. CASE Subscribe \/ SubscribeFails
    BY <1>3 DEF Subscribe, SubscribeFails, AfterSubscribe, brokerVars
<1>4. CASE RepublishLastState
    BY <1>4 DEF RepublishLastState
<1>5. CASE TakeWifiSignal \/ ConnectionLost
    BY <1>5 DEF TakeWifiSignal, ConnectionLost, Reconnect
<1>6. CASE TakeState
    BY <1>6 DEF TakeState, brokerVars
<1>7. CASE PublishTakenState
    BY <1>7 DEF PublishTakenState
<1>8. CASE PublishTakenAvailability
    BY <1>8 DEF PublishTakenAvailability, PublishAvailability
<1>9. CASE Receive
    BY <1>9 DEF Receive, Receives
<1>10. CASE DispatchCommand \/ RateLimited \/ DispatchOta
    BY <1>10 DEF DispatchCommand, RateLimited, DispatchOta, brokerVars
<1>11. CASE DispatchHaOnline
    BY <1>11 DEF DispatchHaOnline, PublishAvailability
<1>12. CASE \E s \in Statuses : StatusChanges(s)
    BY <1>12 DEF StatusChanges, OnStatus, taskVars, brokerVars
<1>13. CASE StatusRepeats
    BY <1>13 DEF StatusRepeats, OnStatus, taskVars, brokerVars
<1>14. CASE GoesStale \/ RegistrationChanges \/ SniffModeChanges
    BY <1>14 DEF GoesStale, RegistrationChanges, SniffModeChanges, taskVars, brokerVars
<1>15. CASE HandleCommand \/ HandleOta
    BY <1>15 DEF HandleCommand, HandleOta, Reset, Fresh, taskVars, brokerVars
<1>16. CASE ConnectFails
    BY <1>16 DEF ConnectFails, Fresh
<1>17. CASE ReceiveCancelled \/ Break \/ WifiReconnects \/ BrokerNotices
    BY <1>17 DEF ReceiveCancelled, Break, WifiReconnects, BrokerNotices, taskVars
<1>18. CASE \E i \in Inputs : UserPublishes(i)
    BY <1>18 DEF UserPublishes, taskVars
<1>19. CASE UNCHANGED vars
    BY <1>19 DEF vars, taskVars, brokerVars
<1> QED
    BY <1>1, <1>2, <1>3, <1>4, <1>5, <1>6, <1>7, <1>8, <1>9, <1>10, <1>11, <1>12, <1>13, <1>14,
       <1>15, <1>16, <1>17, <1>18, <1>19 DEF Next, Task, Main

(* The will of a session that connect takes over never outlasts the birth  *)
(* message post_connect_publish sends on the new one.                      *)
THEOREM ServedIsAnnounced == Spec => []ServingIsNotOffline
<1>1. Init => AnnouncedInv
    BY DEF Init, AnnouncedInv, Serving
<1>2. AnnouncedInv => ServingIsNotOffline
    BY DEF AnnouncedInv, Serving, ServingIsNotOffline
<1> QED
    BY <1>1, <1>2, AnnouncedStep, PTL DEF Spec

-----------------------------------------------------------------------------
(* The length of a channel and of the queue of the connection. *)
LEMMA AppendLen ==
    ASSUME NEW S, NEW q \in Seq(S), NEW e \in S
    PROVE  Append(q, e) \in Seq(S) /\ Len(Append(q, e)) = Len(q) + 1
BY AppendProperties

LEMMA TailLen ==
    ASSUME NEW S, NEW q \in Seq(S), q # <<>>
    PROVE  /\ Head(q) \in S
           /\ Tail(q) \in Seq(S)
           /\ Len(Tail(q)) = Len(q) - 1
BY HeadTailProperties

(* A try_send keeps the channel within its capacity. *)
LEMMA SendStateType ==
    ASSUME ChannelType, NEW s \in Statuses, NEW rec \in BOOLEAN, NEW sniff \in BOOLEAN,
           NEW reg \in BOOLEAN, SendState(s, rec, sniff, reg)
    PROVE  stateCh' \in Seq(StateMessages) /\ Len(stateCh') <= StateCap
<1> DEFINE m == [status |-> s, sniff |-> sniff, reg |-> reg, recovering |-> rec]
<1>1. m \in StateMessages
    BY DEF StateMessages
<1>2. CASE Len(stateCh) < StateCap
    <2>1. stateCh' = Append(stateCh, m)
        BY <1>2 DEF SendState
    <2> QED
        BY <2>1, <1>1, <1>2, AppendLen, CapAssumption DEF ChannelType
<1>3. CASE ~(Len(stateCh) < StateCap)
    BY <1>3 DEF SendState, ChannelType
<1> QED
    BY <1>2, <1>3

(* A reset and the last failed attempt start RAM anew. *)
LEMMA FreshType == Fresh => MainType' /\ ChannelType' /\ TaskType'
<1> SUFFICES ASSUME Fresh PROVE MainType' /\ ChannelType' /\ TaskType'
    OBVIOUS
<1>1. MainType'
    BY DEF Fresh, MainType
<1>2. ChannelType'
    BY CapAssumption DEF Fresh, ChannelType
<1>3. attempt' \in 0 .. MaxAttempts - 1
    BY LimitAssumption DEF Fresh
<1>4. TaskType'
    BY <1>3 DEF Fresh, TaskType
<1> QED
    BY <1>1, <1>2, <1>4

(* The main loop's own state. *)
LEMMA MainTypeStep == MainType /\ [Next]_vars => MainType'
<1> SUFFICES ASSUME MainType, [Next]_vars PROVE MainType'
    OBVIOUS
<1>1. CASE \E s \in Statuses : StatusChanges(s)
    BY <1>1 DEF StatusChanges, OnStatus, MainType
<1>2. CASE StatusRepeats
    BY <1>2 DEF StatusRepeats, OnStatus, MainType
<1>3. CASE GoesStale \/ RegistrationChanges \/ SniffModeChanges
    BY <1>3 DEF GoesStale, RegistrationChanges, SniffModeChanges, MainType
<1>4. CASE Fresh
    BY <1>4, FreshType
<1>5. CASE TakeWifiSignal \/ ConnectionLost
    BY <1>5 DEF TakeWifiSignal, ConnectionLost, Reconnect, MainType, mainVars
<1>6. CASE WifiReconnects
    BY <1>6 DEF WifiReconnects, MainType, mainVars
<1>7. CASE UNCHANGED <<mainVars, wifiSignal>>
    BY <1>7 DEF MainType, mainVars
<1>8. ASSUME Next PROVE \/ \E s \in Statuses : StatusChanges(s)
                        \/ StatusRepeats \/ GoesStale \/ RegistrationChanges \/ SniffModeChanges
                        \/ Fresh \/ TakeWifiSignal \/ ConnectionLost \/ WifiReconnects
                        \/ UNCHANGED <<mainVars, wifiSignal>>
    BY <1>8 DEF Next, Task, Main, ConnectOk, PostConnectPublish, Subscribe, SubscribeFails,
       RepublishLastState, TakeState, PublishTakenState, PublishTakenAvailability, Receive,
       DispatchCommand, RateLimited, DispatchOta, DispatchHaOnline, HandleCommand, HandleOta, Reset,
       ConnectFails, ReceiveCancelled, Break, BrokerNotices, UserPublishes
<1> QED
    BY <1>1, <1>2, <1>3, <1>4, <1>5, <1>6, <1>7, <1>8 DEF vars

(* The channels: a sender looks for room first.                            *)
LEMMA ChannelTypeStep == MainType /\ ChannelType /\ [Next]_vars => ChannelType'
<1> SUFFICES ASSUME MainType, ChannelType, [Next]_vars PROVE ChannelType'
    OBVIOUS
<1> DEFINE Sends == stateCh' \in Seq(StateMessages) /\ Len(stateCh') <= StateCap
<1>1. CASE Sends /\ UNCHANGED <<cmdCh, otaCh>>
    BY <1>1 DEF ChannelType
<1>2. CASE TakeState
    <2>1. Tail(stateCh) \in Seq(StateMessages) /\ Len(Tail(stateCh)) = Len(stateCh) - 1
        BY <1>2, TailLen DEF TakeState, ChannelType
    <2> QED
        BY <1>2, <2>1, CapAssumption DEF TakeState, ChannelType
<1>3. ASSUME NEW s \in Statuses, OnStatus(s) PROVE ChannelType'
    BY <1>1, <1>3, SendStateType DEF OnStatus, MainType
<1>4. CASE GoesStale
    BY <1>1, <1>4, SendStateType DEF GoesStale, MainType
<1>5. CASE SniffModeChanges
    <2>1. CASE status = NoValue
        BY <1>5, <2>1 DEF SniffModeChanges, ChannelType
    <2>2. CASE status # NoValue
        BY <1>1, <1>5, <2>2, SendStateType DEF SniffModeChanges, MainType
    <2> QED
        BY <2>1, <2>2
<1>6. CASE HandleCommand /\ ~Fresh
    <2>1. Tail(cmdCh) \in Seq(Commands) /\ Len(Tail(cmdCh)) = Len(cmdCh) - 1
        BY <1>6, TailLen DEF HandleCommand, ChannelType
    <2> QED
        BY <1>6, <2>1, CapAssumption DEF HandleCommand, Reset, ChannelType
<1>7. CASE HandleOta /\ ~Fresh
    <2>1. Tail(otaCh) \in Seq(OtaRequests) /\ Len(Tail(otaCh)) = Len(otaCh) - 1
        BY <1>7, TailLen DEF HandleOta, ChannelType
    <2> QED
        BY <1>7, <2>1 DEF HandleOta, Reset, ChannelType
<1>8. CASE DispatchCommand
    <2>1. Append(cmdCh, input) \in Seq(Commands) /\ Len(Append(cmdCh, input)) = Len(cmdCh) + 1
        BY <1>8, AppendLen DEF DispatchCommand, ChannelType
    <2> QED
        BY <1>8, <2>1, CapAssumption DEF DispatchCommand, ChannelType
<1>9. CASE DispatchOta
    BY <1>9 DEF DispatchOta, ChannelType
<1>10. CASE Fresh
    BY <1>10, FreshType
<1>11. CASE UNCHANGED <<stateCh, cmdCh, otaCh>>
    BY <1>11 DEF ChannelType
<1>12. ASSUME Next PROVE \/ TakeState \/ (\E s \in Statuses : OnStatus(s)) \/ GoesStale
                         \/ SniffModeChanges \/ (HandleCommand /\ ~Fresh) \/ (HandleOta /\ ~Fresh)
                         \/ DispatchCommand \/ DispatchOta \/ Fresh
                         \/ UNCHANGED <<stateCh, cmdCh, otaCh>>
    <2>1. StatusRepeats => \E s \in Statuses : OnStatus(s)
        BY DEF StatusRepeats, MainType
    <2>2. (\E s \in Statuses : StatusChanges(s)) => \E s \in Statuses : OnStatus(s)
        BY DEF StatusChanges
    <2> QED
        BY <1>12, <2>1, <2>2 DEF Next, Task, Main, ConnectOk, PostConnectPublish, Subscribe,
           SubscribeFails, RepublishLastState, TakeWifiSignal, Reconnect, PublishTakenState,
           PublishTakenAvailability, Receive, ConnectionLost, RateLimited, DispatchHaOnline,
           RegistrationChanges, ConnectFails, ReceiveCancelled, Break, WifiReconnects,
           BrokerNotices, UserPublishes
<1> QED
    BY <1>2, <1>3, <1>4, <1>5, <1>6, <1>7, <1>8, <1>9, <1>10, <1>11, <1>12 DEF vars

(* The task: what it holds comes from its channels and its connection.     *)
LEMMA TaskTypeStep ==
    ChannelType /\ TaskType /\ BrokerType /\ [Next]_vars => TaskType'
<1> SUFFICES ASSUME ChannelType, TaskType, BrokerType, [Next]_vars PROVE TaskType'
    OBVIOUS
<1>1. CASE ConnectOk \/ PostConnectPublish
    BY <1>1 DEF ConnectOk, PostConnectPublish, TaskType, lastVars
<1>2. CASE Subscribe \/ SubscribeFails
    BY <1>2 DEF Subscribe, SubscribeFails, AfterSubscribe, TaskType, lastVars
<1>3. CASE RepublishLastState
    BY <1>3 DEF RepublishLastState, TaskType, lastVars
<1>4. CASE TakeWifiSignal \/ ConnectionLost
    <2>1. 0 \in 0 .. MaxAttempts - 1
        BY LimitAssumption
    <2> QED
        BY <1>4, <2>1 DEF TakeWifiSignal, ConnectionLost, Reconnect, TaskType, lastVars
<1>5. CASE TakeState
    <2>1. Head(stateCh) \in StateMessages
        BY <1>5, TailLen DEF TakeState, ChannelType
    <2>2. /\ Head(stateCh).status \in Statuses /\ Head(stateCh).sniff \in BOOLEAN
          /\ Head(stateCh).reg \in BOOLEAN
        BY <2>1 DEF StateMessages
    <2> QED
        BY <1>5, <2>1, <2>2 DEF TakeState, TaskType
<1>6. CASE PublishTakenState \/ PublishTakenAvailability
    BY <1>6 DEF PublishTakenState, PublishTakenAvailability, TaskType, lastVars
<1>7. CASE Receive
    <2>1. Head(inbox) \in Messages
        BY <1>7, TailLen DEF Receive, BrokerType
    <2> QED
        BY <1>7, <2>1 DEF Receive, TaskType, lastVars
<1>8. CASE DispatchCommand \/ RateLimited \/ DispatchOta \/ DispatchHaOnline
    BY <1>8 DEF DispatchCommand, RateLimited, DispatchOta, DispatchHaOnline, TaskType, lastVars
<1>9. CASE Fresh
    BY <1>9, FreshType
<1>10. CASE ConnectFails /\ ~Fresh
    <2>1. attempt' \in 0 .. MaxAttempts - 1
        BY <1>10, LimitAssumption DEF ConnectFails, TaskType
    <2> QED
        BY <1>10, <2>1 DEF ConnectFails, TaskType, lastVars
<1>11. CASE UNCHANGED taskVars
    BY <1>11 DEF TaskType, taskVars, lastVars
<1>12. ASSUME Next PROVE \/ ConnectOk \/ PostConnectPublish \/ Subscribe \/ SubscribeFails
                         \/ RepublishLastState \/ TakeWifiSignal \/ ConnectionLost \/ TakeState
                         \/ PublishTakenState \/ PublishTakenAvailability \/ Receive
                         \/ DispatchCommand \/ RateLimited \/ DispatchOta \/ DispatchHaOnline
                         \/ Fresh \/ (ConnectFails /\ ~Fresh) \/ UNCHANGED taskVars
    BY <1>12 DEF Next, Task, Main, StatusChanges, StatusRepeats, OnStatus, GoesStale,
       RegistrationChanges, SniffModeChanges, HandleCommand, HandleOta, Reset, ReceiveCancelled,
       Break, WifiReconnects, BrokerNotices, UserPublishes
<1> QED
    BY <1>1, <1>2, <1>3, <1>4, <1>5, <1>6, <1>7, <1>8, <1>9, <1>10, <1>11, <1>12 DEF vars

(* The connection and the broker. *)
LEMMA BrokerTypeStep == TaskType /\ BrokerType /\ [Next]_vars => BrokerType'
<1> SUFFICES ASSUME TaskType, BrokerType, [Next]_vars PROVE BrokerType'
    OBVIOUS
<1>1. CASE ConnectOk
    BY <1>1 DEF ConnectOk, BrokerType
<1>2. CASE PostConnectPublish
    BY <1>2 DEF PostConnectPublish, PublishAvailability, BrokerType
<1>3. CASE Subscribe
    <2>1. subs' \subseteq {"command", "ota", "ha_status"}
        <3>1. \A k \in 1 .. 3 : Topics[k] \in {"command", "ota", "ha_status"}
            BY DEF Topics
        <3>2. IsFiniteSet({"command", "ota", "ha_status"})
            <4>1. IsFiniteSet({})
                BY FS_EmptySet
            <4>2. IsFiniteSet({} \cup {"command"})
                BY <4>1, FS_AddElement
            <4>3. IsFiniteSet(({} \cup {"command"}) \cup {"ota"})
                BY <4>2, FS_AddElement
            <4>4. IsFiniteSet((({} \cup {"command"}) \cup {"ota"}) \cup {"ha_status"})
                BY <4>3, FS_AddElement
            <4>5. (({} \cup {"command"}) \cup {"ota"}) \cup {"ha_status"}
                    = {"command", "ota", "ha_status"}
                OBVIOUS
            <4> QED
                BY <4>4, <4>5
        <3>3. Cardinality(subs) \in Nat
            BY <3>2, FS_Subset, FS_CardinalityType DEF BrokerType
        <3>4. Cardinality(subs) + 1 \in 1 .. 3
            BY <1>3, <3>3 DEF Subscribe, Topics
        <3> QED
            BY <1>3, <3>1, <3>4 DEF Subscribe, BrokerType
    <2> QED
        BY <1>3, <2>1 DEF Subscribe, BrokerType
<1>4. CASE RepublishLastState
    <2>1. lastStatus # NoValue => State(lastStatus, lastSniff, lastReg)
                                    \in [status : Statuses, sniff : BOOLEAN, reg : BOOLEAN]
        BY DEF TaskType, State
    <2> QED
        BY <1>4, <2>1 DEF RepublishLastState, PublishState, BrokerType
<1>5. CASE PublishTakenState
    <2>1. State(msg.status, msg.sniff, msg.reg)
            \in [status : Statuses, sniff : BOOLEAN, reg : BOOLEAN]
        BY <1>5 DEF PublishTakenState, TaskType, State, StateMessages
    <2> QED
        BY <1>5, <2>1 DEF PublishTakenState, PublishState, BrokerType
<1>6. CASE PublishTakenAvailability \/ DispatchHaOnline
    BY <1>6 DEF PublishTakenAvailability, DispatchHaOnline, PublishAvailability, BrokerType
<1>7. CASE Receive \/ ReceiveCancelled
    <2>1. Tail(inbox) \in Seq(Messages)
        BY <1>7, TailLen DEF Receive, ReceiveCancelled, BrokerType
    <2> QED
        BY <1>7, <2>1 DEF Receive, ReceiveCancelled, BrokerType
<1>8. CASE Break \/ WifiReconnects
    <2>1. sock' = "broken" /\ inbox' = <<>> /\ UNCHANGED <<session, subs, avail, seen>>
        BY <1>8 DEF Break, WifiReconnects
    <2> QED
        BY <2>1 DEF BrokerType
<1>9. CASE BrokerNotices
    <2>1. /\ session' = FALSE /\ subs' = {} /\ inbox' = <<>> /\ avail' = "offline" /\ seen' = seen
          /\ sock' \in {"none", "open", "broken"}
        BY <1>9 DEF BrokerNotices, BrokerType
    <2>2. <<>> \in Seq(Messages) /\ {} \subseteq {"command", "ota", "ha_status"}
        OBVIOUS
    <2> QED
        BY <2>1, <2>2 DEF BrokerType
<1>10. CASE \E i \in Inputs : UserPublishes(i)
    <2> PICK i \in Inputs : UserPublishes(i)
        BY <1>10
    <2>1. Append(inbox, i) \in Seq(Messages)
        BY AppendLen, InputAssumption DEF BrokerType
    <2> QED
        BY <2>1 DEF UserPublishes, BrokerType
<1>11. CASE sock' = "none" /\ inbox' = <<>> /\ UNCHANGED <<session, subs, avail, seen>>
    BY <1>11 DEF BrokerType
<1>12. CASE UNCHANGED <<sock, brokerVars>>
    BY <1>12 DEF BrokerType, brokerVars
<1>13. ASSUME Next
       PROVE  \/ ConnectOk \/ PostConnectPublish \/ Subscribe \/ RepublishLastState
              \/ PublishTakenState \/ PublishTakenAvailability \/ DispatchHaOnline \/ Receive
              \/ ReceiveCancelled \/ Break \/ WifiReconnects \/ BrokerNotices
              \/ (\E i \in Inputs : UserPublishes(i))
              \/ (sock' = "none" /\ inbox' = <<>> /\ UNCHANGED <<session, subs, avail, seen>>)
              \/ UNCHANGED <<sock, brokerVars>>
    BY <1>13 DEF Next, Task, Main, SubscribeFails, TakeWifiSignal, ConnectionLost, Reconnect,
       TakeState, DispatchCommand, RateLimited, DispatchOta, StatusChanges, StatusRepeats, OnStatus,
       GoesStale, RegistrationChanges, SniffModeChanges, HandleCommand, HandleOta, Reset,
       ConnectFails
<1> QED
    BY <1>1, <1>2, <1>3, <1>4, <1>5, <1>6, <1>7, <1>8, <1>9, <1>10, <1>11, <1>12, <1>13 DEF vars

LEMMA BoundTypeStep == BoundType /\ [Next]_vars => BoundType'
<1> SUFFICES ASSUME BoundType, [Next]_vars PROVE BoundType'
    OBVIOUS
<1>1. ASSUME Next
      PROVE  /\ changes' = changes \/ (changes < MaxChanges /\ changes' = changes + 1)
             /\ inputs' = inputs \/ (inputs < MaxInputs /\ inputs' = inputs + 1)
             /\ faults' = faults \/ (faults < MaxFaults /\ faults' = faults + 1)
    BY <1>1 DEF Next, Task, Main, ConnectOk, PostConnectPublish, Subscribe, SubscribeFails,
       RepublishLastState, TakeWifiSignal, Reconnect, TakeState, PublishTakenState,
       PublishTakenAvailability, Receive, ConnectionLost, DispatchCommand, RateLimited, DispatchOta,
       DispatchHaOnline, StatusChanges, StatusRepeats, OnStatus, GoesStale, RegistrationChanges,
       SniffModeChanges, HandleCommand, HandleOta, Reset, ConnectFails, ReceiveCancelled, Break,
       WifiReconnects, BrokerNotices, UserPublishes, Change, bounds
<1> QED
    BY <1>1, LimitAssumption DEF BoundType, vars, bounds

(* The channels between the tasks stay within their capacities and carry   *)
(* what their readers expect (STATE_CHANNEL, COMMAND_CHANNEL, OTA_CHANNEL).*)
THEOREM MqttTypeCorrect == Spec => []TypeOK
<1>1. Init => TypeOK
    <2> SUFFICES ASSUME Init PROVE TypeOK
        OBVIOUS
    <2>1. MainType
        BY DEF Init, MainType
    <2>2. inbox \in Seq(Messages) /\ subs \subseteq {"command", "ota", "ha_status"}
        BY DEF Init
    <2>3. BrokerType
        BY <2>2 DEF Init, BrokerType
    <2>4. ChannelType
        BY CapAssumption DEF Init, ChannelType
    <2>5. attempt \in 0 .. MaxAttempts - 1 /\ BoundType
        BY LimitAssumption DEF Init, BoundType
    <2>6. TaskType
        BY <2>5 DEF Init, TaskType
    <2> QED
        BY <2>1, <2>3, <2>4, <2>5, <2>6 DEF TypeOK
<1>2. TypeOK /\ [Next]_vars => TypeOK'
    BY MainTypeStep, ChannelTypeStep, TaskTypeStep, BrokerTypeStep, BoundTypeStep DEF TypeOK
<1> QED
    BY <1>1, <1>2, PTL DEF Spec

(* The invariant of the task as a whole: what it remembers, what it serves *)
(* and what its channels carry (mqtt_task, execute_actions).               *)
THEOREM MqttCorrect == Spec => []MqttInv
  BY MqttTypeCorrect, RememberedWasSeen, ServedIsAnnounced, PTL DEF MqttInv
=============================================================================
