-------------------------- MODULE OneNetLinkProofs --------------------------
(***************************************************************************)
(* Proofs about the link to the cloud, for any size of the pipe and of an  *)
(* upload, any number of commands and changes, and whatever the network    *)
(* does.                                                                   *)
(***************************************************************************)
EXTENDS OneNetLink, SequenceTheorems, TLAPS

In(p) == {p[i] : i \in 1..Len(p)}

LEMMA InHead ==
  ASSUME NEW p \in Seq(Message), p # <<>>
  PROVE  Head(p) \in In(p) /\ Head(p) \in Message
<1>1. Len(p) \in Nat \ {0} /\ Head(p) = p[1]
  OBVIOUS
<1> QED BY <1>1 DEF In

LEMMA InTyped ==
  ASSUME NEW p \in Seq(Message)
  PROVE  \A m \in In(p) : m \in Message /\ (m.kind = "post" => m.shows \in State)
<1>1. In(p) \subseteq Message
  BY DEF In
<1> QED BY <1>1 DEF Message

LEMMA MessagesTyped ==
  ASSUME TypeOK
  PROVE  {Post, Reply, Rest} \subseteq Message
<1>1. Post \in [kind : {"post"}, shows : State]
  BY DEF Post, TypeOK
<1>2. Reply \in [kind : {"reply", "rest"}] /\ Rest \in [kind : {"reply", "rest"}]
  BY DEF Reply, Rest
<1> QED BY <1>1, <1>2 DEF Message

\* Versions of a field, compared or counted up.
LEMMA Versions ==
  /\ Version \subseteq Nat
  /\ \A s \in State, f \in Field : s[f] \in Version
  /\ Zero \in State
BY LinkAssumption DEF Version, State, Zero

\* A change keeps the type and takes no field back, nor further than one version.
LEMMA OutcomesTyped ==
  ASSUME TypeOK, NEW fields, NEW d \in Outcomes(fields)
  PROVE  d \in State /\ \A f \in Field : d[f] \in {device[f], device[f] + 1}
BY DEF Outcomes

LEMMA InAppend ==
  ASSUME NEW p \in Seq(Message), NEW m \in Message
  PROVE  Append(p, m) \in Seq(Message) /\ In(Append(p, m)) = In(p) \cup {m}
<1>1. /\ Len(Append(p, m)) = Len(p) + 1
      /\ \A i \in 1..Len(p) : Append(p, m)[i] = p[i]
      /\ Append(p, m)[Len(p) + 1] = m
  OBVIOUS
<1>2. Len(p) \in Nat
  OBVIOUS
<1> QED BY <1>1, <1>2 DEF In

-----------------------------------------------------------------------------
(* Type correctness.                                                       *)

LEMMA InitTyped == Init => TypeOK
<1> SUFFICES ASSUME Init PROVE TypeOK
  OBVIOUS
<1>1. 0 \in 0..Capacity /\ sent \in 0..MaxCommands /\ taken \in 0..sent
  BY LinkAssumption DEF Init
<1>2. pipe \in Seq(Message)
  BY EmptySeq DEF Init
<1>3. conn \in BOOLEAN /\ callback \in BOOLEAN
  BY Zenon DEF Init
<1> QED BY <1>1, <1>2, <1>3, Versions DEF Init, TypeOK, Quality

LEMMA WriteTyped ==
  ASSUME TypeOK, NEW message \in Message, NEW size \in Nat, Write(message, size)
  PROVE  pipe' \in Seq(Message) /\ used' \in 0..Capacity
<1>1. pipe' \in Seq(Message)
  BY InAppend DEF Write, TypeOK
<1> QED BY <1>1, LinkAssumption DEF Write, Fits, TypeOK

LEMMA UploadTyped == ASSUME TypeOK, onenet_upload_entry PROVE TypeOK'
<1> USE DEF TypeOK, line, buf, mqtt
<1>1. CASE SampleLamp \/ SampleLock
  <2>1. sample' \in State
    BY <1>1 DEF SampleLamp, SampleLock, State, Field
  <2> QED BY <1>1, <2>1 DEF SampleLamp, SampleLock
<1>2. CASE PublishRefused
  BY <1>2, Versions DEF PublishRefused
<1>3. CASE PublishWhole
  <2>1. pipe' \in Seq(Message) /\ used' \in 0..Capacity
    BY <1>3, WriteTyped, MessagesTyped, LinkAssumption DEF PublishWhole
  <2> QED BY <1>3, <2>1, Versions DEF PublishWhole
<1>4. CASE PublishBlocked \/ WritePart
  <2>1. used' \in 0..Capacity
        /\ upload' \in {"waiting", "measuring", "sampled", "blocked", "torn"}
    BY <1>4, LinkAssumption DEF PublishBlocked, WritePart
  <2> QED BY <1>4, <2>1 DEF PublishBlocked, WritePart
<1>5. CASE WriteRemainder
  <2>1. PICK message \in {Post, Rest}, size \in 1..PostSize : Write(message, size)
    BY <1>5, LinkAssumption DEF WriteRemainder
  <2>2. pipe' \in Seq(Message) /\ used' \in 0..Capacity
    BY <2>1, WriteTyped, MessagesTyped, LinkAssumption
  <2> QED BY <1>5, <2>2, Versions DEF WriteRemainder
<1> QED BY <1>1, <1>2, <1>3, <1>4, <1>5 DEF onenet_upload_entry

LEMMA ReadTyped == ASSUME TypeOK, ReadPipe PROVE TypeOK'
<1> USE DEF TypeOK
<1>1. pipe' \in Seq(Message) /\ used' \in 0..Capacity
  BY EmptySeq, LinkAssumption DEF ReadPipe, EmptyPipe
<1>2. CASE ReadMessage
  <2>1. Head(pipe) \in Message
    BY InHead DEF ReadPipe, Ready
  <2>2. cloud' \in State
    BY <1>2, <2>1 DEF ReadMessage, Message
  <2> QED BY <1>1, <1>2, <2>2 DEF ReadMessage, line, mqtt
<1>3. CASE ReadRest
  <2> USE <1>1, <1>3
  <2>1. CASE UNCHANGED <<line, mqtt, post, callback, device>>
    BY <2>1 DEF ReadRest, line, mqtt, post
  <2>2. CASE /\ paho' = "offline" /\ conn' = FALSE /\ taken' = sent
             /\ UNCHANGED <<net, sent, post, callback, device>>
    <3>1. conn' \in BOOLEAN
      BY <2>2, Zenon
    <3> QED BY <2>2, <3>1 DEF ReadRest, post
  <2>3. CASE /\ paho' = "off" /\ conn' = FALSE /\ taken' = sent
             /\ upload' = "waiting" /\ sample' = Zero /\ callback' = FALSE
             /\ device' \in Outcomes(Field)
             /\ UNCHANGED <<net, sent>>
    <3>1. conn' \in BOOLEAN /\ callback' \in BOOLEAN
      BY <2>3, Zenon
    <3>2. device' \in State /\ sample' \in State
      BY <2>3, OutcomesTyped, Versions
    <3> QED BY <2>3, <3>1, <3>2 DEF ReadRest
  <2> QED BY <2>1, <2>2, <2>3 DEF ReadRest
<1> QED BY <1>2, <1>3 DEF ReadPipe

LEMMA MqttTyped == ASSUME TypeOK, paho_mqtt_thread \/ on_recv PROVE TypeOK'
<1> USE DEF TypeOK, line, buf, post
<1>1. CASE on_recv
  BY <1>1 DEF on_recv, onenet_mqtt_init, onenet_set_cmd_rsp_cb, mqtt
<1>2. CASE Connect \/ Subscribe \/ Disconnect
  <2>1. conn' \in BOOLEAN
    BY <1>2, Zenon DEF Connect, Subscribe, Disconnect
  <2> QED BY <1>2, <2>1 DEF Connect, Subscribe, Disconnect
<1>3. CASE mqtt_usr_callback
  <2>1. device' \in State /\ paho' \in {"loop", "replying"}
    BY <1>3, OutcomesTyped DEF mqtt_usr_callback, Serve
  <2>2. taken' \in 0..sent'
    BY <1>3 DEF mqtt_usr_callback, Serve, Ready
  <2> QED BY <1>3, <2>1, <2>2 DEF mqtt_usr_callback, Serve
<1>4. CASE PublishReply
  <2>1. pipe' \in Seq(Message) /\ used' \in 0..Capacity
    BY <1>4, WriteTyped, MessagesTyped DEF PublishReply
  <2> QED BY <1>4, <2>1 DEF PublishReply
<1> QED BY <1>1, <1>2, <1>3, <1>4, ReadTyped DEF paho_mqtt_thread

LEMMA TypedStep == TypeOK /\ [Next]_vars => TypeOK'
<1> SUFFICES ASSUME TypeOK, [Next]_vars PROVE TypeOK'
  OBVIOUS
<1>1. CASE Command
  BY <1>1, LinkAssumption DEF Command, TypeOK, line, buf, post
<1>2. CASE LocalChange
  <2>1. device' \in State
    BY <1>2, OutcomesTyped DEF LocalChange
  <2> QED BY <1>2, <2>1 DEF LocalChange, TypeOK, line, buf, mqtt, post
<1>3. CASE Network
  <2>1. net' \in Quality /\ conn' \in BOOLEAN
    BY <1>3, Zenon DEF Network, TypeOK
  <2> QED BY <1>3, <2>1 DEF Network, TypeOK, buf, mqtt, post
<1>4. CASE UNCHANGED vars
  BY <1>4 DEF vars, TypeOK, line, buf, mqtt, post
<1> QED BY <1>1, <1>2, <1>3, <1>4, UploadTyped, MqttTyped DEF Next

\* The variables keep their types; the pipe never holds more than it has room for.
THEOREM TypeCorrect == Spec => []TypeOK
BY InitTyped, TypedStep, PTL DEF Spec

-----------------------------------------------------------------------------
(* Order.                                                                  *)

\* Of each field: what is on its way to the cloud is not older than what the cloud
\* has, and not newer than the device; an upload that is being made is not older
\* than the uploads before it in the pipe.
OrderOf(f) ==
  /\ cloud[f] <= device[f]
  /\ \A m \in In(pipe) :
       m.kind = "post" => cloud[f] <= m.shows[f] /\ m.shows[f] <= device[f]
  /\ (upload # "waiting" /\ (f = "lamp" \/ upload # "measuring")) =>
       /\ cloud[f] <= sample[f] /\ sample[f] <= device[f]
       /\ \A m \in In(pipe) : m.kind = "post" => m.shows[f] <= sample[f]

Order == \A f \in Field : OrderOf(f)

LEMMA InitOrder == Init => Order
<1>1. In(<<>>) = {}
  BY DEF In
<1> QED BY <1>1 DEF Init, Order, OrderOf, Zero

LEMMA WriteOrder ==
  ASSUME TypeOK, NEW message \in Message, NEW size, Write(message, size)
  PROVE  In(pipe') = In(pipe) \cup {message}
BY InAppend DEF Write, TypeOK

\* A sample is taken of the device as it is, hence after whatever the pipe holds.
LEMMA SampleOrder ==
  ASSUME TypeOK, Order, SampleLamp \/ SampleLock
  PROVE  Order'
<1> SUFFICES ASSUME NEW f \in Field PROVE OrderOf(f)'
  BY DEF Order
<1>1. OrderOf(f) /\ UNCHANGED <<pipe, device, cloud>>
  BY DEF Order, SampleLamp, SampleLock, buf
<1>2. device[f] \in Nat /\ sample \in State
  BY Versions DEF TypeOK
<1>3. CASE SampleLamp
  <2>1. upload' = "measuring" /\ (f = "lamp" => sample'[f] = device[f])
    BY <1>2, <1>3 DEF SampleLamp, State
  <2> QED BY <1>1, <1>2, <2>1 DEF OrderOf
<1>4. CASE SampleLock
  <2>1. upload = "measuring" /\ upload' = "sampled"
        /\ sample'[f] = IF f = "lock" THEN device[f] ELSE sample[f]
    BY <1>2, <1>4 DEF SampleLock, State
  <2>2. f \in {"lamp", "lock"}
    BY DEF Field
  <2> QED BY <1>1, <1>2, <2>1, <2>2 DEF OrderOf
<1> QED BY <1>3, <1>4

LEMMA UploadOrder ==
  ASSUME TypeOK, Order, onenet_upload_entry
  PROVE  Order' /\ UNCHANGED cloud
<1> USE DEF Order, OrderOf
<1>1. CASE SampleLamp \/ SampleLock
  BY <1>1, SampleOrder DEF SampleLamp, SampleLock
<1>2. CASE PublishRefused
  BY <1>2 DEF PublishRefused, buf
<1>3. CASE PublishWhole \/ WriteRemainder
  <2>1. PICK message \in {Post, Rest} : In(pipe') = In(pipe) \cup {message}
    BY <1>3, WriteOrder, MessagesTyped DEF PublishWhole, WriteRemainder
  <2>2. UNCHANGED <<cloud, device>> /\ upload' = "waiting"
    BY <1>3 DEF PublishWhole, WriteRemainder
  <2>3. upload \in {"sampled", "blocked", "torn"}
    BY <1>3 DEF PublishWhole, WriteRemainder
  <2>4. message.kind = "post" => message.shows = sample
    BY DEF Post, Rest
  <2> QED BY <2>1, <2>2, <2>3, <2>4
<1>4. CASE PublishBlocked \/ WritePart
  BY <1>4 DEF PublishBlocked, WritePart
<1> QED BY <1>1, <1>2, <1>3, <1>4 DEF onenet_upload_entry

\* The order holds of a device that went on.
LEMMA ChangeOrder ==
  ASSUME TypeOK, Order, UNCHANGED <<cloud, pipe, upload, sample>>,
         \A f \in Field : device'[f] \in {device[f], device[f] + 1}
  PROVE  Order'
<1> SUFFICES ASSUME NEW f \in Field PROVE OrderOf(f)'
  BY DEF Order
<1>1. /\ OrderOf(f) /\ device'[f] \in {device[f], device[f] + 1}
      /\ cloud[f] \in Nat /\ device[f] \in Nat /\ sample[f] \in Nat
  BY Versions DEF Order, TypeOK
<1>2. \A m \in In(pipe) : m.kind = "post" => m.shows[f] \in Nat
  BY InTyped, Versions DEF TypeOK
<1> QED BY <1>1, <1>2 DEF OrderOf

\* What is read is published or lost; either way the pipe is empty afterwards.
LEMMA ReadOrder ==
  ASSUME TypeOK, Order, ReadPipe
  PROVE  Order' /\ \A f \in Field : cloud'[f] >= cloud[f]
<1>1. \A m : m \notin In(pipe')
  <2>1. pipe' = <<>>
    BY DEF ReadPipe, EmptyPipe
  <2> QED BY <2>1 DEF In
<1>2. Head(pipe) \in In(pipe)
  BY InHead DEF ReadPipe, Ready, TypeOK
<1> SUFFICES ASSUME NEW f \in Field PROVE OrderOf(f)' /\ cloud'[f] >= cloud[f]
  BY DEF Order
<1>3. /\ OrderOf(f) /\ cloud[f] \in Nat /\ device[f] \in Nat
  BY Versions DEF Order, TypeOK
<1>4. CASE ReadMessage
  <2>1. UNCHANGED <<upload, sample, device>>
    BY <1>4 DEF ReadMessage
  <2>2. CASE UNCHANGED cloud
    BY <1>1, <1>3, <2>1, <2>2 DEF OrderOf
  <2>3. CASE Head(pipe).kind = "post" /\ cloud' = Head(pipe).shows
    <3>1. Head(pipe).shows[f] \in Nat
      BY <1>2, <2>3, InTyped, Versions DEF TypeOK
    <3> QED BY <1>1, <1>2, <1>3, <2>1, <2>3, <3>1 DEF OrderOf
  <2> QED BY <1>4, <2>2, <2>3 DEF ReadMessage
<1>5. CASE ReadRest
  <2>1. UNCHANGED cloud
    BY <1>5 DEF ReadRest
  <2>2. device'[f] \in {device[f], device[f] + 1}
    BY <1>5, OutcomesTyped DEF ReadRest
  <2>3. upload' # "waiting" => UNCHANGED <<upload, sample, device>>
    BY <1>5 DEF ReadRest, post
  <2> QED BY <1>1, <1>3, <2>1, <2>2, <2>3 DEF OrderOf
<1> QED BY <1>4, <1>5 DEF ReadPipe

LEMMA MqttOrder ==
  ASSUME TypeOK, Order, paho_mqtt_thread, ~ReadPipe
  PROVE  Order' /\ UNCHANGED cloud
<1>1. CASE Connect \/ Subscribe \/ Disconnect
  BY <1>1 DEF Connect, Subscribe, Disconnect, Order, OrderOf, buf, post
<1>2. CASE mqtt_usr_callback
  <2>1. \A f \in Field : device'[f] \in {device[f], device[f] + 1}
    BY <1>2, OutcomesTyped, Versions DEF mqtt_usr_callback, Serve, TypeOK
  <2> QED BY <1>2, <2>1, ChangeOrder DEF mqtt_usr_callback, Serve, buf, post
<1>3. CASE PublishReply
  <2>1. In(pipe') = In(pipe) \cup {Reply}
    BY <1>3, WriteOrder, MessagesTyped DEF PublishReply
  <2>2. Reply.kind # "post"
    BY DEF Reply
  <2> QED BY <1>3, <2>1, <2>2 DEF PublishReply, Order, OrderOf, post
<1> QED BY <1>1, <1>2, <1>3 DEF paho_mqtt_thread

LEMMA OrderStep ==
  TypeOK /\ Order /\ [Next]_vars => Order' /\ \A f \in Field : cloud'[f] >= cloud[f]
<1> SUFFICES ASSUME TypeOK, Order, [Next]_vars
             PROVE  Order' /\ \A f \in Field : cloud'[f] >= cloud[f]
  OBVIOUS
<1>1. UNCHANGED cloud => \A f \in Field : cloud'[f] >= cloud[f]
  <2>1. \A f \in Field : cloud[f] \in Nat
    BY Versions DEF TypeOK
  <2> QED BY <2>1
<1>2. CASE on_recv \/ Command \/ Network \/ UNCHANGED vars
  BY <1>1, <1>2 DEF on_recv, onenet_mqtt_init, onenet_set_cmd_rsp_cb, Command, Network,
                    vars, Order, OrderOf, buf, post
<1>3. CASE LocalChange
  <2>1. \A f \in Field : device'[f] \in {device[f], device[f] + 1}
    BY <1>3, OutcomesTyped DEF LocalChange
  <2> QED BY <1>1, <1>3, <2>1, ChangeOrder DEF LocalChange, buf, post
<1> QED BY <1>1, <1>2, <1>3, UploadOrder, ReadOrder, MqttOrder
        DEF Next, paho_mqtt_thread

\* Neither lamp nor lock falls back to an older state in the cloud, whatever the
\* pipe merges, loses, cuts in two or keeps over a reconnection.
THEOREM InOrder == Spec => CloudInOrder
<1>1. TypeOK /\ Order /\ [Next]_vars => (TypeOK /\ Order)'
  BY TypedStep, OrderStep
<1>2. TypeOK /\ Order /\ [Next]_vars => [\A f \in Field : cloud'[f] >= cloud[f]]_cloud
  BY OrderStep
<1>3. Init => TypeOK /\ Order
  BY InitTyped, InitOrder
<1> QED BY <1>1, <1>2, <1>3, PTL DEF Spec, CloudInOrder

-----------------------------------------------------------------------------
(* The link implements StaleMirror.                                        *)

\* An upload that is read and arrives is a refresh, of each field by a state between
\* the one shown and the device's.
LEMMA ReadRefreshes ==
  ASSUME TypeOK, Order, ReadPipe, ReadMessage
  PROVE  Mirror!Refresh \/ UNCHANGED Mirror!mirrorVars
<1>1. Head(pipe) \in In(pipe)
  BY InHead DEF ReadPipe, Ready, TypeOK
<1>2. UNCHANGED device
  BY DEF ReadMessage
<1>3. CASE Head(pipe).kind = "post" /\ cloud' = Head(pipe).shows
  <2>1. cloud' \in State
    BY <1>1, <1>3, InTyped DEF TypeOK
  <2>2. cloud' \in [Field -> Nat]
    BY <2>1, Versions DEF State
  <2>3. ASSUME NEW f \in Field PROVE cloud'[f] \in cloud[f] .. device[f]
    <3>1. cloud'[f] \in Nat /\ cloud[f] \in Nat /\ device[f] \in Nat
      BY <2>1, Versions DEF TypeOK
    <3> QED BY <1>1, <1>3, <3>1 DEF Order, OrderOf
  <2> QED BY <1>2, <2>2, <2>3 DEF Mirror!Refresh
<1>4. CASE UNCHANGED cloud
  BY <1>2, <1>4 DEF Mirror!mirrorVars
<1> QED BY <1>3, <1>4 DEF ReadMessage

\* No other step touches the cloud, and each field changes by one state at a time.
LEMMA OthersChangeAtMost ==
  ASSUME TypeOK, [Next]_vars, ~(ReadPipe /\ ReadMessage)
  PROVE  /\ UNCHANGED cloud
         /\ UNCHANGED device \/ \E fields \in SUBSET Field : device' \in Outcomes(fields)
<1>1. CASE on_recv
  BY <1>1 DEF on_recv, onenet_mqtt_init, onenet_set_cmd_rsp_cb
<1>2. CASE paho_mqtt_thread
  <2>1. CASE Connect \/ Subscribe \/ Disconnect \/ PublishReply
    BY <2>1 DEF Connect, Subscribe, Disconnect, PublishReply
  <2>2. CASE mqtt_usr_callback
    BY <2>2 DEF mqtt_usr_callback, Serve, Field
  <2>3. CASE ReadPipe
    BY <2>3 DEF ReadPipe, ReadRest
  <2> QED BY <1>2, <2>1, <2>2, <2>3 DEF paho_mqtt_thread
<1>3. CASE onenet_upload_entry
  BY <1>3 DEF onenet_upload_entry, SampleLamp, SampleLock, PublishRefused, PublishWhole,
              PublishBlocked, WriteRemainder, WritePart
<1>4. CASE Command \/ Network \/ UNCHANGED vars
  BY <1>4 DEF Command, Network, vars
<1>5. CASE LocalChange
  BY <1>5 DEF LocalChange
<1> QED BY <1>1, <1>2, <1>3, <1>4, <1>5 DEF Next

LEMMA MirrorStep ==
  TypeOK /\ Order /\ [Next]_vars => [Mirror!Next]_(Mirror!mirrorVars)
<1> SUFFICES ASSUME TypeOK, Order, [Next]_vars
             PROVE  Mirror!Next \/ UNCHANGED Mirror!mirrorVars
  OBVIOUS
<1>1. CASE ReadPipe /\ ReadMessage
  BY <1>1, ReadRefreshes DEF Mirror!Next
<1>2. CASE ~(ReadPipe /\ ReadMessage)
  <2>1. UNCHANGED cloud
    BY <1>2, OthersChangeAtMost
  <2>2. CASE UNCHANGED device
    BY <2>1, <2>2 DEF Mirror!mirrorVars
  <2>3. CASE \E fields \in SUBSET Field : device' \in Outcomes(fields)
    <3>1. device' \in State /\ \A f \in Field : device'[f] \in {device[f], device[f] + 1}
      BY <2>3, OutcomesTyped
    <3>2. device' \in [Field -> Nat]
      BY <3>1, Versions DEF State
    <3> QED BY <2>1, <3>1, <3>2 DEF Mirror!Next, Mirror!Change
  <2> QED BY <1>2, <2>2, <2>3, OthersChangeAtMost
<1> QED BY <1>1, <1>2

\* Every step of the link is a change of the device, a refresh of what the cloud
\* shows, each field by a state it has been in and no older one, or neither.
THEOREM LinkIsMirror == Spec => MirrorsDevice
<1>1. TypeOK /\ Order /\ [Next]_vars => (TypeOK /\ Order)'
  BY TypedStep, OrderStep
<1>2. Init => TypeOK /\ Order
  BY InitTyped, InitOrder
<1>3. Init => Mirror!Init
  BY DEF Init, Mirror!Init, Zero
<1> QED BY <1>1, <1>2, <1>3, MirrorStep, PTL DEF Spec, MirrorsDevice, Mirror!Spec

-----------------------------------------------------------------------------
(* Who waits for whom.                                                     *)

\* A publisher that waits for room waits for a pipe that has something to read;
\* only a reader's read wakes it.
FilledByMessages == used > 0 => pipe # <<>>

RoomOrReader ==
  /\ upload \in {"blocked", "torn"} => Fits(PostSize) \/ pipe # <<>>
  /\ paho = "replying" => Fits(1) \/ pipe # <<>>

LEMMA FilledStep ==
  TypeOK /\ FilledByMessages /\ [Next]_vars => FilledByMessages'
<1> SUFFICES ASSUME TypeOK, FilledByMessages, [Next]_vars PROVE FilledByMessages'
  OBVIOUS
<1> USE DEF FilledByMessages
<1>1. ASSUME NEW message \in Message, NEW size, Write(message, size)
      PROVE  pipe' # <<>>
  <2>1. Len(pipe') = Len(pipe) + 1 /\ Len(pipe) \in Nat
    BY <1>1 DEF Write, TypeOK
  <2>2. Len(pipe') # 0
    BY <2>1
  <2> QED BY <2>2, EmptySeq
<1>2. CASE on_recv \/ Command \/ LocalChange \/ Network
  BY <1>2 DEF on_recv, onenet_mqtt_init, onenet_set_cmd_rsp_cb, Command,
              LocalChange, Network, buf
<1>3. CASE paho_mqtt_thread
  <2>1. CASE Connect \/ Subscribe \/ Disconnect \/ mqtt_usr_callback
    BY <2>1 DEF Connect, Subscribe, Disconnect, mqtt_usr_callback, Serve, buf
  <2>2. CASE PublishReply
    BY <1>1, <2>2, MessagesTyped DEF PublishReply
  <2>3. CASE ReadPipe
    BY <2>3 DEF ReadPipe, EmptyPipe
  <2> QED BY <1>3, <2>1, <2>2, <2>3 DEF paho_mqtt_thread
<1>4. CASE onenet_upload_entry
  <2>1. CASE SampleLamp \/ SampleLock \/ PublishRefused
    BY <2>1 DEF SampleLamp, SampleLock, PublishRefused, buf
  <2>2. CASE PublishWhole \/ WriteRemainder
    BY <1>1, <2>2, MessagesTyped DEF PublishWhole, WriteRemainder
  <2>3. CASE PublishBlocked \/ WritePart
    <3>1. used > 0
      BY <2>3, LinkAssumption DEF PublishBlocked, WritePart, Fits, TypeOK
    <3> QED BY <2>3, <3>1 DEF PublishBlocked, WritePart
  <2> QED BY <1>4, <2>1, <2>2, <2>3 DEF onenet_upload_entry
<1>5. CASE UNCHANGED vars
  BY <1>5 DEF vars, buf
<1> QED BY <1>2, <1>3, <1>4, <1>5 DEF Next

\* Whoever waits for room, the upload thread or the MQTT thread itself, waits
\* while there is something to read: no wake-up is lost, and the upload thread
\* is stuck only when the reader is.
THEOREM NoLostWakeUp == Spec => []RoomOrReader
<1>1. Init => FilledByMessages
  BY DEF Init, FilledByMessages
<1>2. TypeOK /\ FilledByMessages => RoomOrReader
  BY LinkAssumption DEF FilledByMessages, RoomOrReader, Fits, TypeOK
<1> QED BY InitTyped, TypedStep, FilledStep, <1>1, <1>2, PTL DEF Spec
=============================================================================
