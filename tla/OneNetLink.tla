----------------------------- MODULE OneNetLink -----------------------------
(***************************************************************************)
(* The firmware's link to the OneNET cloud: the MQTT thread of the Paho    *)
(* package (priority 10), the callback it runs for a property/set message, *)
(* the upload thread (10), and the pipe through which both publish.        *)
(*                                                                         *)
(* Who publishes writes one message to the pipe and waits while it does    *)
(* not fit.  The MQTT thread alone reads the pipe, all of it at once, and  *)
(* publishes the first message of what it read.  Its callback publishes    *)
(* the reply to a command through the same pipe.                           *)
(*                                                                         *)
(* An upload shows the lamp and the lock, which are read at different      *)
(* times.  Each is abstracted to a version that every change increments.   *)
(* A reply says how a command fared, not what the state is.                *)
(***************************************************************************)
EXTENDS Integers, Sequences

CONSTANTS
  Capacity,     (* size of the pipe, in messages of the size of a reply     *)
  PostSize,     (* size of an upload in the same unit                       *)
  MaxCommands,  (* bound of the model: property/set messages sent           *)
  MaxVersion    (* bound of the model: changes of lamp and lock together    *)

ASSUME LinkAssumption ==
  /\ PostSize \in Nat \ {0}
  /\ Capacity \in Nat /\ Capacity >= PostSize
  /\ MaxCommands \in Nat /\ MaxVersion \in Nat

VARIABLES
  net,        (* network and broker: unreachable, slow or prompt            *)
  conn,       (* the TCP connection of the MQTT thread is alive             *)
  paho,       (* where the MQTT thread is                                   *)
  callback,   (* cmd_rsp_cb has been registered                             *)
  sent,       (* property/set messages that reached the socket              *)
  taken,      (* those of them taken from the socket, or lost with it       *)
  upload,     (* where the upload thread is                                 *)
  sample,     (* versions it has read, Zero when it needs them no more      *)
  pipe,       (* messages in the publish pipe                               *)
  used,       (* fill level of the pipe                                     *)
  device,     (* versions of lamp and lock                                  *)
  cloud       (* versions of lamp and lock that the cloud shows             *)

line  == <<net, conn>>
buf   == <<pipe, used>>
mqtt  == <<paho, sent, taken>>
post  == <<upload, sample>>
vars  == <<line, buf, mqtt, post, callback, device, cloud>>

\* "slow": an answer may take longer than the time between two uploads.
Quality == {"down", "slow", "prompt"}
Field   == {"lamp", "lock"}
Version == 0..MaxVersion
State   == [Field -> Version]
Zero    == [f \in Field |-> 0]

\* A "rest" is the end of an upload whose beginning has been read already.
Message == [kind : {"post"}, shows : State] \cup [kind : {"reply", "rest"}]

Post  == [kind |-> "post", shows |-> sample]
Reply == [kind |-> "reply"]
Rest  == [kind |-> "rest"]

\* Mutant: a message is written while the pipe is not full.
FitsIfNotFull(size) == used < Capacity
Fits(size) == used + size <= Capacity

\* What changes of the given fields, or none, may leave; bounded by MaxVersion.
Outcomes(fields) ==
  {s \in State :
     /\ \A f \in Field : s[f] = device[f] \/ (f \in fields /\ s[f] = device[f] + 1)
     /\ s["lamp"] + s["lock"] <= MaxVersion}

\* The publishers' check, made when they begin to publish.
isconnected == paho \in {"joining", "loop", "replying"}

\* The MQTT thread waits for room in the pipe that only it empties.
SelfDeadlock == paho = "replying" /\ ~Fits(1)

\* Types; the pipe never holds more than it has room for.
TypeOK ==
  /\ net \in Quality /\ conn \in BOOLEAN /\ callback \in BOOLEAN
  /\ paho \in {"off", "offline", "joining", "loop", "replying"}
  /\ sent \in 0..MaxCommands /\ taken \in 0..sent
  /\ upload \in {"waiting", "measuring", "sampled", "blocked", "torn"}
  /\ pipe \in Seq(Message) /\ used \in 0..Capacity
  /\ device \in State /\ sample \in State /\ cloud \in State

Init ==
  /\ net = "down" /\ conn = FALSE
  /\ paho = "off" /\ callback = FALSE
  /\ sent = 0 /\ taken = 0
  /\ upload = "waiting"
  /\ pipe = <<>> /\ used = 0
  /\ device = Zero /\ sample = Zero /\ cloud = Zero

Write(message, size) ==
  /\ Fits(size)
  /\ pipe' = Append(pipe, message)
  /\ used' = used + size

-----------------------------------------------------------------------------
(* on_recv, run by the thread on_retry once the network module had time.   *)

\* Creates the MQTT thread, which connects by itself.
onenet_mqtt_init ==
  /\ paho = "off"
  /\ paho' = "offline"
  /\ UNCHANGED <<line, buf, post, sent, taken, callback, device, cloud>>

\* The callback is registered last.  The two subscriptions before it change
\* nothing: the only handler slot has held property/set from the start.
onenet_set_cmd_rsp_cb ==
  /\ paho # "off" /\ ~callback
  /\ callback' = TRUE
  /\ UNCHANGED <<line, buf, mqtt, post, device, cloud>>

on_recv == onenet_mqtt_init \/ onenet_set_cmd_rsp_cb

-----------------------------------------------------------------------------
(* The MQTT thread.                                                        *)

\* Connection and CONNACK; without a network the thread tries again later.
Connect ==
  /\ paho = "offline" /\ net # "down"
  /\ paho' = "joining" /\ conn' = TRUE
  /\ UNCHANGED <<net, buf, post, sent, taken, callback, device, cloud>>

\* The topic of the only message handler is subscribed anew.
Subscribe ==
  /\ paho = "joining" /\ conn
  /\ paho' = "loop"
  /\ UNCHANGED <<line, buf, post, sent, taken, callback, device, cloud>>

\* No SUBACK, no ping response or a failed send: what the socket held is lost,
\* what the pipe holds is not.
Disconnect ==
  /\ paho \in {"joining", "loop"} /\ ~conn
  /\ paho' = "offline"
  /\ taken' = sent
  /\ UNCHANGED <<line, buf, post, sent, callback, device, cloud>>

\* Mutant: the pipe is looked at first.
PipeFirst(source) ==
  CASE source = "socket" -> taken < sent /\ pipe = <<>>
    [] source = "pipe"   -> pipe # <<>>

\* What select reports ready; the socket is looked at first.
Ready(source) ==
  CASE source = "socket" -> taken < sent
    [] source = "pipe"   -> taken = sent /\ pipe # <<>>

\* A message is taken from the socket and carried out.  The lamp changes here, if
\* the message is well-formed and sets it; the lock and the alarm are requests to
\* other threads.  There is a reply to whatever was received.
Serve ==
  /\ paho = "loop" /\ Ready("socket")
  /\ taken' = taken + 1
  /\ IF callback
     THEN device' \in Outcomes({"lamp"}) /\ paho' = "replying"
     ELSE UNCHANGED <<device, paho>>
  /\ UNCHANGED <<line, buf, post, sent, callback, cloud>>

mqtt_usr_callback == Serve

\* The reply goes into the thread's own pipe, if there is room.
PublishReply ==
  /\ paho = "replying" /\ Write(Reply, 1)
  /\ paho' = "loop"
  /\ UNCHANGED <<line, post, sent, taken, callback, device, cloud>>

\* What is read begins with a message: that one is published, the others are lost.
\* A send on a dead connection does not fail at once.
ReadMessage ==
  /\ Head(pipe).kind # "rest"
  /\ cloud' = IF conn /\ Head(pipe).kind = "post" THEN Head(pipe).shows ELSE cloud
  /\ UNCHANGED <<line, mqtt, upload, sample, callback, device>>

\* What is read begins with the rest of an upload.  Its bytes are taken for a
\* header: shorter than one they are ignored, otherwise a length and a pointer
\* are made of them, and either the packet is refused or the read of the topic
\* faults, which ends in a reset; the device's state may change with it.
ReadRest ==
  /\ Head(pipe).kind = "rest"
  /\ \/ UNCHANGED <<line, mqtt, post, callback, device>>
     \/ /\ paho' = "offline" /\ conn' = FALSE /\ taken' = sent
        /\ UNCHANGED <<net, sent, post, callback, device>>
     \/ /\ paho' = "off" /\ conn' = FALSE /\ taken' = sent
        /\ upload' = "waiting" /\ sample' = Zero /\ callback' = FALSE
        /\ device' \in Outcomes(Field)
        /\ UNCHANGED <<net, sent>>
  /\ UNCHANGED cloud

\* Mutant: what is left of the read goes back to the end of the pipe.
KeepLast == pipe' = Append(Tail(pipe), Head(pipe)) /\ used' = used

EmptyPipe == pipe' = <<>> /\ used' = 0

\* The socket has nothing: everything in the pipe is read at once.
ReadPipe ==
  /\ paho = "loop" /\ Ready("pipe")
  /\ EmptyPipe
  /\ ReadMessage \/ ReadRest

paho_mqtt_thread ==
  \/ Connect \/ Subscribe \/ Disconnect
  \/ mqtt_usr_callback \/ PublishReply \/ ReadPipe

-----------------------------------------------------------------------------
(* The upload thread, every two seconds.                                   *)

\* On a prompt network the MQTT thread, unless it blocks, needs less than these
\* two seconds for whatever it has to do next.
MqttThreadBusy ==
  \/ paho = "joining"
  \/ paho = "loop" /\ (taken < sent \/ pipe # <<>> \/ ~conn)
  \/ paho = "replying" /\ Fits(1)

\* The lamp is copied and its mutex released.  Then the temperature sensor is read,
\* which sleeps, and any thread may act.
SampleLamp ==
  /\ upload = "waiting"
  /\ net = "prompt" => ~MqttThreadBusy
  /\ sample' = [sample EXCEPT !["lamp"] = device["lamp"]]
  /\ upload' = "measuring"
  /\ UNCHANGED <<line, buf, mqtt, callback, device, cloud>>

SampleLock ==
  /\ upload = "measuring"
  /\ sample' = [sample EXCEPT !["lock"] = device["lock"]]
  /\ upload' = "sampled"
  /\ UNCHANGED <<line, buf, mqtt, callback, device, cloud>>

\* A failed upload is logged and forgotten.
PublishRefused ==
  /\ upload = "sampled" /\ ~isconnected
  /\ upload' = "waiting" /\ sample' = Zero
  /\ UNCHANGED <<line, buf, mqtt, callback, device, cloud>>

PublishWhole ==
  /\ upload = "sampled" /\ isconnected
  /\ Write(Post, PostSize)
  /\ upload' = "waiting" /\ sample' = Zero
  /\ UNCHANGED <<line, mqtt, callback, device, cloud>>

\* The pipe takes what fits, at most a part of the message, and the thread
\* waits to be woken by a read.
PublishBlocked ==
  /\ upload = "sampled" /\ isconnected /\ ~Fits(PostSize)
  /\ upload' \in {"blocked", "torn"}
  /\ used' = Capacity
  /\ UNCHANGED <<line, pipe, mqtt, sample, callback, device, cloud>>

\* Woken, the thread writes the message, or what the pipe has not taken of it,
\* whether or not the link is still up.
WriteRemainder ==
  /\ \/ upload = "blocked" /\ Write(Post, PostSize)
     \/ upload = "torn" /\ \E size \in 1..PostSize : Write(Rest, size)
  /\ upload' = "waiting" /\ sample' = Zero
  /\ UNCHANGED <<line, mqtt, callback, device, cloud>>

\* Replies have come first: the pipe takes another part, and the thread waits again.
WritePart ==
  /\ upload \in {"blocked", "torn"} /\ used < Capacity /\ ~Fits(PostSize)
  /\ upload' = "torn"
  /\ used' = Capacity
  /\ UNCHANGED <<line, pipe, mqtt, sample, callback, device, cloud>>

\* Mutant: a blocked publisher is not woken by the read.
UploadNotWoken ==
  SampleLamp \/ SampleLock \/ PublishRefused \/ PublishWhole \/ PublishBlocked

onenet_upload_entry ==
  \/ SampleLamp \/ SampleLock \/ PublishRefused \/ PublishWhole
  \/ PublishBlocked \/ WriteRemainder \/ WritePart

-----------------------------------------------------------------------------
(* The surroundings.                                                       *)

\* Commands are sent while the device is subscribed; bounded by MaxCommands.
Command ==
  /\ paho \in {"loop", "replying"} /\ conn
  /\ sent < MaxCommands
  /\ sent' = sent + 1
  /\ UNCHANGED <<line, buf, post, paho, taken, callback, device, cloud>>

\* The door thread changes the lock, as a command, the key, the face unit, the
\* alarm or the timer asked it to; the face unit changes the lamp.
LocalChange ==
  /\ \E f \in Field : device' \in Outcomes({f})
  /\ UNCHANGED <<line, buf, mqtt, post, callback, cloud>>

Network ==
  /\ net' \in Quality \ {net}
  /\ conn' = (conn /\ net' # "down")
  /\ UNCHANGED <<buf, mqtt, post, callback, device, cloud>>

Next ==
  \/ on_recv \/ paho_mqtt_thread \/ onenet_upload_entry
  \/ Command \/ LocalChange \/ Network

\* Threads that can run do; the network and the users owe nothing.
Fairness ==
  /\ WF_vars(on_recv)
  /\ WF_vars(paho_mqtt_thread)
  /\ WF_vars(onenet_upload_entry)

Spec == Init /\ [][Next]_vars /\ Fairness

-----------------------------------------------------------------------------
(* Properties.                                                             *)

\* The comment in onenet_cmd_handler: not publishing there avoids a deadlock of
\* the MQTT callback (onenet_recv.c:174-175).  mqtt_usr_callback publishes.
NoSelfDeadlock == ~SelfDeadlock

\* Uploads that are merged with others, lost, cut in two, left in the pipe over a
\* reconnection or written by a publisher that was blocked while the link was
\* down never make lamp or lock in the cloud fall back to an older state, and what
\* each shows has been its state: the link implements StaleMirror, field by field.
\* The pair need not have been: the two are read apart (onenet_sample.c:66-71).
Mirror == INSTANCE StaleMirror WITH Views <- Field, original <- device, view <- cloud
MirrorsDevice == Mirror!Spec

\* The same without the device: neither field runs backwards.
CloudInOrder == [][\A f \in Field : cloud'[f] >= cloud[f]]_cloud

\* However many uploads were lost, cut in two or mixed from two states: once the
\* network stays prompt, the cloud ends up with the state of the device, unless
\* the MQTT thread blocks on its own pipe.
CloudConverges ==
  <>[](net = "prompt") => <>SelfDeadlock \/ <>[](cloud = device)

\* Every command in the socket is carried out or lost with the connection; uploads
\* cannot hold it up, and only a self-deadlock does so for ever.
CommandsServed ==
  \A n \in 1..MaxCommands : sent >= n ~> taken >= n \/ SelfDeadlock

=============================================================================
