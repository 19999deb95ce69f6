---------------------------- MODULE DeviceProofs ----------------------------
(***************************************************************************)
(* Theorems about the input devices: Keyboard, for any size of the buffers  *)
(* and any keys; Uart8251, for any ring and any bytes; MouseEvents, for any *)
(* queue, buttons and nesting; and MCDevices, in which each has its turn.   *)
(***************************************************************************)
EXTENDS MCDevices, SequenceTheorems, TLAPS

(* The keyboard and its controller. *)

Queues == [used : 0 .. KEYBUFSIZE, scheduled : BOOLEAN, transfers : Nat,
           len : 0 .. MaxResponses, responses : 0 .. MaxResponses]

\* What is between the buffers and the event queue, whatever queue they make:
\* the last conjunct is what keeps a byte from being put over another.
QueueOK(queue) ==
    /\ enable_aux => queue.transfers = queue.responses + (IF queue.scheduled THEN 1 ELSE 0)
    /\ ~enable_aux => (queue.scheduled => queue.transfers > 0)
    /\ queue.used > 0 => queue.scheduled \/ p60changed
    /\ queue.scheduled /\ p60changed => origin # "buffer"
    /\ queue.responses <= queue.len

\* A keyboard that resets itself hears no release: it must not repeat a key.
ResetIsSilent == reset => repeatKey = NoKey

KeyboardInv == KeyboardTypeOK /\ QueueOK(Queue) /\ NoOverrun /\ RepeatIsHeld /\ ResetIsSilent

LEMMA TypedQueue ==
  ASSUME KeyboardTypeOK PROVE Queue \in Queues
<1>1. MaxResponses \in Nat
  BY KeyboardAssumption
<1>2. buf8042_len \in 0 .. MaxResponses /\ responses \in 0 .. MaxResponses
  BY <1>1 DEF KeyboardTypeOK
<1>. QED
  BY <1>2 DEF KeyboardTypeOK, Queue, Queues

LEMMA ClearedKeeps == Cleared \in Queues /\ QueueOK(Cleared)
<1>1. KEYBUFSIZE \in Nat /\ MaxResponses \in Nat
  BY KeyboardAssumption
<1>. QED
  BY <1>1 DEF Cleared, Queues, QueueOK

\* A byte leaves the queue as it should be, also when the buffer is dropped.
LEMMA AddBufferKeeps ==
  ASSUME NEW queue \in Queues, QueueOK(queue), p60changed \in BOOLEAN, enable_aux \in BOOLEAN
  PROVE  AddBuffer(queue) \in Queues /\ QueueOK(AddBuffer(queue))
<1>0. KEYBUFSIZE \in Nat /\ MaxResponses \in Nat
  BY KeyboardAssumption
<1>1. CASE queue.used >= KEYBUFSIZE
  BY <1>1, ClearedKeeps DEF AddBuffer
<1>2. CASE ~(queue.used >= KEYBUFSIZE)
  <2> DEFINE start == ~queue.scheduled /\ ~p60changed
             next == [used |-> queue.used + 1,
                      scheduled |-> queue.scheduled \/ start,
                      transfers |-> IF start THEN queue.transfers + 1 ELSE queue.transfers,
                      len |-> queue.len, responses |-> queue.responses]
  <2>1. AddBuffer(queue) = next
    BY <1>2 DEF AddBuffer
  <2>2. /\ queue.used \in 0 .. KEYBUFSIZE /\ queue.scheduled \in BOOLEAN
        /\ queue.transfers \in Nat
        /\ queue.len \in 0 .. MaxResponses /\ queue.responses \in 0 .. MaxResponses
    BY DEF Queues
  <2>3. next \in Queues
    BY <1>0, <1>2, <2>2 DEF Queues
  <2>4. QueueOK(next)
    <3>1. CASE start
      <4>1. /\ next.scheduled = TRUE /\ next.transfers = queue.transfers + 1
            /\ next.len = queue.len /\ next.responses = queue.responses
        BY <3>1
      <4>2. enable_aux => queue.transfers = queue.responses
        BY <2>2, <3>1 DEF QueueOK
      <4>. QED
        BY <2>2, <3>1, <4>1, <4>2 DEF QueueOK
    <3>2. CASE ~start
      <4>1. /\ next.scheduled = queue.scheduled /\ next.transfers = queue.transfers
            /\ next.len = queue.len /\ next.responses = queue.responses
        BY <2>2, <3>2
      <4>2. next.scheduled \/ p60changed
        BY <3>2, <4>1
      <4> HIDE DEF next
      <4>. QED
        BY <4>1, <4>2 DEF QueueOK
    <3>. QED
      BY <3>1, <3>2
  <2>. QED
    BY <2>1, <2>3, <2>4
<1>. QED
  BY <1>1, <1>2

\* How most steps end: a queue that is as it should be, and a port that is left
\* alone.
LEMMA SetQueueKeeps ==
  ASSUME NEW queue \in Queues, QueueOK(queue), SetQueue(queue), UNCHANGED <<enable_aux, portVars>>
  PROVE  /\ QueueOK(Queue)'
         /\ used' \in 0 .. KEYBUFSIZE /\ scheduled' \in BOOLEAN
         /\ transfers' \in Nat
         /\ buf8042_len' \in 0 .. MaxResponses /\ responses' \in 0 .. buf8042_len'
<1>1. Queue' = queue
  BY DEF SetQueue, Queue, Queues
<1>2. QueueOK(queue)'
  BY DEF QueueOK, portVars
<1>3. queue.len \in 0 .. MaxResponses /\ queue.responses \in Nat /\ queue.responses <= queue.len
  <2>1. MaxResponses \in Nat
    BY KeyboardAssumption
  <2>. QED
    BY <2>1 DEF Queues, QueueOK
<1>4. queue.responses \in 0 .. queue.len
  BY <1>3
<1>5. buf8042_len' \in 0 .. MaxResponses /\ responses' \in 0 .. buf8042_len'
  BY <1>3, <1>4 DEF SetQueue
<1>. QED
  BY <1>1, <1>2, <1>5 DEF SetQueue, Queues

----------------------------------------------------------------------------
(* One lemma for each kind of step. *)

\* Steps that change the buffer by a queue that is as it should be, and neither
\* the port, the setting, the keys nor the reset.
LEMMA QueueStep ==
  ASSUME KeyboardInv, NEW queue \in Queues, QueueOK(queue), SetQueue(queue),
         UNCHANGED <<enable_aux, portVars, overrun, hostVars>>,
         command' \in Commands, reset' = reset, active' \in BOOLEAN, scanning' \in BOOLEAN,
         reporting' \in BOOLEAN
  PROVE  KeyboardInv'
<1>1. /\ QueueOK(Queue)'
      /\ used' \in 0 .. KEYBUFSIZE /\ scheduled' \in BOOLEAN
      /\ transfers' \in Nat
      /\ buf8042_len' \in 0 .. MaxResponses /\ responses' \in 0 .. buf8042_len'
  BY SetQueueKeeps
<1>2. KeyboardTypeOK'
  BY <1>1 DEF KeyboardInv, KeyboardTypeOK, portVars, hostVars
<1>3. NoOverrun' /\ RepeatIsHeld' /\ ResetIsSilent'
  BY DEF KeyboardInv, NoOverrun, RepeatIsHeld, ResetIsSilent, hostVars
<1>. QED
  BY <1>1, <1>2, <1>3 DEF KeyboardInv

\* A transfer asked for where none is, with a port that is empty.
LEMMA RestartStep ==
  ASSUME KeyboardInv, NEW wanted \in BOOLEAN, Restarted(wanted),
         UNCHANGED <<enable_aux, used, answerVars, origin>>,
         p60changed' = FALSE \/ UNCHANGED p60changed,
         wanted => p60changed' = FALSE, ~wanted => UNCHANGED p60changed
  PROVE  /\ QueueOK(Queue)' /\ scheduled' \in BOOLEAN /\ transfers' \in Nat
<1>1. /\ enable_aux \in BOOLEAN /\ used \in Nat /\ responses \in Nat /\ scheduled \in BOOLEAN
      /\ transfers \in Nat /\ p60changed \in BOOLEAN /\ UNCHANGED <<buf8042_len, responses>>
  <2>1. KEYBUFSIZE \in Nat /\ MaxResponses \in Nat
    BY KeyboardAssumption
  <2>. QED
    BY <2>1 DEF KeyboardInv, KeyboardTypeOK, answerVars
<1>2. QueueOK(Queue)
  BY DEF KeyboardInv
<1>3. CASE wanted /\ used > 0 /\ ~scheduled
  <2>1. scheduled' = TRUE /\ transfers' = transfers + 1
    BY <1>3 DEF Restarted
  <2>2. enable_aux => transfers = responses
    BY <1>1, <1>2, <1>3 DEF QueueOK, Queue
  <2>3. /\ enable_aux => transfers' = responses' + 1
        /\ transfers' \in Nat /\ transfers' > 0 /\ responses' <= buf8042_len'
    BY <1>1, <1>2, <2>1, <2>2 DEF QueueOK, Queue
  <2>4. p60changed' = FALSE /\ enable_aux' = enable_aux
    BY <1>3
  <2>. QED
    BY <2>1, <2>3, <2>4 DEF QueueOK, Queue
<1>4. CASE ~(wanted /\ used > 0 /\ ~scheduled)
  <2>1. scheduled' = scheduled /\ transfers' = transfers
    BY <1>1, <1>4 DEF Restarted
  <2>. QED
    BY <1>1, <1>2, <1>4, <2>1 DEF QueueOK, Queue
<1>. QED
  BY <1>3, <1>4

LEMMA RestartedKeeps ==
  ASSUME KeyboardInv,
         \/ /\ p60changed' = FALSE /\ Restarted(TRUE)
         \/ /\ UNCHANGED p60changed
            /\ \E enable \in BOOLEAN : Restarted(~p60changed /\ enable),
         UNCHANGED <<enable_aux, used, answerVars, origin, reset, scanning, reporting, hostVars, overrun>>,
         command' \in Commands, active' \in BOOLEAN
  PROVE  KeyboardInv'
<1>1. QueueOK(Queue)' /\ scheduled' \in BOOLEAN /\ transfers' \in Nat
  <2>0. p60changed \in BOOLEAN
    BY DEF KeyboardInv, KeyboardTypeOK
  <2>1. CASE p60changed' = FALSE /\ Restarted(TRUE)
    BY <2>1, RestartStep
  <2>2. CASE UNCHANGED p60changed /\ \E enable \in BOOLEAN : Restarted(~p60changed /\ enable)
    <3>1. PICK enable \in BOOLEAN : Restarted(~p60changed /\ enable)
      BY <2>2
    <3>2. (~p60changed /\ enable) \in BOOLEAN
      BY <2>0
    <3>3. (~p60changed /\ enable) => p60changed' = FALSE
      BY <2>0, <2>2
    <3>. QED
      BY <2>2, <3>1, <3>2, <3>3, RestartStep
  <2>. QED
    BY <2>1, <2>2
<1>2. KeyboardTypeOK'
  BY <1>1 DEF KeyboardInv, KeyboardTypeOK, hostVars, answerVars
<1>3. NoOverrun' /\ RepeatIsHeld' /\ ResetIsSilent'
  BY DEF KeyboardInv, NoOverrun, RepeatIsHeld, ResetIsSilent, hostVars
<1>. QED
  BY <1>1, <1>2, <1>3 DEF KeyboardInv

\* Steps that leave the queue as it is.
LEMMA QueueAlone ==
  ASSUME KeyboardInv,
         UNCHANGED <<enable_aux, queueVars, answerVars, reset, scanning, reporting, hostVars, overrun>>,
         \/ UNCHANGED portVars
         \/ p60changed' = TRUE /\ origin' = "outport",
         command' \in Commands, active' \in BOOLEAN
  PROVE  KeyboardInv'
<1>1. QueueOK(Queue)'
  BY DEF KeyboardInv, QueueOK, Queue, queueVars, answerVars, portVars
<1>2. KeyboardTypeOK'
  BY DEF KeyboardInv, KeyboardTypeOK, queueVars, answerVars, portVars, hostVars
<1>3. NoOverrun' /\ RepeatIsHeld' /\ ResetIsSilent'
  BY DEF KeyboardInv, NoOverrun, RepeatIsHeld, ResetIsSilent, hostVars
<1>. QED
  BY <1>1, <1>2, <1>3 DEF KeyboardInv

\* A byte added to the queue of now, or two.
LEMMA NextQueues ==
  ASSUME KeyboardInv
  PROVE  /\ Queue \in Queues /\ QueueOK(Queue)
         /\ AddBuffer(Queue) \in Queues /\ QueueOK(AddBuffer(Queue))
         /\ AddBuffer(AddBuffer(Queue)) \in Queues /\ QueueOK(AddBuffer(AddBuffer(Queue)))
         /\ Acknowledge \in Queues /\ QueueOK(Acknowledge)
         /\ AddBuffer(AddBuffer(Acknowledge)) \in Queues /\ QueueOK(AddBuffer(AddBuffer(Acknowledge)))
<1>1. p60changed \in BOOLEAN /\ enable_aux \in BOOLEAN /\ Queue \in Queues /\ QueueOK(Queue)
  BY TypedQueue DEF KeyboardInv, KeyboardTypeOK
<1>2. AddBuffer(Queue) \in Queues /\ QueueOK(AddBuffer(Queue))
  BY <1>1, AddBufferKeeps
<1>3. AddBuffer(AddBuffer(Queue)) \in Queues /\ QueueOK(AddBuffer(AddBuffer(Queue)))
  BY <1>1, <1>2, AddBufferKeeps
<1>4. Acknowledge \in Queues /\ QueueOK(Acknowledge)
  BY <1>1, ClearedKeeps, AddBufferKeeps DEF Acknowledge
<1>5. AddBuffer(Acknowledge) \in Queues /\ QueueOK(AddBuffer(Acknowledge))
  BY <1>1, <1>4, AddBufferKeeps
<1>6. AddBuffer(AddBuffer(Acknowledge)) \in Queues /\ QueueOK(AddBuffer(AddBuffer(Acknowledge)))
  BY <1>1, <1>5, AddBufferKeeps
<1>. QED
  BY <1>1, <1>2, <1>3, <1>4, <1>6

LEMMA AddKeyStep ==
  ASSUME KeyboardInv, NEW key \in Keys, AddKey(key) PROVE KeyboardInv'
<1>0. key # NoKey
  BY KeyboardAssumption
<1>1. down' \subseteq Keys /\ repeatKey' \in Keys \cup {NoKey}
  BY DEF AddKey, Released, KeyboardInv, KeyboardTypeOK
<1>2. NoOverrun' /\ RepeatIsHeld' /\ ResetIsSilent'
  BY <1>0 DEF AddKey, Released, KeyboardInv, NoOverrun, RepeatIsHeld, ResetIsSilent
<1>3. QueueOK(Queue)' /\ used' \in 0 .. KEYBUFSIZE /\ scheduled' \in BOOLEAN
      /\ transfers' \in Nat
      /\ buf8042_len' \in 0 .. MaxResponses /\ responses' \in 0 .. buf8042_len'
  <2>1. CASE reset
    BY <2>1 DEF AddKey, KeyboardInv, KeyboardTypeOK, QueueOK, Queue, queueVars, answerVars, portVars
  <2>2. CASE ~reset
    <3>1. SetQueue(AddBuffer(Queue)) /\ UNCHANGED <<enable_aux, portVars>>
      BY <2>2 DEF AddKey
    <3>. QED
      BY <3>1, NextQueues, SetQueueKeeps
  <2>. QED
    BY <2>1, <2>2
<1>4. KeyboardTypeOK'
  BY <1>1, <1>3 DEF AddKey, KeyboardInv, KeyboardTypeOK, portVars
<1>. QED
  BY <1>2, <1>3, <1>4 DEF KeyboardInv

\* Repeats, packets, commands and their parameters: a queue is set.
LEMMA SetQueueSteps ==
  ASSUME KeyboardInv,
         \/ Repeat \/ AUX_Event \/ IdentifyKeyboard \/ WriteParameter \/ WriteAuxOutput
         \/ \E next \in {"none", "parameter", "scanset"}, scan \in BOOLEAN : KeyboardCommand(next, scan)
         \/ \E report \in BOOLEAN : AUX_Write(report) \/ MouseService(report)
  PROVE  KeyboardInv'
<1>0. /\ command \in Commands /\ reset \in BOOLEAN /\ active \in BOOLEAN /\ scanning \in BOOLEAN
      /\ reporting \in BOOLEAN
  BY DEF KeyboardInv, KeyboardTypeOK
<1>1. CASE Repeat \/ WriteAuxOutput
  BY <1>0, <1>1, NextQueues, QueueStep DEF Repeat, WriteAuxOutput
<1>2. CASE AUX_Event
  BY <1>0, <1>2, NextQueues, QueueStep DEF AUX_Event
<1>3. CASE IdentifyKeyboard
  BY <1>0, <1>3, NextQueues, QueueStep DEF IdentifyKeyboard
<1>4. CASE WriteParameter
  <2>0. command' \in Commands /\ UNCHANGED <<enable_aux, portVars, overrun, hostVars>>
        /\ reset' = reset /\ active' \in BOOLEAN /\ scanning' \in BOOLEAN /\ reporting' \in BOOLEAN
    BY <1>0, <1>4 DEF WriteParameter, Commands
  <2>1. CASE SetQueue(Acknowledge)
    BY <2>0, <2>1, NextQueues, QueueStep
  <2>2. CASE SetQueue(AddBuffer(Queue))
    BY <2>0, <2>2, NextQueues, QueueStep
  <2>3. CASE SetQueue(AddBuffer(AddBuffer(Queue)))
    BY <2>0, <2>3, NextQueues, QueueStep
  <2>. QED
    BY <1>4, <2>1, <2>2, <2>3 DEF WriteParameter
<1>5. ASSUME NEW next \in {"none", "parameter", "scanset"}, NEW scan \in BOOLEAN, KeyboardCommand(next, scan)
      PROVE  KeyboardInv'
  <2>1. command' \in Commands /\ UNCHANGED <<enable_aux, portVars, overrun, hostVars>>
        /\ reset' = reset /\ active' \in BOOLEAN /\ scanning' \in BOOLEAN /\ reporting' \in BOOLEAN
        /\ SetQueue(Acknowledge)
    BY <1>0, <1>5 DEF KeyboardCommand, Commands
  <2>. QED
    BY <2>1, NextQueues, QueueStep
<1>6. ASSUME NEW report \in BOOLEAN, AUX_Write(report) PROVE KeyboardInv'
  <2>0. command' \in Commands /\ UNCHANGED <<enable_aux, portVars, overrun, hostVars>>
        /\ reset' = reset /\ active' \in BOOLEAN /\ scanning' \in BOOLEAN /\ reporting' \in BOOLEAN
    BY <1>0, <1>6 DEF AUX_Write, Commands
  <2>1. CASE SetQueue(AddBuffer(Queue))
    BY <2>0, <2>1, NextQueues, QueueStep
  <2>2. CASE SetQueue(AddBuffer(AddBuffer(Queue)))
    BY <2>0, <2>2, NextQueues, QueueStep
  <2>. QED
    BY <1>6, <2>1, <2>2 DEF AUX_Write
<1>7. ASSUME NEW report \in BOOLEAN, MouseService(report) PROVE KeyboardInv'
  BY <1>0, <1>7, ClearedKeeps, QueueStep DEF MouseService
<1>. QED
  BY <1>1, <1>2, <1>3, <1>4, <1>5, <1>6, <1>7

LEMMA RestartSteps ==
  ASSUME KeyboardInv,
         read_p60 \/ Activate \/ \E enable \in BOOLEAN : SetCommand(enable)
  PROVE  KeyboardInv'
<1>0. command \in Commands /\ active \in BOOLEAN /\ p60changed \in BOOLEAN
  BY DEF KeyboardInv, KeyboardTypeOK
<1>1. CASE read_p60
  BY <1>0, <1>1, RestartedKeeps DEF read_p60, ReadRestarts
<1>2. CASE Activate
  <2>1. Restarted(~p60changed /\ TRUE)
    BY <1>2 DEF Activate, Restarted
  <2>. QED
    BY <1>0, <1>2, <2>1, RestartedKeeps DEF Activate, portVars
<1>3. ASSUME NEW enable \in BOOLEAN, SetCommand(enable) PROVE KeyboardInv'
  BY <1>0, <1>3, RestartedKeeps DEF SetCommand, portVars, Commands
<1>. QED
  BY <1>1, <1>2, <1>3

LEMMA AloneSteps ==
  ASSUME KeyboardInv,
         \/ SetOutport \/ Deactivate \/ OutportOnBuffer
         \/ \E next \in {"command", "output", "auxoutput", "aux", "outport"} : ControllerCommand(next)
  PROVE  KeyboardInv'
<1>0. command \in Commands /\ active \in BOOLEAN
  BY DEF KeyboardInv, KeyboardTypeOK
<1>1. CASE SetOutport
  BY <1>0, <1>1, QueueAlone DEF SetOutport, Commands
<1>2. CASE Deactivate
  BY <1>0, <1>2, QueueAlone DEF Deactivate
<1>3. CASE OutportOnBuffer
  BY <1>0, <1>3, QueueAlone DEF OutportOnBuffer
<1>4. ASSUME NEW next \in {"command", "output", "auxoutput", "aux", "outport"}, ControllerCommand(next)
      PROVE  KeyboardInv'
  BY <1>0, <1>4, QueueAlone DEF ControllerCommand, Commands
<1>. QED
  BY <1>1, <1>2, <1>3, <1>4

\* Answers bring their own transfers.
LEMMA AnswerSteps ==
  ASSUME KeyboardInv,
         ResetDelay \/ \E test \in BOOLEAN : Add8042Response(test)
  PROVE  KeyboardInv'
<1>0. /\ enable_aux \in BOOLEAN /\ used \in Nat /\ responses \in Nat /\ scheduled \in BOOLEAN
      /\ transfers \in Nat /\ p60changed \in BOOLEAN /\ MaxResponses \in Nat /\ active \in BOOLEAN
  <2>1. KEYBUFSIZE \in Nat /\ MaxResponses \in Nat
    BY KeyboardAssumption
  <2>. QED
    BY <2>1 DEF KeyboardInv, KeyboardTypeOK
<1>1. ASSUME NEW n \in 1 .. 2, Answered(n),
             reset' \in BOOLEAN, reset' => reset, active' \in BOOLEAN,
             UNCHANGED <<enable_aux, used, scheduled, portVars, command, scanning, reporting, hostVars, overrun>>
      PROVE  KeyboardInv'
  <2>0. /\ buf8042_len \in Nat /\ responses <= buf8042_len /\ buf8042_len + n <= MaxResponses
        /\ buf8042_len' = buf8042_len + n
        /\ responses' = responses + n /\ transfers' = transfers + n
    BY <1>0, <1>1 DEF Answered, KeyboardInv, KeyboardTypeOK
  <2>1. QueueOK(Queue)'
    <3>1. QueueOK(Queue)
      BY DEF KeyboardInv
    <3>2. CASE scheduled
      BY <1>0, <1>1, <2>0, <3>1, <3>2 DEF QueueOK, Queue, portVars
    <3>3. CASE ~scheduled
      BY <1>0, <1>1, <2>0, <3>1, <3>3 DEF QueueOK, Queue, portVars
    <3>. QED
      BY <3>2, <3>3
  <2>2. /\ buf8042_len' \in 0 .. MaxResponses /\ responses' \in 0 .. buf8042_len'
        /\ transfers' \in Nat
    BY <1>0, <1>1, <2>0
  <2>3. KeyboardTypeOK'
    BY <1>1, <2>2 DEF KeyboardInv, KeyboardTypeOK, portVars, hostVars
  <2>4. NoOverrun' /\ RepeatIsHeld' /\ ResetIsSilent'
    BY <1>1 DEF KeyboardInv, NoOverrun, RepeatIsHeld, ResetIsSilent, hostVars
  <2>. QED
    BY <2>1, <2>3, <2>4 DEF KeyboardInv
<1>2. CASE ResetDelay
  <2>1. UNCHANGED <<enable_aux, used, scheduled, portVars, command, scanning, reporting, hostVars, overrun>>
        /\ Answered(2) /\ reset' = FALSE /\ active' \in BOOLEAN
    BY <1>0, <1>2 DEF ResetDelay
  <2>. QED
    BY <1>1, <2>1, 2 \in 1 .. 2
<1>3. ASSUME NEW test \in BOOLEAN, Add8042Response(test) PROVE KeyboardInv'
  <2>1. Answered(1) /\ active' \in BOOLEAN /\ reset' \in BOOLEAN /\ (reset' => reset)
    BY <1>0, <1>3 DEF Add8042Response, KeyboardInv, KeyboardTypeOK
  <2>. QED
    <3>1. UNCHANGED <<enable_aux, used, scheduled, portVars, command, scanning, reporting, hostVars, overrun>>
      BY <1>3 DEF Add8042Response
    <3>. QED
      BY <1>1, <2>1, <3>1, 1 \in 1 .. 2
<1>. QED
  BY <1>2, <1>3

LEMMA KeyboardResetStep ==
  ASSUME KeyboardInv, KeyboardReset PROVE KeyboardInv'
<1>0. KEYBUFSIZE \in Nat /\ MaxResponses \in Nat \ {0}
  BY KeyboardAssumption
<1>1. QueueOK(Queue)'
  BY DEF KeyboardReset, QueueOK, Queue
<1>2. KeyboardTypeOK'
  <2>1. /\ used' \in 0 .. KEYBUFSIZE /\ transfers' \in Nat
        /\ buf8042_len' \in 0 .. MaxResponses /\ responses' \in 0 .. buf8042_len'
    BY <1>0 DEF KeyboardReset
  <2>. QED
    BY <2>1 DEF KeyboardReset, KeyboardInv, KeyboardTypeOK
<1>3. NoOverrun' /\ RepeatIsHeld' /\ ResetIsSilent'
  BY DEF KeyboardReset, KeyboardInv, NoOverrun, RepeatIsHeld, ResetIsSilent
<1>. QED
  BY <1>1, <1>2, <1>3 DEF KeyboardInv

\* With a mouse port a transfer of the buffer is one that was asked for, and
\* what it finds in the port has not come from the buffer.
LEMMA TransferStep ==
  ASSUME KeyboardInv, TransferBuffer PROVE KeyboardInv'
<1>0. /\ enable_aux \in BOOLEAN /\ used \in Nat /\ used <= KEYBUFSIZE /\ responses \in Nat
      /\ buf8042_len \in 0 .. MaxResponses /\ responses <= buf8042_len /\ scheduled \in BOOLEAN
      /\ transfers \in Nat /\ transfers > 0 /\ p60changed \in BOOLEAN
      /\ KEYBUFSIZE \in Nat /\ MaxResponses \in Nat /\ QueueOK(Queue)
  <2>1. KEYBUFSIZE \in Nat /\ MaxResponses \in Nat
    BY KeyboardAssumption
  <2>. QED
    BY <2>1 DEF KeyboardInv, KeyboardTypeOK, TransferBuffer
<1>1. RepeatIsHeld' /\ ResetIsSilent'
  BY DEF TransferBuffer, KeyboardInv, RepeatIsHeld, ResetIsSilent, hostVars
<1>2. CASE TransferResponse
  <2>0. /\ enable_aux = TRUE /\ responses > 0 /\ enable_aux' = enable_aux
        /\ responses' = responses - 1 /\ transfers' = transfers - 1
        /\ buf8042_len' = (IF responses = 1 THEN 0 ELSE buf8042_len)
        /\ p60changed' = TRUE /\ origin' = "controller"
        /\ UNCHANGED <<used, scheduled, overrun>>
    BY <1>0, <1>2 DEF TransferBuffer, TransferResponse
  <2>1. transfers = responses + (IF scheduled THEN 1 ELSE 0)
    BY <1>0, <2>0 DEF QueueOK, Queue
  <2>2. transfers' = responses' + (IF scheduled' THEN 1 ELSE 0)
    BY <1>0, <2>0, <2>1
  <2>4. /\ buf8042_len' \in 0 .. MaxResponses /\ responses' \in 0 .. buf8042_len'
        /\ transfers' \in Nat
    BY <1>0, <2>0
  <2>3. QueueOK(Queue)'
    <3>1. responses' <= buf8042_len'
      BY <1>0, <2>0
    <3>. QED
      BY <2>0, <2>2, <3>1 DEF QueueOK, Queue
  <2>5. KeyboardTypeOK'
    BY <2>0, <2>4 DEF TransferBuffer, KeyboardInv, KeyboardTypeOK, hostVars
  <2>6. NoOverrun'
    BY <2>0 DEF KeyboardInv, NoOverrun
  <2>. QED
    BY <1>1, <2>3, <2>5, <2>6 DEF KeyboardInv
<1>3. CASE ~TransferResponse
  <2>0. /\ enable_aux' = enable_aux /\ transfers' = transfers - 1 /\ responses' = responses
        /\ scheduled' = FALSE /\ transfers' \in Nat /\ buf8042_len' = buf8042_len
        /\ enable_aux => responses = 0
    BY <1>0, <1>3 DEF TransferBuffer, TransferResponse, answerVars
  <2>1. enable_aux => scheduled = TRUE /\ transfers = 1
    BY <1>0, <2>0 DEF QueueOK, Queue
  <2>2. CASE used = 0
    <3>0. UNCHANGED <<used, portVars, overrun>>
      BY <1>3, <2>2 DEF TransferBuffer
    <3>1. QueueOK(Queue)'
      BY <1>0, <2>0, <2>1, <2>2, <3>0 DEF QueueOK, Queue
    <3>2. KeyboardTypeOK'
      BY <2>0, <3>0 DEF TransferBuffer, KeyboardInv, KeyboardTypeOK, hostVars, portVars
    <3>3. NoOverrun'
      BY <2>0, <3>0 DEF KeyboardInv, NoOverrun
    <3>. QED
      BY <1>1, <3>1, <3>2, <3>3 DEF KeyboardInv
  <2>3. CASE used # 0
    <3>0. /\ used' = used - 1 /\ p60changed' = TRUE /\ origin' = "buffer"
          /\ overrun' = (overrun \/ (p60changed /\ origin = "buffer"))
      BY <1>3, <2>3 DEF TransferBuffer
    <3>1. used' \in 0 .. KEYBUFSIZE
      BY <1>0, <2>3, <3>0
    <3>2. enable_aux => ~(p60changed /\ origin = "buffer")
      BY <1>0, <2>1 DEF QueueOK, Queue
    <3>3. NoOverrun'
      BY <2>0, <3>0, <3>2 DEF KeyboardInv, NoOverrun
    <3>4. QueueOK(Queue)'
      BY <1>0, <2>0, <2>1, <3>0 DEF QueueOK, Queue
    <3>5. KeyboardTypeOK'
      BY <2>0, <3>0, <3>1 DEF TransferBuffer, KeyboardInv, KeyboardTypeOK, hostVars
    <3>. QED
      BY <1>1, <3>3, <3>4, <3>5 DEF KeyboardInv
  <2>. QED
    BY <2>2, <2>3
<1>. QED
  BY <1>2, <1>3

----------------------------------------------------------------------------

LEMMA KeyboardInitInv == KeyboardInit => KeyboardInv
<1> SUFFICES ASSUME KeyboardInit PROVE KeyboardInv
  OBVIOUS
<1>0. KEYBUFSIZE \in Nat /\ MaxResponses \in Nat
  BY KeyboardAssumption
<1>1. KeyboardTypeOK
  <2>1. /\ used \in 0 .. KEYBUFSIZE /\ transfers \in Nat
        /\ buf8042_len \in 0 .. MaxResponses /\ responses \in 0 .. buf8042_len
    BY <1>0 DEF KeyboardInit
  <2>2. command \in Commands /\ down \subseteq Keys
    BY DEF KeyboardInit, Commands
  <2>. QED
    BY <2>1, <2>2 DEF KeyboardInit, KeyboardTypeOK
<1>2. QueueOK(Queue)
  BY DEF KeyboardInit, QueueOK, Queue
<1>. QED
  BY <1>1, <1>2 DEF KeyboardInit, KeyboardInv, NoOverrun, RepeatIsHeld, ResetIsSilent

LEMMA KeyboardNextInv == KeyboardInv /\ [KeyboardNext]_keyboardVars => KeyboardInv'
<1> SUFFICES ASSUME KeyboardInv, [KeyboardNext]_keyboardVars PROVE KeyboardInv'
  OBVIOUS
<1>1. ASSUME NEW key \in Keys, AddKey(key) PROVE KeyboardInv'
  BY <1>1, AddKeyStep
<1>2. CASE TransferBuffer
  BY <1>2, TransferStep
<1>3. CASE write_p60
  BY <1>3, SetQueueSteps, KeyboardResetStep, RestartSteps, AloneSteps DEF write_p60
<1>4. CASE write_p64
  BY <1>4, AnswerSteps, RestartSteps, AloneSteps DEF write_p64
<1>5. CASE Repeat \/ AUX_Event \/ ResetDelay \/ read_p60 \/ \E report \in BOOLEAN : MouseService(report)
  BY <1>5, SetQueueSteps, AnswerSteps, RestartSteps
<1>6. CASE UNCHANGED keyboardVars
  BY <1>6 DEF KeyboardInv, KeyboardTypeOK, QueueOK, Queue, NoOverrun, RepeatIsHeld, ResetIsSilent,
              keyboardVars, queueVars, answerVars, portVars, hostVars
<1>. QED
  BY <1>1, <1>2, <1>3, <1>4, <1>5, <1>6 DEF KeyboardNext

\* The inductive invariant of the controller holds in every behaviour.
THEOREM KeyboardInvariance == KeyboardSpec => []KeyboardInv
<1>. QED
  BY KeyboardInitInv, KeyboardNextInv, PTL DEF KeyboardSpec

\* Buffers stay within their sizes, and the rest within its type.
THEOREM KeyboardTyped == KeyboardSpec => []KeyboardTypeOK
<1>1. KeyboardInv => KeyboardTypeOK
  BY DEF KeyboardInv
<1>. QED
  BY <1>1, KeyboardInvariance, PTL

\* Transfers match what waits for them, and a byte in the buffer has one asked
\* for or a byte before it that is still to be read.
THEOREM NoByteIsStranded == KeyboardSpec => []NoByteStranded
<1>1. KeyboardInv => NoByteStranded
  BY DEF KeyboardInv, KeyboardTypeOK, QueueOK, Queue, NoByteStranded, TransfersMatch, NoByteForgotten
<1>. QED
  BY <1>1, KeyboardInvariance, PTL

\* With a mouse port no byte that has not been read is put over.
THEOREM NoByteIsOverrun == KeyboardSpec => []NoOverrun
<1>1. KeyboardInv => NoOverrun
  BY DEF KeyboardInv
<1>. QED
  BY <1>1, KeyboardInvariance, PTL

\* Only a key that is held is repeated, also over a reset of the keyboard.
THEOREM OnlyHeldKeysRepeat == KeyboardSpec => []RepeatIsHeld
<1>1. KeyboardInv => RepeatIsHeld
  BY DEF KeyboardInv
<1>. QED
  BY <1>1, KeyboardInvariance, PTL

----------------------------------------------------------------------------
(* The serial port of the PC-98. *)

\* The byte that is ready goes before the ring: what taking one from the front
\* and putting one at the back does to the two together.
LEMMA AtTheFront ==
  ASSUME NEW q \in Seq(Codes), NEW code \in Codes
  PROVE  /\ <<code>> \o q \in Seq(Codes)
         /\ Tail(<<code>> \o q) = q
         /\ \A e \in Codes : <<code>> \o Append(q, e) = Append(<<code>> \o q, e)
         /\ <<>> \o q = q
<1>1. /\ <<code>> \o q \in Seq(Codes) /\ Len(<<code>> \o q) = Len(q) + 1
      /\ \A i \in 1 .. Len(q) + 1 : (<<code>> \o q)[i] = IF i <= 1 THEN code ELSE q[i - 1]
  BY ConcatProperties
<1>2. Tail(<<code>> \o q) = q
  BY <1>1
<1>3. \A e \in Codes : <<code>> \o Append(q, e) = Append(<<code>> \o q, e)
  BY <1>1
<1>4. <<>> \o q = q
  BY ConcatEmptySeq
<1>. QED
  BY <1>1, <1>2, <1>3, <1>4

LEMMA HeadAndTail ==
  ASSUME NEW q \in Seq(Codes), q # <<>>
  PROVE  /\ Head(q) \in Codes /\ Tail(q) \in Seq(Codes) /\ Len(Tail(q)) = Len(q) - 1
         /\ <<Head(q)>> \o Tail(q) = q
  OBVIOUS

\* Ready before the ring, as ReadInOrder has it.
Ready == IF rx_ready THEN <<data>> ELSE <<>>

UartInv == UartTypeOK /\ BusyMeansLoading /\ ReadInOrder

LEMMA UartInitInv == UartInit => UartInv
<1> SUFFICES ASSUME UartInit PROVE UartInv
  OBVIOUS
<1>1. Ring \in Nat /\ Ring >= 2
  BY UartAssumption
<1>2. <<>> \in Seq(Codes) /\ Len(<<>>) = 0 /\ <<>> \o <<>> = <<>>
  BY EmptySeq, ConcatEmptySeq
<1>3. UartTypeOK
  <2>1. Len(recv) < Ring /\ recv \in Seq(Codes) /\ owed \in Seq(Codes)
    BY <1>1, <1>2 DEF UartInit
  <2>. QED
    BY <2>1 DEF UartInit, UartTypeOK
<1>4. BusyMeansLoading /\ ReadInOrder
  BY <1>2 DEF UartInit, BusyMeansLoading, ReadInOrder
<1>. QED
  BY <1>3, <1>4 DEF UartInv

\* A byte of the keyboard, into a ring with room or a full one.
LEMMA SendStep ==
  ASSUME UartInv, NEW code \in Codes, device_send_data(code) PROVE UartInv'
<1>0. /\ recv \in Seq(Codes) /\ owed \in Seq(Codes) /\ Len(recv) \in Nat /\ Len(recv) < Ring /\ data \in Codes
      /\ Ring \in Nat /\ Ring >= 2 /\ rx_busy \in BOOLEAN /\ rx_ready \in BOOLEAN /\ loads \in Nat
  BY UartAssumption DEF UartInv, UartTypeOK
<1>1. rx_busy' = TRUE /\ loads' = 1
  <2>0. (rx_busy => loads = 1) /\ (~rx_busy => loads = 0)
    BY DEF UartInv, BusyMeansLoading
  <2>1. rx_busy' = TRUE /\ loads' = IF ~rx_busy THEN loads + 1 ELSE loads
    BY DEF device_send_data, StartLoad
  <2>2. CASE rx_busy
    BY <2>0, <2>1, <2>2
  <2>3. CASE ~rx_busy
    BY <2>0, <2>1, <2>3
  <2>. QED
    BY <2>2, <2>3
<1>2. CASE Full
  <2>1. recv' = recv /\ owed' = owed /\ recv # <<>>
    BY <1>0, <1>2 DEF device_send_data, Full
  <2>2. UartTypeOK'
    BY <1>1, <2>1 DEF device_send_data, UartInv, UartTypeOK, txVars, modeVars
  <2>3. BusyMeansLoading'
    BY <1>1, <2>1 DEF device_send_data, UartInv, BusyMeansLoading, txVars
  <2>4. ReadInOrder'
    BY <2>1 DEF device_send_data, UartInv, ReadInOrder
  <2>. QED
    BY <2>2, <2>3, <2>4 DEF UartInv
<1>3. CASE ~Full
  <2>1. recv' = Append(recv, code) /\ owed' = Append(owed, code)
    BY <1>3 DEF device_send_data
  <2>2. /\ recv' \in Seq(Codes) /\ owed' \in Seq(Codes) /\ recv' # <<>> /\ Len(recv') < Ring
    BY <1>0, <1>3, <2>1 DEF Full
  <2>3. UartTypeOK'
    BY <1>1, <2>2 DEF device_send_data, UartInv, UartTypeOK, txVars, modeVars
  <2>4. BusyMeansLoading'
    BY <1>1, <2>2 DEF device_send_data, UartInv, BusyMeansLoading, txVars
  <2>5. ReadInOrder'
    <3>1. owed = Ready \o recv
      BY DEF UartInv, ReadInOrder, Ready
    <3>2. Append(Ready \o recv, code) = Ready \o Append(recv, code)
      <4>1. CASE rx_ready
        BY <1>0, <4>1, AtTheFront DEF Ready
      <4>2. CASE ~rx_ready
        BY <1>0, <4>2, ConcatEmptySeq, AppendProperties DEF Ready
      <4>. QED
        BY <4>1, <4>2
    <3>3. Ready' = Ready
      BY DEF Ready, device_send_data
    <3>. QED
      BY <2>1, <3>1, <3>2, <3>3 DEF ReadInOrder, Ready
  <2>. QED
    BY <2>3, <2>4, <2>5 DEF UartInv
<1>. QED
  BY <1>2, <1>3

\* A load: it always has a byte, and takes it only once the last has been read.
LEMMA LoadStep ==
  ASSUME UartInv, rx_load_complete PROVE UartInv'
<1>0. /\ recv \in Seq(Codes) /\ owed \in Seq(Codes) /\ Len(recv) \in Nat /\ Len(recv) < Ring /\ data \in Codes
      /\ rx_busy \in BOOLEAN /\ rx_ready \in BOOLEAN /\ loads \in Nat /\ loads > 0 /\ Ring \in Nat
  BY UartAssumption DEF UartInv, UartTypeOK, rx_load_complete
<1>1. rx_busy = TRUE /\ loads = 1 /\ recv # <<>>
  BY <1>0 DEF UartInv, BusyMeansLoading
<1>2. CASE rx_ready
  <2>1. rx_busy' = FALSE /\ loads' = 0 /\ UNCHANGED <<rx_ready, data, recv, owed, txVars, modeVars>>
    BY <1>1, <1>2 DEF rx_load_complete, Loads
  <2>. QED
    BY <2>1 DEF UartInv, UartTypeOK, BusyMeansLoading, ReadInOrder, txVars, modeVars
<1>3. CASE ~rx_ready
  <2>1. /\ rx_ready' = TRUE /\ data' = Head(recv) /\ recv' = Tail(recv)
        /\ rx_busy' = (recv' # <<>>) /\ owed' = owed
        /\ loads' = IF recv' # <<>> THEN loads ELSE loads - 1
        /\ UNCHANGED <<txVars, modeVars>>
    BY <1>3 DEF rx_load_complete, Loads
  <2>2. /\ data' \in Codes /\ recv' \in Seq(Codes) /\ Len(recv') < Ring
        /\ <<data'>> \o recv' = recv
    BY <1>0, <1>1, <2>1, HeadAndTail
  <2>3. BusyMeansLoading'
    <3>1. (recv' # <<>> => loads' = 1) /\ (recv' = <<>> => loads' = 0)
      BY <1>1, <2>1
    <3>. QED
      BY <2>1, <3>1 DEF UartInv, BusyMeansLoading, txVars
  <2>4. loads' \in Nat /\ rx_busy' \in BOOLEAN
    BY <1>1, <2>1
  <2>5. UartTypeOK'
    BY <2>1, <2>2, <2>4 DEF UartInv, UartTypeOK, txVars, modeVars
  <2>6. owed = recv
    BY <1>0, <1>3, ConcatEmptySeq DEF UartInv, ReadInOrder
  <2>7. ReadInOrder'
    BY <2>1, <2>2, <2>6 DEF ReadInOrder
  <2>. QED
    BY <2>3, <2>5, <2>7 DEF UartInv
<1>. QED
  BY <1>0, <1>2, <1>3

LEMMA ReadStep ==
  ASSUME UartInv, read_data PROVE UartInv'
<1>0. /\ recv \in Seq(Codes) /\ owed \in Seq(Codes) /\ data \in Codes
      /\ rx_busy \in BOOLEAN /\ rx_ready \in BOOLEAN /\ loads \in Nat
  BY DEF UartInv, UartTypeOK
<1>1. owed' = recv
  <2>1. CASE rx_ready
    BY <1>0, <2>1, AtTheFront DEF read_data, UartInv, ReadInOrder
  <2>2. CASE ~rx_ready
    BY <1>0, <2>2, ConcatEmptySeq DEF read_data, UartInv, ReadInOrder
  <2>. QED
    BY <2>1, <2>2
<1>2. ReadInOrder'
  <2>1. rx_ready' = FALSE /\ recv' = recv
    BY DEF read_data
  <2>. QED
    BY <1>0, <1>1, <2>1, ConcatEmptySeq DEF ReadInOrder
<1>3. /\ loads' = IF rx_busy' THEN 1 ELSE 0
      /\ rx_busy' => recv # <<>>
      /\ loads' \in Nat /\ rx_busy' \in BOOLEAN
  <2>1. (loads = IF rx_busy THEN 1 ELSE 0) /\ (rx_busy => recv # <<>>)
    BY DEF UartInv, BusyMeansLoading
  <2>2. rx_busy' = (rx_busy \/ recv # <<>>) /\ loads' = IF recv # <<>> /\ ~rx_busy THEN loads + 1 ELSE loads
    BY DEF read_data, ReadStarts, StartLoad
  <2>3. CASE recv # <<>>
    <3>1. rx_busy' = TRUE /\ loads' = 1
      <4>1. CASE rx_busy
        BY <2>1, <2>2, <4>1
      <4>2. CASE ~rx_busy
        <5>1. loads = 0 /\ loads' = loads + 1
          BY <2>1, <2>2, <2>3, <4>2
        <5>2. rx_busy' = TRUE
          BY <2>2, <2>3, Zenon
        <5>. QED
          BY <5>1, <5>2
      <4>. QED
        BY <4>1, <4>2
    <3>. QED
      BY <2>3, <3>1
  <2>4. CASE recv = <<>>
    <3>1. rx_busy' = FALSE /\ loads' = 0
      BY <1>0, <2>1, <2>2, <2>4
    <3>. QED
      BY <3>1
  <2>. QED
    BY <2>3, <2>4
<1>4. UartTypeOK' /\ BusyMeansLoading'
  BY <1>0, <1>1, <1>3 DEF read_data, UartInv, UartTypeOK, BusyMeansLoading, txVars, modeVars
<1>. QED
  BY <1>2, <1>4 DEF UartInv

\* The transmitter, the mode, and the reset of the machine.
LEMMA UartGuestStep ==
  ASSUME UartInv,
         \/ write_data \/ tx_load_complete \/ xmit_finish \/ uart_reset
         \/ \E value \in {"keyboard", "sync", "other", "reset"} : writecmd(value)
  PROVE  UartInv'
<1>0. txLoads \in Nat /\ txSends \in Nat /\ tx_busy \in BOOLEAN /\ (tx_busy => txLoads > 0)
  BY DEF UartInv, UartTypeOK, BusyMeansLoading
<1>1. ASSUME UNCHANGED <<rxVars, owed>>,
             tx_busy' \in BOOLEAN, txLoads' \in Nat, txSends' \in Nat, tx_busy' => txLoads' > 0,
             state' \in {"mode", "sync", "command"}, valid_state' \in BOOLEAN
      PROVE  UartInv'
  BY <1>1 DEF UartInv, UartTypeOK, BusyMeansLoading, ReadInOrder, rxVars
<1>2. state \in {"mode", "sync", "command"} /\ valid_state \in BOOLEAN
  BY DEF UartInv, UartTypeOK
<1>3. CASE write_data
  <2>1. tx_busy' \in BOOLEAN /\ txLoads' \in Nat /\ txSends' \in Nat /\ (tx_busy' => txLoads' > 0)
    <3>1. CASE valid_state /\ ~tx_busy
      BY <1>0, <1>3, <3>1 DEF write_data
    <3>2. CASE ~(valid_state /\ ~tx_busy)
      BY <1>0, <1>3, <3>2 DEF write_data, txVars
    <3>. QED
      BY <3>1, <3>2
  <2>. QED
    BY <1>1, <1>2, <1>3, <2>1 DEF write_data, modeVars
<1>4. CASE tx_load_complete
  <2>1. tx_busy' = FALSE /\ txLoads' \in Nat /\ txSends' \in Nat
    BY <1>0, <1>4 DEF tx_load_complete
  <2>. QED
    BY <1>1, <1>2, <1>4, <2>1 DEF tx_load_complete, modeVars
<1>5. CASE xmit_finish
  <2>1. tx_busy' = FALSE /\ txLoads' \in Nat /\ txSends' \in Nat
    BY <1>0, <1>5 DEF xmit_finish
  <2>. QED
    BY <1>1, <1>2, <1>5, <2>1 DEF xmit_finish, modeVars
<1>6. ASSUME NEW value \in {"keyboard", "sync", "other", "reset"}, writecmd(value) PROVE UartInv'
  <2>1. state' \in {"mode", "sync", "command"} /\ valid_state' \in BOOLEAN
    BY <1>2, <1>6 DEF writecmd
  <2>. QED
    BY <1>0, <1>1, <1>6, <2>1 DEF writecmd, txVars
<1>7. CASE uart_reset
  <2>1. Ring \in Nat /\ Ring >= 2 /\ <<>> \in Seq(Codes) /\ Len(<<>>) = 0 /\ <<>> \o <<>> = <<>>
    BY UartAssumption, EmptySeq, ConcatEmptySeq
  <2>2. UartTypeOK'
    <3>1. Len(recv') < Ring /\ recv' \in Seq(Codes) /\ owed' \in Seq(Codes)
      BY <1>7, <2>1 DEF uart_reset
    <3>. QED
      BY <1>7, <3>1 DEF uart_reset, ResetRx, UartInv, UartTypeOK
  <2>3. BusyMeansLoading' /\ ReadInOrder'
    BY <1>7, <2>1 DEF uart_reset, ResetRx, BusyMeansLoading, ReadInOrder
  <2>. QED
    BY <2>2, <2>3 DEF UartInv
<1>. QED
  BY <1>3, <1>4, <1>5, <1>6, <1>7

LEMMA UartNextInv == UartInv /\ [UartNext]_uartVars => UartInv'
<1> SUFFICES ASSUME UartInv, [UartNext]_uartVars PROVE UartInv'
  OBVIOUS
<1>1. ASSUME NEW code \in Codes, device_send_data(code) PROVE UartInv'
  BY <1>1, SendStep
<1>2. CASE UNCHANGED uartVars
  BY <1>2 DEF UartInv, UartTypeOK, BusyMeansLoading, ReadInOrder, uartVars, rxVars, txVars, modeVars
<1>. QED
  BY <1>1, <1>2, LoadStep, ReadStep, UartGuestStep DEF UartNext

\* The inductive invariant of the serial port holds in every behaviour.
THEOREM UartInvariance == UartSpec => []UartInv
<1>. QED
  BY UartInitInv, UartNextInv, PTL DEF UartSpec

\* What the guest reads is what the keyboard has sent, in order and once.
THEOREM EachByteReadOnce == UartSpec => []ReadInOrder
<1>1. UartInv => ReadInOrder
  BY DEF UartInv
<1>. QED
  BY <1>1, UartInvariance, PTL

\* A receiver that is busy has exactly one load on its way and a byte for it: it
\* is never busy for good.
THEOREM NeverBusyForNothing == UartSpec => []BusyMeansLoading
<1>1. UartInv => BusyMeansLoading
  BY DEF UartInv
<1>. QED
  BY <1>1, UartInvariance, PTL

----------------------------------------------------------------------------
(* The events of INT 33h. *)

\* What the events say: those taken, then those that wait.
Said(queue, before) == IF queue = <<>> THEN before ELSE Last(queue)

MouseEventsInv == MouseEventsTypeOK /\ EventsHaveTimer /\ LastEventIsTrue

\* An event at the back is the last.
LEMMA AtTheBack ==
  ASSUME NEW S, NEW q \in Seq(S), NEW e \in S, NEW before
  PROVE  /\ Append(q, e) \in Seq(S) /\ Len(Append(q, e)) = Len(q) + 1
         /\ Append(q, e) # <<>> /\ Said(Append(q, e), before) = e
<1>1. /\ Append(q, e) \in Seq(S) /\ Len(Append(q, e)) = Len(q) + 1
      /\ Append(q, e) # <<>> /\ Append(q, e)[Len(q) + 1] = e
  BY AppendProperties
<1>. QED
  BY <1>1 DEF Said, Last

\* The oldest taken leaves the last what it was.
LEMMA FromTheFront ==
  ASSUME NEW S, NEW q \in Seq(S), q # <<>>, NEW before
  PROVE  /\ Head(q) \in S /\ Tail(q) \in Seq(S) /\ Len(Tail(q)) = Len(q) - 1
         /\ Tail(q) # q /\ Said(Tail(q), Head(q)) = Said(q, before)
<1>1. /\ Head(q) \in S /\ Tail(q) \in Seq(S) /\ Len(Tail(q)) = Len(q) - 1
      /\ \A i \in 1 .. Len(Tail(q)) : Tail(q)[i] = q[i + 1]
      /\ Len(q) \in Nat \ {0} /\ Head(q) = q[1]
  BY HeadTailProperties, EmptySeq
<1> DEFINE m == Len(Tail(q))
           n == Len(q)
<1>2. m = n - 1 /\ n \in Nat \ {0} /\ Len(<<>>) = 0
  BY <1>1
<1> HIDE DEF m, n
<1>3. m # n /\ (m = 0 => n = 1) /\ (m # 0 => m \in 1 .. m /\ m + 1 = n)
  BY <1>2
<1>4. Tail(q) # q
  <2>1. Tail(q) = q => m = n
    BY Zenon DEF m, n
  <2>. QED
    BY <1>3, <2>1
<1>5. CASE Tail(q) = <<>>
  <2>1. m = 0
    BY <1>2, <1>5, Zenon DEF m
  <2>2. q[Len(q)] = Head(q)
    BY <1>1, <1>3, <2>1 DEF n
  <2>. QED
    BY <1>1, <1>4, <1>5, <2>2, Zenon DEF Said, Last
<1>6. CASE Tail(q) # <<>>
  <2>1. m # 0
    BY <1>1, <1>6, EmptySeq DEF m
  <2>2. Tail(q)[Len(Tail(q))] = q[Len(q)]
    BY <1>1, <1>3, <2>1 DEF m, n
  <2>. QED
    BY <1>1, <1>4, <1>6, <2>2, Zenon DEF Said, Last
<1>. QED
  BY <1>1, <1>4, <1>5, <1>6

LEMMA Sizes == QUEUE_SIZE \in Nat \ {0} /\ MaxNested \in Nat \ {0}
BY MouseEventsAssumption

LEMMA MouseEventsInitInv == MouseEventsInit => MouseEventsInv
<1> SUFFICES ASSUME MouseEventsInit PROVE MouseEventsInv
  OBVIOUS
<1>1. events \in Seq(SUBSET MouseButtons) /\ Len(events) <= QUEUE_SIZE /\ events = <<>>
  BY Sizes, EmptySeq DEF MouseEventsInit
<1>2. returning \in 0 .. MaxNested
  BY Sizes DEF MouseEventsInit
<1>3. MouseEventsTypeOK
  BY <1>1, <1>2 DEF MouseEventsInit, MouseEventsTypeOK
<1>. QED
  BY <1>1, <1>3 DEF MouseEventsInit, MouseEventsInv, EventsHaveTimer, LastEventIsTrue

\* A button: queued last, or told to nobody at a full queue and with a PS/2 mouse.
LEMMA ButtonStep ==
  ASSUME MouseEventsInv, NEW button \in MouseButtons, Mouse_Button(button) PROVE MouseEventsInv'
<1>0. /\ events \in Seq(SUBSET MouseButtons) /\ Len(events) <= QUEUE_SIZE /\ Len(events) \in Nat
      /\ QUEUE_SIZE \in Nat \ {0} /\ buttons \subseteq MouseButtons
      /\ irq \in BOOLEAN /\ timer_in_progress \in BOOLEAN /\ pc98 \in BOOLEAN
  BY Sizes DEF MouseEventsInv, MouseEventsTypeOK
<1>1. buttons' \in SUBSET MouseButtons
  BY <1>0 DEF Mouse_Button
<1>2. CASE aux
  <2>1. untold' = TRUE /\ UNCHANGED <<events, timer_in_progress, irq>>
    BY <1>2 DEF Mouse_Button, timerVars
  <2>2. MouseEventsTypeOK'
    BY <1>1, <2>1 DEF Mouse_Button, guestVars, MouseEventsInv, MouseEventsTypeOK
  <2>. QED
    BY <2>1, <2>2 DEF MouseEventsInv, EventsHaveTimer, LastEventIsTrue
<1>3. CASE ~aux
  <2>0. events' = Queued(buttons') /\ untold' = (Len(events) >= QUEUE_SIZE) /\ StartTimer
    BY <1>3 DEF Mouse_Button
  <2>1. timer_in_progress' = TRUE /\ irq' \in BOOLEAN
    BY <1>0, <2>0 DEF StartTimer
  <2>2. /\ events' \in Seq(SUBSET MouseButtons) /\ Len(events') <= QUEUE_SIZE
        /\ untold' \in BOOLEAN /\ (~untold' => buttons' = Said(events', told'))
    <3>1. CASE Len(events) < QUEUE_SIZE
      <4>1. events' = Append(events, buttons')
        BY <2>0, <3>1, Zenon DEF Queued
      <4>2. untold' = FALSE
        <5>1. (Len(events) >= QUEUE_SIZE) = FALSE
          BY <1>0, <3>1
        <5>. QED
          BY <2>0, <5>1, Zenon
      <4>3. /\ Append(events, buttons') \in Seq(SUBSET MouseButtons)
            /\ Len(Append(events, buttons')) = Len(events) + 1
            /\ Said(Append(events, buttons'), told') = buttons'
        BY <1>0, <1>1, AtTheBack
      <4>4. Len(events) + 1 <= QUEUE_SIZE
        BY <1>0, <3>1
      <4>5. /\ events' \in Seq(SUBSET MouseButtons) /\ Len(events') = Len(events) + 1
            /\ Said(events', told') = buttons'
        BY <4>1, <4>3, Zenon
      <4>6. Len(events') <= QUEUE_SIZE
        BY <4>4, <4>5
      <4>. QED
        BY <4>2, <4>5, <4>6, Zenon
    <3>2. CASE ~(Len(events) < QUEUE_SIZE)
      <4>1. Queued(buttons') = events
        BY <3>2, Zenon DEF Queued
      <4>2. Len(events) >= QUEUE_SIZE
        BY <1>0, <3>2
      <4>3. events' = events /\ untold' = TRUE
        BY <2>0, <4>1, <4>2, Zenon
      <4>. QED
        BY <1>0, <4>3
    <3>. QED
      BY <3>1, <3>2
  <2>3. MouseEventsTypeOK'
    BY <1>1, <2>1, <2>2 DEF Mouse_Button, guestVars, MouseEventsInv, MouseEventsTypeOK
  <2>. QED
    BY <2>1, <2>2, <2>3 DEF MouseEventsInv, EventsHaveTimer, LastEventIsTrue, Said
<1>. QED
  BY <1>2, <1>3

LEMMA MovedStep ==
  ASSUME MouseEventsInv, Mouse_Moved PROVE MouseEventsInv'
<1>0. /\ events = <<>> /\ events \in Seq(SUBSET MouseButtons) /\ Len(events) = 0
      /\ QUEUE_SIZE \in Nat \ {0} /\ buttons \in SUBSET MouseButtons
      /\ irq \in BOOLEAN /\ timer_in_progress \in BOOLEAN /\ pc98 \in BOOLEAN
  BY Sizes DEF MouseEventsInv, MouseEventsTypeOK, Mouse_Moved
<1>1. timer_in_progress' = TRUE /\ irq' \in BOOLEAN
  BY <1>0 DEF Mouse_Moved, StartTimer
<1>2. events' = Append(events, buttons) /\ untold' = FALSE
  BY <1>0 DEF Mouse_Moved, Queued
<1>3. /\ Append(events, buttons) \in Seq(SUBSET MouseButtons)
      /\ Len(Append(events, buttons)) = Len(events) + 1
      /\ Said(Append(events, buttons), told) = buttons
  <2>1. buttons \in SUBSET MouseButtons /\ events \in Seq(SUBSET MouseButtons)
    BY <1>0
  <2>. QED
    BY <2>1, AtTheBack, SMTT(30)
<1>4. Len(events') <= QUEUE_SIZE
  BY <1>0, <1>2, <1>3
<1>5. MouseEventsTypeOK'
  BY <1>1, <1>2, <1>3, <1>4 DEF Mouse_Moved, guestVars, MouseEventsInv, MouseEventsTypeOK
<1>. QED
  BY <1>1, <1>2, <1>3, <1>5 DEF Mouse_Moved, MouseEventsInv, EventsHaveTimer, LastEventIsTrue, Said

\* The oldest event is taken: what is said stays what it was.
LEMMA TakenStep ==
  ASSUME MouseEventsInv, events # <<>>, events' = Tail(events), told' = Head(events),
         UNCHANGED <<buttons, untold>>
  PROVE  /\ events' \in Seq(SUBSET MouseButtons) /\ Len(events') <= QUEUE_SIZE
         /\ told' \in SUBSET MouseButtons /\ LastEventIsTrue'
<1>0. /\ events \in Seq(SUBSET MouseButtons) /\ Len(events) <= QUEUE_SIZE /\ Len(events) \in Nat
      /\ QUEUE_SIZE \in Nat
  BY Sizes DEF MouseEventsInv, MouseEventsTypeOK
<1>1. /\ Head(events) \in SUBSET MouseButtons /\ Tail(events) \in Seq(SUBSET MouseButtons)
      /\ Len(Tail(events)) = Len(events) - 1 /\ Said(Tail(events), Head(events)) = Said(events, told)
  BY <1>0, FromTheFront
<1>. QED
  BY <1>0, <1>1 DEF MouseEventsInv, LastEventIsTrue, Said

LEMMA TimerStep ==
  ASSUME MouseEventsInv, MOUSE_Limit_Events PROVE MouseEventsInv'
<1>1. CASE pc98 /\ events # <<>>
  <2>1. Tail(events) # events
    <3>1. events \in Seq(SUBSET MouseButtons)
      BY DEF MouseEventsInv, MouseEventsTypeOK
    <3>. QED
      BY <1>1, <3>1, FromTheFront
  <2>2. /\ events' = Tail(events) /\ told' = Head(events)
        /\ timer_in_progress' = (events' # <<>>) /\ irq' \in BOOLEAN
        /\ UNCHANGED <<pc98, buttons, guestVars, in_UIR, returning, untold>>
    BY <1>1, <2>1 DEF MOUSE_Limit_Events, MouseEventsInv, MouseEventsTypeOK
  <2>3. /\ events' \in Seq(SUBSET MouseButtons) /\ Len(events') <= QUEUE_SIZE
        /\ told' \in SUBSET MouseButtons /\ LastEventIsTrue'
    BY <1>1, <2>2, TakenStep
  <2>4. MouseEventsTypeOK'
    BY <2>2, <2>3 DEF guestVars, MouseEventsInv, MouseEventsTypeOK
  <2>. QED
    BY <2>2, <2>3, <2>4 DEF MouseEventsInv, EventsHaveTimer
<1>2. CASE ~(pc98 /\ events # <<>>)
  <2>1. /\ events' = events /\ told' = told
        /\ timer_in_progress' = (events' # <<>>) /\ irq' \in BOOLEAN
        /\ UNCHANGED <<pc98, buttons, guestVars, in_UIR, returning, untold>>
    BY <1>2 DEF MOUSE_Limit_Events, MouseEventsInv, MouseEventsTypeOK
  <2>. QED
    BY <2>1 DEF guestVars, MouseEventsInv, MouseEventsTypeOK, EventsHaveTimer, LastEventIsTrue
<1>. QED
  BY <1>1, <1>2

LEMMA INT74Step ==
  ASSUME MouseEventsInv, INT74 PROVE MouseEventsInv'
<1>0. returning' \in 0 .. MaxNested
  BY Sizes DEF INT74, MouseEventsInv, MouseEventsTypeOK
<1>1. CASE Takes
  <2>1. /\ events # <<>> /\ events' = Tail(events) /\ told' = Head(events) /\ in_UIR' = listening
        /\ irq' = FALSE /\ UNCHANGED <<pc98, buttons, timer_in_progress, guestVars, untold>>
    BY <1>1 DEF INT74, Takes
  <2>2. /\ events' \in Seq(SUBSET MouseButtons) /\ Len(events') <= QUEUE_SIZE
        /\ told' \in SUBSET MouseButtons /\ LastEventIsTrue'
    BY <2>1, TakenStep
  <2>3. MouseEventsTypeOK'
    BY <1>0, <2>1, <2>2 DEF guestVars, MouseEventsInv, MouseEventsTypeOK
  <2>. QED
    BY <2>1, <2>2, <2>3 DEF MouseEventsInv, EventsHaveTimer
<1>2. CASE ~Takes
  BY <1>0, <1>2 DEF INT74, guestVars, MouseEventsInv, MouseEventsTypeOK, EventsHaveTimer, LastEventIsTrue
<1>. QED
  BY <1>1, <1>2

\* The guest's handler, the return to it, what the guest switches, and the two
\* steps that throw the events away.
LEMMA MouseGuestStep ==
  ASSUME MouseEventsInv, INT74_Ret \/ UIR \/ GuestSwitches \/ NewVideoModeSet \/ DriverReset
  PROVE  MouseEventsInv'
<1>1. CASE INT74_Ret
  <2>1. returning' \in 0 .. MaxNested
    BY <1>1, Sizes DEF INT74_Ret, MouseEventsInv, MouseEventsTypeOK
  <2>2. timer_in_progress' \in BOOLEAN /\ (events' # <<>> => timer_in_progress' = TRUE)
    BY <1>1 DEF INT74_Ret, MouseEventsInv, MouseEventsTypeOK
  <2>. QED
    BY <1>1, <2>1, <2>2
       DEF INT74_Ret, guestVars, MouseEventsInv, MouseEventsTypeOK, EventsHaveTimer, LastEventIsTrue
<1>2. CASE UIR
  BY <1>2 DEF UIR, guestVars, timerVars, MouseEventsInv, MouseEventsTypeOK, EventsHaveTimer, LastEventIsTrue
<1>3. CASE GuestSwitches
  <2>1. aux' \in BOOLEAN /\ listening' \in BOOLEAN /\ watched' \in BOOLEAN
    BY <1>3 DEF GuestSwitches, MouseEventsInv, MouseEventsTypeOK
  <2>. QED
    BY <1>3, <2>1
       DEF GuestSwitches, timerVars, MouseEventsInv, MouseEventsTypeOK, EventsHaveTimer, LastEventIsTrue
<1>4. CASE NewVideoModeSet \/ DriverReset
  <2>0. events' = <<>>
    BY <1>4 DEF NewVideoModeSet, DriverReset
  <2>1. events' \in Seq(SUBSET MouseButtons) /\ Len(events') <= QUEUE_SIZE /\ events' = <<>>
    BY <2>0, Sizes, EmptySeq
  <2>2. CASE NewVideoModeSet
    <3>1. untold' = (untold \/ events # <<>>) /\ untold' \in BOOLEAN
      BY <2>2 DEF NewVideoModeSet, MouseEventsInv, MouseEventsTypeOK
    <3>2. MouseEventsTypeOK'
      BY <2>1, <2>2, <3>1 DEF NewVideoModeSet, Hidden, MouseEventsInv, MouseEventsTypeOK
    <3>. QED
      BY <2>1, <2>2, <3>1, <3>2
         DEF NewVideoModeSet, MouseEventsInv, EventsHaveTimer, LastEventIsTrue
  <2>3. CASE DriverReset
    <3>1. MouseEventsTypeOK'
      BY <2>1, <2>3 DEF DriverReset, Hidden, MouseEventsInv, MouseEventsTypeOK
    <3>. QED
      BY <2>1, <2>3, <3>1 DEF DriverReset, MouseEventsInv, EventsHaveTimer, LastEventIsTrue
  <2>. QED
    BY <1>4, <2>2, <2>3
<1>. QED
  BY <1>1, <1>2, <1>3, <1>4

LEMMA MouseEventsNextInv == MouseEventsInv /\ [MouseEventsNext]_mouseEventVars => MouseEventsInv'
<1> SUFFICES ASSUME MouseEventsInv, [MouseEventsNext]_mouseEventVars PROVE MouseEventsInv'
  OBVIOUS
<1>1. ASSUME NEW button \in MouseButtons, Mouse_Button(button) PROVE MouseEventsInv'
  BY <1>1, ButtonStep
<1>2. CASE UNCHANGED mouseEventVars
  BY <1>2 DEF MouseEventsInv, MouseEventsTypeOK, EventsHaveTimer, LastEventIsTrue, mouseEventVars,
              guestVars, timerVars
<1>. QED
  BY <1>1, <1>2, MovedStep, TimerStep, INT74Step, MouseGuestStep DEF MouseEventsNext

\* The inductive invariant of the mouse's events holds in every behaviour.
THEOREM MouseEventsInvariance == MouseEventsSpec => []MouseEventsInv
<1>. QED
  BY MouseEventsInitInv, MouseEventsNextInv, PTL DEF MouseEventsSpec

\* No event waits without the timer that will take it or raise the interrupt.
THEOREM NoEventForgotten == MouseEventsSpec => []EventsHaveTimer
<1>1. MouseEventsInv => EventsHaveTimer
  BY DEF MouseEventsInv
<1>. QED
  BY <1>1, MouseEventsInvariance, PTL

\* A guest that takes its events ends with the buttons the mouse has, unless the
\* last change found the queue full or went to the PS/2 mouse, or a new video mode
\* threw its event away; and then until the next event is queued.
THEOREM GuestKnowsButtons == MouseEventsSpec => []LastEventIsTrue
<1>1. MouseEventsInv => LastEventIsTrue
  BY DEF MouseEventsInv
<1>. QED
  BY <1>1, MouseEventsInvariance, PTL

----------------------------------------------------------------------------
(* The devices together. *)

\* Every behaviour in which the devices have their turn is one of each device,
\* at its own fairness: what is proved of a device alone holds beside the others.
THEOREM EachDeviceRuns == Spec => KeyboardSpec /\ MouseEventsSpec /\ UartSpec
<1>1. Init => KeyboardInit /\ MouseEventsInit /\ UartInit
  BY DEF Init
<1>2. [Next]_vars => /\ [KeyboardNext]_keyboardVars
                     /\ [MouseEventsNext]_mouseEventVars
                     /\ [UartNext]_uartVars
  BY DEF Next, vars
<1>. QED
  BY <1>1, <1>2, PTL DEF Spec, KeyboardSpec, MouseEventsSpec, UartSpec

\* All the devices keep their types and bounds: the keyboard's buffer and its
\* answers, the events of the mouse, the ring of the serial port.
THEOREM DevicesTyped == Spec => []DevicesTypeOK
<1>1. MouseEventsInv => MouseEventsTypeOK
  BY DEF MouseEventsInv
<1>2. UartInv => UartTypeOK
  BY DEF UartInv
<1>3. KeyboardTypeOK /\ MouseEventsTypeOK /\ UartTypeOK => DevicesTypeOK
  BY DEF DevicesTypeOK
<1>. QED
  BY <1>1, <1>2, <1>3, EachDeviceRuns, KeyboardTyped, MouseEventsInvariance, UartInvariance, PTL

\* Whatever device acts, no byte of the keyboard is stranded or overrun, no
\* event of the mouse is without its timer, and no byte is read twice.
THEOREM DevicesKeepTheirBytes ==
  Spec => /\ []NoByteStranded /\ []NoOverrun /\ []RepeatIsHeld
          /\ []EventsHaveTimer /\ []LastEventIsTrue
          /\ []ReadInOrder
  BY EachDeviceRuns, NoByteIsStranded, NoByteIsOverrun, OnlyHeldKeysRepeat, NoEventForgotten,
     GuestKnowsButtons, EachByteReadOnce, PTL
=============================================================================
