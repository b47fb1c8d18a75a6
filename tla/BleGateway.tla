----------------------------- MODULE BleGateway -----------------------------
(***************************************************************************)
(* What the phones are told over Bluetooth: the acknowledgements of        *)
(* commands and the state (ble/bleGateway.ts), over a helper process that  *)
(* owns the radio and is started again when it dies (ble/helperTransport.  *)
(* ts, ble/start.ts).  A frame is notified to every phone that listens; a  *)
(* message is cut into Frames of them, and only one is being sent.         *)
(* And what the phones say: a command message of a phone, cut into the     *)
(* frames that fit the link and joined again (ble/framing.ts).  The radio  *)
(* may lose a frame, and the link may drop with half a message sent.  A    *)
(* frame is a record of its header bits, its sequence number, and what it  *)
(* carries: a piece of a message.                                          *)
(***************************************************************************)
EXTENDS Naturals, Sequences, FiniteSets

CONSTANTS
  Phones,
  Frames,      \* frames of a message
  MaxVersions, \* bound: changes of the state
  MaxAcks,     \* bound: commands acknowledged
  MaxFaults,   \* bound: deaths of the helper and phones that leave
  Modulus,     \* sequence numbers of a frame; 16 in the code
  Lengths,     \* numbers of frames a message of a phone may need
  MaxSize,     \* the largest message the receiver takes, in frames; MAX_MESSAGE_BYTES in the code
  MaxMessages, MaxRadioFaults \* bounds: messages of a phone; frames lost, links dropped and damaged frames

VARIABLES
  state,       \* version of the state
  subscribers, \* phones that listen to the state and to the acknowledgements
  queue,       \* messages that wait: [ack |-> number] or [state |-> version]
  current,     \* the message that is being sent and the frames of it that are left
  pendingState, timer,
  helper,      \* "down", "starting", "up" or "stopped"
  acks,        \* acknowledgements made so far
  told,        \* [phone -> the last state it was told in full], 0: none since it listens
  heard,       \* acknowledgements notified in full, in order
  stopped, faults

vars == <<state, subscribers, queue, current, pendingState, timer, helper, acks, told, heard, stopped, faults>>

Idle == [message |-> <<>>, left |-> 0, to |-> {}]
IsState(m) == "state" \in DOMAIN m
NotState(m) == ~IsState(m)

Init ==
  /\ state = 1 /\ subscribers = {} /\ queue = <<>> /\ current = Idle /\ pendingState = FALSE /\ timer = FALSE
  /\ helper \in {"starting", "stopped"} /\ stopped = (helper = "stopped") \* mode "off": no gateway is started
  /\ acks = 0 /\ told = [p \in Phones |-> 0] /\ heard = <<>>
  /\ faults = 0

\* queueState: only the newest state waits; what waits before it goes first.
\* A variant that leaves the older one in the queue.
ReplacedNever(q) == q
At(q, at) == [n \in 1..Cardinality(at) |-> q[CHOOSE i \in at : Cardinality(at \cap 1..i) = n]]
Replaced(q) == At(q, {i \in DOMAIN q : NotState(q[i])})
QueueState(listeners) ==
  IF listeners = {} THEN UNCHANGED queue
  ELSE queue' = Append(Replaced(queue), [state |-> state'])

\* publishState: at once, or when the interval since the last one is over.
Publish(immediate) ==
  \/ pendingState' = FALSE /\ QueueState(subscribers') /\ UNCHANGED timer
  \/ ~immediate /\ pendingState' = TRUE /\ timer' = TRUE /\ UNCHANGED queue

Change ==
  /\ ~stopped /\ state < MaxVersions /\ state' = state + 1
  /\ UNCHANGED <<subscribers, current, helper, acks, told, heard, stopped, faults>>
  /\ IF subscribers = {} THEN UNCHANGED <<queue, pendingState, timer>> ELSE Publish(FALSE)

TimerFires ==
  /\ timer /\ timer' = FALSE
  /\ IF pendingState /\ subscribers # {}
       THEN pendingState' = FALSE /\ queue' = Append(Replaced(queue), [state |-> state])
       ELSE UNCHANGED <<pendingState, queue>>
  /\ UNCHANGED <<state, subscribers, current, helper, acks, told, heard, stopped, faults>>

\* A phone switches its notifications on: the whole state follows at once.
Subscribe(p) ==
  /\ helper = "up" /\ p \notin subscribers /\ ~stopped
  /\ subscribers' = subscribers \cup {p} /\ told' = [told EXCEPT ![p] = 0]
  /\ UNCHANGED <<state, current, helper, acks, heard, stopped, faults>>
  /\ Publish(TRUE)

Leave(p) ==
  /\ p \in subscribers /\ faults < MaxFaults /\ faults' = faults + 1
  /\ subscribers' = subscribers \ {p}
  /\ UNCHANGED <<state, queue, current, pendingState, timer, helper, acks, told, heard, stopped>>

\* enqueue: an acknowledgement goes before a waiting state.
Before(q, m) == Replaced(q) \o <<m>> \o At(q, {i \in DOMAIN q : IsState(q[i])})
Ack ==
  /\ subscribers # {} /\ acks < MaxAcks /\ ~stopped /\ acks' = acks + 1
  /\ queue' = Before(queue, [ack |-> acks'])
  /\ UNCHANGED <<state, subscribers, current, pendingState, timer, helper, told, heard, stopped, faults>>

\* drain: the next message; the phones that listen from its first frame on get all of it.
Take ==
  /\ current.left = 0 /\ queue # <<>> /\ ~stopped
  /\ current' = [message |-> Head(queue), left |-> Frames, to |-> subscribers] /\ queue' = Tail(queue)
  /\ UNCHANGED <<state, subscribers, pendingState, timer, helper, acks, told, heard, stopped, faults>>

\* One frame is notified; without a helper it fails and the rest of the message is dropped.
Frame ==
  /\ current.left > 0 /\ ~stopped
  /\ IF helper # "up"
       THEN current' = Idle /\ UNCHANGED <<told, heard>>
       ELSE /\ current' = IF current.left = 1 THEN Idle ELSE [current EXCEPT !.left = @ - 1]
            /\ IF current.left > 1 THEN UNCHANGED <<told, heard>>
               ELSE IF IsState(current.message)
                 THEN told' = [p \in Phones |-> IF p \in current.to \cap subscribers THEN current.message.state ELSE told[p]]
                      /\ UNCHANGED heard
                 ELSE heard' = Append(heard, current.message.ack) /\ UNCHANGED told
  /\ UNCHANGED <<state, subscribers, queue, pendingState, timer, helper, acks, stopped, faults>>

\* on "exit" of the helper: nobody listens any more, and it is started again after a while.
HelperDies ==
  /\ helper \in {"starting", "up"} /\ faults < MaxFaults /\ faults' = faults + 1
  /\ helper' = "down"
  /\ subscribers' = {}
  /\ UNCHANGED <<state, queue, current, pendingState, timer, acks, told, heard, stopped>>

Relaunch ==
  /\ helper = "down" /\ ~stopped /\ helper' = "starting"
  /\ UNCHANGED <<state, subscribers, queue, current, pendingState, timer, acks, told, heard, stopped, faults>>

Ready ==
  /\ helper = "starting" /\ ~stopped /\ helper' = "up"
  /\ UNCHANGED <<state, subscribers, queue, current, pendingState, timer, acks, told, heard, stopped, faults>>

\* stop(): no timer, no restart; the helper is told to end, and killed if it does not.
Stop ==
  /\ ~stopped /\ stopped' = TRUE /\ timer' = FALSE
  /\ helper' = "stopped" /\ subscribers' = {}
  /\ UNCHANGED <<state, queue, current, pendingState, acks, told, heard, faults>>

Next ==
  \/ Change \/ TimerFires \/ Ack \/ Take \/ Frame \/ HelperDies \/ Relaunch \/ Ready \/ Stop
  \/ \E p \in Phones : Subscribe(p) \/ Leave(p)

\* Timers fire and the radio takes a frame.
Fairness == WF_vars(TimerFires) /\ WF_vars(Take \/ Frame) /\ WF_vars(Relaunch \/ Ready)

Spec == Init /\ [][Next]_vars /\ Fairness

-----------------------------------------------------------------------------
\* The commands of a phone, frame by frame.

VARIABLES
  sending,      \* the frames the phone has still to write
  sent,         \* messages begun so far; a message is its number
  open, next, parts, \* the Reassembler
  handed,       \* messages handed to handleCommand, as sequences of pieces
  skipped,      \* most frames lost in a row within a message, Modulus if a first frame was among them
  run,          \* frames lost since the last that arrived
  radioFaults
frameVars == <<sending, sent, open, next, parts, handed, skipped, run, radioFaults>>

\* splitMessage.
Split(m, n) == [i \in 1..n |-> [first |-> i = 1, last |-> i = n, seq |-> (i - 1) % Modulus, piece |-> <<m, i>>]]
Whole(m, n) == [i \in 1..n |-> <<m, i>>]

FrameInit ==
  /\ sending = <<>> /\ sent = 0 /\ open = FALSE /\ next = 0 /\ parts = <<>> /\ handed = {}
  /\ skipped = 0 /\ run = 0 /\ radioFaults = 0

\* The phone begins a message; one that its owner gave up, or that the link cut, is begun from the start.
MessageBegins(n) ==
  /\ sent < MaxMessages /\ sent' = sent + 1
  /\ sending' = Split(sent', n) /\ run' = 0
  /\ UNCHANGED <<open, next, parts, handed, skipped, radioFaults>>

Reset == open' = FALSE /\ next' = 0 /\ parts' = <<>>

\* Is a continuation the one the receiver waits for?
Expected(f) == open /\ f.seq = next

\* push(frame).
Push(f) ==
  LET joined == Append(IF f.first THEN <<>> ELSE parts, f.piece)
      good == IF f.first THEN f.seq = 0 ELSE Expected(f) IN
  IF ~good \/ Len(joined) > MaxSize THEN Reset /\ UNCHANGED handed
  ELSE IF f.last THEN Reset /\ handed' = handed \cup {joined}
  ELSE open' = TRUE /\ next' = (f.seq + 1) % Modulus /\ parts' = joined /\ UNCHANGED handed

FrameArrives ==
  /\ sending # <<>> /\ sending' = Tail(sending) /\ run' = 0
  /\ Push(Head(sending))
  /\ UNCHANGED <<sent, skipped, radioFaults>>

\* The frame is lost; frames are lost in bursts that count once.
FrameIsLost ==
  /\ sending # <<>> /\ sending' = Tail(sending)
  /\ run > 0 \/ radioFaults < MaxRadioFaults
  /\ radioFaults' = IF run > 0 THEN radioFaults ELSE radioFaults + 1
  /\ run' = run + 1
  /\ skipped' = IF Head(sending).first \/ run' > Modulus THEN Modulus ELSE IF run' > skipped THEN run' ELSE skipped
  /\ UNCHANGED <<sent, open, next, parts, handed>>

\* An empty frame, or one with reserved bits.
FrameDamaged ==
  /\ radioFaults < MaxRadioFaults /\ radioFaults' = radioFaults + 1
  /\ Reset /\ UNCHANGED <<sending, sent, handed, skipped, run>>

\* onSubscribe with nothing listening on the link: the link is forgotten with what it was joining.
LinkDropped ==
  /\ radioFaults < MaxRadioFaults /\ radioFaults' = radioFaults + 1
  /\ Reset /\ sending' = <<>> /\ run' = 0 /\ UNCHANGED <<sent, handed, skipped>>

FrameNext == FrameArrives \/ FrameIsLost \/ FrameDamaged \/ LinkDropped \/ \E n \in Lengths : MessageBegins(n)

-----------------------------------------------------------------------------
TypeOK ==
  /\ state \in 1..MaxVersions /\ subscribers \subseteq Phones /\ current.left \in 0..Frames
  /\ Len(queue) <= MaxAcks + 1 /\ Cardinality({i \in DOMAIN queue : IsState(queue[i])}) <= 1
  /\ told \in [Phones -> 0..MaxVersions]

\* Acknowledgements arrive in the order of the answers and none of them waits behind a state
\* (ble/bleGateway.ts).
AcksInOrder ==
  /\ \A i, j \in DOMAIN heard : i < j => heard[i] < heard[j]
  /\ \A i, j \in DOMAIN queue : i < j => ~IsState(queue[i])

\* A phone that goes on listening is told the newest state.
PhonesCatchUp == \A p \in Phones : <>[](p \in subscribers) => <>[](told[p] = state)

FrameTypeOK ==
  /\ sent \in 0..MaxMessages /\ open \in BOOLEAN /\ next \in 0..(Modulus - 1)
  /\ Len(parts) <= MaxSize /\ radioFaults \in 0..MaxRadioFaults

\* A message that is handed on is one that was sent, whole and in order and of a size the receiver takes,
\* unless the radio lost a first frame or a whole round of sequence numbers in a row: frames do not name their
\* message (ble/framing.ts).
MessagesAreWhole ==
  skipped < Modulus => \A h \in handed : \E m \in 1..sent, n \in Lengths : n <= MaxSize /\ h = Whole(m, n)
=============================================================================
