------------------------------ MODULE Transport ------------------------------
(***************************************************************************)
(* One direction of one channel of the engine's UDP transport              *)
(* (engine/src/network/mtp): the sender's two threads, a network that      *)
(* loses, duplicates and reorders, and the receiving thread of the peer,   *)
(* between established peers. Packet n is the n-th number the channel took; *)
(* on the wire it is Wire(n), and every comparison of the code is made on  *)
(* wire numbers.                                                           *)
(***************************************************************************)
EXTENDS Naturals, FiniteSets, SequencesExt

CONSTANTS
  SeqNums,       \* SEQNUM_MAX + 1
  SeqInitial,   \* SEQNUM_INITIAL
  RecvWindow,   \* MAX_RELIABLE_WINDOW_SIZE
  Windows,      \* sizes of the send window, MIN_RELIABLE_WINDOW_SIZE to MAX_..._SEND
  Requeue,      \* m_max_packets_requeued
  Sizes,        \* bound: the messages sent, each by the packets it is cut into
  MaxPings,     \* bound: pings; the code sends them on channel 0 only
  MaxOvertaking,\* bound: those of them that overtake what is queued
  NetSize       \* bound: packets and acknowledgements in flight

ASSUME TransportAssumption ==
  /\ {SeqNums, RecvWindow, Requeue} \cup Windows \subseteq Nat \ {0} /\ Windows # {}
  /\ {SeqInitial, MaxPings, MaxOvertaking, NetSize} \subseteq Nat
  /\ Sizes \in Seq(Nat \ {0})
  /\ NetSize > 0
  /\ SeqNums = 2 * RecvWindow /\ SeqInitial < SeqNums
  \* No number may be RecvWindow behind the next one while it is in use. Of
  \* messages the code itself refuses only those of RecvWindow packets, and any
  \* number of pings may overtake a packet that is queued.
  /\ MaxOvertaking < RecvWindow
  /\ \A w \in Windows : w + 3 <= RecvWindow
  /\ \A m \in DOMAIN Sizes :
       /\ \A w \in Windows : w \div 2 + Sizes[m] + MaxOvertaking <= RecvWindow + 1
       /\ Requeue + Sizes[m] + MaxOvertaking <= RecvWindow

VARIABLES
  accepted,   \* how many messages were given to Connection::Send
  commands,   \* m_command_queue: messages, and Disco for DisconnectPeer
  waiting,    \* queued_commands: messages that got no numbers yet
  stream,     \* what the n-th number was taken for
  queued,     \* queued_reliables
  sent,       \* outgoing_reliables_sent, a list sorted by the code
  window,     \* m_window_size
  phase,      \* where the sender's thread is in its loop
  sender,     \* the sender's peer: open, pending (m_pending_disconnect), gone
  net,        \* the network: data and disco to the receiver, acks to the sender
  nextIn,     \* next_incoming_seqnum
  incoming,   \* incoming_reliables, a list sorted by the code
  chunks,     \* incoming_splits
  delivered,  \* events of m_event_queue: messages given to the application
  receiver    \* the receiver's peer: open, gone

outVars == <<commands, waiting, stream, queued, sent, window, phase, sender>>
inVars == <<nextIn, incoming, chunks, delivered, receiver>>
vars == <<accepted, outVars, net, inVars>>

Disco == 0
Ping == [msg |-> 0, chunk |-> 1, of |-> 1]
Data(n) == [type |-> "data", n |-> n]
Ack(n) == [type |-> "ack", n |-> n]
DiscoPacket == [type |-> "disco", n |-> 0]

Messages == DOMAIN Sizes
nextOut == Len(stream) + 1

-----------------------------------------------------------------------------
(* Sequence numbers and the sorted lists. *)

Wire(n) == (SeqInitial + n - 1) % SeqNums

\* seqnum_higher(totest, base)
Higher(t, b) == IF t > b THEN t - b <= (SeqNums - 1) \div 2 ELSE b - t > (SeqNums - 1) \div 2

\* seqnum_in_window(seqnum, next, window_size)
InWindow(s, next) ==
  LET end == (next + RecvWindow) % SeqNums
  IN  IF next < end THEN next <= s /\ s < end ELSE s < end \/ next <= s

\* The loop of ReliablePacketBuffer::insert walks over packet m.
WalkOverNoWrap(m, s, expected) == Wire(m) < s
WalkOver(m, s, expected) ==
  IF s < expected THEN Wire(m) < s \/ Wire(m) >= expected
                  ELSE Wire(m) < s /\ Wire(m) >= expected

\* ReliablePacketBuffer::insert: refused outside the window that starts at
\* expected; else before the first packet the loop does not walk over.
Insert(list, n, expected) ==
  LET s == Wire(n)
      at == SelectInSeq(list, LAMBDA m : ~WalkOver(m, s, expected))
  IN  CASE ~InWindow(s, expected) \/ s = expected -> list
        [] OTHER -> IF at = 0 THEN Append(list, n)
                    ELSE IF Wire(list[at]) = s THEN list ELSE InsertAt(list, at, n)

\* ReliablePacketBuffer::popSeqnum
WithoutFirst(list, s) == IF list = <<>> THEN list ELSE Tail(list)
Without(list, s) ==
  LET at == SelectInSeq(list, LAMBDA m : Wire(m) = s)
  IN  IF at = 0 THEN list ELSE RemoveAt(list, at)

\* Channel::getOutgoingSequenceNumber: may the number after the first taken
\* numbers be taken, with the packets list on the wire?
MayTake(taken, list) ==
  IF list = <<>> THEN TRUE
  ELSE LET low == Wire(Head(list))
           next == Wire(taken + 1)
       IN  IF low < next THEN next - low <= window ELSE next + (SeqNums - 1 - low) <= window

-----------------------------------------------------------------------------
(* The network. *)

\* A packet enters the network; a full network loses another one.
Put(base, p) ==
  IF p \in base \/ Cardinality(base) < NetSize THEN {base \cup {p}}
  ELSE {(base \ {q}) \cup {p} : q \in base}

\* A packet received is gone, or a duplicate of it is still on its way.
Taken(p) == {net, net \ {p}}

\* No packet is so late that its number has come round again.
Fresh(n) == nextOut - n <= RecvWindow

Lose(p) == net' = net \ {p} /\ UNCHANGED <<accepted, outVars, inVars>>

-----------------------------------------------------------------------------
(* The application and the sender's thread: runTimeouts, the command       *)
(* queue, sendPackets.                                                     *)

Send ==
  /\ accepted + 1 \in Messages
  /\ accepted' = accepted + 1
  /\ commands' = Append(commands, accepted + 1)
  /\ UNCHANGED <<waiting, stream, queued, sent, window, phase, sender, net, inVars>>

DisconnectPeer ==
  /\ sender = "open" /\ Disco \notin Range(commands)
  /\ commands' = Append(commands, Disco)
  /\ UNCHANGED <<accepted, waiting, stream, queued, sent, window, phase, sender, net, inVars>>

\* A packet whose timer has run out is sent again.
Resend(n) ==
  /\ phase = "timeouts" /\ sender # "gone"
  /\ n \in Range(sent)
  /\ net' \in Put(net, Data(n))
  /\ UNCHANGED <<accepted, outVars, inVars>>

\* sendAsPacketReliable, next being the number taken next
SendNow(n, next) ==
  /\ sent' = Insert(sent, n, Wire(next + RecvWindow))
  /\ net' \in Put(net, Data(n))

\* deletePeer: the peer goes with everything its channel holds.
DeletePeer == sender' = "gone" /\ waiting' = <<>> /\ queued' = <<>> /\ sent' = <<>>

\* runTimeouts gives up a peer that is silent or acknowledges nothing; the
\* receiving thread one that sends a DISCO of its own, between any two steps.
PeerLost ==
  /\ sender # "gone"
  /\ DeletePeer
  /\ UNCHANGED <<accepted, commands, stream, window, phase, net, inVars>>

\* The pings that are queued or took a number after a packet that is.
Overtaking(s, q) == {i \in DOMAIN s : s[i] = Ping /\ \E n \in Range(q) : n <= i}

\* A ping overtakes the packets that are queued.
SendPing ==
  /\ phase = "timeouts" /\ sender # "gone"
  /\ Cardinality({n \in DOMAIN stream : stream[n] = Ping}) < MaxPings
  /\ Cardinality(Overtaking(stream, queued)) < MaxOvertaking
  /\ MayTake(Len(stream), sent)
  /\ stream' = Append(stream, Ping)
  /\ IF Len(sent) < window
     THEN SendNow(nextOut, nextOut + 1) /\ UNCHANGED queued
     ELSE queued' = Append(queued, nextOut) /\ UNCHANGED <<sent, net>>
  /\ phase' = "requeue"
  /\ UNCHANGED <<accepted, commands, waiting, window, sender, inVars>>

Packets(m) == [i \in 1..Sizes[m] |-> [msg |-> m, chunk |-> i, of |-> Sizes[m]]]
NewNumbersOffByOne(m) == [i \in 1..Sizes[m] |-> Len(stream) + i + 1]
NewNumbers(m) == [i \in 1..Sizes[m] |-> Len(stream) + i]

\* processReliableSendCommand: numbers for all the packets of a message, or none.
Process(m) ==
  /\ stream' = stream \o Packets(m)
  /\ queued' = queued \o NewNumbers(m)
EnoughNumbers(m) == \A i \in 1..Sizes[m] : MayTake(Len(stream) + i - 1, sent)

\* RunCommandQueues: one waiting message a time. A peer to be disconnected
\* drops it.
RunCommandQueue ==
  LET m == Head(waiting)
      due == waiting # <<>> /\ Len(queued) < Requeue
  IN  /\ phase \in {"timeouts", "requeue"}
      /\ phase' = "commands"
      /\ CASE due /\ sender = "open" /\ EnoughNumbers(m) -> Process(m) /\ waiting' = Tail(waiting)
           [] due /\ sender = "pending" -> waiting' = Tail(waiting) /\ UNCHANGED <<stream, queued>>
           [] OTHER -> UNCHANGED <<stream, queued, waiting>>
      /\ UNCHANGED <<accepted, commands, sent, window, sender, net, inVars>>

\* PutReliableSendCommand
HandleSend ==
  /\ phase = "commands" /\ commands # <<>> /\ Head(commands) # Disco
  /\ commands' = Tail(commands)
  /\ LET m == Head(commands)
     IN  CASE sender # "open" -> UNCHANGED <<stream, queued, waiting>>
           [] sender = "open" ->
                IF waiting = <<>> /\ Len(queued) + 1 < window \div 2 /\ EnoughNumbers(m)
                THEN Process(m) /\ UNCHANGED waiting
                ELSE waiting' = Append(waiting, m) /\ UNCHANGED <<stream, queued>>
  /\ UNCHANGED <<accepted, sent, window, phase, sender, net, inVars>>

\* disconnect_peer; its DISCO leaves with the next sendPackets.
HandleDisconnect ==
  /\ phase = "commands" /\ commands # <<>> /\ Head(commands) = Disco
  /\ commands' = Tail(commands)
  /\ sender' = IF sender = "open" THEN "pending" ELSE sender
  /\ UNCHANGED <<accepted, waiting, stream, queued, sent, window, phase, net, inVars>>

CommandsDone ==
  /\ phase = "commands" /\ commands = <<>>
  /\ phase' = "send"
  /\ UNCHANGED <<accepted, commands, waiting, stream, queued, sent, window, sender, net, inVars>>

\* One round of sendPackets' loop over the queued packets. The quota of the
\* peer is one packet at least.
SendQueued ==
  /\ phase \in {"send", "sending"} /\ sender # "gone"
  /\ queued # <<>> /\ Len(sent) < window
  /\ SendNow(Head(queued), nextOut)
  /\ queued' = Tail(queued)
  /\ phase' = "sending"
  /\ UNCHANGED <<accepted, commands, waiting, stream, window, sender, inVars>>

\* The rest of sendPackets. The DISCO leaves and the peer with it, unless the
\* quota was used up. The window UpdateTimers sets in the next round is chosen
\* here: nothing reads it in between.
LoopDone ==
  /\ \/ phase = "sending"
     \/ phase = "send" /\ (queued = <<>> \/ Len(sent) >= window)
  /\ phase' = "timeouts"
  /\ window' \in IF sender = "gone" THEN {window} ELSE Windows
  /\ \/ sender = "pending" /\ DeletePeer /\ net' \in Put(net, DiscoPacket)
     \/ /\ sender = "pending" => phase = "sending"
        /\ UNCHANGED <<sender, waiting, queued, sent, net>>
  /\ UNCHANGED <<accepted, commands, stream, inVars>>

\* The sender's receive thread: CONTROLTYPE_ACK.
ReceiveAck(n) ==
  /\ Ack(n) \in net /\ sender # "gone" /\ Fresh(n)
  /\ sent' = Without(sent, Wire(n))
  /\ net' \in Taken(Ack(n))
  /\ UNCHANGED <<accepted, commands, waiting, stream, queued, window, phase, sender, inVars>>

-----------------------------------------------------------------------------
(* The receiver's thread. *)

\* handlePacketType_Original, _Split and _Control on the payload of packet n.
Deliver(n) ==
  LET p == stream[n]
      have == {q \in chunks : q.msg = p.msg} \cup {p}
  IN  \/ p = Ping /\ UNCHANGED <<chunks, delivered>>
      \/ /\ p # Ping /\ Cardinality(have) < p.of
         /\ chunks' = chunks \cup {p} /\ UNCHANGED delivered
      \/ /\ p # Ping /\ Cardinality(have) >= p.of
         /\ chunks' = chunks \ have /\ delivered' = Append(delivered, p.msg)

\* The thread empties its buffer before it reads the socket again.
NextBuffered == incoming # <<>> /\ Wire(Head(incoming)) = Wire(nextIn)

\* A packet outside the window was delivered before and its ACK was lost.
OldForgotten(s, next) == FALSE
Old(s, next) == ~InWindow(s, next) /\ Higher(next, s)

\* handlePacketType_Reliable
Receive(n) ==
  LET s == Wire(n)
      next == Wire(nextIn)
  IN  /\ Data(n) \in net /\ receiver = "open" /\ Fresh(n) /\ ~NextBuffered
      /\ \E base \in Taken(Data(n)) :
           IF InWindow(s, next) \/ Old(s, next) THEN net' \in Put(base, Ack(n)) ELSE net' = base
      /\ \/ ~InWindow(s, next) /\ UNCHANGED <<nextIn, incoming, chunks, delivered>>
         \/ /\ InWindow(s, next) /\ s # next
            /\ incoming' = Insert(incoming, n, next)
            /\ UNCHANGED <<nextIn, chunks, delivered>>
         \/ /\ InWindow(s, next) /\ s = next
            /\ incoming' = IF incoming # <<>> /\ Wire(Head(incoming)) = s
                           THEN Tail(incoming) ELSE incoming
            /\ nextIn' = nextIn + 1
            /\ Deliver(n)
      /\ UNCHANGED <<accepted, outVars, receiver>>

\* getFromBuffers, checkIncomingBuffers
Unbuffer ==
  /\ receiver = "open" /\ NextBuffered
  /\ incoming' = Tail(incoming)
  /\ nextIn' = nextIn + 1
  /\ Deliver(Head(incoming))
  /\ UNCHANGED <<accepted, outVars, net, receiver>>

ForgetPeer == receiver' = "gone" /\ incoming' = <<>> /\ chunks' = {}

\* The receiver's own timeout, or its DisconnectPeer.
ReceiverTimeOut ==
  /\ receiver = "open"
  /\ ForgetPeer
  /\ UNCHANGED <<accepted, outVars, net, nextIn, delivered>>

\* CONTROLTYPE_DISCO
ReceiveDisco ==
  /\ DiscoPacket \in net /\ receiver = "open" /\ ~NextBuffered
  /\ net' \in Taken(DiscoPacket)
  /\ ForgetPeer
  /\ UNCHANGED <<accepted, outVars, nextIn, delivered>>

-----------------------------------------------------------------------------
Init ==
  /\ accepted = 0 /\ commands = <<>> /\ waiting = <<>>
  /\ stream = <<>> /\ queued = <<>> /\ sent = <<>>
  /\ window \in Windows /\ phase = "timeouts" /\ sender = "open"
  /\ net = {}
  /\ nextIn = 1 /\ incoming = <<>> /\ chunks = {} /\ delivered = <<>>
  /\ receiver = "open"

SenderLoop ==
  \/ RunCommandQueue \/ HandleSend \/ HandleDisconnect
  \/ CommandsDone \/ SendQueued \/ LoopDone

Next ==
  \/ Send \/ DisconnectPeer
  \/ SenderLoop \/ SendPing \/ PeerLost
  \/ \E n \in DOMAIN stream : Resend(n) \/ ReceiveAck(n) \/ Receive(n)
  \/ Unbuffer \/ ReceiverTimeOut \/ ReceiveDisco
  \/ \E p \in net : Lose(p)

\* The loop of the sender's thread never stops; the resend timer of a packet
\* runs out again and again; a packet sent again and again gets through, and so
\* does its ACK. It is enough to ask this of the oldest packet on the wire.
Oldest == Head(sent)
Fairness ==
  /\ WF_vars(SenderLoop) /\ WF_vars(Unbuffer)
  /\ SF_vars(sent # <<>> /\ Resend(Oldest))
  /\ SF_vars(sent # <<>> /\ Receive(Oldest))
  /\ SF_vars(sent # <<>> /\ ReceiveAck(Oldest))

Spec == Init /\ [][Next]_vars
FairSpec == Spec /\ Fairness

-----------------------------------------------------------------------------
TypeOK ==
  /\ accepted \in 0..Len(Sizes)
  /\ commands \in Seq(0..accepted) /\ waiting \in Seq(1..accepted)
  /\ stream \in Seq([msg : 0..accepted, chunk : Nat, of : Nat])
  /\ queued \in Seq(DOMAIN stream) /\ sent \in Seq(DOMAIN stream)
  /\ window \in Windows
  /\ phase \in {"timeouts", "requeue", "commands", "send", "sending"}
  /\ sender \in {"open", "pending", "gone"} /\ receiver \in {"open", "gone"}
  /\ net \subseteq [type : {"data", "ack"}, n : DOMAIN stream] \cup {DiscoPacket}
  /\ nextIn \in 1..nextOut /\ incoming \in Seq(DOMAIN stream)
  /\ chunks \subseteq Range(stream)
  /\ delivered \in Seq(Nat)

\* Both lists stay sorted from the oldest packet to the newest, across the
\* wrap of the numbers, though a ping is sent before packets that are older and
\* packets arrive in any order (the two loops of ReliablePacketBuffer::insert).
Sorted ==
  \A list \in {sent, incoming} :
    \A i, j \in 1..Len(list) : i < j => list[i] < list[j]

\* What the sender forgets the receiver has: a number that is neither queued
\* nor in the buffer of packets to be sent again was delivered or waits in the
\* receiver's buffer (popSeqnum on an ACK; the ACK is sent for everything in
\* the window, buffered or not, and again for everything old).
AckedIsHeld ==
  sender # "gone" /\ receiver = "open" =>
    \A n \in DOMAIN stream :
      n \in Range(queued) \cup Range(sent) \/ n < nextIn \/ n \in Range(incoming)

\* The channel is the one Fifo describes.
Channel == INSTANCE Fifo WITH
  accepted <- accepted, ended <- (sender # "open" \/ receiver # "open")
ImplementsFifo == Channel!FairSpec
=============================================================================
