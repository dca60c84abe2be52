----------------------------- MODULE Transport -----------------------------
(***************************************************************************)
(* ReliableTransport: acknowledged, retried and deduplicated packets over  *)
(* a LoRa channel that loses frames (src/lib/transport, src/lib/protocol). *)
(*                                                                         *)
(* Every device runs several tasks over one transport object, unlocked:    *)
(*  - the protocol task, whose loop is poll (retries, then the received    *)
(*    frames), LinkProbe::poll, ChatService::poll;                         *)
(*  - application tasks (M5/Arduino loop, serial, web) that call           *)
(*    sendMessage.  send() puts the frame on the air FIRST and registers   *)
(*    it with the AckManager AFTERWARDS: the two halves are two actions.   *)
(*                                                                         *)
(* Time is abstracted: a pending packet may expire at any poll, what the   *)
(* code counts exactly is the attempts.  RetryTimer models the clock.      *)
(***************************************************************************)
EXTENDS Naturals, Sequences, FiniteSets

CONSTANTS
  Nodes,         \* the devices on the channel
  Peer,          \* Peer[n]: the peer_id of device n (AppOptions)
  SendTasks,     \* SendTasks[n]: how many tasks of n call sendMessage
  Probers,       \* the devices started with send_probes (the gateway)
  MaxSeq,        \* bound: MaxSeq[n] sequence numbers are drawn per boot
  MaxBoots,      \* bound: how often a device is powered up
  AirCap,        \* bound: frames on their way to one receiver
  SeenSlots,     \* size of SequenceManager::m_seen (64 in the code)
  PendingSlots,  \* AckManager::kMaxPending (8 in the code)
  InboundCap,    \* capacity of the inbound queue (16 in the code)
  MaxRetries     \* RetryPolicy::max_retries (3 by default)

ASSUME PeerAssumption    == Peer \in [Nodes -> Nodes] /\ \A n \in Nodes : Peer[n] # n
ASSUME ProbersAssumption == Probers \subseteq Nodes
ASSUME TasksAssumption   == SendTasks \in [Nodes -> Nat]
ASSUME MaxSeqAssumption  == /\ MaxSeq \in [Nodes -> Nat]
                            /\ \A n \in Nodes : MaxSeq[n] <= 65536 \* uint16_t m_tx_seq
ASSUME BoundsAssumption  == /\ MaxBoots \in Nat \ {0}
                            /\ AirCap \in Nat \ {0}
                            /\ SeenSlots \in Nat \ {0}
                            /\ PendingSlots \in Nat \ {0}
                            /\ InboundCap \in Nat \ {0}
                            /\ MaxRetries \in Nat

VARIABLES
  up,        \* up[n]: device n is powered and its protocol task runs
  boots,     \* boots[n]: how often n was powered up
  txSeq,     \* txSeq[n]: SequenceManager::m_tx_seq
  seen,      \* seen[n]: the used entries of m_seen, in slot order
  pending,   \* pending[n]: the active entries of the AckManager
  sending,   \* sending[n]: packets transmitted by send(), not yet registered
  inbound,   \* inbound[n]: the queue from the transport to the chat service
  chat,      \* chat[n]: messages ChatService received since power-up
  air,       \* air[n]: frames on their way to the radio of n, oldest first
  accepted,  \* history: messages n accepted, ever
  acked,     \* history: messages of n whose pending entry an ACK released
  gaveUp     \* history: messages of n abandoned with "ACK timeout"

device  == <<up, boots>>
history == <<accepted, acked, gaveUp>>
vars    == <<up, boots, txSeq, seen, pending, sending, inbound, chat, air,
             accepted, acked, gaveUp>>

PacketType == {"Hello", "Ping", "Pong", "Message", "Ack"}

(* epoch is no field of the wire format: it tells the boot of src in which *)
(* a packet was made, so that <<src, epoch, seq>> names a text for good.   *)
(* A Message always carries ACK_REQ, nothing else does (makeMessage).      *)
Packet == [type : PacketType, src : Nodes, dest : Nodes, seq : Nat, epoch : Nat]

PendingTx == [packet : Packet, attempts : Nat]

Track(p, attempts) == [packet |-> p, attempts |-> attempts]

Id(p)  == <<p.src, p.epoch, p.seq>>
(* Mutant: the duplicate table keeps source and destination. *)
KeyWithoutSeq(p) == <<p.src, p.dest>>

Key(p) == <<p.src, p.seq>>

Ids == Nodes \X Nat \X Nat

MakeIn(epoch, type, n, dest, seq) ==
  [type |-> type, src |-> n, dest |-> dest, seq |-> seq, epoch |-> epoch]

Make(type, n, dest, seq) == MakeIn(boots[n], type, n, dest, seq)

-----------------------------------------------------------------------------
(* The channel.  A transmission reaches every other device that listens;   *)
(* a frame that finds the receive buffer full is lost.                     *)
Broadcast(a, n, p) ==
  [m \in Nodes |-> IF m # n /\ up[m] /\ Len(a[m]) < AirCap
                     THEN Append(a[m], p)
                     ELSE a[m]]

Popped(n) == [air EXCEPT ![n] = Tail(@)]

Arriving(n) == up[n] /\ air[n] # <<>>

(* A frame is lost or damaged: radio noise, or decode() reports an error.  *)
LoseFrame(n) ==
  /\ Arriving(n)
  /\ air' = Popped(n)
  /\ UNCHANGED <<device, txSeq, seen, pending, sending, inbound, chat, history>>

-----------------------------------------------------------------------------
(* SequenceManager.  Entries are never released, so the used slots are a   *)
(* prefix of m_seen; once all are used, slot seq % size is overwritten.    *)
Known(table, key) == \E i \in 1..Len(table) : table[i] = key

(* Mutant: only the latest entry is compared. *)
IsLatest(n, p) == seen[n] # <<>> /\ seen[n][Len(seen[n])] = Key(p)

IsDuplicate(n, p) == Known(seen[n], Key(p))

(* Mutant: the entry marked before is overwritten. *)
MarkOnlyLatest(n, p) == seen' = [seen EXCEPT ![n] = <<Key(p)>>]

MarkReceived(n, p) ==
  seen' = [seen EXCEPT ![n] =
             IF Len(@) < SeenSlots
               THEN Append(@, Key(p))
               ELSE [@ EXCEPT ![(p.seq % SeenSlots) + 1] = Key(p)]]

-----------------------------------------------------------------------------
(* Power.  start() builds every object anew and, before the protocol task  *)
(* exists, sends a HELLO whose sequence number is the literal 1.           *)
Boot(n) ==
  /\ ~up[n]
  /\ boots[n] < MaxBoots
  /\ up' = [up EXCEPT ![n] = TRUE]
  /\ boots' = [boots EXCEPT ![n] = @ + 1]
  /\ air' = Broadcast(air, n, MakeIn(boots[n] + 1, "Hello", n, Peer[n], 1))
  /\ UNCHANGED <<txSeq, seen, pending, sending, inbound, chat, history>>

(* Power is lost: nothing in RAM survives, nor do frames underway to n.    *)
PowerLoss(n) ==
  /\ up[n]
  /\ boots[n] < MaxBoots
  /\ up' = [up EXCEPT ![n] = FALSE]
  /\ txSeq' = [txSeq EXCEPT ![n] = 0]
  /\ seen' = [seen EXCEPT ![n] = <<>>]
  /\ pending' = [pending EXCEPT ![n] = {}]
  /\ sending' = [sending EXCEPT ![n] = {}]
  /\ inbound' = [inbound EXCEPT ![n] = <<>>]
  /\ chat' = [chat EXCEPT ![n] = <<>>]
  /\ air' = [air EXCEPT ![n] = <<>>]
  /\ UNCHANGED <<boots, history>>

-----------------------------------------------------------------------------
(* The application tasks.  sendMessage draws a sequence number and send()  *)
(* transmits; when the radio refuses, the number is spent all the same.    *)
NextSequence(n) ==
  /\ txSeq[n] < MaxSeq[n]
  /\ txSeq' = [txSeq EXCEPT ![n] = @ + 1]

TaskFree(n) == up[n] /\ Cardinality(sending[n]) < SendTasks[n]

SendMessage(n) ==
  LET p == Make("Message", n, Peer[n], txSeq[n]) IN
  /\ TaskFree(n)
  /\ NextSequence(n)
  /\ air' = Broadcast(air, n, p)
  /\ sending' = [sending EXCEPT ![n] = @ \cup {p}]
  /\ UNCHANGED <<device, seen, pending, inbound, chat, history>>

SendRefused(n) ==
  /\ TaskFree(n)
  /\ NextSequence(n)
  /\ UNCHANGED <<device, seen, pending, sending, inbound, chat, air, history>>

(* The second half of send(): addPending finds a free slot.  A packet      *)
(* stays without a retry if there is none ("ACK queue full"), or if        *)
(* another task found the same slot free at the same time and fills it.    *)
RegisterPending(n) ==
  \E p \in sending[n] :
    /\ up[n]
    /\ sending' = [sending EXCEPT ![n] = @ \ {p}]
    /\ \/ /\ Cardinality(pending[n]) < PendingSlots
          /\ pending' = [pending EXCEPT ![n] = @ \cup {Track(p, 0)}]
       \/ /\ Cardinality(pending[n]) >= PendingSlots \/ sending[n] # {p}
          /\ UNCHANGED pending
    /\ UNCHANGED <<device, txSeq, seen, inbound, chat, air, history>>

-----------------------------------------------------------------------------
(* The protocol task: processRetries.  ChatService::poll has emptied the   *)
(* inbound queue in the round before, hence the guard.                     *)
(* Mutant: a retry adds an entry and keeps the old one. *)
RetryTwice(n, t) ==
  /\ up[n]
  /\ inbound[n] = <<>>
  /\ t \in pending[n]
  /\ t.attempts < MaxRetries
  /\ pending' = [pending EXCEPT ![n] = @ \cup {Track(t.packet, t.attempts + 1)}]
  /\ air' = Broadcast(air, n, t.packet)
  /\ UNCHANGED <<device, txSeq, seen, sending, inbound, chat, history>>

Retry(n, t) ==
  /\ up[n]
  /\ inbound[n] = <<>>
  /\ t \in pending[n]
  /\ t.attempts < MaxRetries
  /\ pending' = [pending EXCEPT ![n] = (@ \ {t}) \cup {Track(t.packet, t.attempts + 1)}]
  /\ air' = Broadcast(air, n, t.packet)
  /\ UNCHANGED <<device, txSeq, seen, sending, inbound, chat, history>>

(* Mutants: the entry is not released; the limit is off by one. *)
GiveUpKeepingEntry(n, t) ==
  /\ up[n]
  /\ inbound[n] = <<>>
  /\ t \in pending[n]
  /\ ~(t.attempts < MaxRetries)
  /\ gaveUp' = [gaveUp EXCEPT ![n] = @ \cup {Id(t.packet)}]
  /\ UNCHANGED <<device, txSeq, seen, pending, sending, inbound, chat, air, accepted, acked>>

GiveUpLate(n, t) ==
  /\ up[n]
  /\ inbound[n] = <<>>
  /\ t \in pending[n]
  /\ t.attempts > MaxRetries
  /\ pending' = [pending EXCEPT ![n] = @ \ {t}]
  /\ gaveUp' = [gaveUp EXCEPT ![n] = @ \cup {Id(t.packet)}]
  /\ UNCHANGED <<device, txSeq, seen, sending, inbound, chat, air, accepted, acked>>

GiveUp(n, t) ==
  /\ up[n]
  /\ inbound[n] = <<>>
  /\ t \in pending[n]
  /\ ~(t.attempts < MaxRetries)
  /\ pending' = [pending EXCEPT ![n] = @ \ {t}]
  /\ gaveUp' = [gaveUp EXCEPT ![n] = @ \cup {Id(t.packet)}]
  /\ UNCHANGED <<device, txSeq, seen, sending, inbound, chat, air, accepted, acked>>

ProcessRetries(n) == \E t \in pending[n] : Retry(n, t) \/ GiveUp(n, t)

-----------------------------------------------------------------------------
(* The protocol task: handleRx, one action per way through it.             *)
(* Nothing in the code sends to kBroadcastId. *)
IsForUs(n, p) == p.dest = n

(* Mutant: the sequence number of the ACK is not compared. *)
MatchesAnyAck(p, t) == t.packet.dest = p.src

(* onAck is reached before isForUs: any ACK on the air is looked up.       *)
MatchesAck(p, t) == t.packet.seq = p.seq /\ t.packet.dest = p.src

HandleAck(n) ==
  LET p == Head(air[n]) IN
  /\ Arriving(n)
  /\ p.type = "Ack"
  /\ air' = Popped(n)
  /\ \/ /\ \A t \in pending[n] : ~MatchesAck(p, t)
        /\ UNCHANGED <<pending, acked>>
     \/ \E t \in pending[n] :
          /\ MatchesAck(p, t)
          /\ pending' = [pending EXCEPT ![n] = @ \ {t}]
          /\ acked' = [acked EXCEPT ![n] = @ \cup {Id(t.packet)}]
  /\ UNCHANGED <<device, txSeq, seen, sending, inbound, chat, accepted, gaveUp>>

HandleForeign(n) ==
  LET p == Head(air[n]) IN
  /\ Arriving(n)
  /\ p.type # "Ack"
  /\ ~IsForUs(n, p)
  /\ air' = Popped(n)
  /\ UNCHANGED <<device, txSeq, seen, pending, sending, inbound, chat, history>>

(* A duplicate is dropped, and is not acknowledged again.                  *)
HandleDuplicate(n) ==
  LET p == Head(air[n]) IN
  /\ Arriving(n)
  /\ p.type \notin {"Ack", "Ping"}
  /\ IsForUs(n, p)
  /\ IsDuplicate(n, p)
  /\ air' = Popped(n)
  /\ UNCHANGED <<device, txSeq, seen, pending, sending, inbound, chat, history>>

(* A PING is answered however often it comes; the PONG echoes its number.  *)
HandlePing(n) ==
  LET p == Head(air[n]) IN
  /\ Arriving(n)
  /\ p.type = "Ping"
  /\ IsForUs(n, p)
  /\ air' = Broadcast(Popped(n), n, Make("Pong", n, p.src, p.seq))
  /\ MarkReceived(n, p)
  /\ UNCHANGED <<device, txSeq, pending, sending, inbound, chat, history>>

HandlePong(n) ==
  LET p == Head(air[n]) IN
  /\ Arriving(n)
  /\ p.type = "Pong"
  /\ IsForUs(n, p)
  /\ ~IsDuplicate(n, p)
  /\ air' = Popped(n)
  /\ MarkReceived(n, p)
  /\ UNCHANGED <<device, txSeq, pending, sending, inbound, chat, history>>

(* HELLO and MESSAGE: mark, acknowledge if asked to, pass to the chat; a   *)
(* full inbound queue drops the packet after it has been acknowledged.     *)
Enqueue(n, p) ==
  inbound' = IF Len(inbound[n]) < InboundCap
               THEN [inbound EXCEPT ![n] = Append(@, p)]
               ELSE inbound

HandleHello(n) ==
  LET p == Head(air[n]) IN
  /\ Arriving(n)
  /\ p.type = "Hello"
  /\ IsForUs(n, p)
  /\ ~IsDuplicate(n, p)
  /\ air' = Popped(n)
  /\ MarkReceived(n, p)
  /\ Enqueue(n, p)
  /\ UNCHANGED <<device, txSeq, pending, sending, chat, history>>

HandleMessage(n) ==
  LET p == Head(air[n]) IN
  /\ Arriving(n)
  /\ p.type = "Message"
  /\ IsForUs(n, p)
  /\ ~IsDuplicate(n, p)
  /\ MarkReceived(n, p)
  /\ air' = Broadcast(Popped(n), n, Make("Ack", n, p.src, p.seq))
  /\ Enqueue(n, p)
  /\ accepted' = [accepted EXCEPT ![n] = @ \cup {Id(p)}]
  /\ UNCHANGED <<device, txSeq, pending, sending, chat, acked, gaveUp>>

Receive(n) ==
  \/ HandleAck(n)
  \/ HandleForeign(n)
  \/ HandleDuplicate(n)
  \/ HandlePing(n)
  \/ HandlePong(n)
  \/ HandleHello(n)
  \/ HandleMessage(n)

-----------------------------------------------------------------------------
(* The protocol task: LinkProbe::poll sends a PING when its interval is    *)
(* over.  ChatService::poll empties the queue into the conversation, one   *)
(* packet per iteration; it skips what is not a MESSAGE.                   *)
ProbePoll(n) ==
  /\ n \in Probers
  /\ up[n]
  /\ NextSequence(n)
  /\ air' = Broadcast(air, n, Make("Ping", n, Peer[n], txSeq[n]))
  /\ UNCHANGED <<device, seen, pending, sending, inbound, chat, history>>

(* Mutant: what is not a MESSAGE flushes the queue. *)
ChatPollFlushing(n) ==
  LET p == Head(inbound[n]) IN
  /\ up[n]
  /\ inbound[n] # <<>>
  /\ inbound' = [inbound EXCEPT ![n] = IF p.type = "Message" THEN Tail(@) ELSE <<>>]
  /\ chat' = IF p.type = "Message" THEN [chat EXCEPT ![n] = Append(@, p)] ELSE chat
  /\ UNCHANGED <<device, txSeq, seen, pending, sending, air, history>>

ChatPoll(n) ==
  LET p == Head(inbound[n]) IN
  /\ up[n]
  /\ inbound[n] # <<>>
  /\ inbound' = [inbound EXCEPT ![n] = Tail(@)]
  /\ chat' = IF p.type = "Message" THEN [chat EXCEPT ![n] = Append(@, p)] ELSE chat
  /\ UNCHANGED <<device, txSeq, seen, pending, sending, air, history>>

-----------------------------------------------------------------------------
Init ==
  /\ up       = [n \in Nodes |-> FALSE]
  /\ boots    = [n \in Nodes |-> 0]
  /\ txSeq    = [n \in Nodes |-> 0]
  /\ seen     = [n \in Nodes |-> <<>>]
  /\ pending  = [n \in Nodes |-> {}]
  /\ sending  = [n \in Nodes |-> {}]
  /\ inbound  = [n \in Nodes |-> <<>>]
  /\ chat     = [n \in Nodes |-> <<>>]
  /\ air      = [n \in Nodes |-> <<>>]
  /\ accepted = [n \in Nodes |-> {}]
  /\ acked    = [n \in Nodes |-> {}]
  /\ gaveUp   = [n \in Nodes |-> {}]

ProtocolTask(n) ==
  ProcessRetries(n) \/ Receive(n) \/ ProbePoll(n) \/ ChatPoll(n)

ApplicationTask(n) ==
  SendMessage(n) \/ SendRefused(n) \/ RegisterPending(n)

Environment(n) == Boot(n) \/ PowerLoss(n) \/ LoseFrame(n)

Next == \E n \in Nodes : ProtocolTask(n) \/ ApplicationTask(n) \/ Environment(n)

Spec == Init /\ [][Next]_vars

(* The protocol task never stops, a caller of send() runs on, and millis() *)
(* passes every deadline: an entry that stays pending expires in the end.  *)
Fairness == \A n \in Nodes :
  /\ WF_vars(RegisterPending(n))
  /\ WF_vars(ProcessRetries(n))
  /\ WF_vars(Receive(n))
  /\ WF_vars(ChatPoll(n))

FairSpec == Spec /\ Fairness

-----------------------------------------------------------------------------
(* The type of every variable; the chat holds MESSAGEs only, what is       *)
(* registered or being registered is a MESSAGE of the device itself.       *)
TypeOK ==
  /\ up \in [Nodes -> BOOLEAN]
  /\ boots \in [Nodes -> Nat]
  /\ txSeq \in [Nodes -> Nat]
  /\ seen \in [Nodes -> Seq(Nodes \X Nat)]
  /\ pending \in [Nodes -> SUBSET PendingTx]
  /\ sending \in [Nodes -> SUBSET Packet]
  /\ inbound \in [Nodes -> Seq(Packet)]
  /\ chat \in [Nodes -> Seq(Packet)]
  /\ air \in [Nodes -> Seq(Packet)]
  /\ accepted \in [Nodes -> SUBSET Ids]
  /\ acked \in [Nodes -> SUBSET Ids]
  /\ gaveUp \in [Nodes -> SUBSET Ids]

(* What the acknowledgement promises: when onAck releases a message, the   *)
(* device it was sent to has accepted that very message.                   *)
AckSound == \A n \in Nodes : acked[n] \subseteq accepted[Peer[n]]

(* The AckManager settles every message at most once: what is acknowledged *)
(* or given up is no longer pending, is not registered later by the send() *)
(* still running, and has one verdict; no message is pending twice.        *)
Settled(n) == acked[n] \cup gaveUp[n]

SettledOnceAt(n) ==
  /\ acked[n] \cap gaveUp[n] = {}
  /\ \A t \in pending[n] : Id(t.packet) \notin Settled(n)
  /\ \A p \in sending[n] : Id(p) \notin Settled(n)
  /\ \A t, u \in pending[n] : t # u => Id(t.packet) # Id(u.packet)
  /\ \A t \in pending[n], p \in sending[n] : Id(t.packet) # Id(p)

SettledOnce == \A n \in Nodes : SettledOnceAt(n)

(* Deduplication: while a slot of m_seen is still free, no (source,        *)
(* sequence) is passed on to the chat twice since power-up, whatever is    *)
(* retried, whoever restarts.                                              *)
KeysDiffer(s)   == \A i, j \in 1..Len(s) : Key(s[i]) = Key(s[j]) => i = j
KeysApart(s, t) == \A i \in 1..Len(s), j \in 1..Len(t) : Key(s[i]) # Key(t[j])

AtMostOnceAt(n) ==
  KeysDiffer(chat[n]) /\ KeysDiffer(inbound[n]) /\ KeysApart(chat[n], inbound[n])

AtMostOnce == \A n \in Nodes : Len(seen[n]) < SeenSlots => AtMostOnceAt(n)

(* An accepted message is not lost on its way to the conversation.         *)
InChat(n, id)    == \E i \in 1..Len(chat[n]) : Id(chat[n][i]) = id
InInbound(n, id) == \E i \in 1..Len(inbound[n]) : Id(inbound[n][i]) = id

AcceptedReachesChat == \A n \in Nodes :
  \A id \in accepted[n] : InChat(n, id) \/ InInbound(n, id)

(* What is dropped as a duplicate MESSAGE was accepted before: markReceived *)
(* for a HELLO, a PING or a PONG never shadows a text.                     *)
DuplicatesOnly == [][\A n \in Nodes :
  HandleDuplicate(n) /\ Head(air[n]).type = "Message"
    => Id(Head(air[n])) \in accepted[n]]_vars

(* Every MESSAGE addressed to the device that its transport handles is     *)
(* answered with an ACK (as far as the receivers have room for one).       *)
AutoAck == [][\A n \in Nodes :
  /\ Arriving(n) /\ Head(air[n]).type = "Message" /\ IsForUs(n, Head(air[n]))
  /\ HandleDuplicate(n) \/ HandleMessage(n)
  => air' = Broadcast(Popped(n), n, Make("Ack", n, Head(air[n]).src, Head(air[n]).seq))]_vars

(* What a device still waits for. *)
Outstanding(n) == {t.packet : t \in pending[n]} \cup sending[n]

(* Every message that was put on the air settles: it is acknowledged,      *)
(* given up, or was never tracked because the AckManager had no slot for   *)
(* it; or the device loses power, which forgets it.  So, however often a   *)
(* device has something outstanding, it comes to have nothing.             *)
PendingSettles == \A n \in Nodes : []<>(Outstanding(n) = {})

(* A message that a device accepted in its first boot shows up in its      *)
(* conversation, unless it loses power.                                    *)
ShownOrLost(n) ==
  \/ ~up[n] \/ boots[n] > 1
  \/ \A id \in accepted[n] : InChat(n, id)

AcceptedIsShown == \A n \in Nodes : []<>ShownOrLost(n)

-----------------------------------------------------------------------------
(* The invariants the proofs need beside the type.                         *)

(* Message ids of n that were drawn before now, in this boot or an earlier *)
(* one.                                                                    *)
Drawn(n, id) ==
  /\ id[1] = n
  /\ id[2] <= boots[n]
  /\ up[n] /\ id[2] = boots[n] => id[3] < txSeq[n]

(* What a device waits for are its own messages of this boot, each with a  *)
(* number of its own; what it settled was drawn.                           *)
OwnMessage(n, p) ==
  /\ p.type = "Message" /\ p.src = n /\ p.dest = Peer[n]
  /\ p.epoch = boots[n] /\ p.seq < txSeq[n]

OutstandingInvAt(n) ==
  /\ pending[n] # {} \/ sending[n] # {} => up[n]
  /\ \A t \in pending[n] : OwnMessage(n, t.packet)
  /\ \A p \in sending[n] : OwnMessage(n, p)
  /\ \A p, q \in sending[n] : Id(p) = Id(q) => p = q
  /\ \A id \in Settled(n) : Drawn(n, id)

OutstandingInv == \A n \in Nodes : OutstandingInvAt(n)

(* Until the table is full, all that was passed on is remembered.          *)
KeysKnown(table, s) == \A i \in 1..Len(s) : Known(table, Key(s[i]))

AllRemembered(n) == KeysKnown(seen[n], chat[n]) /\ KeysKnown(seen[n], inbound[n])

DedupInvAt(n) ==
  /\ Len(seen[n]) <= SeenSlots
  /\ Len(seen[n]) < SeenSlots => AllRemembered(n)

DedupInv == \A n \in Nodes : DedupInvAt(n)

(* Two devices that are powered once: a frame on the air to n comes from   *)
(* the other device; an ACK names a message its sender accepted, a MESSAGE *)
(* one that was drawn.                                                     *)
PointToPoint == \A m, n \in Nodes : m # n => Peer[m] = n

FrameOK(n, p) ==
  /\ p.src # n /\ p.dest = n /\ p.epoch = 1
  /\ p.type = "Ack" => <<n, 1, p.seq>> \in accepted[p.src]
  /\ p.type = "Message" => p.seq < txSeq[p.src]

Frames(s) == {s[i] : i \in 1..Len(s)}

AirInv == \A n \in Nodes :
  /\ up[n] => boots[n] = 1
  /\ ~up[n] => boots[n] = 0 /\ txSeq[n] = 0
  /\ \A p \in Frames(air[n]) : FrameOK(n, p)

-----------------------------------------------------------------------------
(* Two devices that are powered once implement the abstract delivery: the  *)
(* messages a device has drawn are those with a number below m_tx_seq.     *)
DrawnIds(n) == {<<n, 1, s>> : s \in 0..(txSeq[n] - 1)}

Delivery == INSTANCE ReliableDelivery WITH
              drawn <- [n \in Nodes |-> DrawnIds(n)],
              Ids <- UNION {{<<n, 1, s>> : s \in 0..(MaxSeq[n] - 1)} : n \in Nodes}

Implements == Delivery!Spec

=============================================================================
