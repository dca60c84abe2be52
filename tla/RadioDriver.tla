---------------------------- MODULE RadioDriver -----------------------------
(***************************************************************************)
(* A device's radio under its tasks: Sx1278Driver (sx1278_driver.cpp) or   *)
(* E220Driver (e220_driver.cpp), whose mutex the application's tasks and   *)
(* the protocol task share, with what reliable_transport.cpp makes of what *)
(* it receives.  A frame that is sent stands for its call of sendPacket, a *)
(* frame that comes in for the packet it was made of: it decodes to this   *)
(* packet, and not at all if it is damaged (DecodesWhatWasEncoded).  The   *)
(* radio has been initialized.  Time passes only in transmissions: all     *)
(* else is short against the second of lock().                             *)
(***************************************************************************)
EXTENDS PacketCodec, FiniteSets

CONSTANTS
  Proto,        \* the protocol task
  AppTasks,     \* the tasks that send texts: loop() and the web server's
  None,         \* no task
  Boards,       \* a subset of {"SX1278", "E220"}: what RadioFactory may build
  Sx1278Limit,  \* kMaxRadioFrame
  E220Limit,    \* 200
  LockWait,     \* lock(1000), in ticks
  AirTimes,     \* ticks a transmission may take
  Texts,        \* what may be typed
  Incoming,     \* the packets the other device sends, in order
  MaxSends      \* bound on the sequence numbers drawn

Tasks == AppTasks \cup {Proto}

ASSUME RadioAssumption ==
  /\ Proto \notin AppTasks /\ None \notin Tasks
  /\ Boards \subseteq {"SX1278", "E220"}
  /\ LockWait \in Nat /\ AirTimes \subseteq Nat
  /\ Texts \subseteq Seq(Byte)
  /\ Incoming \in Seq(PacketType)

VARIABLES
  board,      \* which driver was built in
  holder,     \* the task that holds m_mutex, or None
  pc,         \* where each task is
  waited,     \* ticks it has waited in lock()
  job,        \* the sendPacket call it is in: at most one number
  left,       \* ticks until the transmission ends
  fifo,       \* the frame written to the chip: at most one such number
  rx,         \* frames the chip took in and nobody read yet: [no, intact]
  listening,  \* SX1278: in receive mode (the E220 always is)
  out,        \* what receivePacket returned: at most one such frame
  replying,   \* the protocol task is sending an ACK or PONG, inside its poll loop
  seq,        \* m_tx_seq
  arrived     \* how many of Incoming have gone by

(* History: the number of sendPacket calls, the frames that went over the  *)
(* air, those that sendPacket reported sent and those it did not; the      *)
(* packets taken in undamaged, those lost in the chip, and those decoded.  *)
VARIABLES calls, air, told, refused, clean, missed, decoded

chip    == <<fifo, rx, listening>>
history == <<calls, air, told, refused, clean, missed, decoded>>
vars    == <<board, holder, pc, waited, job, left, chip, out, replying,
             seq, arrived, history>>

Message == 16
Ack     == 17
Ping    == 2
Pong    == 3
AckReq  == 1
Self    == 2
Peer    == 1
Everyone == 65535

-----------------------------------------------------------------------------
(* The packets a device builds (packet_builder.cpp). *)
Packet(type, flags, number, payload) ==
  [version |-> Version, type |-> type, flags |-> flags, sequence |-> number,
   source_id |-> Self, dest_id |-> Peer, hop_count |-> 0, ttl |-> 8,
   timestamp |-> 0, payload |-> payload]

Cut(text) == SubSeq(text, 1, IF Len(text) > MaxPayload THEN MaxPayload ELSE Len(text))

MakeMessage(number, text) == Packet(Message, AckReq, number, Cut(text))
MakePing(number)          == Packet(Ping, 0, number, <<>>)
MakeAck(pkt)              == Packet(Ack, 0, pkt.sequence, <<>>)
MakePong(pkt)             ==
  Packet(Pong, 0, pkt.sequence, <<pkt.sequence \div 256, pkt.sequence % 256>>)

-----------------------------------------------------------------------------
GoTo(t, place) == pc' = [pc EXCEPT ![t] = place]

FrameLimit == IF board = "E220" THEN E220Limit ELSE Sx1278Limit

Fits(pkt) == Encodable(pkt) /\ WireSize(pkt) <= FrameLimit

(* transmitPacket and the first lines of sendPacket: what is too long for  *)
(* the radio is refused before the lock is asked for.                      *)
SendPacket(t, pkt, back) ==
  /\ calls' = calls + 1
  /\ IF Fits(pkt)
     THEN /\ job' = [job EXCEPT ![t] = <<calls>>]
          /\ waited' = [waited EXCEPT ![t] = 0]
          /\ GoTo(t, "lockTx")
          /\ UNCHANGED refused
     ELSE /\ refused' = refused \cup {calls}
          /\ GoTo(t, back)
          /\ UNCHANGED <<job, waited>>

(* After sendPacket: an ACK or PONG was sent inside the loop of poll().    *)
Return(t) ==
  /\ GoTo(t, IF t = Proto /\ replying THEN "poll" ELSE "idle")
  /\ replying' = (replying /\ t # Proto)

(* sendMessage in one of the application's tasks. *)
SendText(t, text) ==
  /\ pc[t] = "idle"
  /\ seq < MaxSends
  /\ seq' = seq + 1
  /\ SendPacket(t, MakeMessage(seq, text), "idle")
  /\ UNCHANGED <<board, holder, left, chip, out, replying, arrived, air, told,
                 clean, missed, decoded>>

(* The protocol task transmits on its own account: a probe or a retry. *)
Probe ==
  /\ pc[Proto] = "idle"
  /\ seq < MaxSends
  /\ seq' = seq + 1
  /\ SendPacket(Proto, MakePing(seq), "idle")
  /\ UNCHANGED <<board, holder, left, chip, out, replying, arrived, air, told,
                 clean, missed, decoded>>

-----------------------------------------------------------------------------
(* sendPacket: the lock is obtained, or a second passes without it. *)
(* Mutant: the channel is listened to first (isChannelFree), which reads   *)
(* the frame that waits in the chip.                                       *)
LockTxListening(t) ==
  /\ pc[t] = "lockTx"
  /\ holder = None
  /\ holder' = t
  /\ rx' = IF board = "SX1278" THEN <<>> ELSE rx
  /\ GoTo(t, "write")
  /\ UNCHANGED <<board, waited, job, left, fifo, listening, out, replying, seq,
                 arrived, history>>

LockTx(t) ==
  /\ pc[t] = "lockTx"
  /\ holder = None
  /\ holder' = t
  /\ GoTo(t, "write")
  /\ UNCHANGED <<board, waited, job, left, chip, out, replying, seq, arrived, history>>

LockTimeout(t) ==
  /\ pc[t] = "lockTx"
  /\ holder # None
  /\ waited[t] = LockWait
  /\ refused' = refused \cup {job[t][1]}
  /\ Return(t)
  /\ UNCHANGED <<board, holder, waited, job, left, chip, out, seq, arrived,
                 calls, air, told, clean, missed, decoded>>

(* beginPacket and write.  The SX1278 has one buffer for both directions:  *)
(* what it took in and nobody read is gone, and it stops listening.        *)
BeginPacket ==
  IF board = "SX1278"
  THEN /\ missed' = missed \cup {rx[i].no : i \in 1..Len(rx)}
       /\ rx' = <<>>
       /\ listening' = FALSE
  ELSE UNCHANGED <<missed, rx, listening>>

WritePacket(t) ==
  /\ pc[t] = "write"
  /\ BeginPacket
  /\ fifo' = job[t]
  /\ left' \in AirTimes
  /\ GoTo(t, "onAir")
  /\ UNCHANGED <<board, holder, waited, job, out, replying, seq, arrived,
                 calls, air, told, refused, clean, decoded>>

(* Mutant: the wait for the mutex has no limit. *)
TickForEver ==
  /\ holder # None
  /\ pc[holder] = "onAir"
  /\ left > 0
  /\ left' = left - 1
  /\ waited' = [t \in Tasks |-> IF pc[t] = "lockTx" THEN waited[t] + 1 ELSE waited[t]]
  /\ UNCHANGED <<board, holder, pc, job, chip, out, replying, seq, arrived, history>>

(* A tick of a transmission.  Whoever has waited a second does not wait    *)
(* longer, nor does the protocol task for the lock of receivePacket.       *)
Tick ==
  /\ holder # None
  /\ pc[holder] = "onAir"
  /\ left > 0
  /\ pc[Proto] # "poll"
  /\ \A t \in Tasks : pc[t] = "lockTx" => waited[t] < LockWait
  /\ left' = left - 1
  /\ waited' = [t \in Tasks |-> IF pc[t] = "lockTx" THEN waited[t] + 1 ELSE waited[t]]
  /\ UNCHANGED <<board, holder, pc, job, chip, out, replying, seq, arrived, history>>

(* endPacket, or the return of SendFrame, and unlock(). *)
EndPacket(t) ==
  /\ pc[t] = "onAir"
  /\ left = 0
  /\ holder' = None
  /\ air' = air \o fifo
  /\ told' = told \o job[t]
  /\ Return(t)
  /\ UNCHANGED <<board, waited, job, left, chip, out, seq, arrived,
                 calls, refused, clean, missed, decoded>>

(* Mutant: the error path returns with the mutex. *)
TxFailsLocked(t) ==
  /\ pc[t] = "write"
  /\ BeginPacket
  /\ refused' = refused \cup {job[t][1]}
  /\ Return(t)
  /\ UNCHANGED <<board, holder, waited, job, left, fifo, out, seq, arrived,
                 calls, air, told, clean, decoded>>

(* The radio reports that it sent nothing; unlock() all the same. *)
TxFails(t) ==
  /\ pc[t] = "write"
  /\ BeginPacket
  /\ holder' = None
  /\ refused' = refused \cup {job[t][1]}
  /\ Return(t)
  /\ UNCHANGED <<board, waited, job, left, fifo, out, seq, arrived,
                 calls, air, told, clean, decoded>>

-----------------------------------------------------------------------------
(* poll() calls receivePacket until it returns false. *)
Poll ==
  /\ pc[Proto] = "idle"
  /\ GoTo(Proto, "poll")
  /\ UNCHANGED <<board, holder, waited, job, left, chip, out, replying, seq,
                 arrived, history>>

(* Mutant: whether lock() succeeded is not looked at. *)
LockRxUnchecked ==
  /\ pc[Proto] = "poll"
  /\ holder' = IF holder = None THEN Proto ELSE holder
  /\ GoTo(Proto, "parse")
  /\ UNCHANGED <<board, waited, job, left, chip, out, replying, seq, arrived, history>>

LockRx ==
  /\ pc[Proto] = "poll"
  /\ holder = None
  /\ holder' = Proto
  /\ GoTo(Proto, "parse")
  /\ UNCHANGED <<board, waited, job, left, chip, out, replying, seq, arrived, history>>

(* The lock is asked for longer (5 or 10 ms) than the caller wants to      *)
(* wait (2 ms): one attempt, and receivePacket returns false.              *)
RxLockTimeout ==
  /\ pc[Proto] = "poll"
  /\ holder # None
  /\ GoTo(Proto, "idle")
  /\ UNCHANGED <<board, holder, waited, job, left, chip, out, replying, seq,
                 arrived, history>>

(* parsePacket of the SX1278: a frame is read and leaves the chip idle; if *)
(* there is none, the chip is told to receive, its buffer from the start.  *)
ParseSx1278 ==
  /\ board = "SX1278"
  /\ IF rx # <<>>
     THEN /\ out' = <<rx[1]>>
          /\ rx' = <<>>
          /\ UNCHANGED <<listening, fifo>>
     ELSE /\ listening' = TRUE
          /\ fifo' = <<>>
          /\ UNCHANGED <<out, rx>>
  /\ UNCHANGED missed

(* RecieveFrame of the E220: all that came in over the serial line is one  *)
(* frame, which decode reads up to the first packet's end.                 *)
ParseE220 ==
  /\ board = "E220"
  /\ IF rx # <<>>
     THEN /\ out' = <<rx[1]>>
          /\ missed' = missed \cup {rx[i].no : i \in 2..Len(rx)}
          /\ rx' = <<>>
     ELSE UNCHANGED <<out, missed, rx>>
  /\ UNCHANGED <<listening, fifo>>

Parse ==
  /\ pc[Proto] = "parse"
  /\ ParseSx1278 \/ ParseE220
  /\ holder' = None
  /\ GoTo(Proto, IF rx = <<>> THEN "idle" ELSE "handle")
  /\ UNCHANGED <<board, waited, job, left, replying, seq, arrived, calls, air,
                 told, refused, clean, decoded>>

(* handleRx, as far as it decodes the bytes and answers; the packets of    *)
(* Incoming are new to the device.                                         *)
IsForUs(pkt) == pkt.dest_id \in {Self, Everyone}

NeedsReply(pkt) ==
  /\ IsForUs(pkt)
  /\ pkt.type = Ping \/ (pkt.type \notin {Ack, Pong} /\ Bit(pkt.flags, 0) = 1)

Reply(pkt) == IF pkt.type = Ping THEN MakePong(pkt) ELSE MakeAck(pkt)

HandleRx ==
  /\ pc[Proto] = "handle"
  /\ out' = <<>>
  /\ IF ~out[1].intact
     THEN /\ GoTo(Proto, "poll")
          /\ UNCHANGED <<decoded, calls, job, waited, replying, refused>>
     ELSE LET pkt == Incoming[out[1].no] IN
          /\ decoded' = Append(decoded, out[1].no)
          /\ IF NeedsReply(pkt)
             THEN /\ replying' = Fits(Reply(pkt))
                  /\ SendPacket(Proto, Reply(pkt), "poll")
             ELSE /\ GoTo(Proto, "poll")
                  /\ UNCHANGED <<calls, job, waited, replying, refused>>
  /\ UNCHANGED <<board, holder, left, chip, seq, arrived, air, told, clean, missed>>

-----------------------------------------------------------------------------
(* The next packet of the other device goes by, damaged or not.  A device  *)
(* that transmits does not hear it, an SX1278 that does not listen neither;*)
(* having heard one, the SX1278 waits to be read.                          *)
Transmitting == holder # None /\ pc[holder] = "onAir"

Hears == ~Transmitting /\ (board = "E220" \/ listening)

Arrive(intact) ==
  /\ arrived < Len(Incoming)
  /\ arrived' = arrived + 1
  /\ IF Hears
     THEN /\ rx' = Append(rx, [no |-> arrived + 1, intact |-> intact])
          /\ listening' = FALSE
          /\ clean' = IF intact THEN clean \cup {arrived + 1} ELSE clean
     ELSE UNCHANGED <<rx, listening, clean>>
  /\ UNCHANGED <<board, holder, pc, waited, job, left, fifo, out, replying, seq,
                 calls, air, told, refused, missed, decoded>>

-----------------------------------------------------------------------------
Init ==
  /\ board \in Boards
  /\ holder = None
  /\ pc = [t \in Tasks |-> "idle"]
  /\ waited = [t \in Tasks |-> 0]
  /\ job = [t \in Tasks |-> <<>>]
  /\ left = 0
  /\ fifo = <<>>
  /\ rx = <<>>
  /\ listening = FALSE
  /\ out = <<>>
  /\ replying = FALSE
  /\ seq = 0
  /\ arrived = 0
  /\ calls = 0
  /\ air = <<>>
  /\ told = <<>>
  /\ refused = {}
  /\ clean = {}
  /\ missed = {}
  /\ decoded = <<>>

Sending(t) ==
  LockTx(t) \/ LockTimeout(t) \/ WritePacket(t) \/ EndPacket(t) \/ TxFails(t)

Receiving == Poll \/ LockRx \/ RxLockTimeout \/ Parse \/ HandleRx

Next ==
  \/ \E t \in AppTasks, text \in Texts : SendText(t, text)
  \/ Probe
  \/ \E t \in Tasks : Sending(t)
  \/ Receiving
  \/ Tick
  \/ \E intact \in BOOLEAN : Arrive(intact)

Spec == Init /\ [][Next]_vars

(* A task that runs goes on, a transmission ends, and a task that waits    *)
(* gets the mutex if it is free again and again: it is woken when the      *)
(* mutex is given back, and the protocol task sleeps between its rounds.   *)
Fairness ==
  /\ SF_vars(Tick)
  /\ WF_vars(LockRx \/ RxLockTimeout)
  /\ WF_vars(Parse)
  /\ WF_vars(HandleRx)
  /\ \A t \in Tasks :
       /\ SF_vars(LockTx(t))
       /\ WF_vars(LockTimeout(t))
       /\ WF_vars(WritePacket(t) \/ TxFails(t))
       /\ WF_vars(EndPacket(t))

FairSpec == Spec /\ Fairness

-----------------------------------------------------------------------------
Frame == [no : 1..Len(Incoming), intact : BOOLEAN]

(* The type of every variable. *)
TypeOK ==
  /\ board \in Boards
  /\ holder \in Tasks \cup {None}
  /\ pc \in [Tasks -> {"idle", "lockTx", "write", "onAir", "poll", "parse", "handle"}]
  /\ waited \in [Tasks -> 0..LockWait]
  /\ job \in [Tasks -> Seq(Nat)]
  /\ left \in Nat
  /\ fifo \in Seq(Nat)
  /\ rx \in Seq(Frame)
  /\ listening \in BOOLEAN
  /\ out \in Seq(Frame)
  /\ replying \in BOOLEAN
  /\ seq \in Nat
  /\ arrived \in 0..Len(Incoming)
  /\ calls \in Nat
  /\ air \in Seq(Nat)
  /\ told \in Seq(Nat)
  /\ refused \in SUBSET Nat
  /\ clean \in SUBSET (1..Len(Incoming))
  /\ missed \in SUBSET (1..Len(Incoming))
  /\ decoded \in Seq(1..Len(Incoming))

(* Bit k of the octet at i is number 8 * (i - 1) + k. *)
FlipBits(bytes, bits) == [i \in 1..Len(bytes) |->
  LET flipped[k \in 0..8] ==
        IF k = 0 THEN bytes[i]
        ELSE IF 8 * (i - 1) + k \in bits THEN Flip(flipped[k - 1], k - 1) ELSE flipped[k - 1]
  IN  flipped[8]]

Robust == {i \in 1..Len(Incoming) :
  LET bytes == Encode(Incoming[i]) IN
  /\ Len(bytes) = WireSize(Incoming[i])
  /\ \A tail \in {<<>>} \cup {Encode(Incoming[j]) : j \in 1..Len(Incoming)} :
       Decodable(bytes \o tail) /\ Decode(bytes \o tail) = Incoming[i]
  /\ \A n \in 0..(Len(bytes) - 1) : ~Decodable(SubSeq(bytes, 1, n))
  /\ \A a, b \in 1..(8 * Len(bytes)) : ~Decodable(FlipBits(bytes, {a, b}))}

(* The wire format: the frame of a packet that came in decodes to that     *)
(* packet, also when other bytes follow it; it does not decode when it was *)
(* cut short or one or two of its bits were flipped, wherever they are.    *)
DecodesWhatWasEncoded == 1..arrived \subseteq Robust

(* What sendPacket says of a frame is true, whatever other tasks do with   *)
(* the radio meanwhile: what was reported sent went over the air whole,    *)
(* once and in this order, and nothing else did.                           *)
SendVerdict ==
  /\ air = told
  /\ \A i \in 1..Len(air) : air[i] \notin refused
  /\ \A i, j \in 1..Len(air) : i < j => air[i] # air[j]

(* The transport decodes packets in the order in which they arrived, none  *)
(* twice.  One that the radio took in undamaged is decoded, unless this    *)
(* device transmitted before it was read (SX1278) or it waited behind      *)
(* another (E220): the tasks that share the radio lose it in no other way. *)
InHand == {rx[i].no : i \in 1..Len(rx)} \cup {out[i].no : i \in 1..Len(out)}

HeardIsDecoded ==
  /\ \A i, j \in 1..Len(decoded) : i < j => decoded[i] < decoded[j]
  /\ clean \subseteq InHand \cup missed \cup {decoded[i] : i \in 1..Len(decoded)}

(* Every call of the driver returns, and the mutex is given back, also     *)
(* when the radio fails: no task waits for ever, and none keeps the rest   *)
(* from sending and receiving.                                             *)
CallsReturn == \A t \in Tasks :
  pc[t] # "idle" \/ holder = t ~> pc[t] = "idle" /\ holder # t

=============================================================================
