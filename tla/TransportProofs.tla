-------------------------- MODULE TransportProofs --------------------------
(* Proofs about Transport, for every set of devices and every bound.       *)
EXTENDS Transport, FiniteSetTheorems, TLAPS

-----------------------------------------------------------------------------
(* Lemmas about the operators of the model. *)

(* A transmission of a packet keeps every channel a sequence of packets.   *)
LEMMA BroadcastType ==
  ASSUME NEW a \in [Nodes -> Seq(Packet)], NEW n \in Nodes, NEW p \in Packet,
         up \in [Nodes -> BOOLEAN]
  PROVE  Broadcast(a, n, p) \in [Nodes -> Seq(Packet)]
BY DEF Broadcast

(* The frame at the head of a channel is a packet, and so are the rest.    *)
LEMMA ArrivingType ==
  ASSUME TypeOK, NEW n \in Nodes, Arriving(n)
  PROVE  /\ Head(air[n]) \in Packet
         /\ Popped(n) \in [Nodes -> Seq(Packet)]
BY DEF TypeOK, Arriving, Popped

(* What Make builds is a packet. *)
LEMMA MakeType ==
  ASSUME TypeOK, NEW n \in Nodes, NEW type \in PacketType, NEW dest \in Nodes,
         NEW seq \in Nat
  PROVE  Make(type, n, dest, seq) \in Packet
BY DEF TypeOK, Make, MakeIn, Packet

(* What a device builds with a number it draws.                            *)
LEMMA MakeNumbered ==
  ASSUME TypeOK, NEW n \in Nodes, NEW type \in {"Message", "Ping"},
         NEW q, q = Make(type, n, Peer[n], txSeq[n])
  PROVE  q \in Packet /\ q.src = n /\ q.seq = txSeq[n] /\ q.type = type
<1>1. Peer[n] \in Nodes /\ txSeq[n] \in Nat /\ type \in PacketType
  BY PeerAssumption DEF TypeOK, PacketType
<1>2. q \in Packet
  BY <1>1, MakeType
<1>3. QED
  BY <1>2 DEF Make, MakeIn

(* The name of a pending packet is a message id.                           *)
LEMMA PendingIdType ==
  ASSUME TypeOK, NEW n \in Nodes, NEW t \in pending[n]
  PROVE  t \in PendingTx /\ t.packet \in Packet /\ Id(t.packet) \in Ids
<1>1. t \in PendingTx
  BY DEF TypeOK
<1>2. t.packet \in Packet
  BY <1>1 DEF PendingTx
<1>3. QED
  BY <1>1, <1>2 DEF Packet, Id, Ids

(* Overwriting an element of a sequence keeps its type and length.         *)
LEMMA ExceptSeq ==
  ASSUME NEW S, NEW s \in Seq(S), NEW i, NEW e \in S
  PROVE  /\ [s EXCEPT ![i] = e] \in Seq(S)
         /\ Len([s EXCEPT ![i] = e]) = Len(s)
<1>1. s \in [1..Len(s) -> S] /\ Len(s) \in Nat
  OBVIOUS
<1>2. [s EXCEPT ![i] = e] \in [1..Len(s) -> S]
  BY <1>1
<1>3. QED
  BY <1>1, <1>2

(* markReceived keeps the table a sequence of keys.                        *)
LEMMA MarkReceivedType ==
  ASSUME TypeOK, NEW n \in Nodes, NEW p \in Packet, MarkReceived(n, p)
  PROVE  seen' \in [Nodes -> Seq(Nodes \X Nat)]
<1>1. Key(p) \in Nodes \X Nat
  BY DEF Key, Packet
<1>2. seen[n] \in Seq(Nodes \X Nat)
  BY DEF TypeOK
<1>3. Append(seen[n], Key(p)) \in Seq(Nodes \X Nat)
  BY <1>1, <1>2
<1>4. [seen[n] EXCEPT ![(p.seq % SeenSlots) + 1] = Key(p)] \in Seq(Nodes \X Nat)
  BY <1>1, <1>2, ExceptSeq
<1>5. QED
  BY <1>3, <1>4 DEF MarkReceived, TypeOK

-----------------------------------------------------------------------------
(* Type correctness. *)

(* Every step of the specification keeps every variable in its type.       *)
LEMMA TypeStep == TypeOK /\ [Next]_vars => TypeOK'
<1> SUFFICES ASSUME TypeOK, [Next]_vars PROVE TypeOK'
  OBVIOUS
<1>1. ASSUME NEW n \in Nodes, NEW t \in pending[n], Retry(n, t) PROVE TypeOK'
  <2>1. t \in PendingTx /\ t.packet \in Packet
    BY DEF TypeOK, PendingTx
  <2>2. Track(t.packet, t.attempts + 1) \in PendingTx
    BY <2>1 DEF PendingTx, Track
  <2>3. pending' \in [Nodes -> SUBSET PendingTx]
    BY <1>1, <2>2 DEF TypeOK, Retry
  <2>4. air' \in [Nodes -> Seq(Packet)]
    BY <1>1, <2>1, BroadcastType DEF TypeOK, Retry
  <2>5. QED
    BY <1>1, <2>3, <2>4 DEF TypeOK, Retry, device, history
<1>2. ASSUME NEW n \in Nodes, NEW t \in pending[n], GiveUp(n, t) PROVE TypeOK'
  <2>1. Id(t.packet) \in Ids
    BY PendingIdType
  <2>2. gaveUp' \in [Nodes -> SUBSET Ids]
    BY <1>2, <2>1 DEF TypeOK, GiveUp
  <2>3. QED
    BY <1>2, <2>2 DEF TypeOK, GiveUp, device
<1>3. ASSUME NEW n \in Nodes, HandleAck(n) PROVE TypeOK'
  <2>1. air' \in [Nodes -> Seq(Packet)]
    BY <1>3, ArrivingType DEF HandleAck
  <2>2. CASE UNCHANGED <<pending, acked>>
    BY <1>3, <2>1, <2>2 DEF TypeOK, HandleAck, device
  <2>3. ASSUME NEW t \in pending[n],
               pending' = [pending EXCEPT ![n] = @ \ {t}],
               acked' = [acked EXCEPT ![n] = @ \cup {Id(t.packet)}]
        PROVE  TypeOK'
    <3>1. Id(t.packet) \in Ids
      BY PendingIdType
    <3>2. pending' \in [Nodes -> SUBSET PendingTx] /\ acked' \in [Nodes -> SUBSET Ids]
      BY <2>3, <3>1 DEF TypeOK
    <3>3. QED
      BY <1>3, <2>1, <3>2 DEF TypeOK, HandleAck, device
  <2>4. QED
    BY <1>3, <2>2, <2>3 DEF HandleAck
<1>4. ASSUME NEW n \in Nodes, HandleForeign(n) \/ HandleDuplicate(n) \/ LoseFrame(n)
      PROVE  TypeOK'
  <2>1. air' \in [Nodes -> Seq(Packet)]
    BY <1>4, ArrivingType DEF HandleForeign, HandleDuplicate, LoseFrame
  <2>2. QED
    BY <1>4, <2>1 DEF TypeOK, HandleForeign, HandleDuplicate, LoseFrame, device, history
<1>5. ASSUME NEW n \in Nodes, HandlePing(n) PROVE TypeOK'
  <2> DEFINE p == Head(air[n])
  <2>1. p \in Packet /\ Popped(n) \in [Nodes -> Seq(Packet)]
    BY <1>5, ArrivingType DEF HandlePing
  <2>2. Make("Pong", n, p.src, p.seq) \in Packet
    BY <2>1, MakeType DEF Packet, PacketType
  <2>3. air' \in [Nodes -> Seq(Packet)]
    BY <1>5, <2>1, <2>2, BroadcastType DEF HandlePing, TypeOK
  <2>4. seen' \in [Nodes -> Seq(Nodes \X Nat)]
    BY <1>5, <2>1, MarkReceivedType DEF HandlePing
  <2>5. QED
    BY <1>5, <2>3, <2>4 DEF TypeOK, HandlePing, device, history
<1>6. ASSUME NEW n \in Nodes, HandlePong(n) PROVE TypeOK'
  <2>1. Head(air[n]) \in Packet /\ air' \in [Nodes -> Seq(Packet)]
    BY <1>6, ArrivingType DEF HandlePong
  <2>2. seen' \in [Nodes -> Seq(Nodes \X Nat)]
    BY <1>6, <2>1, MarkReceivedType DEF HandlePong
  <2>3. QED
    BY <1>6, <2>1, <2>2 DEF TypeOK, HandlePong, device, history
<1>7. ASSUME NEW n \in Nodes, HandleHello(n) PROVE TypeOK'
  <2>1. Head(air[n]) \in Packet /\ air' \in [Nodes -> Seq(Packet)]
    BY <1>7, ArrivingType DEF HandleHello
  <2>2. seen' \in [Nodes -> Seq(Nodes \X Nat)]
    BY <1>7, <2>1, MarkReceivedType DEF HandleHello
  <2>3. inbound' \in [Nodes -> Seq(Packet)]
    BY <1>7, <2>1 DEF TypeOK, HandleHello, Enqueue
  <2>4. QED
    BY <1>7, <2>1, <2>2, <2>3 DEF TypeOK, HandleHello, device, history
<1>8. ASSUME NEW n \in Nodes, HandleMessage(n) PROVE TypeOK'
  <2> DEFINE p == Head(air[n])
  <2>1. p \in Packet /\ Popped(n) \in [Nodes -> Seq(Packet)]
    BY <1>8, ArrivingType DEF HandleMessage
  <2>2. Make("Ack", n, p.src, p.seq) \in Packet
    BY <2>1, MakeType DEF Packet, PacketType
  <2>3. air' \in [Nodes -> Seq(Packet)]
    BY <1>8, <2>1, <2>2, BroadcastType DEF HandleMessage, TypeOK
  <2>4. seen' \in [Nodes -> Seq(Nodes \X Nat)]
    BY <1>8, <2>1, MarkReceivedType DEF HandleMessage
  <2>5. inbound' \in [Nodes -> Seq(Packet)]
    BY <1>8, <2>1 DEF TypeOK, HandleMessage, Enqueue
  <2>6. Id(p) \in Ids
    BY <2>1 DEF Packet, Id, Ids
  <2>7. accepted' \in [Nodes -> SUBSET Ids]
    BY <1>8, <2>6 DEF TypeOK, HandleMessage
  <2>8. QED
    BY <1>8, <2>3, <2>4, <2>5, <2>7 DEF TypeOK, HandleMessage, device
<1>9. ASSUME NEW n \in Nodes, ProbePoll(n) PROVE TypeOK'
  <2>1. Make("Ping", n, Peer[n], txSeq[n]) \in Packet
    BY MakeType, PeerAssumption DEF PacketType, TypeOK
  <2>2. air' \in [Nodes -> Seq(Packet)]
    BY <1>9, <2>1, BroadcastType DEF ProbePoll, TypeOK
  <2>3. txSeq' \in [Nodes -> Nat]
    BY <1>9 DEF ProbePoll, NextSequence, TypeOK
  <2>4. QED
    BY <1>9, <2>2, <2>3 DEF TypeOK, ProbePoll, device, history
<1>10. ASSUME NEW n \in Nodes, ChatPoll(n) PROVE TypeOK'
  <2>1. Head(inbound[n]) \in Packet /\ Tail(inbound[n]) \in Seq(Packet)
    BY <1>10 DEF TypeOK, ChatPoll
  <2>2. inbound' \in [Nodes -> Seq(Packet)] /\ chat' \in [Nodes -> Seq(Packet)]
    BY <1>10, <2>1 DEF TypeOK, ChatPoll
  <2>3. QED
    BY <1>10, <2>2 DEF TypeOK, ChatPoll, device, history
<1>11. ASSUME NEW n \in Nodes, SendMessage(n) PROVE TypeOK'
  <2>1. Make("Message", n, Peer[n], txSeq[n]) \in Packet
    BY MakeType, PeerAssumption DEF PacketType, TypeOK
  <2>2. air' \in [Nodes -> Seq(Packet)]
    BY <1>11, <2>1, BroadcastType DEF SendMessage, TypeOK
  <2>3. txSeq' \in [Nodes -> Nat] /\ sending' \in [Nodes -> SUBSET Packet]
    BY <1>11, <2>1 DEF SendMessage, NextSequence, TypeOK
  <2>4. QED
    BY <1>11, <2>2, <2>3 DEF TypeOK, SendMessage, device, history
<1>12. ASSUME NEW n \in Nodes, SendRefused(n) PROVE TypeOK'
  BY <1>12 DEF TypeOK, SendRefused, NextSequence, device, history
<1>13. ASSUME NEW n \in Nodes, RegisterPending(n) PROVE TypeOK'
  <2>1. \A p \in sending[n] : Track(p, 0) \in PendingTx
    BY DEF TypeOK, PendingTx, Track
  <2>2. sending' \in [Nodes -> SUBSET Packet]
    BY <1>13 DEF TypeOK, RegisterPending
  <2>p. pending' \in [Nodes -> SUBSET PendingTx]
    <3>1. PICK p \in sending[n] :
            \/ pending' = [pending EXCEPT ![n] = @ \cup {Track(p, 0)}]
            \/ pending' = pending
      BY <1>13 DEF RegisterPending
    <3>2. PICK t \in PendingTx : t = Track(p, 0)
      BY <2>1
    <3>3. pending \in [Nodes -> SUBSET PendingTx]
      BY DEF TypeOK
    <3>4. QED
      BY <3>1, <3>2, <3>3
  <2>3. QED
    BY <1>13, <2>2, <2>p DEF TypeOK, RegisterPending, device, history
<1>14. ASSUME NEW n \in Nodes, Boot(n) PROVE TypeOK'
  <2>1. Peer[n] \in Nodes
    BY PeerAssumption
  <2>2. boots[n] + 1 \in Nat
    BY DEF TypeOK
  <2>3. MakeIn(boots[n] + 1, "Hello", n, Peer[n], 1) \in Packet
    BY <2>1, <2>2 DEF MakeIn, Packet, PacketType
  <2>4. air' \in [Nodes -> Seq(Packet)]
    BY <1>14, <2>3, BroadcastType DEF Boot, TypeOK
  <2>5. up' \in [Nodes -> BOOLEAN] /\ boots' \in [Nodes -> Nat]
    BY <1>14 DEF Boot, TypeOK
  <2>6. QED
    BY <1>14, <2>4, <2>5 DEF TypeOK, Boot, history
<1>15. ASSUME NEW n \in Nodes, PowerLoss(n) PROVE TypeOK'
  BY <1>15 DEF TypeOK, PowerLoss, history
<1>16. CASE UNCHANGED vars
  BY <1>16 DEF TypeOK, vars
<1>17. QED
  BY <1>1, <1>2, <1>3, <1>4, <1>5, <1>6, <1>7, <1>8, <1>9, <1>10, <1>11, <1>12,
     <1>13, <1>14, <1>15, <1>16
  DEF Next, ProtocolTask, ApplicationTask, Environment, ProcessRetries, Receive

(* Every variable has its type in every reachable state.                   *)
THEOREM TypeCorrect == Spec => []TypeOK
<1>1. Init => TypeOK
  BY DEF Init, TypeOK
<1>2. TypeOK /\ [Next]_vars => TypeOK'
  BY TypeStep
<1>3. QED
  BY <1>1, <1>2, PTL DEF Spec

-----------------------------------------------------------------------------
(* One verdict per message. *)

SettleAt(n) == OutstandingInvAt(n) /\ SettledOnceAt(n)

(* Steps that leave the sender's bookkeeping of n alone, but for numbers   *)
(* drawn for something else than a message, do not disturb it.             *)
LEMMA SettleFrame ==
  ASSUME TypeOK, NEW n \in Nodes, SettleAt(n),
         up'[n] = up[n], boots'[n] = boots[n],
         txSeq'[n] \in Nat, txSeq[n] <= txSeq'[n],
         pending'[n] = pending[n], sending'[n] = sending[n],
         acked'[n] = acked[n], gaveUp'[n] = gaveUp[n]
  PROVE  SettleAt(n)'
<1>1. \A p \in Packet : OwnMessage(n, p) => OwnMessage(n, p)'
  BY DEF OwnMessage, TypeOK, Packet
<1>2. \A id \in Ids : Drawn(n, id) => Drawn(n, id)'
  BY DEF Drawn, TypeOK, Ids
<1>3. /\ \A t \in pending[n] : t.packet \in Packet
      /\ sending[n] \subseteq Packet
      /\ Settled(n) \subseteq Ids
  BY PendingIdType DEF TypeOK, Settled
<1>4. Settled(n)' = Settled(n)
  BY DEF Settled
<1>5. OutstandingInvAt(n)'
  BY <1>1, <1>2, <1>3, <1>4 DEF SettleAt, OutstandingInvAt
<1>6. SettledOnceAt(n)'
  BY <1>4 DEF SettleAt, SettledOnceAt
<1>7. QED
  BY <1>5, <1>6 DEF SettleAt

(* One lemma per action that touches the bookkeeping of its device.        *)
LEMMA SettleRetry ==
  ASSUME TypeOK, NEW n \in Nodes, SettleAt(n), NEW t \in pending[n], Retry(n, t)
  PROVE  SettleAt(n)'
<1> DEFINE u == Track(t.packet, t.attempts + 1)
<1>1. /\ pending'[n] = (pending[n] \ {t}) \cup {u}
      /\ u.packet = t.packet
  BY DEF Retry, Track, TypeOK
<1>2. /\ up'[n] /\ boots' = boots /\ txSeq' = txSeq /\ sending' = sending
      /\ acked' = acked /\ gaveUp' = gaveUp
  BY DEF Retry, device, history
<1>3. OutstandingInvAt(n)'
  BY <1>1, <1>2 DEF SettleAt, OutstandingInvAt, OwnMessage, Drawn, Settled
<1>4. SettledOnceAt(n)'
  BY <1>1, <1>2 DEF SettleAt, SettledOnceAt, Settled
<1>5. QED
  BY <1>3, <1>4 DEF SettleAt

(* A verdict removes the entry it is about.                                *)
LEMMA SettleVerdict ==
  ASSUME TypeOK, NEW n \in Nodes, SettleAt(n), NEW t \in pending[n],
         up' = up, boots' = boots, txSeq' = txSeq, sending' = sending,
         pending'[n] = pending[n] \ {t},
         \/ acked'[n] = acked[n] \cup {Id(t.packet)} /\ gaveUp'[n] = gaveUp[n]
         \/ gaveUp'[n] = gaveUp[n] \cup {Id(t.packet)} /\ acked'[n] = acked[n]
  PROVE  SettleAt(n)'
<1>1. Settled(n)' = Settled(n) \cup {Id(t.packet)}
  BY DEF Settled
<1>2. Drawn(n, Id(t.packet))
  <2>1. OwnMessage(n, t.packet) /\ boots[n] \in Nat
    BY DEF SettleAt, OutstandingInvAt, TypeOK
  <2>2. Id(t.packet) = <<n, boots[n], t.packet.seq>> /\ t.packet.seq < txSeq[n]
    BY <2>1 DEF OwnMessage, Id
  <2>3. QED
    BY <2>1, <2>2 DEF Drawn
<1>3. \A id : Drawn(n, id)' = Drawn(n, id)
  BY DEF Drawn
<1>4. \A p : OwnMessage(n, p)' = OwnMessage(n, p)
  BY DEF OwnMessage
<1>5. OutstandingInvAt(n)'
  BY <1>1, <1>2, <1>3, <1>4 DEF SettleAt, OutstandingInvAt
<1>6. SettledOnceAt(n)'
  <2>1. (acked[n] \cap gaveUp[n])' = {}
    BY DEF SettleAt, SettledOnceAt, Settled
  <2>2. QED
    BY <1>1, <2>1 DEF SettleAt, SettledOnceAt
<1>7. QED
  BY <1>5, <1>6 DEF SettleAt

(* A fresh number names a message that is nowhere yet.                     *)
LEMMA SettleSend ==
  ASSUME TypeOK, NEW n \in Nodes, SettleAt(n), SendMessage(n)
  PROVE  SettleAt(n)'
<1>0. PICK p : p = Make("Message", n, Peer[n], txSeq[n])
  OBVIOUS
<1>1. /\ up[n] /\ sending'[n] = sending[n] \cup {p} /\ sending[n] \subseteq Packet
      /\ txSeq'[n] = txSeq[n] + 1 /\ txSeq[n] \in Nat
  BY <1>0 DEF SendMessage, TaskFree, NextSequence, TypeOK
<1>2. up' = up /\ boots' = boots /\ pending' = pending /\ acked' = acked /\ gaveUp' = gaveUp
  BY DEF SendMessage, device, history
<1>3. /\ p.type = "Message" /\ p.src = n /\ p.dest = Peer[n]
      /\ p.epoch = boots[n] /\ p.seq = txSeq[n]
      /\ Id(p) = <<n, boots[n], txSeq[n]>>
  BY <1>0 DEF Make, MakeIn, Id
<1>4. \A q \in Packet : OwnMessage(n, q) => OwnMessage(n, q)' /\ Id(q) # Id(p)
  BY <1>1, <1>2, <1>3 DEF OwnMessage, Id, Packet
<1>5. \A id \in Ids : Drawn(n, id) => Drawn(n, id)' /\ id # Id(p)
  BY <1>1, <1>2, <1>3 DEF Drawn, Ids
<1>6. /\ \A t \in pending[n] : t.packet \in Packet
      /\ Settled(n) \subseteq Ids /\ Settled(n)' = Settled(n)
  BY <1>2, PendingIdType DEF TypeOK, Settled
<1>7. OwnMessage(n, p)'
  BY <1>1, <1>2, <1>3 DEF OwnMessage
<1>8. OutstandingInvAt(n)'
  BY <1>1, <1>2, <1>4, <1>5, <1>6, <1>7 DEF SettleAt, OutstandingInvAt
<1>9. SettledOnceAt(n)'
  <2>1. Id(p) \notin Settled(n)
    BY <1>5, <1>6 DEF SettleAt, OutstandingInvAt
  <2>2. \A t \in pending[n] : Id(t.packet) # Id(p)
    BY <1>4, <1>6 DEF SettleAt, OutstandingInvAt
  <2>3. QED
    BY <1>1, <1>2, <1>6, <2>1, <2>2 DEF SettleAt, SettledOnceAt
<1>10. QED
  BY <1>8, <1>9 DEF SettleAt

(* The packet moves from the running send() to the AckManager, or out.     *)
LEMMA SettleRegister ==
  ASSUME TypeOK, NEW n \in Nodes, SettleAt(n), RegisterPending(n)
  PROVE  SettleAt(n)'
<1>1. PICK p \in sending[n] :
        /\ up[n]
        /\ sending'[n] = sending[n] \ {p}
        /\ pending'[n] = pending[n] \/ pending'[n] = pending[n] \cup {Track(p, 0)}
  BY DEF RegisterPending, TypeOK
<1>2. /\ up' = up /\ boots' = boots /\ txSeq' = txSeq
      /\ acked' = acked /\ gaveUp' = gaveUp
  BY DEF RegisterPending, device, history
<1>3. \A q \in sending'[n] : q \in sending[n] /\ Id(q) # Id(p)
  BY <1>1 DEF SettleAt, OutstandingInvAt
<1>4. Track(p, 0).packet = p
  BY DEF Track
<1>5. /\ \A q : OwnMessage(n, q)' = OwnMessage(n, q)
      /\ \A id : Drawn(n, id)' = Drawn(n, id)
      /\ Settled(n)' = Settled(n)
  BY <1>2 DEF OwnMessage, Drawn, Settled
<1>6. OutstandingInvAt(n)'
  BY <1>1, <1>2, <1>3, <1>4, <1>5 DEF SettleAt, OutstandingInvAt
<1>7. SettledOnceAt(n)'
  BY <1>1, <1>2, <1>3, <1>4, <1>5 DEF SettleAt, SettledOnceAt
<1>8. QED
  BY <1>6, <1>7 DEF SettleAt

(* Powering up and down: nothing is outstanding, what was drawn stays so.  *)
LEMMA SettlePower ==
  ASSUME TypeOK, NEW n \in Nodes, SettleAt(n), Boot(n) \/ PowerLoss(n)
  PROVE  SettleAt(n)'
<1>1. /\ pending'[n] = {} /\ sending'[n] = {}
      /\ acked' = acked /\ gaveUp' = gaveUp
  BY DEF Boot, PowerLoss, SettleAt, OutstandingInvAt, history, TypeOK
<1>2. ASSUME NEW id \in Ids, Drawn(n, id) PROVE Drawn(n, id)'
  <2>1. id[2] \in Nat /\ boots[n] \in Nat
    BY DEF Ids, TypeOK
  <2>2. CASE Boot(n)
    <3>1. boots'[n] = boots[n] + 1
      BY <2>2 DEF Boot, TypeOK
    <3>2. QED
      BY <1>2, <2>1, <3>1 DEF Drawn
  <2>3. CASE PowerLoss(n)
    <3>1. boots' = boots /\ ~up'[n]
      BY <2>3 DEF PowerLoss, TypeOK
    <3>2. QED
      BY <1>2, <3>1 DEF Drawn
  <2>4. QED
    BY <2>2, <2>3
<1>3. Settled(n)' = Settled(n) /\ Settled(n) \subseteq Ids
  BY <1>1 DEF Settled, TypeOK
<1>4. QED
  BY <1>1, <1>2, <1>3 DEF SettleAt, OutstandingInvAt, SettledOnceAt

(* Every step preserves the invariant of every device.                     *)
LEMMA SettleStep ==
  ASSUME TypeOK, TypeOK', \A n \in Nodes : SettleAt(n), [Next]_vars
  PROVE  \A m \in Nodes : SettleAt(m)'
<1> DEFINE Same(m) == /\ up'[m] = up[m] /\ boots'[m] = boots[m]
                      /\ txSeq'[m] \in Nat /\ txSeq[m] <= txSeq'[m]
                      /\ pending'[m] = pending[m] /\ sending'[m] = sending[m]
                      /\ acked'[m] = acked[m] /\ gaveUp'[m] = gaveUp[m]
<1>a. ASSUME NEW m \in Nodes, Same(m) PROVE SettleAt(m)'
  BY <1>a, SettleFrame
<1>b. \A m \in Nodes : txSeq[m] \in Nat
  BY DEF TypeOK
<1> HIDE DEF Same
<1>1. ASSUME NEW n \in Nodes, NEW t \in pending[n], Retry(n, t)
      PROVE  \A m \in Nodes : SettleAt(m)'
  <2>1. \A m \in Nodes \ {n} : Same(m)
    BY <1>1, <1>b DEF Same, Retry, TypeOK, NextSequence, device, history
  <2>2. SettleAt(n)'
    BY <1>1, SettleRetry
  <2>3. QED
    BY <2>1, <2>2, <1>a
<1>2. ASSUME NEW n \in Nodes, NEW t \in pending[n], GiveUp(n, t)
      PROVE  \A m \in Nodes : SettleAt(m)'
  <2>1. \A m \in Nodes \ {n} : Same(m)
    BY <1>2, <1>b DEF Same, GiveUp, TypeOK, NextSequence, device, history
  <2>2. /\ up' = up /\ boots' = boots /\ txSeq' = txSeq /\ sending' = sending
        /\ pending'[n] = pending[n] \ {t} /\ acked'[n] = acked[n]
        /\ gaveUp'[n] = gaveUp[n] \cup {Id(t.packet)}
    BY <1>2 DEF GiveUp, TypeOK, device
  <2>3. SettleAt(n)'
    BY <2>2, SettleVerdict
  <2>4. QED
    BY <2>1, <2>3, <1>a
<1>3. ASSUME NEW n \in Nodes, HandleAck(n)
      PROVE  \A m \in Nodes : SettleAt(m)'
  <2>1. \A m \in Nodes \ {n} : Same(m)
    BY <1>3, <1>b DEF Same, HandleAck, TypeOK, NextSequence, device, history
  <2>2. CASE UNCHANGED <<pending, acked>>
    <3>1. Same(n)
      BY <1>3, <2>2, <1>b DEF Same, HandleAck, device
    <3>2. QED
      BY <2>1, <3>1, <1>a
  <2>3. ASSUME NEW t \in pending[n],
               pending' = [pending EXCEPT ![n] = @ \ {t}],
               acked' = [acked EXCEPT ![n] = @ \cup {Id(t.packet)}]
        PROVE  \A m \in Nodes : SettleAt(m)'
    <3>1. /\ up' = up /\ boots' = boots /\ txSeq' = txSeq /\ sending' = sending
          /\ pending'[n] = pending[n] \ {t} /\ gaveUp'[n] = gaveUp[n]
          /\ acked'[n] = acked[n] \cup {Id(t.packet)}
      BY <1>3, <2>3 DEF HandleAck, TypeOK, device
    <3>2. SettleAt(n)'
      BY <3>1, SettleVerdict
    <3>3. QED
      BY <2>1, <3>2, <1>a
  <2>4. QED
    BY <1>3, <2>2, <2>3 DEF HandleAck
<1>4. ASSUME NEW n \in Nodes, SendMessage(n)
      PROVE  \A m \in Nodes : SettleAt(m)'
  <2>1. \A m \in Nodes \ {n} : Same(m)
    BY <1>4, <1>b DEF Same, SendMessage, TypeOK, NextSequence, device, history
  <2>2. SettleAt(n)'
    BY <1>4, SettleSend
  <2>3. QED
    BY <2>1, <2>2, <1>a
<1>5. ASSUME NEW n \in Nodes, RegisterPending(n)
      PROVE  \A m \in Nodes : SettleAt(m)'
  <2>1. \A m \in Nodes \ {n} : Same(m)
    BY <1>5, <1>b DEF Same, RegisterPending, TypeOK, NextSequence, device, history
  <2>2. SettleAt(n)'
    BY <1>5, SettleRegister
  <2>3. QED
    BY <2>1, <2>2, <1>a
<1>6. ASSUME NEW n \in Nodes, Boot(n) \/ PowerLoss(n)
      PROVE  \A m \in Nodes : SettleAt(m)'
  <2>1. \A m \in Nodes \ {n} : Same(m)
    <3>1. CASE Boot(n)
      BY <3>1, <1>b DEF Same, Boot, TypeOK, history
    <3>2. CASE PowerLoss(n)
      BY <3>2, <1>b DEF Same, PowerLoss, TypeOK, history
    <3>3. QED
      BY <1>6, <3>1, <3>2
  <2>2. SettleAt(n)'
    BY <1>6, SettlePower
  <2>3. QED
    BY <2>1, <2>2, <1>a
<1>7. ASSUME NEW n \in Nodes, SendRefused(n) \/ ProbePoll(n)
      PROVE  \A m \in Nodes : SettleAt(m)'
  <2>1. /\ txSeq' = [txSeq EXCEPT ![n] = @ + 1] /\ txSeq \in [Nodes -> Nat]
        /\ up' = up /\ boots' = boots /\ pending' = pending
        /\ sending' = sending /\ acked' = acked /\ gaveUp' = gaveUp
    BY <1>7 DEF SendRefused, ProbePoll, NextSequence, TypeOK, device, history
  <2>2. \A m \in Nodes : txSeq'[m] \in Nat /\ txSeq[m] <= txSeq'[m]
    BY <2>1
  <2>3. \A m \in Nodes : Same(m)
    BY <2>1, <2>2 DEF Same
  <2>4. QED
    BY <2>3, <1>a
<1>8. ASSUME NEW n \in Nodes,
             \/ HandleForeign(n) \/ HandleDuplicate(n) \/ LoseFrame(n)
             \/ HandlePing(n) \/ HandlePong(n) \/ HandleHello(n)
             \/ HandleMessage(n) \/ ChatPoll(n)
      PROVE  \A m \in Nodes : SettleAt(m)'
  <2>1. \A m \in Nodes : Same(m)
    BY <1>8, <1>b DEF Same, HandleForeign, HandleDuplicate, LoseFrame, HandlePing,
       HandlePong, HandleHello, HandleMessage, ChatPoll, device, history
  <2>2. QED
    BY <2>1, <1>a
<1>9. CASE UNCHANGED vars
  <2>1. \A m \in Nodes : Same(m)
    BY <1>9, <1>b DEF Same, vars
  <2>2. QED
    BY <2>1, <1>a
<1>10. QED
  BY <1>1, <1>2, <1>3, <1>4, <1>5, <1>6, <1>7, <1>8, <1>9
  DEF Next, ProtocolTask, ApplicationTask, Environment, ProcessRetries, Receive

(* A message never gets two verdicts, is never pending twice, and is not   *)
(* pending any more once it has one - whatever is lost, retried, restarted *)
(* or sent meanwhile, and in whichever order send() and the ACK come.      *)
THEOREM OneVerdict == Spec => []SettledOnce
<1> DEFINE Inv == TypeOK /\ \A n \in Nodes : SettleAt(n)
<1>1. Init => Inv
  BY DEF Init, TypeOK, SettleAt, OutstandingInvAt, SettledOnceAt, Settled
<1>2. Inv /\ [Next]_vars => Inv'
  BY TypeStep, SettleStep
<1>3. Inv => SettledOnce
  BY DEF SettleAt, SettledOnce
<1>4. QED
  BY <1>1, <1>2, <1>3, PTL DEF Spec

-----------------------------------------------------------------------------
(* At most once, while the duplicate table has room. *)

(* A table that grows forgets nothing and learns what is appended.         *)
LEMMA KnownAppend ==
  ASSUME NEW S, NEW s \in Seq(S), NEW e \in S
  PROVE  /\ Known(Append(s, e), e)
         /\ \A key : Known(s, key) => Known(Append(s, e), key)
<1>1. /\ Len(Append(s, e)) = Len(s) + 1 /\ Len(s) \in Nat
      /\ Append(s, e)[Len(s) + 1] = e
      /\ \A i \in 1..Len(s) : Append(s, e)[i] = s[i]
  OBVIOUS
<1>2. Known(Append(s, e), e)
  BY <1>1 DEF Known
<1>3. ASSUME NEW key, Known(s, key) PROVE Known(Append(s, e), key)
  <2>1. PICK i \in 1..Len(s) : s[i] = key
    BY <1>3 DEF Known
  <2>2. i \in 1..Len(Append(s, e)) /\ Append(s, e)[i] = key
    BY <1>1, <2>1
  <2>3. QED
    BY <2>2 DEF Known
<1>4. QED
  BY <1>2, <1>3

(* Appending a packet, to a table and to sequences of packets.             *)
LEMMA KeysKnownAppend ==
  ASSUME NEW s \in Seq(Packet), NEW p \in Packet, NEW table,
         KeysKnown(table, s), Known(table, Key(p))
  PROVE  KeysKnown(table, Append(s, p))
<1>1. \A i \in 1..Len(Append(s, p)) :
        \/ i \in 1..Len(s) /\ Append(s, p)[i] = s[i]
        \/ Append(s, p)[i] = p
  OBVIOUS
<1>2. QED
  BY <1>1 DEF KeysKnown

LEMMA KeysKnownGrow ==
  ASSUME NEW s, NEW table, NEW table2, KeysKnown(table, s),
         \A key : Known(table, key) => Known(table2, key)
  PROVE  KeysKnown(table2, s)
BY DEF KeysKnown

LEMMA KeysDifferAppend ==
  ASSUME NEW s \in Seq(Packet), NEW p \in Packet, KeysDiffer(s),
         \A i \in 1..Len(s) : Key(s[i]) # Key(p)
  PROVE  KeysDiffer(Append(s, p))
<1>1. \A i \in 1..Len(Append(s, p)) :
        \/ i \in 1..Len(s) /\ Append(s, p)[i] = s[i]
        \/ i = Len(s) + 1 /\ Append(s, p)[i] = p
  OBVIOUS
<1>2. QED
  BY <1>1 DEF KeysDiffer

LEMMA KeysApartAppend ==
  ASSUME NEW s \in Seq(Packet), NEW t \in Seq(Packet), NEW p \in Packet, KeysApart(s, t),
         \A i \in 1..Len(s) : Key(s[i]) # Key(p)
  PROVE  KeysApart(s, Append(t, p)) /\ KeysApart(Append(t, p), s)
<1>1. \A i \in 1..Len(Append(t, p)) :
        \/ i \in 1..Len(t) /\ Append(t, p)[i] = t[i]
        \/ Append(t, p)[i] = p
  OBVIOUS
<1>2. QED
  BY <1>1 DEF KeysApart

(* Taking the oldest packet off a queue.                                   *)
LEMMA KeysTail ==
  ASSUME NEW s \in Seq(Packet), s # <<>>
  PROVE  /\ \A table : KeysKnown(table, s) => KeysKnown(table, Tail(s)) /\ Known(table, Key(s[1]))
         /\ KeysDiffer(s) => /\ KeysDiffer(Tail(s))
                             /\ \A i \in 1..Len(Tail(s)) : Key(Tail(s)[i]) # Key(s[1])
         /\ \A t : KeysApart(t, s) => /\ KeysApart(t, Tail(s))
                                      /\ \A i \in 1..Len(t) : Key(t[i]) # Key(s[1])
<1>1. /\ Len(s) \in Nat \ {0} /\ Len(Tail(s)) = Len(s) - 1 /\ 1 \in 1..Len(s)
      /\ \A i \in 1..Len(Tail(s)) : i + 1 \in 1..Len(s) /\ i + 1 # 1 /\ Tail(s)[i] = s[i + 1]
  OBVIOUS
<1>2. \A table : KeysKnown(table, s) => KeysKnown(table, Tail(s)) /\ Known(table, Key(s[1]))
  BY <1>1 DEF KeysKnown
<1>3. ASSUME KeysDiffer(s)
      PROVE  KeysDiffer(Tail(s)) /\ \A i \in 1..Len(Tail(s)) : Key(Tail(s)[i]) # Key(s[1])
  BY <1>1, <1>3 DEF KeysDiffer
<1>4. ASSUME NEW t, KeysApart(t, s)
      PROVE  KeysApart(t, Tail(s)) /\ \A i \in 1..Len(t) : Key(t[i]) # Key(s[1])
  BY <1>1, <1>4 DEF KeysApart
<1>5. QED
  BY <1>2, <1>3, <1>4

OnceAt(n) == DedupInvAt(n) /\ (Len(seen[n]) < SeenSlots => AtMostOnceAt(n))

LEMMA OnceFrame ==
  ASSUME NEW n \in Nodes, OnceAt(n), seen'[n] = seen[n],
         chat'[n] = chat[n], inbound'[n] = inbound[n]
  PROVE  OnceAt(n)'
BY DEF OnceAt, DedupInvAt, AllRemembered, AtMostOnceAt

(* markReceived adds the key; while a slot is free nothing is forgotten.   *)
LEMMA MarkReceivedEffect ==
  ASSUME TypeOK, NEW n \in Nodes, NEW p \in Packet, MarkReceived(n, p), OnceAt(n)
  PROVE  /\ Len(seen[n]) <= Len(seen'[n]) /\ Len(seen'[n]) <= SeenSlots
         /\ Len(seen'[n]) < SeenSlots =>
              /\ Known(seen'[n], Key(p))
              /\ \A key : Known(seen[n], key) => Known(seen'[n], key)
<1> USE BoundsAssumption
<1>1. PICK key \in Nodes \X Nat : key = Key(p)
  BY DEF Key, Packet
<1>2. seen[n] \in Seq(Nodes \X Nat) /\ Len(seen[n]) \in Nat
  BY DEF TypeOK
<1>3. Len(seen[n]) <= SeenSlots
  BY DEF OnceAt, DedupInvAt
<1>4. CASE Len(seen[n]) < SeenSlots
  <2>1. seen'[n] = Append(seen[n], key)
    BY <1>1, <1>4 DEF MarkReceived, TypeOK
  <2>2. Len(seen'[n]) = Len(seen[n]) + 1
    BY <1>2, <2>1
  <2>3. QED
    BY <1>1, <1>2, <1>4, <2>1, <2>2, KnownAppend
<1>5. CASE ~(Len(seen[n]) < SeenSlots)
  <2>1. seen'[n] = [seen[n] EXCEPT ![(p.seq % SeenSlots) + 1] = key]
    BY <1>1, <1>5 DEF MarkReceived, TypeOK
  <2>2. Len(seen'[n]) = Len(seen[n])
    BY <1>2, <2>1, ExceptSeq
  <2>3. QED
    BY <1>2, <1>3, <1>5, <2>2
<1>6. QED
  BY <1>4, <1>5

(* A packet that is not a duplicate is passed on; the rest keeps its place. *)
LEMMA OnceEnqueue ==
  ASSUME TypeOK, NEW n \in Nodes, NEW p \in Packet, OnceAt(n),
         ~IsDuplicate(n, p), MarkReceived(n, p), Enqueue(n, p), chat' = chat
  PROVE  OnceAt(n)'
<1>1. /\ Len(seen[n]) <= Len(seen'[n]) /\ Len(seen'[n]) <= SeenSlots
      /\ Len(seen'[n]) < SeenSlots =>
           /\ Known(seen'[n], Key(p))
           /\ \A key : Known(seen[n], key) => Known(seen'[n], key)
  BY MarkReceivedEffect
<1>2. Len(seen[n]) \in Nat /\ Len(seen'[n]) \in Nat /\ SeenSlots \in Nat
  <2>1. seen' \in [Nodes -> Seq(Nodes \X Nat)]
    BY MarkReceivedType
  <2>2. QED
    BY <2>1, BoundsAssumption DEF TypeOK
<1>3. inbound[n] \in Seq(Packet) /\ chat[n] \in Seq(Packet)
  BY DEF TypeOK
<1>4. inbound'[n] = inbound[n] \/ inbound'[n] = Append(inbound[n], p)
  BY DEF Enqueue, TypeOK
<1>5. ASSUME Len(seen'[n]) < SeenSlots
      PROVE  AllRemembered(n)' /\ AtMostOnceAt(n)'
  <2>1. AtMostOnceAt(n) /\ AllRemembered(n)
    BY <1>1, <1>2, <1>5 DEF OnceAt, DedupInvAt
  <2>2. /\ \A i \in 1..Len(chat[n]) : Key(chat[n][i]) # Key(p)
        /\ \A i \in 1..Len(inbound[n]) : Key(inbound[n][i]) # Key(p)
    BY <2>1 DEF IsDuplicate, AllRemembered, KeysKnown
  <2>3. KeysKnown(seen'[n], chat[n]) /\ KeysKnown(seen'[n], inbound[n])
    BY <1>1, <1>5, <2>1, KeysKnownGrow DEF AllRemembered
  <2>4. KeysKnown(seen'[n], inbound'[n])
    BY <1>1, <1>3, <1>4, <1>5, <2>3, KeysKnownAppend
  <2>5. KeysDiffer(inbound'[n]) /\ KeysApart(chat[n], inbound'[n])
    BY <1>3, <1>4, <2>1, <2>2, KeysDifferAppend, KeysApartAppend DEF AtMostOnceAt
  <2>6. QED
    BY <2>1, <2>3, <2>4, <2>5 DEF AllRemembered, AtMostOnceAt
<1>6. QED
  BY <1>1, <1>5 DEF OnceAt, DedupInvAt

(* The chat service moves the oldest packet to the conversation, or drops  *)
(* it.                                                                     *)
LEMMA OnceChat ==
  ASSUME TypeOK, NEW n \in Nodes, OnceAt(n), ChatPoll(n)
  PROVE  OnceAt(n)'
<1>1. inbound[n] \in Seq(Packet) /\ chat[n] \in Seq(Packet) /\ inbound[n] # <<>>
  BY DEF ChatPoll, TypeOK
<1>2. PICK p \in Packet : p = inbound[n][1] /\ p = Head(inbound[n])
  BY <1>1
<1>3. /\ seen' = seen /\ inbound'[n] = Tail(inbound[n]) /\ Tail(inbound[n]) \in Seq(Packet)
      /\ chat'[n] = chat[n] \/ chat'[n] = Append(chat[n], p)
  BY <1>1, <1>2 DEF ChatPoll, TypeOK
<1>4. ASSUME AllRemembered(n) PROVE AllRemembered(n)'
  <2>1. KeysKnown(seen[n], Tail(inbound[n])) /\ Known(seen[n], Key(p))
    BY <1>1, <1>2, <1>4, KeysTail DEF AllRemembered
  <2>2. KeysKnown(seen[n], chat'[n])
    BY <1>1, <1>3, <1>4, <2>1, KeysKnownAppend DEF AllRemembered
  <2>3. QED
    BY <1>3, <2>1, <2>2 DEF AllRemembered
<1>5. ASSUME AtMostOnceAt(n) PROVE AtMostOnceAt(n)'
  <2>1. /\ KeysDiffer(Tail(inbound[n])) /\ KeysApart(chat[n], Tail(inbound[n]))
        /\ \A i \in 1..Len(Tail(inbound[n])) : Key(Tail(inbound[n])[i]) # Key(p)
        /\ \A i \in 1..Len(chat[n]) : Key(chat[n][i]) # Key(p)
    BY <1>1, <1>2, <1>5, KeysTail DEF AtMostOnceAt
  <2>2. KeysDiffer(chat'[n])
    BY <1>1, <1>3, <1>5, <2>1, KeysDifferAppend DEF AtMostOnceAt
  <2>3. KeysApart(Tail(inbound[n]), chat[n])
    BY <2>1 DEF KeysApart
  <2>4. KeysApart(chat'[n], Tail(inbound[n]))
    BY <1>1, <1>3, <2>1, <2>3, KeysApartAppend
  <2>5. QED
    BY <1>3, <2>1, <2>2, <2>4 DEF AtMostOnceAt
<1>6. QED
  BY <1>3, <1>4, <1>5 DEF OnceAt, DedupInvAt

(* A PING or a PONG is marked and not passed on.                           *)
LEMMA OnceMark ==
  ASSUME TypeOK, NEW n \in Nodes, NEW p \in Packet, OnceAt(n), MarkReceived(n, p),
         chat' = chat, inbound' = inbound
  PROVE  OnceAt(n)'
<1>1. /\ Len(seen[n]) <= Len(seen'[n]) /\ Len(seen'[n]) <= SeenSlots
      /\ Len(seen'[n]) < SeenSlots => \A key : Known(seen[n], key) => Known(seen'[n], key)
  BY MarkReceivedEffect
<1>2. Len(seen[n]) \in Nat /\ Len(seen'[n]) \in Nat /\ SeenSlots \in Nat
  <2>1. seen' \in [Nodes -> Seq(Nodes \X Nat)]
    BY MarkReceivedType
  <2>2. QED
    BY <2>1, BoundsAssumption DEF TypeOK
<1>3. ASSUME Len(seen'[n]) < SeenSlots
      PROVE  AllRemembered(n)' /\ AtMostOnceAt(n)'
  <2>1. AtMostOnceAt(n) /\ AllRemembered(n)
    BY <1>1, <1>2, <1>3 DEF OnceAt, DedupInvAt
  <2>2. KeysKnown(seen'[n], chat[n]) /\ KeysKnown(seen'[n], inbound[n])
    BY <1>1, <1>3, <2>1, KeysKnownGrow DEF AllRemembered
  <2>3. QED
    BY <2>1, <2>2 DEF AllRemembered, AtMostOnceAt
<1>4. QED
  BY <1>1, <1>3 DEF OnceAt, DedupInvAt

(* Every step preserves the invariant of every device.                     *)
LEMMA OnceStep ==
  ASSUME TypeOK, \A n \in Nodes : OnceAt(n), [Next]_vars
  PROVE  \A m \in Nodes : OnceAt(m)'
<1> DEFINE Same(m) == seen'[m] = seen[m] /\ chat'[m] = chat[m] /\ inbound'[m] = inbound[m]
<1>a. ASSUME NEW m \in Nodes, Same(m) PROVE OnceAt(m)'
  BY <1>a, OnceFrame
<1> HIDE DEF Same
<1>1. ASSUME NEW n \in Nodes, HandlePing(n) \/ HandlePong(n)
      PROVE  \A m \in Nodes : OnceAt(m)'
  <2>1. \A m \in Nodes \ {n} : Same(m)
    BY <1>1 DEF Same, HandlePing, HandlePong, MarkReceived, TypeOK
  <2>2. Head(air[n]) \in Packet
    BY <1>1, ArrivingType DEF HandlePing, HandlePong
  <2>3. OnceAt(n)'
    BY <1>1, <2>2, OnceMark DEF HandlePing, HandlePong
  <2>4. QED
    BY <2>1, <2>3, <1>a
<1>2. ASSUME NEW n \in Nodes, HandleHello(n) \/ HandleMessage(n)
      PROVE  \A m \in Nodes : OnceAt(m)'
  <2>1. \A m \in Nodes \ {n} : Same(m)
    BY <1>2 DEF Same, HandleHello, HandleMessage, MarkReceived, Enqueue, TypeOK
  <2>2. Head(air[n]) \in Packet
    BY <1>2, ArrivingType DEF HandleHello, HandleMessage
  <2>3. OnceAt(n)'
    BY <1>2, <2>2, OnceEnqueue DEF HandleHello, HandleMessage
  <2>4. QED
    BY <2>1, <2>3, <1>a
<1>3. ASSUME NEW n \in Nodes, ChatPoll(n)
      PROVE  \A m \in Nodes : OnceAt(m)'
  <2>1. \A m \in Nodes \ {n} : Same(m)
    BY <1>3 DEF Same, ChatPoll, TypeOK
  <2>2. OnceAt(n)'
    BY <1>3, OnceChat
  <2>3. QED
    BY <2>1, <2>2, <1>a
<1>4. ASSUME NEW n \in Nodes, PowerLoss(n)
      PROVE  \A m \in Nodes : OnceAt(m)'
  <2>1. \A m \in Nodes \ {n} : Same(m)
    BY <1>4 DEF Same, PowerLoss, TypeOK
  <2>2. seen'[n] = <<>> /\ chat'[n] = <<>> /\ inbound'[n] = <<>>
    BY <1>4 DEF PowerLoss, TypeOK
  <2>3. OnceAt(n)'
    BY <2>2, BoundsAssumption DEF OnceAt, DedupInvAt, AllRemembered, AtMostOnceAt,
       KeysKnown, KeysDiffer, KeysApart
  <2>4. QED
    BY <2>1, <2>3, <1>a
<1>5. ASSUME NEW n \in Nodes,
             \/ ProcessRetries(n) \/ HandleAck(n) \/ HandleForeign(n) \/ HandleDuplicate(n)
             \/ ProbePoll(n) \/ ApplicationTask(n) \/ Boot(n) \/ LoseFrame(n)
      PROVE  \A m \in Nodes : OnceAt(m)'
  <2>1. seen' = seen /\ chat' = chat /\ inbound' = inbound
    BY <1>5 DEF ProcessRetries, Retry, GiveUp, HandleAck, HandleForeign, HandleDuplicate,
       ProbePoll, ApplicationTask, SendMessage, SendRefused, RegisterPending, Boot, LoseFrame
  <2>2. QED
    BY <2>1, <1>a DEF Same
<1>6. CASE UNCHANGED vars
  BY <1>6, <1>a DEF Same, vars
<1>7. QED
  BY <1>1, <1>2, <1>3, <1>4, <1>5, <1>6 DEF Next, ProtocolTask, Environment, Receive

(* While its duplicate table has a free slot, a device passes no (source,  *)
(* sequence) on to the chat twice, however often the frame is repeated.    *)
THEOREM NoRepetition == Spec => []AtMostOnce
<1> DEFINE Inv == TypeOK /\ \A n \in Nodes : OnceAt(n)
<1>1. Init => Inv
  BY BoundsAssumption DEF Init, TypeOK, OnceAt, DedupInvAt, AllRemembered, AtMostOnceAt,
     KeysKnown, KeysDiffer, KeysApart
<1>2. Inv /\ [Next]_vars => Inv'
  BY TypeStep, OnceStep
<1>3. Inv => AtMostOnce
  BY DEF OnceAt, AtMostOnce
<1>4. QED
  BY <1>1, <1>2, <1>3, PTL DEF Spec

-----------------------------------------------------------------------------
(* Acknowledgements can be trusted, between two devices powered once. *)

LEMMA FramesAppend ==
  ASSUME NEW s \in Seq(Packet), NEW p \in Packet
  PROVE  Frames(Append(s, p)) \subseteq Frames(s) \cup {p}
<1>1. \A i \in 1..Len(Append(s, p)) :
        \/ i \in 1..Len(s) /\ Append(s, p)[i] = s[i]
        \/ Append(s, p)[i] = p
  OBVIOUS
<1>2. QED
  BY <1>1 DEF Frames

LEMMA FramesType ==
  ASSUME NEW s \in Seq(Packet)
  PROVE  Frames(s) \subseteq Packet
<1>1. \A i \in 1..Len(s) : s[i] \in Packet
  OBVIOUS
<1>2. QED
  BY <1>1 DEF Frames

LEMMA FramesTail ==
  ASSUME NEW s \in Seq(Packet), s # <<>>
  PROVE  Frames(Tail(s)) \subseteq Frames(s) /\ Head(s) \in Frames(s)
<1>1. /\ 1 \in 1..Len(s) /\ Head(s) = s[1]
      /\ \A i \in 1..Len(Tail(s)) : i + 1 \in 1..Len(s) /\ Tail(s)[i] = s[i + 1]
  OBVIOUS
<1>2. QED
  BY <1>1 DEF Frames

(* What may be on the air after n took a frame off it.                     *)
LEMMA FramesPopped ==
  ASSUME TypeOK, NEW n \in Nodes, Arriving(n), NEW m \in Nodes
  PROVE  /\ Frames(Popped(n)[m]) \subseteq Frames(air[m])
         /\ Head(air[n]) \in Frames(air[n])
<1>1. air[n] \in Seq(Packet) /\ air[n] # <<>>
  BY DEF TypeOK, Arriving
<1>2. air \in [Nodes -> Seq(Packet)]
  BY DEF TypeOK
<1>3. Popped(n)[m] = IF m = n THEN Tail(air[n]) ELSE air[m]
  BY <1>2 DEF Popped
<1>4. Frames(Tail(air[n])) \subseteq Frames(air[n]) /\ Head(air[n]) \in Frames(air[n])
  BY <1>1, FramesTail
<1>5. CASE m = n
  BY <1>3, <1>4, <1>5
<1>6. CASE m # n
  BY <1>3, <1>4, <1>6
<1>7. QED
  BY <1>5, <1>6

(* A frame that was all right stays so: nothing is un-accepted, numbers    *)
(* only grow.                                                              *)
LEMMA FrameStays ==
  ASSUME TypeOK, TypeOK', NEW n \in Nodes, NEW p \in Packet, FrameOK(n, p),
         \A m \in Nodes : accepted[m] \subseteq accepted'[m] /\ txSeq[m] <= txSeq'[m]
  PROVE  FrameOK(n, p)'
<1>1. p.src \in Nodes /\ p.seq \in Nat
  BY DEF Packet
<1>2. txSeq[p.src] \in Nat /\ txSeq'[p.src] \in Nat
  BY <1>1 DEF TypeOK
<1>3. QED
  BY <1>1, <1>2 DEF FrameOK

(* The step from here: every frame on the air was there or is all right.   *)
LEMMA AirStep ==
  ASSUME TypeOK, TypeOK', AirInv, up' = up, boots' = boots,
         \A m \in Nodes : accepted[m] \subseteq accepted'[m] /\ txSeq[m] <= txSeq'[m],
         \A m \in Nodes : ~up[m] => txSeq'[m] = txSeq[m],
         \A m \in Nodes : \A p \in Frames(air'[m]) :
           p \in Frames(air[m]) \/ (p \in Packet /\ FrameOK(m, p)')
  PROVE  AirInv'
<1>1. ASSUME NEW m \in Nodes, NEW p \in Frames(air'[m]) PROVE FrameOK(m, p)'
  <2>1. CASE p \in Frames(air[m])
    <3>0. air[m] \in Seq(Packet)
      BY DEF TypeOK
    <3>1. p \in Packet
      BY <2>1, <3>0, FramesType
    <3>2. FrameOK(m, p)
      BY <2>1 DEF AirInv
    <3>3. QED
      BY <3>1, <3>2, FrameStays
  <2>2. QED
    BY <1>1, <2>1
<1>2. QED
  BY <1>1 DEF AirInv

(* Steps that transmit one frame, and steps that transmit none.            *)
LEMMA AirBroadcast ==
  ASSUME TypeOK, TypeOK', AirInv, up' = up, boots' = boots,
         \A m \in Nodes : accepted[m] \subseteq accepted'[m] /\ txSeq[m] <= txSeq'[m],
         \A m \in Nodes : ~up[m] => txSeq'[m] = txSeq[m],
         NEW n \in Nodes, NEW q \in Packet, NEW a \in [Nodes -> Seq(Packet)],
         air' = Broadcast(a, n, q),
         \A m \in Nodes : Frames(a[m]) \subseteq Frames(air[m]),
         \A m \in Nodes \ {n} : FrameOK(m, q)'
  PROVE  AirInv'
<1>1. ASSUME NEW m \in Nodes, NEW p \in Frames(air'[m])
      PROVE  p \in Frames(air[m]) \/ (p \in Packet /\ FrameOK(m, p)')
  <2>1. PICK s : s = air'[m] /\ s = Broadcast(a, n, q)[m]
    OBVIOUS
  <2>a. s = a[m] \/ (m # n /\ s = Append(a[m], q))
    BY <2>1 DEF Broadcast
  <2>b. a[m] \in Seq(Packet)
    OBVIOUS
  <2>c. Frames(Append(a[m], q)) \subseteq Frames(a[m]) \cup {q}
    BY <2>b, FramesAppend
  <2>2. Frames(s) \subseteq Frames(a[m]) \cup {q} /\ (m = n => s = a[m])
    BY <2>a, <2>c
  <2>3. p \in Frames(s)
    BY <1>1, <2>1
  <2>4. m = n => p \in Frames(air[m])
    BY <2>2, <2>3
  <2>5. m # n => p \in Frames(air[m]) \/ p = q
    BY <2>2, <2>3
  <2>6. QED
    BY <2>4, <2>5
<1>2. QED
  BY <1>1, AirStep

LEMMA AirQuiet ==
  ASSUME TypeOK, TypeOK', AirInv, up' = up, boots' = boots,
         \A m \in Nodes : accepted[m] \subseteq accepted'[m] /\ txSeq[m] <= txSeq'[m],
         \A m \in Nodes : ~up[m] => txSeq'[m] = txSeq[m],
         \A m \in Nodes : Frames(air'[m]) \subseteq Frames(air[m])
  PROVE  AirInv'
BY AirStep

(* One lemma per action that transmits.  Two devices: whoever hears a      *)
(* frame of n is the peer of n.                                            *)
LEMMA AirSend ==
  ASSUME TypeOK, TypeOK', AirInv, PointToPoint, NEW n \in Nodes, SendMessage(n)
  PROVE  AirInv'
<1>1. PICK p : p = Make("Message", n, Peer[n], txSeq[n])
  OBVIOUS
<1>2. /\ up[n] /\ up' = up /\ boots' = boots /\ accepted' = accepted
      /\ txSeq' = [txSeq EXCEPT ![n] = @ + 1] /\ air' = Broadcast(air, n, p)
  BY <1>1 DEF SendMessage, TaskFree, NextSequence, device, history
<1>3. p \in Packet /\ air \in [Nodes -> Seq(Packet)] /\ txSeq \in [Nodes -> Nat]
  BY <1>1, MakeType, PeerAssumption DEF TypeOK, PacketType
<1>4. /\ p.type = "Message" /\ p.src = n /\ p.dest = Peer[n]
      /\ p.seq = txSeq[n] /\ p.epoch = 1
  BY <1>1, <1>2 DEF Make, MakeIn, AirInv
<1>5. \A m \in Nodes : txSeq[m] <= txSeq'[m] /\ (~up[m] => txSeq'[m] = txSeq[m])
  BY <1>2, <1>3
<1>6. p.seq < txSeq'[p.src]
  BY <1>2, <1>3, <1>4
<1>7. \A m \in Nodes \ {n} : FrameOK(m, p)'
  BY <1>4, <1>6 DEF FrameOK, PointToPoint
<1>8. QED
  BY <1>2, <1>3, <1>5, <1>7, AirBroadcast

LEMMA AirRetry ==
  ASSUME TypeOK, TypeOK', AirInv, PointToPoint, NEW n \in Nodes, SettleAt(n),
         NEW t \in pending[n], Retry(n, t)
  PROVE  AirInv'
<1>1. PICK p \in Packet : p = t.packet
  BY PendingIdType
<1>2. /\ up[n] /\ up' = up /\ boots' = boots /\ accepted' = accepted
      /\ txSeq' = txSeq /\ air' = Broadcast(air, n, p)
  BY <1>1 DEF Retry, device, history
<1>3. air \in [Nodes -> Seq(Packet)] /\ txSeq \in [Nodes -> Nat]
  BY DEF TypeOK
<1>4. /\ p.type = "Message" /\ p.src = n /\ p.dest = Peer[n]
      /\ p.seq < txSeq[n] /\ p.epoch = 1
  BY <1>1, <1>2 DEF SettleAt, OutstandingInvAt, OwnMessage, AirInv
<1>5. \A m \in Nodes \ {n} : FrameOK(m, p)'
  BY <1>2, <1>4 DEF FrameOK, PointToPoint
<1>6. \A m \in Nodes : txSeq[m] <= txSeq'[m]
  BY <1>2, <1>3
<1>7. QED
  BY <1>2, <1>3, <1>5, <1>6, AirBroadcast

LEMMA AirProbe ==
  ASSUME TypeOK, TypeOK', AirInv, PointToPoint, NEW n \in Nodes, ProbePoll(n)
  PROVE  AirInv'
<1>1. PICK p : p = Make("Ping", n, Peer[n], txSeq[n])
  OBVIOUS
<1>2. /\ up[n] /\ up' = up /\ boots' = boots /\ accepted' = accepted
      /\ txSeq' = [txSeq EXCEPT ![n] = @ + 1] /\ air' = Broadcast(air, n, p)
  BY <1>1 DEF ProbePoll, NextSequence, device, history
<1>3. p \in Packet /\ air \in [Nodes -> Seq(Packet)] /\ txSeq \in [Nodes -> Nat]
  BY <1>1, MakeType, PeerAssumption DEF TypeOK, PacketType
<1>4. p.type = "Ping" /\ p.src = n /\ p.dest = Peer[n] /\ p.epoch = 1
  BY <1>1, <1>2 DEF Make, MakeIn, AirInv
<1>5. \A m \in Nodes : txSeq[m] <= txSeq'[m] /\ (~up[m] => txSeq'[m] = txSeq[m])
  BY <1>2, <1>3
<1>6. \A m \in Nodes \ {n} : FrameOK(m, p)'
  BY <1>4 DEF FrameOK, PointToPoint
<1>7. QED
  BY <1>2, <1>3, <1>5, <1>6, AirBroadcast

LEMMA AirPing ==
  ASSUME TypeOK, TypeOK', AirInv, PointToPoint, NEW n \in Nodes, HandlePing(n)
  PROVE  AirInv'
<1>1. PICK p \in Packet : p = Head(air[n]) /\ FrameOK(n, p)
  BY ArrivingType, FramesPopped DEF HandlePing, AirInv
<1>2. PICK q : q = Make("Pong", n, p.src, p.seq)
  OBVIOUS
<1>3. /\ up[n] /\ Arriving(n) /\ up' = up /\ boots' = boots /\ accepted' = accepted
      /\ txSeq' = txSeq /\ air' = Broadcast(Popped(n), n, q)
  BY <1>1, <1>2 DEF HandlePing, Arriving, device, history
<1>4. /\ q \in Packet /\ Popped(n) \in [Nodes -> Seq(Packet)]
      /\ txSeq \in [Nodes -> Nat]
  BY <1>1, <1>2, <1>3, MakeType, ArrivingType DEF TypeOK, Packet, PacketType
<1>5. q.type = "Pong" /\ q.src = n /\ q.dest = p.src /\ q.epoch = 1
  BY <1>2, <1>3 DEF Make, MakeIn, AirInv
<1>6. p.src \in Nodes /\ p.src # n
  BY <1>1 DEF FrameOK, Packet
<1>7. \A m \in Nodes \ {n} : FrameOK(m, q)'
  BY <1>5, <1>6 DEF FrameOK, PointToPoint
<1>8. \A m \in Nodes : txSeq[m] <= txSeq'[m]
  BY <1>3, <1>4
<1>9. \A m \in Nodes : Frames(Popped(n)[m]) \subseteq Frames(air[m])
  BY <1>3, FramesPopped
<1>10. QED
  BY <1>3, <1>4, <1>7, <1>8, <1>9, AirBroadcast

(* The heart of it: the ACK goes out with the message it accepts.          *)
LEMMA AirMessage ==
  ASSUME TypeOK, TypeOK', AirInv, PointToPoint, NEW n \in Nodes, HandleMessage(n)
  PROVE  AirInv'
<1>1. PICK p \in Packet : p = Head(air[n]) /\ FrameOK(n, p)
  BY ArrivingType, FramesPopped DEF HandleMessage, AirInv
<1>2. PICK q : q = Make("Ack", n, p.src, p.seq)
  OBVIOUS
<1>3. /\ up[n] /\ Arriving(n) /\ up' = up /\ boots' = boots
      /\ accepted' = [accepted EXCEPT ![n] = @ \cup {Id(p)}]
      /\ txSeq' = txSeq /\ air' = Broadcast(Popped(n), n, q)
  BY <1>1, <1>2 DEF HandleMessage, Arriving, device
<1>4. /\ q \in Packet /\ Popped(n) \in [Nodes -> Seq(Packet)]
      /\ txSeq \in [Nodes -> Nat] /\ accepted \in [Nodes -> SUBSET Ids]
  BY <1>1, <1>2, <1>3, MakeType, ArrivingType DEF TypeOK, Packet, PacketType
<1>5. q.type = "Ack" /\ q.src = n /\ q.dest = p.src /\ q.epoch = 1 /\ q.seq = p.seq
  BY <1>2, <1>3 DEF Make, MakeIn, AirInv
<1>6. /\ p.src \in Nodes /\ p.src # n
      /\ <<p.src, 1, p.seq>> \in accepted'[n]
  BY <1>1, <1>3, <1>4 DEF FrameOK, Packet, Id
<1>7. \A m \in Nodes \ {n} : m = p.src
  BY <1>6 DEF PointToPoint
<1>8. \A m \in Nodes \ {n} : FrameOK(m, q)'
  BY <1>5, <1>6, <1>7 DEF FrameOK
<1>9. \A m \in Nodes : txSeq[m] <= txSeq'[m] /\ accepted[m] \subseteq accepted'[m]
  BY <1>3, <1>4
<1>10. \A m \in Nodes : Frames(Popped(n)[m]) \subseteq Frames(air[m])
  BY <1>3, FramesPopped
<1>11. QED
  BY <1>3, <1>4, <1>8, <1>9, <1>10, AirBroadcast

(* Power-up; with MaxBoots = 1 there is no power loss.                     *)
LEMMA AirBoot ==
  ASSUME TypeOK, TypeOK', AirInv, PointToPoint, NEW n \in Nodes, Boot(n)
  PROVE  AirInv'
<1>1. PICK p : p = MakeIn(boots[n] + 1, "Hello", n, Peer[n], 1)
  OBVIOUS
<1>2. /\ ~up[n] /\ up' = [up EXCEPT ![n] = TRUE]
      /\ boots' = [boots EXCEPT ![n] = @ + 1] /\ boots[n] = 0
      /\ accepted' = accepted /\ txSeq' = txSeq /\ air' = Broadcast(air, n, p)
  BY <1>1 DEF Boot, history, AirInv
<1>3. /\ up \in [Nodes -> BOOLEAN] /\ boots \in [Nodes -> Nat]
      /\ air \in [Nodes -> Seq(Packet)] /\ txSeq \in [Nodes -> Nat]
      /\ air' \in [Nodes -> Seq(Packet)]
  BY DEF TypeOK
<1>4. /\ p \in Packet /\ p.type = "Hello" /\ p.src = n /\ p.dest = Peer[n]
      /\ p.epoch = 1
  BY <1>1, <1>2, PeerAssumption DEF MakeIn, Packet, PacketType
<1>5. ASSUME NEW m \in Nodes
      PROVE  (up'[m] => boots'[m] = 1) /\ (~up'[m] => boots'[m] = 0 /\ txSeq'[m] = 0)
  BY <1>2, <1>3 DEF AirInv
<1>6. \A m \in Nodes \ {n} : FrameOK(m, p)'
  BY <1>4 DEF FrameOK, PointToPoint
<1>7. ASSUME NEW m \in Nodes, NEW q \in Frames(air'[m]) PROVE FrameOK(m, q)'
  <2>1. PICK s : s = air'[m] /\ s = Broadcast(air, n, p)[m]
    BY <1>2
  <2>a. s = air[m] \/ (m # n /\ s = Append(air[m], p))
    BY <2>1 DEF Broadcast
  <2>b. air[m] \in Seq(Packet)
    BY <1>3
  <2>c. Frames(Append(air[m], p)) \subseteq Frames(air[m]) \cup {p}
    BY <1>4, <2>b, FramesAppend
  <2>2. Frames(s) \subseteq Frames(air[m]) \cup {p} /\ (m = n => s = air[m])
    BY <2>a, <2>c
  <2>3. q \in Frames(s)
    BY <1>7, <2>1
  <2>4. CASE q \in Frames(air[m])
    <3>1. q \in Packet
      BY <1>3, <2>4, FramesType
    <3>2. FrameOK(m, q)
      BY <2>4 DEF AirInv
    <3>3. \A k \in Nodes : accepted[k] \subseteq accepted'[k] /\ txSeq[k] <= txSeq'[k]
      BY <1>2, <1>3
    <3>4. QED
      BY <3>1, <3>2, <3>3, FrameStays
  <2>5. CASE q \notin Frames(air[m])
    <3>1. m # n /\ q = p
      BY <2>2, <2>3, <2>5
    <3>2. QED
      BY <3>1, <1>6
  <2>6. QED
    BY <2>4, <2>5
<1>8. QED
  BY <1>5, <1>7 DEF AirInv

(* Every step leaves the channel in order.                                 *)
LEMMA AirNext ==
  ASSUME TypeOK, TypeOK', AirInv, PointToPoint, MaxBoots = 1,
         \A n \in Nodes : SettleAt(n), [Next]_vars
  PROVE  AirInv'
<1>b. txSeq \in [Nodes -> Nat] /\ air \in [Nodes -> Seq(Packet)]
  BY DEF TypeOK
<1>1. ASSUME NEW n \in Nodes, NEW t \in pending[n], Retry(n, t) PROVE AirInv'
  BY <1>1, AirRetry
<1>2. ASSUME NEW n \in Nodes, NEW t \in pending[n], GiveUp(n, t) PROVE AirInv'
  <2>1. /\ up' = up /\ boots' = boots /\ txSeq' = txSeq
        /\ accepted' = accepted /\ air' = air
    BY <1>2 DEF GiveUp, device
  <2>2. \A m \in Nodes : txSeq[m] <= txSeq'[m]
    BY <1>b, <2>1
  <2>3. QED
    BY <2>1, <2>2, AirQuiet
<1>3. ASSUME NEW n \in Nodes, SendMessage(n) PROVE AirInv'
  BY <1>3, AirSend
<1>4. ASSUME NEW n \in Nodes, SendRefused(n) PROVE AirInv'
  <2>1. /\ up[n] /\ up' = up /\ boots' = boots
        /\ txSeq' = [txSeq EXCEPT ![n] = @ + 1]
        /\ accepted' = accepted /\ air' = air
    BY <1>4 DEF SendRefused, TaskFree, NextSequence, device, history
  <2>2. \A m \in Nodes : txSeq[m] <= txSeq'[m] /\ (~up[m] => txSeq'[m] = txSeq[m])
    BY <1>b, <2>1
  <2>3. QED
    BY <2>1, <2>2, AirQuiet
<1>5. ASSUME NEW n \in Nodes, RegisterPending(n) \/ ChatPoll(n) PROVE AirInv'
  <2>1. /\ up' = up /\ boots' = boots /\ txSeq' = txSeq
        /\ accepted' = accepted /\ air' = air
    BY <1>5 DEF RegisterPending, ChatPoll, device, history
  <2>2. \A m \in Nodes : txSeq[m] <= txSeq'[m]
    BY <1>b, <2>1
  <2>3. QED
    BY <2>1, <2>2, AirQuiet
<1>6. ASSUME NEW n \in Nodes, ProbePoll(n) PROVE AirInv'
  BY <1>6, AirProbe
<1>7. ASSUME NEW n \in Nodes, HandlePing(n) PROVE AirInv'
  BY <1>7, AirPing
<1>8. ASSUME NEW n \in Nodes, HandleMessage(n) PROVE AirInv'
  BY <1>8, AirMessage
<1>9. ASSUME NEW n \in Nodes, Boot(n) PROVE AirInv'
  BY <1>9, AirBoot
<1>10. ASSUME NEW n \in Nodes, PowerLoss(n) PROVE AirInv'
  BY <1>10 DEF PowerLoss, AirInv
<1>11. ASSUME NEW n \in Nodes,
              \/ HandleAck(n) \/ HandleForeign(n) \/ HandleDuplicate(n)
              \/ HandlePong(n) \/ HandleHello(n) \/ LoseFrame(n)
       PROVE  AirInv'
  <2>1. /\ up' = up /\ boots' = boots /\ txSeq' = txSeq /\ Arriving(n)
        /\ accepted' = accepted /\ air' = Popped(n)
    BY <1>11 DEF HandleAck, HandleForeign, HandleDuplicate, HandlePong, HandleHello,
       LoseFrame, device, history
  <2>2. \A m \in Nodes : txSeq[m] <= txSeq'[m]
    BY <1>b, <2>1
  <2>3. \A m \in Nodes : Frames(Popped(n)[m]) \subseteq Frames(air[m])
    BY <2>1, FramesPopped
  <2>4. QED
    BY <2>1, <2>2, <2>3, AirQuiet
<1>12. CASE UNCHANGED vars
  <2>1. /\ up' = up /\ boots' = boots /\ txSeq' = txSeq
        /\ accepted' = accepted /\ air' = air
    BY <1>12 DEF vars
  <2>2. \A m \in Nodes : txSeq[m] <= txSeq'[m]
    BY <1>b, <2>1
  <2>3. QED
    BY <2>1, <2>2, AirQuiet
<1>13. QED
  BY <1>1, <1>2, <1>3, <1>4, <1>5, <1>6, <1>7, <1>8, <1>9, <1>10, <1>11, <1>12
  DEF Next, ProtocolTask, ApplicationTask, Environment, ProcessRetries, Receive

(* The ACK that releases a message names a message its sender accepted.    *)
LEMMA AckSoundStep ==
  ASSUME TypeOK, TypeOK', AirInv, PointToPoint, AckSound,
         \A n \in Nodes : SettleAt(n), [Next]_vars
  PROVE  AckSound'
<1> USE PeerAssumption
<1>a. accepted \in [Nodes -> SUBSET Ids] /\ acked \in [Nodes -> SUBSET Ids]
  BY DEF TypeOK
<1>b. ASSUME acked' = acked, \A m \in Nodes : accepted[m] \subseteq accepted'[m]
      PROVE  AckSound'
  BY <1>b DEF AckSound
<1>1. ASSUME NEW n \in Nodes, HandleAck(n) PROVE AckSound'
  <2>1. PICK p \in Packet : p = Head(air[n]) /\ FrameOK(n, p) /\ p.type = "Ack" /\ Arriving(n)
    BY <1>1, ArrivingType, FramesPopped DEF HandleAck, AirInv
  <2>2. accepted' = accepted
    BY <1>1 DEF HandleAck
  <2>3. CASE UNCHANGED <<pending, acked>>
    BY <2>2, <2>3, <1>b
  <2>4. ASSUME NEW t \in pending[n], MatchesAck(p, t),
               acked' = [acked EXCEPT ![n] = @ \cup {Id(t.packet)}]
        PROVE  AckSound'
    <3>1. /\ t.packet.src = n /\ t.packet.dest = Peer[n] /\ t.packet.epoch = boots[n]
          /\ up[n] /\ t.packet.seq = p.seq /\ Peer[n] = p.src
      BY <2>4 DEF SettleAt, OutstandingInvAt, OwnMessage, MatchesAck
    <3>2. Id(t.packet) = <<n, 1, p.seq>>
      BY <3>1 DEF Id, AirInv
    <3>3. Id(t.packet) \in accepted[Peer[n]]
      BY <2>1, <3>1, <3>2 DEF FrameOK
    <3>4. ASSUME NEW m \in Nodes PROVE acked'[m] \subseteq accepted'[Peer[m]]
      <4>1. acked[m] \subseteq accepted[Peer[m]]
        BY DEF AckSound
      <4>2. acked'[m] = IF m = n THEN acked[m] \cup {Id(t.packet)} ELSE acked[m]
        BY <2>4, <1>a
      <4>3. CASE m = n
        BY <4>1, <4>2, <4>3, <3>3, <2>2
      <4>4. CASE m # n
        BY <4>1, <4>2, <4>4, <2>2
      <4>5. QED
        BY <4>3, <4>4
    <3>5. QED
      BY <3>4 DEF AckSound
  <2>5. QED
    BY <1>1, <2>1, <2>3, <2>4 DEF HandleAck
<1>2. ASSUME NEW n \in Nodes, HandleMessage(n) PROVE AckSound'
  <2>1. /\ acked' = acked
        /\ accepted' = [accepted EXCEPT ![n] = @ \cup {Id(Head(air[n]))}]
    BY <1>2 DEF HandleMessage
  <2>2. \A m \in Nodes : accepted[m] \subseteq accepted'[m]
    BY <1>a, <2>1
  <2>3. QED
    BY <2>1, <2>2, <1>b
<1>3. ASSUME NEW n \in Nodes, NEW t \in pending[n], Retry(n, t) \/ GiveUp(n, t)
      PROVE  AckSound'
  BY <1>3, <1>b DEF Retry, GiveUp, history
<1>4. ASSUME NEW n \in Nodes,
             \/ HandleForeign(n) \/ HandleDuplicate(n) \/ HandlePing(n) \/ HandlePong(n)
             \/ HandleHello(n) \/ ProbePoll(n) \/ ChatPoll(n) \/ SendMessage(n)
             \/ SendRefused(n) \/ RegisterPending(n) \/ Boot(n) \/ PowerLoss(n)
             \/ LoseFrame(n)
      PROVE  AckSound'
  BY <1>4, <1>b DEF HandleForeign, HandleDuplicate, HandlePing, HandlePong, HandleHello,
     ProbePoll, ChatPoll, SendMessage, SendRefused, RegisterPending, Boot, PowerLoss,
     LoseFrame, history
<1>5. CASE UNCHANGED vars
  BY <1>5, <1>b DEF vars
<1>6. QED
  BY <1>1, <1>2, <1>3, <1>4, <1>5
  DEF Next, ProtocolTask, ApplicationTask, Environment, ProcessRetries, Receive

(* Between two devices that are powered once, an acknowledged message is   *)
(* an accepted message: whatever is lost, retried or reordered with PINGs, *)
(* onAck never releases a text the peer's transport has not passed on.     *)
THEOREM AckedIsAccepted ==
  ASSUME PointToPoint, MaxBoots = 1
  PROVE  Spec => []AckSound
<1> DEFINE Inv == TypeOK /\ (\A n \in Nodes : SettleAt(n)) /\ AirInv /\ AckSound
<1>1. Init => Inv
  <2>1. Init => TypeOK
    BY DEF Init, TypeOK
  <2>2. Init => \A n \in Nodes : SettleAt(n)
    BY DEF Init, SettleAt, OutstandingInvAt, SettledOnceAt, Settled
  <2>3. Init => AirInv
    BY DEF Init, AirInv, Frames
  <2>4. Init => AckSound
    BY PeerAssumption DEF Init, AckSound
  <2>5. QED
    BY <2>1, <2>2, <2>3, <2>4
<1>2. Inv /\ [Next]_vars => Inv'
  BY TypeStep, SettleStep, AirNext, AckSoundStep
<1>3. Inv => AckSound
  OBVIOUS
<1>4. QED
  BY <1>1, <1>2, <1>3, PTL DEF Spec

-----------------------------------------------------------------------------
(* The transport implements ReliableDelivery. *)

(* The mapped steps, stated over the messages drawn.                       *)
LEMMA DrawStep ==
  ASSUME TypeOK, NEW n \in Nodes, NextSequence(n), UNCHANGED history
  PROVE  Delivery!Next
<1>1. PICK id : id = <<n, 1, txSeq[n]>>
  OBVIOUS
<1>0. MaxSeq[n] \in Nat
  BY MaxSeqAssumption
<1>2. /\ txSeq \in [Nodes -> Nat] /\ txSeq[n] \in Nat /\ txSeq[n] < MaxSeq[n]
      /\ MaxSeq[n] \in Nat /\ txSeq' = [txSeq EXCEPT ![n] = @ + 1]
  BY <1>0 DEF TypeOK, NextSequence
<1>3. 0..(txSeq[n] + 1 - 1) = 0..(txSeq[n] - 1) \cup {txSeq[n]}
  BY <1>2
<1>4. DrawnIds(n)' = DrawnIds(n) \cup {id}
  BY <1>1, <1>2, <1>3 DEF DrawnIds
<1>5. \A m \in Nodes \ {n} : DrawnIds(m)' = DrawnIds(m)
  BY <1>2 DEF DrawnIds
<1>6. txSeq[n] \in 0..(MaxSeq[n] - 1) /\ txSeq[n] \notin 0..(txSeq[n] - 1)
  BY <1>2
<1>7. id \in UNION {{<<m, 1, s>> : s \in 0..(MaxSeq[m] - 1)} : m \in Nodes}
  BY <1>1, <1>6
<1>8. id \notin DrawnIds(n)
  BY <1>1, <1>6 DEF DrawnIds
<1>9. [m \in Nodes |-> DrawnIds(m)]' =
        [[m \in Nodes |-> DrawnIds(m)] EXCEPT ![n] = @ \cup {id}]
  BY <1>4, <1>5
<1>10. Delivery!Draw(n)
  BY <1>7, <1>8, <1>9 DEF Delivery!Draw, history
<1>11. QED
  BY <1>10 DEF Delivery!Next

LEMMA QuietStep ==
  ASSUME txSeq' = txSeq, UNCHANGED history
  PROVE  UNCHANGED Delivery!vars
<1>1. [n \in Nodes |-> DrawnIds(n)]' = [n \in Nodes |-> DrawnIds(n)]
  BY DEF DrawnIds
<1>2. QED
  BY <1>1 DEF Delivery!vars, history

(* A pending message was drawn and has no verdict yet.                     *)
LEMMA PendingDrawn ==
  ASSUME TypeOK, AirInv, NEW n \in Nodes, SettleAt(n), NEW t \in pending[n]
  PROVE  /\ Id(t.packet) = <<n, 1, t.packet.seq>>
         /\ Id(t.packet) \in DrawnIds(n)
         /\ Id(t.packet) \notin acked[n] \cup gaveUp[n]
         /\ t.packet.dest = Peer[n]
<1>1. t.packet \in Packet
  BY PendingIdType
<1>2. /\ t.packet.src = n /\ t.packet.dest = Peer[n] /\ t.packet.epoch = 1
      /\ t.packet.seq < txSeq[n]
  BY DEF SettleAt, OutstandingInvAt, OwnMessage, AirInv
<1>3. t.packet.seq \in Nat /\ txSeq[n] \in Nat
  BY <1>1 DEF Packet, TypeOK
<1>4. t.packet.seq \in 0..(txSeq[n] - 1)
  BY <1>2, <1>3
<1>5. Id(t.packet) = <<n, 1, t.packet.seq>>
  BY <1>2 DEF Id
<1>6. Id(t.packet) \notin Settled(n)
  BY DEF SettleAt, SettledOnceAt
<1>7. QED
  BY <1>2, <1>4, <1>5, <1>6 DEF DrawnIds, Settled

LEMMA GiveUpMaps ==
  ASSUME TypeOK, AirInv, NEW n \in Nodes, SettleAt(n), NEW t \in pending[n], GiveUp(n, t)
  PROVE  Delivery!Next
<1>1. PICK id : id = Id(t.packet)
  OBVIOUS
<1>2. id \in DrawnIds(n) \ (acked[n] \cup gaveUp[n])
  BY <1>1, PendingDrawn
<1>3. /\ gaveUp' = [gaveUp EXCEPT ![n] = @ \cup {id}] /\ txSeq' = txSeq
      /\ accepted' = accepted /\ acked' = acked
  BY <1>1 DEF GiveUp
<1>4. [m \in Nodes |-> DrawnIds(m)]' = [m \in Nodes |-> DrawnIds(m)]
  BY <1>3 DEF DrawnIds
<1>5. Delivery!GiveUp(n)
  BY <1>2, <1>3, <1>4 DEF Delivery!GiveUp, Delivery!Settled
<1>6. QED
  BY <1>5 DEF Delivery!Next

LEMMA AckMaps ==
  ASSUME TypeOK, AirInv, NEW n \in Nodes, SettleAt(n), HandleAck(n)
  PROVE  [Delivery!Next]_(Delivery!vars)
<1>1. PICK p \in Packet : p = Head(air[n]) /\ FrameOK(n, p) /\ p.type = "Ack"
  BY ArrivingType, FramesPopped DEF HandleAck, AirInv
<1>2. accepted' = accepted /\ gaveUp' = gaveUp /\ txSeq' = txSeq
  BY DEF HandleAck
<1>3. CASE UNCHANGED <<pending, acked>>
  BY <1>2, <1>3, QuietStep DEF history
<1>4. ASSUME NEW t \in pending[n], MatchesAck(p, t),
             acked' = [acked EXCEPT ![n] = @ \cup {Id(t.packet)}]
      PROVE  Delivery!Next
  <2>1. PICK id : id = Id(t.packet)
    OBVIOUS
  <2>2. /\ id = <<n, 1, p.seq>> /\ Peer[n] = p.src
        /\ id \in DrawnIds(n) \ (acked[n] \cup gaveUp[n])
    BY <1>4, <2>1, PendingDrawn DEF MatchesAck
  <2>3. id \in accepted[Peer[n]]
    BY <1>1, <2>2 DEF FrameOK
  <2>4. [m \in Nodes |-> DrawnIds(m)]' = [m \in Nodes |-> DrawnIds(m)]
    BY <1>2 DEF DrawnIds
  <2>5. Delivery!Acknowledge(n)
    BY <1>2, <1>4, <2>1, <2>2, <2>3, <2>4 DEF Delivery!Acknowledge, Delivery!Settled
  <2>6. QED
    BY <2>5 DEF Delivery!Next
<1>5. QED
  BY <1>1, <1>3, <1>4 DEF HandleAck

LEMMA AcceptMaps ==
  ASSUME TypeOK, AirInv, PointToPoint, NEW n \in Nodes, HandleMessage(n)
  PROVE  [Delivery!Next]_(Delivery!vars)
<1> USE PeerAssumption
<1>1. PICK p \in Packet : p = Head(air[n]) /\ FrameOK(n, p) /\ p.type = "Message"
  BY ArrivingType, FramesPopped DEF HandleMessage, AirInv
<1>2. PICK id : id = Id(p)
  OBVIOUS
<1>3. /\ accepted' = [accepted EXCEPT ![n] = @ \cup {id}] /\ accepted \in [Nodes -> SUBSET Ids]
      /\ txSeq' = txSeq /\ acked' = acked /\ gaveUp' = gaveUp
  BY <1>1, <1>2 DEF HandleMessage, TypeOK
<1>4. p.src \in Nodes /\ p.seq \in Nat /\ txSeq[p.src] \in Nat
  BY <1>1 DEF Packet, TypeOK
<1>5. /\ p.src = Peer[n] /\ id = <<p.src, 1, p.seq>> /\ p.seq \in 0..(txSeq[p.src] - 1)
  BY <1>1, <1>2, <1>4 DEF FrameOK, PointToPoint, Id
<1>6. id \in DrawnIds(Peer[n])
  BY <1>5 DEF DrawnIds
<1>7. [m \in Nodes |-> DrawnIds(m)]' = [m \in Nodes |-> DrawnIds(m)]
  BY <1>3 DEF DrawnIds
<1>8. CASE id \in accepted[n]
  <2>1. accepted' = accepted
    BY <1>3, <1>8
  <2>2. QED
    BY <1>3, <2>1, QuietStep DEF history
<1>9. CASE id \notin accepted[n]
  <2>1. Delivery!Accept(n)
    BY <1>3, <1>6, <1>7, <1>9 DEF Delivery!Accept
  <2>2. QED
    BY <2>1 DEF Delivery!Next
<1>10. QED
  BY <1>8, <1>9

LEMMA MapStep ==
  ASSUME TypeOK, AirInv, PointToPoint, MaxBoots = 1,
         \A n \in Nodes : SettleAt(n), [Next]_vars
  PROVE  [Delivery!Next]_(Delivery!vars)
<1>1. ASSUME NEW n \in Nodes, SendMessage(n) \/ SendRefused(n) \/ ProbePoll(n)
      PROVE  Delivery!Next
  BY <1>1, DrawStep DEF SendMessage, SendRefused, ProbePoll
<1>2. ASSUME NEW n \in Nodes, NEW t \in pending[n], GiveUp(n, t)
      PROVE  Delivery!Next
  BY <1>2, GiveUpMaps
<1>3. ASSUME NEW n \in Nodes, HandleAck(n)
      PROVE  [Delivery!Next]_(Delivery!vars)
  BY <1>3, AckMaps
<1>4. ASSUME NEW n \in Nodes, HandleMessage(n)
      PROVE  [Delivery!Next]_(Delivery!vars)
  BY <1>4, AcceptMaps
<1>5. ASSUME NEW n \in Nodes, PowerLoss(n) PROVE FALSE
  BY <1>5 DEF PowerLoss, AirInv
<1>6. ASSUME NEW n \in Nodes, NEW t \in pending[n], Retry(n, t)
      PROVE  UNCHANGED Delivery!vars
  BY <1>6, QuietStep DEF Retry
<1>7. ASSUME NEW n \in Nodes,
             \/ HandleForeign(n) \/ HandleDuplicate(n) \/ HandlePing(n) \/ HandlePong(n)
             \/ HandleHello(n) \/ ChatPoll(n) \/ RegisterPending(n) \/ Boot(n)
             \/ LoseFrame(n)
      PROVE  UNCHANGED Delivery!vars
  BY <1>7, QuietStep DEF HandleForeign, HandleDuplicate, HandlePing, HandlePong,
     HandleHello, ChatPoll, RegisterPending, Boot, LoseFrame
<1>8. CASE UNCHANGED vars
  BY <1>8, QuietStep DEF vars, history
<1>9. QED
  BY <1>1, <1>2, <1>3, <1>4, <1>5, <1>6, <1>7, <1>8
  DEF Next, ProtocolTask, ApplicationTask, Environment, ProcessRetries, Receive

(* Two devices that are powered once implement the abstract delivery: what *)
(* the application sees of the transport is only that a number is drawn, a *)
(* drawn message accepted, an accepted one acknowledged, or a message      *)
(* without a verdict given up.                                             *)
THEOREM ImplementsDelivery ==
  ASSUME PointToPoint, MaxBoots = 1
  PROVE  Spec => Implements
<1> DEFINE Inv == TypeOK /\ (\A n \in Nodes : SettleAt(n)) /\ AirInv
<1>1. Init => Inv
  <2>1. Init => TypeOK
    BY DEF Init, TypeOK
  <2>2. Init => \A n \in Nodes : SettleAt(n)
    BY DEF Init, SettleAt, OutstandingInvAt, SettledOnceAt, Settled
  <2>3. Init => AirInv
    BY DEF Init, AirInv, Frames
  <2>4. QED
    BY <2>1, <2>2, <2>3
<1>2. Inv /\ [Next]_vars => Inv'
  BY TypeStep, SettleStep, AirNext
<1>3. Init => Delivery!Init
  BY DEF Init, Delivery!Init, DrawnIds
<1>4. Inv /\ [Next]_vars => [Delivery!Next]_(Delivery!vars)
  BY MapStep
<1>5. QED
  BY <1>1, <1>2, <1>3, <1>4, PTL DEF Spec, Implements, Delivery!Spec

-----------------------------------------------------------------------------
(* What keeps an accepted message: the queue never fills and the table     *)
(* never forgets, because the other device has few numbers to repeat.      *)

(* A message waits in the queue as a MESSAGE; the HELLO of a start may     *)
(* carry the same id and would be skipped.                                 *)
Waits(n, id) == \E i \in 1..Len(inbound[n]) :
  inbound[n][i].type = "Message" /\ Id(inbound[n][i]) = id

BootedOnce == \A n \in Nodes : up[n] => boots[n] >= 1

KeptAt(n) == \A id \in accepted[n] : InChat(n, id) \/ Waits(n, id)

KeptInv == \A n \in Nodes : KeptAt(n)

NeverFull == \A n \in Nodes : Len(inbound[n]) < InboundCap

(* How the numbers of a frame from a device that has drawn theirs numbers  *)
(* relate to those of its receiver, which has drawn mine: a PONG echoes a  *)
(* number of the receiver, a HELLO has the literal number 1.               *)
Numbered(p, mine, theirs) ==
  /\ p.type = "Hello" => p.seq = 1
  /\ p.type \in {"Ping", "Message"} => p.seq < theirs
  /\ p.type = "Pong" => p.seq < mine

Twice(table, key) == \E i, j \in 1..Len(table) : i # j /\ table[i] = key /\ table[j] = key

NoThird(table) == \A i, j, k \in 1..Len(table) :
  table[i] = table[j] /\ table[j] = table[k] => i = j \/ j = k \/ i = k

PingsDiffer(s) == \A i, j \in 1..Len(s) :
  s[i].type = "Ping" /\ s[j].type = "Ping" /\ s[i].seq = s[j].seq => i = j

(* The table of a device and the frames on their way to it from m.  Only a *)
(* PING marks a number that is known already, and no PING comes twice: so  *)
(* a key is in the table twice at most, and once at most while its PING is *)
(* on the air or not yet sent.                                             *)
MarkOK(K, m, mine, theirs, table, s) ==
  /\ \A i \in 1..Len(table) : table[i] \in {m} \X (0..(K - 1))
  /\ NoThird(table)
  /\ PingsDiffer(s)
  /\ \A i \in 1..Len(s) :
       /\ s[i].src = m
       /\ Numbered(s[i], mine, theirs)
       /\ s[i].type = "Ping" => ~Twice(table, Key(s[i]))
  /\ \A k \in Nat : k >= theirs => ~Twice(table, <<m, k>>)

MarkAt(K, n) ==
  /\ txSeq[n] <= MaxSeq[n]
  /\ MarkOK(K, Peer[n], txSeq[n], txSeq[Peer[n]], seen[n], air[n])

MarkInv(K) == \A n \in Nodes : MarkAt(K, n)

-----------------------------------------------------------------------------
(* A key that is in an appended table twice was there before: twice, or    *)
(* once and it is the one appended.                                        *)
LEMMA AppendPlaces ==
  ASSUME NEW S, NEW s \in Seq(S), NEW e \in S
  PROVE  /\ Append(s, e) \in Seq(S)
         /\ Len(s) \in Nat /\ Len(Append(s, e)) = Len(s) + 1
         /\ Append(s, e)[Len(s) + 1] = e
         /\ \A i \in 1..Len(s) : i \in 1..Len(Append(s, e)) /\ Append(s, e)[i] = s[i]
         /\ \A i \in 1..Len(Append(s, e)) : i \in 1..Len(s) \/ i = Len(s) + 1
OBVIOUS

LEMMA TailPlaces ==
  ASSUME NEW S, NEW s \in Seq(S), s # <<>>
  PROVE  /\ Tail(s) \in Seq(S) /\ Head(s) = s[1] /\ Head(s) \in S /\ 1 \in 1..Len(s)
         /\ \A i \in 1..Len(Tail(s)) :
              i \in Nat \ {0} /\ i + 1 \in 1..Len(s) /\ Tail(s)[i] = s[i + 1]
OBVIOUS

LEMMA TwiceAppend ==
  ASSUME NEW S, NEW table \in Seq(S), NEW e \in S, NEW key, Twice(Append(table, e), key)
  PROVE  Twice(table, key) \/ (key = e /\ Known(table, key))
<1> DEFINE t == Append(table, e)
<1>1. /\ Len(table) \in Nat /\ t[Len(table) + 1] = e
      /\ \A i \in 1..Len(table) : t[i] = table[i]
      /\ \A i \in 1..Len(t) : i \in 1..Len(table) \/ i = Len(table) + 1
  BY AppendPlaces
<1>2. PICK i \in 1..Len(t), j \in 1..Len(t) : i # j /\ t[i] = key /\ t[j] = key
  BY DEF Twice
<1> HIDE DEF t
<1>3. CASE i \in 1..Len(table) /\ j \in 1..Len(table)
  <2>1. table[i] = key /\ table[j] = key
    BY <1>1, <1>2, <1>3
  <2>2. QED
    BY <1>2, <1>3, <2>1 DEF Twice
<1>4. CASE i \in 1..Len(table) /\ j = Len(table) + 1
  <2>1. table[i] = key /\ key = e
    BY <1>1, <1>2, <1>4
  <2>2. QED
    BY <1>4, <2>1 DEF Known
<1>5. CASE i = Len(table) + 1 /\ j \in 1..Len(table)
  <2>1. table[j] = key /\ key = e
    BY <1>1, <1>2, <1>5
  <2>2. QED
    BY <1>5, <2>1 DEF Known
<1>6. QED
  BY <1>1, <1>2, <1>3, <1>4, <1>5

LEMMA NoThirdAppend ==
  ASSUME NEW S, NEW table \in Seq(S), NEW e \in S, NoThird(table), ~Twice(table, e)
  PROVE  NoThird(Append(table, e))
<1> DEFINE t == Append(table, e)
          last == Len(table) + 1
<1>1. /\ Len(table) \in Nat /\ t[last] = e
      /\ \A i \in 1..Len(table) : t[i] = table[i]
      /\ \A i \in 1..Len(t) : i \in 1..Len(table) \/ i = last
  BY AppendPlaces
<1> HIDE DEF t, last
<1>2. ASSUME NEW i \in 1..Len(t), NEW j \in 1..Len(t), NEW k \in 1..Len(t),
             t[i] = t[j], t[j] = t[k]
      PROVE  i = j \/ j = k \/ i = k
  <2>1. ASSUME NEW a \in 1..Len(table), NEW b \in 1..Len(table), t[a] = e, t[b] = e
        PROVE  a = b
    BY <1>1, <2>1 DEF Twice
  <2>2. CASE i \in 1..Len(table) /\ j \in 1..Len(table) /\ k \in 1..Len(table)
    BY <1>1, <1>2, <2>2 DEF NoThird
  <2>3. QED
    BY <1>1, <1>2, <2>1, <2>2
<1>3. QED
  BY <1>2 DEF NoThird, t

(* There are n numbers below n, and n from 1 to n.                         *)
LEMMA NumbersCount ==
  ASSUME NEW n \in Nat
  PROVE  IsFiniteSet(0..(n - 1)) /\ Cardinality(0..(n - 1)) = n
<1>1. 0 \in Int /\ n - 1 \in Int /\ (0 > n - 1 => n = 0)
  OBVIOUS
<1>2. IsFiniteSet(0..(n - 1)) /\ Cardinality(0..(n - 1)) = IF 0 > n - 1 THEN 0 ELSE n - 1 - 0 + 1
  BY <1>1, FS_Interval
<1>3. QED
  BY <1>1, <1>2

LEMMA CountTo ==
  ASSUME NEW n \in Nat
  PROVE  IsFiniteSet(1..n) /\ Cardinality(1..n) = n
<1>1. 1 \in Int /\ n \in Int /\ (1 > n => n = 0)
  OBVIOUS
<1>2. IsFiniteSet(1..n) /\ Cardinality(1..n) = IF 1 > n THEN 0 ELSE n - 1 + 1
  BY <1>1, FS_Interval
<1>3. QED
  BY <1>1, <1>2

(* Where every key is at most twice, among few keys, the table is short.   *)
LEMMA TableRoom ==
  ASSUME NEW K \in Nat, NEW m, NEW table \in Seq(Nodes \X Nat), NoThird(table),
         \A i \in 1..Len(table) : table[i] \in {m} \X (0..(K - 1))
  PROVE  Len(table) <= 2 * K
<1> DEFINE I == 1..Len(table)
           Again(i) == \E j \in I : j < i /\ table[j] = table[i]
           f == [i \in I |-> <<table[i][2], IF Again(i) THEN 1 ELSE 0>>]
           T == (0..(K - 1)) \X (0..1)
<1>1. Len(table) \in Nat
  OBVIOUS
<1>2. \A i \in I : table[i][2] \in 0..(K - 1) /\ table[i] = <<m, table[i][2]>>
  OBVIOUS
<1>3. f \in [I -> T]
  BY <1>2
<1>4. ASSUME NEW i \in I, NEW j \in I, f[i] = f[j] PROVE i = j
  <2>1. f[i] = <<table[i][2], IF Again(i) THEN 1 ELSE 0>>
    OBVIOUS
  <2>2. f[j] = <<table[j][2], IF Again(j) THEN 1 ELSE 0>>
    OBVIOUS
  <2> HIDE DEF f, Again
  <2>a. <<table[i][2], IF Again(i) THEN 1 ELSE 0>> = <<table[j][2], IF Again(j) THEN 1 ELSE 0>>
    BY <1>4, <2>1, <2>2
  <2>b. table[i][2] = table[j][2] /\ (IF Again(i) THEN 1 ELSE 0) = (IF Again(j) THEN 1 ELSE 0)
    BY <2>a
  <2>3. table[i][2] = table[j][2] /\ (Again(i) <=> Again(j))
    BY <2>b
  <2> USE DEF Again
  <2>4. table[i] = table[j]
    BY <1>2, <2>3
  <2>5. ASSUME NEW a \in I, NEW b \in I, a < b, table[a] = table[b], Again(a) <=> Again(b)
        PROVE  FALSE
    <3>1. Again(b)
      BY <2>5
    <3>2. PICK k \in I : k < a /\ table[k] = table[a]
      BY <2>5, <3>1
    <3>3. k # a /\ a # b /\ k # b
      BY <2>5, <3>2, <1>1
    <3>4. QED
      BY <2>5, <3>2, <3>3 DEF NoThird
  <2>6. QED
    BY <2>3, <2>4, <2>5, <1>1
<1>5. f \in Injection(I, T)
  BY <1>3, <1>4 DEF Injection, IsInjective
<1>6. /\ IsFiniteSet(0..(K - 1)) /\ Cardinality(0..(K - 1)) = K
      /\ IsFiniteSet(0..(2 - 1)) /\ Cardinality(0..(2 - 1)) = 2
      /\ IsFiniteSet(I) /\ Cardinality(I) = Len(table)
  BY <1>1, NumbersCount, CountTo
<1>7. IsFiniteSet(T) /\ Cardinality(T) = K * 2
  <2> DEFINE A == 0..(K - 1)
             B == 0..1
  <2>1. IsFiniteSet(A) /\ Cardinality(A) = K /\ IsFiniteSet(B) /\ Cardinality(B) = 2
    BY <1>6
  <2> HIDE DEF A, B
  <2>2. IsFiniteSet(A \X B) /\ Cardinality(A \X B) = K * 2
    BY <2>1, FS_Product
  <2>3. QED
    BY <2>2 DEF A, B
<1>8. Cardinality(I) <= Cardinality(T)
  BY <1>5, <1>7, FS_Injection
<1>9. QED
  BY <1>6, <1>7, <1>8

(* markReceived touches the table of its own device only.                  *)
LEMMA MarkReceivedOthers ==
  ASSUME TypeOK, NEW n \in Nodes, NEW p, MarkReceived(n, p), NEW m \in Nodes, m # n
  PROVE  seen'[m] = seen[m]
<1>1. seen \in [Nodes -> Seq(Nodes \X Nat)]
  BY DEF TypeOK
<1>2. QED
  BY <1>1 DEF MarkReceived

(* Different keys among few: the queue is short.                           *)
LEMMA QueueRoom ==
  ASSUME NEW K \in Nat, NEW m, NEW table \in Seq(Nodes \X Nat), NEW s \in Seq(Packet),
         KeysDiffer(s), KeysKnown(table, s),
         \A i \in 1..Len(table) : table[i] \in {m} \X (0..(K - 1))
  PROVE  Len(s) <= K
<1> DEFINE I == 1..Len(s)
           f == [i \in I |-> s[i].seq]
<1>1. Len(s) \in Nat
  OBVIOUS
<1>2. ASSUME NEW i \in I PROVE s[i].seq \in 0..(K - 1) /\ Key(s[i]) = <<m, s[i].seq>>
  <2>1. PICK j \in 1..Len(table) : table[j] = Key(s[i])
    BY DEF KeysKnown, Known
  <2>2. Key(s[i]) \in {m} \X (0..(K - 1))
    BY <2>1
  <2>3. QED
    BY <2>2 DEF Key
<1>3. f \in [I -> 0..(K - 1)]
  BY <1>2
<1>4. ASSUME NEW i \in I, NEW j \in I, f[i] = f[j] PROVE i = j
  <2>1. Key(s[i]) = Key(s[j])
    BY <1>2, <1>4
  <2>2. QED
    BY <2>1 DEF KeysDiffer
<1>5. f \in Injection(I, 0..(K - 1))
  BY <1>3, <1>4 DEF Injection, IsInjective
<1>6. /\ IsFiniteSet(0..(K - 1)) /\ Cardinality(0..(K - 1)) = K
      /\ IsFiniteSet(I) /\ Cardinality(I) = Len(s)
  BY <1>1, NumbersCount, CountTo
<1>7. QED
  BY <1>5, <1>6, FS_Injection

(* Frames keep their numbers below those drawn as more are drawn.          *)
LEMMA MarkGrow ==
  ASSUME NEW K \in Nat, NEW m, NEW a \in Nat, NEW b \in Nat, NEW a2 \in Nat, NEW b2 \in Nat,
         NEW table, NEW s \in Seq(Packet), a <= a2, b <= b2, MarkOK(K, m, a, b, table, s)
  PROVE  MarkOK(K, m, a2, b2, table, s)
<1>0. \A i \in 1..Len(s) : s[i] \in Packet
  OBVIOUS
<1>1. \A i \in 1..Len(s) : s[i].seq \in Nat
  BY <1>0 DEF Packet
<1>2. \A i \in 1..Len(s) : Numbered(s[i], a2, b2)
  BY <1>1 DEF MarkOK, Numbered
<1>3. QED
  BY <1>2 DEF MarkOK

(* A frame comes onto the air.                                             *)
LEMMA MarkSend ==
  ASSUME NEW K \in Nat, NEW m, NEW a \in Nat, NEW b \in Nat,
         NEW table, NEW s \in Seq(Packet), NEW q \in Packet, MarkOK(K, m, a, b, table, s),
         q.src = m, Numbered(q, a, b),
         q.type = "Ping" => /\ ~Twice(table, Key(q))
                            /\ \A i \in 1..Len(s) : s[i].type = "Ping" => s[i].seq # q.seq
  PROVE  MarkOK(K, m, a, b, table, Append(s, q))
<1> DEFINE t == Append(s, q)
<1>1. /\ Len(s) \in Nat /\ t[Len(s) + 1] = q
      /\ \A i \in 1..Len(s) : t[i] = s[i]
      /\ \A i \in 1..Len(t) : i \in 1..Len(s) \/ i = Len(s) + 1
  BY AppendPlaces
<1> HIDE DEF t
<1>2. PingsDiffer(t)
  <2>1. PingsDiffer(s)
    BY DEF MarkOK
  <2>2. ASSUME NEW i \in 1..Len(t), NEW j \in 1..Len(t),
               t[i].type = "Ping", t[j].type = "Ping", t[i].seq = t[j].seq
        PROVE  i = j
    <3>1. CASE i \in 1..Len(s) /\ j \in 1..Len(s)
      BY <1>1, <2>1, <2>2, <3>1 DEF PingsDiffer
    <3>2. CASE i \in 1..Len(s) /\ j = Len(s) + 1
      BY <1>1, <2>2, <3>2
    <3>3. CASE i = Len(s) + 1 /\ j \in 1..Len(s)
      BY <1>1, <2>2, <3>3
    <3>4. QED
      BY <1>1, <3>1, <3>2, <3>3
  <2>3. QED
    BY <2>2 DEF PingsDiffer
<1>3. \A i \in 1..Len(t) : /\ t[i].src = m
                           /\ Numbered(t[i], a, b)
                           /\ t[i].type = "Ping" => ~Twice(table, Key(t[i]))
  BY <1>1 DEF MarkOK
<1>4. QED
  BY <1>2, <1>3 DEF MarkOK, t

(* A frame is taken off the air.                                           *)
LEMMA MarkPop ==
  ASSUME NEW K \in Nat, NEW m, NEW a \in Nat, NEW b \in Nat,
         NEW table, NEW s \in Seq(Packet), s # <<>>, MarkOK(K, m, a, b, table, s)
  PROVE  MarkOK(K, m, a, b, table, Tail(s))
<1> DEFINE t == Tail(s)
<1>1. \A i \in 1..Len(t) : i \in Nat \ {0} /\ i + 1 \in 1..Len(s) /\ t[i] = s[i + 1]
  BY TailPlaces
<1> HIDE DEF t
<1>2. PingsDiffer(t)
  <2>1. ASSUME NEW i \in 1..Len(t), NEW j \in 1..Len(t),
               t[i].type = "Ping", t[j].type = "Ping", t[i].seq = t[j].seq
        PROVE  i = j
    <3>1. i + 1 = j + 1
      BY <1>1, <2>1 DEF MarkOK, PingsDiffer
    <3>2. QED
      BY <1>1, <3>1
  <2>2. QED
    BY <2>1 DEF PingsDiffer
<1>3. \A i \in 1..Len(t) : /\ t[i].src = m
                           /\ Numbered(t[i], a, b)
                           /\ t[i].type = "Ping" => ~Twice(table, Key(t[i]))
  BY <1>1 DEF MarkOK
<1>4. QED
  BY <1>2, <1>3 DEF MarkOK, t

(* The frame taken off the air is marked: as a new key, or it is a PING.   *)
LEMMA MarkMarked ==
  ASSUME NEW K \in Nat, K >= 2, NEW m \in Nodes, NEW a \in Nat, NEW b \in Nat, a <= K, b <= K,
         NEW table \in Seq(Nodes \X Nat), NEW s \in Seq(Packet), s # <<>>,
         MarkOK(K, m, a, b, table, s), NEW p \in Packet, p = Head(s), p.type # "Ack",
         p.type # "Ping" => ~Known(table, Key(p))
  PROVE  MarkOK(K, m, a, b, Append(table, Key(p)), Tail(s))
<1>1. PICK e \in Nodes \X Nat : e = Key(p)
  BY DEF Key, Packet
<1>2. PICK t : t = Append(table, e)
  OBVIOUS
<1>3. /\ p = s[1] /\ 1 \in 1..Len(s) /\ p.src = m /\ p.seq \in Nat
      /\ Numbered(p, a, b) /\ e = <<m, p.seq>>
      /\ p.type = "Ping" => ~Twice(table, e)
  <2>1. p = s[1] /\ 1 \in 1..Len(s)
    BY TailPlaces
  <2>2. p.seq \in Nat
    BY DEF Packet
  <2>3. QED
    BY <1>1, <2>1, <2>2 DEF MarkOK, Key
<1>4. p.seq \in 0..(K - 1)
  <2>1. p.type \in {"Hello", "Ping", "Pong", "Message"}
    BY DEF Packet, PacketType
  <2>2. QED
    BY <1>3, <2>1 DEF Numbered
<1>5. \A i \in 1..Len(t) : t[i] \in {m} \X (0..(K - 1))
  <2>1. e \in {m} \X (0..(K - 1))
    BY <1>3, <1>4
  <2>2. /\ t[Len(table) + 1] = e /\ \A i \in 1..Len(table) : t[i] = table[i]
        /\ \A i \in 1..Len(t) : i \in 1..Len(table) \/ i = Len(table) + 1
    BY <1>2, AppendPlaces
  <2>3. QED
    BY <2>1, <2>2 DEF MarkOK
<1>6. ~Twice(table, e)
  <2>1. Twice(table, e) => Known(table, e)
    BY DEF Twice, Known
  <2>2. QED
    BY <1>1, <1>3, <2>1
<1>7. NoThird(t)
  BY <1>2, <1>6, NoThirdAppend DEF MarkOK
<1>8. MarkOK(K, m, a, b, table, Tail(s))
  BY MarkPop
<1>9. ASSUME NEW i \in 1..Len(Tail(s)), Tail(s)[i].type = "Ping"
      PROVE  ~Twice(t, Key(Tail(s)[i]))
  <2>1. PICK r : r = Tail(s)[i] /\ i \in Nat \ {0} /\ i + 1 \in 1..Len(s) /\ r = s[i + 1]
    BY TailPlaces
  <2>2. ~Twice(table, Key(r)) /\ r.src = m
    BY <1>8, <1>9, <2>1 DEF MarkOK
  <2>3. CASE p.type = "Ping"
    <3>1. i + 1 # 1
      BY <2>1
    <3>2. r.seq # p.seq
      BY <1>3, <1>9, <2>1, <2>3, <3>1 DEF MarkOK, PingsDiffer
    <3>3. Key(r) # e
      BY <1>3, <3>2 DEF Key
    <3>4. QED
      BY <1>2, <2>1, <2>2, <3>3, TwiceAppend
  <2>4. CASE p.type # "Ping"
    BY <1>1, <1>2, <2>1, <2>2, <2>4, TwiceAppend
  <2>5. QED
    BY <2>3, <2>4
<1>10. ASSUME NEW k \in Nat, k >= b PROVE ~Twice(t, <<m, k>>)
  <2>1. ~Twice(table, <<m, k>>)
    BY <1>10 DEF MarkOK
  <2>2. CASE p.type = "Ping"
    <3>1. <<m, k>> # e
      BY <1>3, <1>10, <2>2 DEF Numbered
    <3>2. QED
      BY <1>2, <2>1, <3>1, TwiceAppend
  <2>3. CASE p.type # "Ping"
    BY <1>1, <1>2, <2>1, <2>3, TwiceAppend
  <2>4. QED
    BY <2>2, <2>3
<1>11. QED
  BY <1>1, <1>2, <1>5, <1>7, <1>8, <1>9, <1>10 DEF MarkOK

-----------------------------------------------------------------------------
(* As long as no queue is full, what is accepted is kept. *)

LEMMA BootedOnceStep ==
  ASSUME TypeOK, BootedOnce, [Next]_vars
  PROVE  BootedOnce'
<1>1. ASSUME NEW n \in Nodes, Boot(n) PROVE BootedOnce'
  <2>1. ASSUME NEW m \in Nodes, up'[m] PROVE boots'[m] >= 1
    <3>1. CASE m = n
      <4>1. boots'[m] = boots[m] + 1 /\ boots[m] \in Nat
        BY <1>1, <3>1 DEF Boot, TypeOK
      <4>2. QED
        BY <4>1
    <3>2. CASE m # n
      BY <1>1, <2>1, <3>2 DEF Boot, TypeOK, BootedOnce
    <3>3. QED
      BY <3>1, <3>2
  <2>2. QED
    BY <2>1 DEF BootedOnce
<1>2. ASSUME NEW n \in Nodes, PowerLoss(n) PROVE BootedOnce'
  <2>1. ASSUME NEW m \in Nodes, up'[m] PROVE boots'[m] >= 1
    <3>1. boots' = boots /\ m # n /\ up[m]
      BY <1>2, <2>1 DEF PowerLoss, TypeOK
    <3>2. QED
      BY <3>1 DEF BootedOnce
  <2>2. QED
    BY <2>1 DEF BootedOnce
<1>3. ASSUME NEW n \in Nodes,
             ProtocolTask(n) \/ ApplicationTask(n) \/ LoseFrame(n)
      PROVE  BootedOnce'
  <2>1. up' = up /\ boots' = boots
    BY <1>3 DEF ProtocolTask, ApplicationTask, ProcessRetries, Receive, Retry, GiveUp,
       HandleAck, HandleForeign, HandleDuplicate, HandlePing, HandlePong, HandleHello,
       HandleMessage, ProbePoll, ChatPoll, SendMessage, SendRefused, RegisterPending,
       LoseFrame, device
  <2>2. QED
    BY <2>1 DEF BootedOnce
<1>4. CASE UNCHANGED vars
  BY <1>4 DEF BootedOnce, vars
<1>5. QED
  BY <1>1, <1>2, <1>3, <1>4 DEF Next, Environment

(* A packet is appended to a queue that has room for it.                   *)
LEMMA KeptEnqueue ==
  ASSUME TypeOK, NEW n \in Nodes, NEW p \in Packet, KeptAt(n), Enqueue(n, p),
         Len(inbound[n]) < InboundCap, chat' = chat,
         \/ accepted'[n] = accepted[n]
         \/ p.type = "Message" /\ accepted'[n] = accepted[n] \cup {Id(p)}
  PROVE  KeptAt(n)'
<1>1. PICK s \in Seq(Packet) : s = inbound[n]
  BY DEF TypeOK
<1>2. PICK t : t = inbound'[n]
  OBVIOUS
<1>3. t = Append(s, p)
  BY <1>1, <1>2 DEF Enqueue, TypeOK
<1>4. /\ Len(s) \in Nat /\ Len(s) + 1 \in 1..Len(t) /\ t[Len(s) + 1] = p
      /\ \A i \in 1..Len(s) : i \in 1..Len(t) /\ t[i] = s[i]
  BY <1>3
<1>5. ASSUME NEW id, InChat(n, id) PROVE InChat(n, id)'
  BY <1>5 DEF InChat
<1>6. ASSUME NEW id, Waits(n, id) PROVE Waits(n, id)'
  <2>1. PICK i \in 1..Len(s) : s[i].type = "Message" /\ Id(s[i]) = id
    BY <1>1, <1>6 DEF Waits
  <2>2. i \in 1..Len(t) /\ t[i].type = "Message" /\ Id(t[i]) = id
    BY <1>4, <2>1
  <2>3. QED
    BY <1>2, <2>2 DEF Waits
<1>7. ASSUME p.type = "Message" PROVE Waits(n, Id(p))'
  <2>1. Waits(n, Id(p))' <=> \E i \in 1..Len(t) : t[i].type = "Message" /\ Id(t[i]) = Id(p)
    BY <1>2 DEF Waits
  <2>2. QED
    BY <1>4, <1>7, <2>1
<1>8. ASSUME NEW id \in accepted'[n] PROVE InChat(n, id)' \/ Waits(n, id)'
  <2>1. CASE id \in accepted[n]
    BY <1>5, <1>6, <2>1 DEF KeptAt
  <2>2. CASE id \notin accepted[n]
    BY <1>7, <1>8, <2>2
  <2>3. QED
    BY <2>1, <2>2
<1>9. QED
  BY <1>8 DEF KeptAt

(* What the chat service takes off the queue and is a MESSAGE, it shows.   *)
LEMMA KeptChat ==
  ASSUME TypeOK, NEW n \in Nodes, KeptAt(n), ChatPoll(n)
  PROVE  KeptAt(n)'
<1>1. PICK s \in Seq(Packet) : s = inbound[n] /\ s # <<>>
  BY DEF TypeOK, ChatPoll
<1>2. PICK c \in Seq(Packet) : c = chat[n]
  BY DEF TypeOK
<1>3. PICK p \in Packet : p = Head(s) /\ p = s[1]
  BY <1>1
<1>4. /\ inbound'[n] = Tail(s)
      /\ chat'[n] = IF p.type = "Message" THEN Append(c, p) ELSE c
      /\ accepted' = accepted
  BY <1>1, <1>2, <1>3 DEF ChatPoll, TypeOK, history
<1>5. /\ Len(c) \in Nat
      /\ Len(c) + 1 \in 1..Len(Append(c, p)) /\ Append(c, p)[Len(c) + 1] = p
      /\ \A i \in 1..Len(c) : i \in 1..Len(Append(c, p)) /\ Append(c, p)[i] = c[i]
  OBVIOUS
<1>6. \A i \in 1..Len(s) : i = 1 \/ (i - 1 \in 1..Len(Tail(s)) /\ Tail(s)[i - 1] = s[i])
  BY <1>1
<1>7. PICK c2 : c2 = chat'[n]
  OBVIOUS
<1>8. \A i \in 1..Len(c) : i \in 1..Len(c2) /\ c2[i] = c[i]
  BY <1>4, <1>5, <1>7
<1>9. p.type = "Message" => Len(c) + 1 \in 1..Len(c2) /\ c2[Len(c) + 1] = p
  BY <1>4, <1>5, <1>7
<1>10. ASSUME NEW id, InChat(n, id) PROVE InChat(n, id)'
  <2>1. PICK i \in 1..Len(c) : Id(c[i]) = id
    BY <1>2, <1>10 DEF InChat
  <2>2. i \in 1..Len(c2) /\ Id(c2[i]) = id
    BY <1>8, <2>1
  <2>3. QED
    BY <1>7, <2>2 DEF InChat
<1>11. ASSUME NEW id, Waits(n, id) PROVE InChat(n, id)' \/ Waits(n, id)'
  <2>1. PICK i \in 1..Len(s) : s[i].type = "Message" /\ Id(s[i]) = id
    BY <1>1, <1>11 DEF Waits
  <2>2. CASE i = 1
    <3>1. Len(c) + 1 \in 1..Len(c2) /\ Id(c2[Len(c) + 1]) = id
      BY <1>3, <1>9, <2>1, <2>2
    <3>2. QED
      BY <1>7, <3>1 DEF InChat
  <2>3. CASE i # 1
    <3>1. PICK j : j = i - 1
      OBVIOUS
    <3>2. j \in 1..Len(Tail(s)) /\ Tail(s)[j].type = "Message" /\ Id(Tail(s)[j]) = id
      BY <1>6, <2>1, <2>3, <3>1
    <3>3. QED
      BY <1>4, <3>2 DEF Waits
  <2>4. QED
    BY <2>2, <2>3
<1>12. QED
  BY <1>4, <1>10, <1>11 DEF KeptAt

(* Every step keeps what is accepted, while there is room in the queues.   *)
LEMMA KeptStep ==
  ASSUME TypeOK, BootedOnce, KeptInv, NeverFull, MaxBoots = 1, [Next]_vars
  PROVE  KeptInv'
<1> DEFINE Same(m) == accepted'[m] = accepted[m] /\ chat'[m] = chat[m] /\ inbound'[m] = inbound[m]
<1>a. ASSUME NEW m \in Nodes, Same(m) PROVE KeptAt(m)'
  BY <1>a DEF KeptInv, KeptAt, InChat, Waits
<1> HIDE DEF Same
<1>1. ASSUME NEW n \in Nodes, HandleHello(n) PROVE KeptInv'
  <2>1. \A m \in Nodes \ {n} : Same(m)
    BY <1>1 DEF Same, HandleHello, Enqueue, TypeOK, history
  <2>2. Head(air[n]) \in Packet /\ accepted' = accepted /\ chat' = chat
    BY <1>1, ArrivingType DEF HandleHello, history
  <2>3. KeptAt(n)'
    BY <1>1, <2>2, KeptEnqueue DEF HandleHello, KeptInv, NeverFull
  <2>4. QED
    BY <2>1, <2>3, <1>a DEF KeptInv
<1>2. ASSUME NEW n \in Nodes, HandleMessage(n) PROVE KeptInv'
  <2>1. \A m \in Nodes \ {n} : Same(m)
    BY <1>2 DEF Same, HandleMessage, Enqueue, TypeOK
  <2>2. PICK p \in Packet : p = Head(air[n])
    BY <1>2, ArrivingType DEF HandleMessage
  <2>3. /\ p.type = "Message" /\ chat' = chat /\ Enqueue(n, p)
        /\ accepted'[n] = accepted[n] \cup {Id(p)}
    BY <1>2, <2>2 DEF HandleMessage, TypeOK
  <2>4. KeptAt(n)'
    BY <2>3, KeptEnqueue DEF KeptInv, NeverFull
  <2>5. QED
    BY <2>1, <2>4, <1>a DEF KeptInv
<1>3. ASSUME NEW n \in Nodes, ChatPoll(n) PROVE KeptInv'
  <2>1. \A m \in Nodes \ {n} : Same(m)
    BY <1>3 DEF Same, ChatPoll, TypeOK, history
  <2>2. KeptAt(n)'
    BY <1>3, KeptChat DEF KeptInv
  <2>3. QED
    BY <2>1, <2>2, <1>a DEF KeptInv
<1>4. ASSUME NEW n \in Nodes, PowerLoss(n) PROVE FALSE
  <2>1. boots[n] >= 1 /\ boots[n] < 1 /\ boots[n] \in Nat
    BY <1>4 DEF PowerLoss, BootedOnce, TypeOK
  <2>2. QED
    BY <2>1
<1>5. ASSUME NEW n \in Nodes,
             \/ ProcessRetries(n) \/ HandleAck(n) \/ HandleForeign(n) \/ HandleDuplicate(n)
             \/ HandlePing(n) \/ HandlePong(n) \/ ProbePoll(n) \/ ApplicationTask(n)
             \/ Boot(n) \/ LoseFrame(n)
      PROVE  KeptInv'
  <2>1. accepted' = accepted /\ chat' = chat /\ inbound' = inbound
    BY <1>5 DEF ProcessRetries, Retry, GiveUp, HandleAck, HandleForeign, HandleDuplicate,
       HandlePing, HandlePong, ProbePoll, ApplicationTask, SendMessage, SendRefused,
       RegisterPending, Boot, LoseFrame, history
  <2>2. QED
    BY <2>1, <1>a DEF Same, KeptInv
<1>6. CASE UNCHANGED vars
  BY <1>6, <1>a DEF Same, KeptInv, vars
<1>7. QED
  BY <1>1, <1>2, <1>3, <1>4, <1>5, <1>6 DEF Next, ProtocolTask, Environment, Receive

LEMMA KeptIsInChat ==
  ASSUME KeptInv
  PROVE  AcceptedReachesChat
BY DEF KeptInv, KeptAt, AcceptedReachesChat, Waits, InInbound

(* Any number of devices that are powered once: as long as no inbound      *)
(* queue is full, every message that was accepted, and may have been       *)
(* acknowledged, is in the queue or in the conversation.                   *)
THEOREM AcceptedIsKept ==
  ASSUME MaxBoots = 1
  PROVE  Spec /\ []NeverFull => []AcceptedReachesChat
<1> DEFINE Inv == TypeOK /\ BootedOnce /\ KeptInv
<1>1. Init => Inv
  BY DEF Init, TypeOK, BootedOnce, KeptInv, KeptAt
<1>2. Inv /\ NeverFull /\ [Next]_vars => Inv'
  BY TypeStep, BootedOnceStep, KeptStep
<1>3. Inv => AcceptedReachesChat
  BY KeptIsInChat
<1>4. QED
  BY <1>1, <1>2, <1>3, PTL DEF Spec

-----------------------------------------------------------------------------
(* Between two devices that draw few numbers the queue never fills. *)

(* A device that only hears, or takes a frame that changes nothing.        *)
LEMMA MarkHears ==
  ASSUME TypeOK, TypeOK', NEW K \in Nat, NEW n \in Nodes, MarkAt(K, n),
         \A m \in Nodes : txSeq[m] <= txSeq'[m], txSeq'[n] <= MaxSeq[n],
         seen'[n] = seen[n],
         \/ air'[n] = air[n]
         \/ air[n] # <<>> /\ air'[n] = Tail(air[n])
         \/ \E q \in Packet :
              /\ air'[n] = Append(air[n], q)
              /\ q.src = Peer[n]
              /\ Numbered(q, txSeq'[n], txSeq'[Peer[n]])
              /\ q.type = "Ping" => q.seq = txSeq[Peer[n]]
  PROVE  MarkAt(K, n)'
<1>1. PICK m \in Nodes : m = Peer[n]
  BY PeerAssumption
<1>2. PICK a \in Nat, b \in Nat, a2 \in Nat, b2 \in Nat :
        a = txSeq[n] /\ b = txSeq[m] /\ a2 = txSeq'[n] /\ b2 = txSeq'[m]
  BY DEF TypeOK
<1>3. PICK s \in Seq(Packet) : s = air[n]
  BY DEF TypeOK
<1>4. PICK table : table = seen[n]
  OBVIOUS
<1>5. MarkOK(K, m, a, b, table, s)
  BY <1>1, <1>2, <1>3, <1>4 DEF MarkAt
<1>6. MarkOK(K, m, a2, b2, table, s)
  BY <1>2, <1>5, MarkGrow
<1>7. ASSUME NEW q \in Packet, q.src = m, Numbered(q, a2, b2),
             q.type = "Ping" => q.seq = b
      PROVE  MarkOK(K, m, a2, b2, table, Append(s, q))
  <2>1. ASSUME q.type = "Ping"
        PROVE  /\ ~Twice(table, Key(q))
               /\ \A i \in 1..Len(s) : s[i].type = "Ping" => s[i].seq # q.seq
    <3>1. Key(q) = <<m, b>>
      BY <1>7, <2>1 DEF Key
    <3>2. ~Twice(table, <<m, b>>)
      BY <1>5 DEF MarkOK
    <3>3. ASSUME NEW i \in 1..Len(s), s[i].type = "Ping" PROVE s[i].seq # q.seq
      <4>1. s[i] \in Packet
        OBVIOUS
      <4>2. s[i].seq < b /\ s[i].seq \in Nat
        BY <1>5, <3>3, <4>1 DEF MarkOK, Numbered, Packet
      <4>3. QED
        BY <1>7, <2>1, <4>2
    <3>4. QED
      BY <3>1, <3>2, <3>3
  <2>2. QED
    BY <1>6, <1>7, <2>1, MarkSend
<1>8. MarkOK(K, m, a2, b2, table, air'[n])
  <2>1. CASE air'[n] = air[n]
    BY <1>3, <1>6, <2>1
  <2>2. CASE air[n] # <<>> /\ air'[n] = Tail(air[n])
    BY <1>3, <1>6, <2>2, MarkPop
  <2>3. ASSUME NEW q \in Packet, air'[n] = Append(air[n], q), q.src = Peer[n],
               Numbered(q, txSeq'[n], txSeq'[Peer[n]]),
               q.type = "Ping" => q.seq = txSeq[Peer[n]]
        PROVE  MarkOK(K, m, a2, b2, table, air'[n])
    BY <1>1, <1>2, <1>3, <1>7, <2>3
  <2>4. QED
    BY <2>1, <2>2, <2>3
<1>9. MarkOK(K, Peer[n], txSeq'[n], txSeq'[Peer[n]], seen'[n], air'[n])
  BY <1>1, <1>2, <1>4, <1>8
<1>10. QED
  BY <1>9 DEF MarkAt

(* Whoever hears a frame of n, of two devices.                             *)
LEMMA MarkBroadcast ==
  ASSUME TypeOK, TypeOK', PointToPoint, NEW K \in Nat, MarkInv(K), NEW n \in Nodes,
         NEW q \in Packet, q.src = n,
         q.type = "Ping" => q.seq = txSeq[n],
         \A m \in Nodes : txSeq[m] <= txSeq'[m] /\ txSeq'[m] <= MaxSeq[m],
         NEW m \in Nodes, m # n, seen'[m] = seen[m],
         air'[m] = air[m] \/ air'[m] = Append(air[m], q),
         Numbered(q, txSeq'[m], txSeq'[n])
  PROVE  MarkAt(K, m)'
<1>1. Peer[m] = n /\ MarkAt(K, m)
  BY DEF PointToPoint, MarkInv
<1>2. \/ air'[m] = air[m]
      \/ \E r \in Packet :
           /\ air'[m] = Append(air[m], r)
           /\ r.src = Peer[m]
           /\ Numbered(r, txSeq'[m], txSeq'[Peer[m]])
           /\ r.type = "Ping" => r.seq = txSeq[Peer[m]]
  BY <1>1
<1>3. QED
  BY <1>1, <1>2, MarkHears

(* A frame is taken off the air and marked.                                *)
LEMMA MarkTakes ==
  ASSUME TypeOK, NEW K \in Nat, K >= 2, \A m \in Nodes : MaxSeq[m] <= K, MarkInv(K),
         NEW n \in Nodes, Arriving(n), NEW p \in Packet, p = Head(air[n]), p.type # "Ack",
         p.type # "Ping" => ~IsDuplicate(n, p),
         Len(seen[n]) < SeenSlots, MarkReceived(n, p),
         txSeq' = txSeq, air'[n] = Tail(air[n])
  PROVE  MarkAt(K, n)'
<1>1. PICK m \in Nodes : m = Peer[n]
  BY PeerAssumption
<1>2. PICK a \in Nat, b \in Nat : a = txSeq[n] /\ b = txSeq[m]
  BY DEF TypeOK
<1>3. a <= K /\ b <= K
  <2>1. MaxSeq[n] \in Nat /\ MaxSeq[m] \in Nat
    BY MaxSeqAssumption
  <2>2. a <= MaxSeq[n] /\ b <= MaxSeq[m] /\ MaxSeq[n] <= K /\ MaxSeq[m] <= K
    BY <1>2 DEF MarkInv, MarkAt
  <2>3. QED
    BY <2>1, <2>2
<1>4. PICK s \in Seq(Packet) : s = air[n] /\ s # <<>>
  BY DEF TypeOK, Arriving
<1>5. PICK table \in Seq(Nodes \X Nat) : table = seen[n]
  BY DEF TypeOK
<1>6. MarkOK(K, m, a, b, table, s)
  BY <1>1, <1>2, <1>4, <1>5 DEF MarkInv, MarkAt
<1>7. seen'[n] = Append(table, Key(p))
  BY <1>5 DEF MarkReceived, TypeOK
<1>8. p.type # "Ping" => ~Known(table, Key(p))
  BY <1>5 DEF IsDuplicate
<1>9. MarkOK(K, m, a, b, Append(table, Key(p)), Tail(s))
  BY <1>3, <1>4, <1>6, <1>8, MarkMarked
<1>10. MarkOK(K, Peer[n], txSeq'[n], txSeq'[Peer[n]], seen'[n], air'[n])
  BY <1>1, <1>2, <1>4, <1>7, <1>9
<1>11. txSeq'[n] <= MaxSeq[n]
  BY DEF MarkInv, MarkAt
<1>12. QED
  BY <1>10, <1>11 DEF MarkAt

(* What the invariant is for: the table has a free slot and the queue room *)
(* for one more.                                                           *)
LEMMA MarkRoom ==
  ASSUME TypeOK, NEW K \in Nat, 2 * K < SeenSlots, K < InboundCap, MarkInv(K),
         NEW n \in Nodes, OnceAt(n)
  PROVE  Len(seen[n]) < SeenSlots /\ Len(inbound[n]) < InboundCap
<1>1. PICK table \in Seq(Nodes \X Nat), s \in Seq(Packet), m \in Nodes :
        table = seen[n] /\ s = inbound[n] /\ m = Peer[n]
  BY PeerAssumption DEF TypeOK
<1>2. NoThird(table) /\ \A i \in 1..Len(table) : table[i] \in {m} \X (0..(K - 1))
  BY <1>1 DEF MarkInv, MarkAt, MarkOK
<1>3. Len(table) <= 2 * K
  BY <1>2, TableRoom
<1>4. Len(table) \in Nat /\ Len(s) \in Nat /\ SeenSlots \in Nat /\ InboundCap \in Nat
  BY BoundsAssumption
<1>5. Len(table) < SeenSlots
  BY <1>3, <1>4
<1>6. KeysDiffer(s) /\ KeysKnown(table, s)
  BY <1>1, <1>5 DEF OnceAt, DedupInvAt, AllRemembered, AtMostOnceAt
<1>7. Len(s) <= K
  BY <1>2, <1>6, QueueRoom
<1>8. QED
  BY <1>1, <1>4, <1>5, <1>7

(* Every step keeps the tables and the air in order.                       *)
LEMMA MarkStep ==
  ASSUME TypeOK, TypeOK', PointToPoint, MaxBoots = 1, BootedOnce,
         \A n \in Nodes : SettleAt(n), \A n \in Nodes : OnceAt(n),
         NEW K \in Nat, K >= 2, \A n \in Nodes : MaxSeq[n] <= K,
         2 * K < SeenSlots, K < InboundCap, MarkInv(K), [Next]_vars
  PROVE  MarkInv(K)'
<1> USE MaxSeqAssumption
<1>a. /\ txSeq \in [Nodes -> Nat] /\ air \in [Nodes -> Seq(Packet)]
      /\ \A m \in Nodes : txSeq[m] <= MaxSeq[m]
  BY DEF TypeOK, MarkInv, MarkAt
<1>b. ASSUME txSeq' = txSeq
      PROVE  \A m \in Nodes : txSeq[m] <= txSeq'[m] /\ txSeq'[m] <= MaxSeq[m]
  BY <1>a, <1>b
<1>c. ASSUME NEW n \in Nodes, NextSequence(n)
      PROVE  /\ txSeq'[n] = txSeq[n] + 1
             /\ \A m \in Nodes : txSeq[m] <= txSeq'[m] /\ txSeq'[m] <= MaxSeq[m]
  <2>1. txSeq'[n] = txSeq[n] + 1 /\ txSeq[n] < MaxSeq[n] /\ MaxSeq[n] \in Nat
    BY <1>a, <1>c DEF NextSequence
  <2>2. \A m \in Nodes \ {n} : txSeq'[m] = txSeq[m]
    BY <1>a, <1>c DEF NextSequence
  <2>3. ASSUME NEW m \in Nodes PROVE txSeq[m] <= txSeq'[m] /\ txSeq'[m] <= MaxSeq[m]
    <3>1. txSeq[m] \in Nat /\ MaxSeq[m] \in Nat /\ txSeq[m] <= MaxSeq[m]
      BY <1>a
    <3>2. CASE m = n
      BY <2>1, <3>1, <3>2
    <3>3. CASE m # n
      BY <2>2, <3>1, <3>3
    <3>4. QED
      BY <3>2, <3>3
  <2>4. QED
    BY <2>1, <2>3
<1>d. ASSUME NEW n \in Nodes, Arriving(n)
      PROVE  /\ Popped(n) \in [Nodes -> Seq(Packet)]
             /\ Popped(n)[n] = Tail(air[n]) /\ air[n] # <<>>
             /\ \A m \in Nodes \ {n} : Popped(n)[m] = air[m]
             /\ \E p \in Packet :
                  /\ p = Head(air[n]) /\ p.src = Peer[n] /\ p.src \in Nodes
                  /\ Numbered(p, txSeq[n], txSeq[Peer[n]])
  <2>1. Popped(n) \in [Nodes -> Seq(Packet)] /\ Head(air[n]) \in Packet
    BY <1>d, ArrivingType
  <2>2. air[n] \in Seq(Packet) /\ air[n] # <<>>
    BY <1>a, <1>d DEF Arriving
  <2>3. Head(air[n]) = air[n][1] /\ 1 \in 1..Len(air[n])
    BY <2>2
  <2>4. Head(air[n]).src = Peer[n] /\ Numbered(Head(air[n]), txSeq[n], txSeq[Peer[n]])
    BY <2>3 DEF MarkInv, MarkAt, MarkOK
  <2>5. Head(air[n]).src \in Nodes
    BY <2>1 DEF Packet
  <2>6. \A m \in Nodes : Popped(n)[m] = IF m = n THEN Tail(air[n]) ELSE air[m]
    BY <1>a DEF Popped
  <2>7. QED
    BY <2>1, <2>2, <2>4, <2>5, <2>6
<1>e. \A n \in Nodes : Len(seen[n]) < SeenSlots
  BY MarkRoom
<1>f. ASSUME NEW n \in Nodes, NEW p, MarkReceived(n, p)
      PROVE  \A m \in Nodes \ {n} : seen'[m] = seen[m]
  BY <1>f, MarkReceivedOthers
<1>g. ASSUME NEW n \in Nodes, NEW a, NEW q, air' = Broadcast(a, n, q),
             NEW m \in Nodes, m # n, a[m] = air[m]
      PROVE  air'[m] = air[m] \/ air'[m] = Append(air[m], q)
  BY <1>g DEF Broadcast
<1>1. ASSUME NEW n \in Nodes, SendMessage(n) \/ ProbePoll(n) PROVE MarkInv(K)'
  <2>1. PICK q : /\ q = Make("Message", n, Peer[n], txSeq[n]) \/ q = Make("Ping", n, Peer[n], txSeq[n])
                 /\ air' = Broadcast(air, n, q)
    BY <1>1 DEF SendMessage, ProbePoll
  <2>2. NextSequence(n) /\ seen' = seen
    BY <1>1 DEF SendMessage, ProbePoll
  <2>3. q \in Packet /\ q.src = n /\ q.seq = txSeq[n] /\ q.type \in {"Message", "Ping"}
    BY <2>1, MakeNumbered
  <2>4. \A m \in Nodes \ {n} : Numbered(q, txSeq'[m], txSeq'[n])
    BY <1>a, <1>c, <2>2, <2>3 DEF Numbered
  <2>a. \A m \in Nodes : txSeq[m] <= txSeq'[m] /\ txSeq'[m] <= MaxSeq[m]
    BY <1>c, <2>2
  <2>5. ASSUME NEW m \in Nodes, m # n PROVE MarkAt(K, m)'
    <3>1. (air'[m] = air[m] \/ air'[m] = Append(air[m], q)) /\ seen'[m] = seen[m]
      BY <1>g, <2>1, <2>2, <2>5
    <3>2. Numbered(q, txSeq'[m], txSeq'[n])
      BY <2>4, <2>5
    <3>3. QED
      BY <2>3, <2>5, <2>a, <3>1, <3>2, MarkBroadcast
  <2>6. air'[n] = air[n] /\ seen'[n] = seen[n]
    BY <2>1, <2>2 DEF Broadcast
  <2>7. MarkAt(K, n)'
    <3>1. MarkAt(K, n)
      BY DEF MarkInv
    <3>2. txSeq'[n] <= MaxSeq[n] /\ \A m \in Nodes : txSeq[m] <= txSeq'[m]
      BY <2>a
    <3>3. QED
      BY <2>6, <3>1, <3>2, MarkHears
  <2>8. QED
    BY <2>5, <2>7 DEF MarkInv
<1>2. ASSUME NEW n \in Nodes, NEW t \in pending[n], Retry(n, t) PROVE MarkInv(K)'
  <2>1. PICK q \in Packet : q = t.packet
    BY PendingIdType
  <2>2. txSeq' = txSeq /\ seen' = seen /\ air' = Broadcast(air, n, q)
    BY <1>2, <2>1 DEF Retry
  <2>3. q.src = n /\ q.seq < txSeq[n] /\ q.type = "Message"
    BY <2>1 DEF SettleAt, OutstandingInvAt, OwnMessage
  <2>4. \A m \in Nodes \ {n} : Numbered(q, txSeq'[m], txSeq'[n])
    BY <2>2, <2>3 DEF Numbered
  <2>a. \A m \in Nodes : txSeq[m] <= txSeq'[m] /\ txSeq'[m] <= MaxSeq[m]
    BY <1>b, <2>2
  <2>5. ASSUME NEW m \in Nodes, m # n PROVE MarkAt(K, m)'
    <3>1. (air'[m] = air[m] \/ air'[m] = Append(air[m], q)) /\ seen'[m] = seen[m]
      BY <1>g, <2>2, <2>5
    <3>2. Numbered(q, txSeq'[m], txSeq'[n])
      BY <2>4, <2>5
    <3>3. QED
      BY <2>3, <2>5, <2>a, <3>1, <3>2, MarkBroadcast
  <2>6. air'[n] = air[n] /\ seen'[n] = seen[n]
    BY <2>2 DEF Broadcast
  <2>7. MarkAt(K, n)'
    <3>1. MarkAt(K, n)
      BY DEF MarkInv
    <3>2. txSeq'[n] <= MaxSeq[n] /\ \A m \in Nodes : txSeq[m] <= txSeq'[m]
      BY <2>a
    <3>3. QED
      BY <2>6, <3>1, <3>2, MarkHears
  <2>8. QED
    BY <2>5, <2>7 DEF MarkInv
<1>3. ASSUME NEW n \in Nodes, HandlePing(n) PROVE MarkInv(K)'
  <2>0. Arriving(n)
    BY <1>3 DEF HandlePing
  <2>1. PICK p \in Packet : /\ p = Head(air[n]) /\ p.src = Peer[n] /\ p.src \in Nodes
                            /\ Numbered(p, txSeq[n], txSeq[Peer[n]])
    BY <1>d, <2>0
  <2>2. PICK q : q = Make("Pong", n, p.src, p.seq)
    OBVIOUS
  <2>3. /\ p.type = "Ping" /\ txSeq' = txSeq /\ MarkReceived(n, p)
        /\ air' = Broadcast(Popped(n), n, q)
    BY <1>3, <2>1, <2>2 DEF HandlePing
  <2>4. q \in Packet /\ q.src = n /\ q.seq = p.seq /\ q.type = "Pong"
    BY <2>1, <2>2, MakeType DEF PacketType, Make, MakeIn, Packet
  <2>5. p.seq < txSeq[Peer[n]]
    BY <2>1, <2>3 DEF Numbered
  <2>6. ASSUME NEW m \in Nodes \ {n} PROVE Numbered(q, txSeq'[m], txSeq'[n])
    <3>1. Peer[n] = m
      BY DEF PointToPoint
    <3>2. QED
      BY <2>3, <2>4, <2>5, <3>1 DEF Numbered
  <2>7. ASSUME NEW m \in Nodes, m # n PROVE MarkAt(K, m)'
    <3>1. \A k \in Nodes : txSeq[k] <= txSeq'[k] /\ txSeq'[k] <= MaxSeq[k]
      BY <1>b, <2>3
    <3>2. Popped(n)[m] = air[m] /\ seen'[m] = seen[m]
      BY <1>d, <1>f, <2>0, <2>3, <2>7
    <3>3. air'[m] = air[m] \/ air'[m] = Append(air[m], q)
      BY <1>g, <2>3, <2>7, <3>2
    <3>4. Numbered(q, txSeq'[m], txSeq'[n])
      BY <2>6, <2>7
    <3>5. QED
      BY <2>4, <2>7, <3>1, <3>2, <3>3, <3>4, MarkBroadcast
  <2>8. air'[n] = Tail(air[n])
    BY <1>d, <2>0, <2>3 DEF Broadcast
  <2>9. MarkAt(K, n)'
    BY <1>e, <2>0, <2>1, <2>3, <2>8, MarkTakes
  <2>10. QED
    BY <2>7, <2>9 DEF MarkInv
<1>4. ASSUME NEW n \in Nodes, HandleMessage(n) PROVE MarkInv(K)'
  <2>0. Arriving(n)
    BY <1>4 DEF HandleMessage
  <2>1. PICK p \in Packet : p = Head(air[n]) /\ p.src \in Nodes
    BY <1>d, <2>0
  <2>2. PICK q : q = Make("Ack", n, p.src, p.seq)
    OBVIOUS
  <2>3. /\ p.type = "Message" /\ txSeq' = txSeq /\ MarkReceived(n, p) /\ ~IsDuplicate(n, p)
        /\ air' = Broadcast(Popped(n), n, q)
    BY <1>4, <2>1, <2>2 DEF HandleMessage
  <2>4. q \in Packet /\ q.src = n /\ q.type = "Ack"
    BY <2>1, <2>2, MakeType DEF PacketType, Make, MakeIn, Packet
  <2>5. \A m \in Nodes \ {n} : Numbered(q, txSeq'[m], txSeq'[n])
    BY <2>4 DEF Numbered
  <2>6. ASSUME NEW m \in Nodes, m # n PROVE MarkAt(K, m)'
    <3>1. \A k \in Nodes : txSeq[k] <= txSeq'[k] /\ txSeq'[k] <= MaxSeq[k]
      BY <1>b, <2>3
    <3>2. Popped(n)[m] = air[m] /\ seen'[m] = seen[m]
      BY <1>d, <1>f, <2>0, <2>3, <2>6
    <3>3. air'[m] = air[m] \/ air'[m] = Append(air[m], q)
      BY <1>g, <2>3, <2>6, <3>2
    <3>4. Numbered(q, txSeq'[m], txSeq'[n])
      BY <2>5, <2>6
    <3>5. QED
      BY <2>4, <2>6, <3>1, <3>2, <3>3, <3>4, MarkBroadcast
  <2>7. air'[n] = Tail(air[n])
    BY <1>d, <2>0, <2>3 DEF Broadcast
  <2>8. MarkAt(K, n)'
    BY <1>e, <2>0, <2>1, <2>3, <2>7, MarkTakes
  <2>9. QED
    BY <2>6, <2>8 DEF MarkInv
<1>5. ASSUME NEW n \in Nodes, HandlePong(n) \/ HandleHello(n) PROVE MarkInv(K)'
  <2>0. Arriving(n)
    BY <1>5 DEF HandlePong, HandleHello
  <2>1. PICK p \in Packet : p = Head(air[n]) /\ p.src \in Nodes
    BY <1>d, <2>0
  <2>2. /\ p.type \in {"Pong", "Hello"} /\ txSeq' = txSeq /\ MarkReceived(n, p)
        /\ ~IsDuplicate(n, p) /\ air' = Popped(n)
    BY <1>5, <2>1 DEF HandlePong, HandleHello
  <2>3. ASSUME NEW m \in Nodes \ {n} PROVE MarkAt(K, m)'
    <3>1. air'[m] = air[m] /\ seen'[m] = seen[m]
      BY <1>d, <1>f, <2>0, <2>2
    <3>2. QED
      BY <1>b, <2>2, <3>1, MarkHears DEF MarkInv
  <2>4. MarkAt(K, n)'
    <3>1. air'[n] = Tail(air[n])
      BY <1>d, <2>0, <2>2
    <3>2. p.type # "Ack" /\ Len(seen[n]) < SeenSlots
      BY <1>e, <2>2
    <3>3. QED
      BY <2>0, <2>1, <2>2, <3>1, <3>2, MarkTakes
  <2>5. QED
    BY <2>3, <2>4 DEF MarkInv
<1>6. ASSUME NEW n \in Nodes,
             HandleAck(n) \/ HandleForeign(n) \/ HandleDuplicate(n) \/ LoseFrame(n)
      PROVE  MarkInv(K)'
  <2>1. Arriving(n) /\ txSeq' = txSeq /\ seen' = seen /\ air' = Popped(n)
    BY <1>6 DEF HandleAck, HandleForeign, HandleDuplicate, LoseFrame
  <2>2. ASSUME NEW m \in Nodes PROVE MarkAt(K, m)'
    <3>1. \A k \in Nodes : txSeq[k] <= txSeq'[k] /\ txSeq'[k] <= MaxSeq[k]
      BY <1>b, <2>1
    <3>2. CASE m = n
      <4>1. air[m] # <<>> /\ air'[m] = Tail(air[m]) /\ seen'[m] = seen[m]
        BY <1>d, <2>1, <3>2
      <4>2. QED
        BY <3>1, <4>1, MarkHears DEF MarkInv
    <3>3. CASE m # n
      <4>1. air'[m] = air[m] /\ seen'[m] = seen[m]
        BY <1>d, <2>1, <3>3
      <4>2. QED
        BY <3>1, <4>1, MarkHears DEF MarkInv
    <3>4. QED
      BY <3>2, <3>3
  <2>3. QED
    BY <2>2 DEF MarkInv
<1>7. ASSUME NEW n \in Nodes, Boot(n) PROVE MarkInv(K)'
  <2>1. PICK q : q = MakeIn(boots[n] + 1, "Hello", n, Peer[n], 1)
    OBVIOUS
  <2>2. txSeq' = txSeq /\ seen' = seen /\ air' = Broadcast(air, n, q)
    BY <1>7, <2>1 DEF Boot
  <2>3. q \in Packet /\ q.src = n /\ q.seq = 1 /\ q.type = "Hello"
    <3>0. boots \in [Nodes -> Nat]
      BY DEF TypeOK
    <3>1. boots[n] + 1 \in Nat /\ Peer[n] \in Nodes
      BY <3>0, PeerAssumption
    <3>2. QED
      BY <2>1, <3>1 DEF PacketType, MakeIn, Packet
  <2>4. \A m \in Nodes \ {n} : Numbered(q, txSeq'[m], txSeq'[n])
    BY <2>3 DEF Numbered
  <2>a. \A m \in Nodes : txSeq[m] <= txSeq'[m] /\ txSeq'[m] <= MaxSeq[m]
    BY <1>b, <2>2
  <2>5. ASSUME NEW m \in Nodes, m # n PROVE MarkAt(K, m)'
    <3>1. (air'[m] = air[m] \/ air'[m] = Append(air[m], q)) /\ seen'[m] = seen[m]
      BY <1>g, <2>2, <2>5
    <3>2. Numbered(q, txSeq'[m], txSeq'[n])
      BY <2>4, <2>5
    <3>3. QED
      BY <2>3, <2>5, <2>a, <3>1, <3>2, MarkBroadcast
  <2>6. air'[n] = air[n] /\ seen'[n] = seen[n]
    BY <2>2 DEF Broadcast
  <2>7. MarkAt(K, n)'
    <3>1. MarkAt(K, n)
      BY DEF MarkInv
    <3>2. txSeq'[n] <= MaxSeq[n] /\ \A m \in Nodes : txSeq[m] <= txSeq'[m]
      BY <2>a
    <3>3. QED
      BY <2>6, <3>1, <3>2, MarkHears
  <2>8. QED
    BY <2>5, <2>7 DEF MarkInv
<1>8. ASSUME NEW n \in Nodes, PowerLoss(n) PROVE FALSE
  <2>1. boots[n] >= 1 /\ boots[n] < 1 /\ boots[n] \in Nat
    BY <1>8 DEF PowerLoss, BootedOnce, TypeOK
  <2>2. QED
    BY <2>1
<1>9. ASSUME seen' = seen, air' = air,
             \A m \in Nodes : txSeq[m] <= txSeq'[m] /\ txSeq'[m] <= MaxSeq[m]
      PROVE  MarkInv(K)'
  <2>1. ASSUME NEW m \in Nodes PROVE MarkAt(K, m)'
    BY <1>9, MarkHears DEF MarkInv
  <2>2. QED
    BY <2>1 DEF MarkInv
<1>10. ASSUME NEW n \in Nodes, SendRefused(n) PROVE MarkInv(K)'
  BY <1>9, <1>10, <1>c DEF SendRefused
<1>11. ASSUME NEW n \in Nodes, NEW t \in pending[n], GiveUp(n, t) PROVE MarkInv(K)'
  BY <1>9, <1>11, <1>b DEF GiveUp
<1>12. ASSUME NEW n \in Nodes, RegisterPending(n) \/ ChatPoll(n) PROVE MarkInv(K)'
  BY <1>9, <1>12, <1>b DEF RegisterPending, ChatPoll
<1>13. CASE UNCHANGED vars
  BY <1>9, <1>13, <1>b DEF vars
<1>14. QED
  BY <1>1, <1>2, <1>3, <1>4, <1>5, <1>6, <1>7, <1>8, <1>10, <1>11, <1>12, <1>13
  DEF Next, ProtocolTask, ApplicationTask, Environment, ProcessRetries, Receive

(* Two devices that are powered once and draw at most K numbers each, with *)
(* a duplicate table for 2 K keys and a queue for more than K packets (64  *)
(* and 16 in the code, so K may be 15): an accepted message is in the      *)
(* queue or in the conversation, whatever is repeated and however the      *)
(* rounds of the protocol task fall.                                       *)
THEOREM AcceptedIsNeverLost ==
  ASSUME PointToPoint, MaxBoots = 1, NEW K \in Nat, K >= 2,
         \A n \in Nodes : MaxSeq[n] <= K, 2 * K < SeenSlots, K < InboundCap
  PROVE  Spec => []AcceptedReachesChat
<1> DEFINE Inv == /\ TypeOK /\ BootedOnce
                  /\ \A n \in Nodes : SettleAt(n)
                  /\ \A n \in Nodes : OnceAt(n)
                  /\ MarkInv(K)
<1>1. Init => Inv
  <2> SUFFICES ASSUME Init PROVE Inv
    OBVIOUS
  <2>1. TypeOK /\ BootedOnce
    BY DEF Init, TypeOK, BootedOnce
  <2>2. \A n \in Nodes : SettleAt(n)
    BY DEF Init, SettleAt, OutstandingInvAt, SettledOnceAt, Settled
  <2>3. \A n \in Nodes : OnceAt(n)
    BY BoundsAssumption DEF Init, OnceAt, DedupInvAt, AllRemembered, AtMostOnceAt,
       KeysKnown, KeysDiffer, KeysApart
  <2>4. MarkInv(K)
    BY MaxSeqAssumption DEF Init, MarkInv, MarkAt, MarkOK, NoThird, PingsDiffer, Twice
  <2>5. QED
    BY <2>1, <2>2, <2>3, <2>4
<1>2. Inv /\ [Next]_vars => Inv'
  BY TypeStep, BootedOnceStep, SettleStep, OnceStep, MarkStep
<1>3. Inv => NeverFull
  BY MarkRoom DEF NeverFull
<1>4. Spec /\ []NeverFull => []AcceptedReachesChat
  BY AcceptedIsKept
<1>5. QED
  BY <1>1, <1>2, <1>3, <1>4, PTL DEF Spec

=============================================================================
