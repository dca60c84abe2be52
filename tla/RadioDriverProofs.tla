------------------------- MODULE RadioDriverProofs --------------------------
(***************************************************************************)
(* SendVerdict and HeardIsDecoded of RadioDriver for any number of tasks,  *)
(* texts and packets, either radio, any limits and times; then the wire    *)
(* format of PacketCodec for every packet.                                 *)
(***************************************************************************)
EXTENDS RadioDriver, SequenceTheorems, FiniteSetTheorems, WellFoundedInduction, TLAPS

Busy(t) == pc[t] \in {"lockTx", "write", "onAir"}

(* TypeOK with what makes it inductive: a task that sends has a frame to   *)
(* send, and handleRx one to look at.                                      *)
TypeInv ==
  /\ TypeOK
  /\ \A t \in Tasks : Busy(t) => Len(job[t]) = 1
  /\ pc[Proto] = "handle" => out # <<>>

(* Whoever is at the chip holds the mutex, so the frame in the chip while  *)
(* a task transmits is its own.                                            *)
MutexInv ==
  /\ \A t \in Tasks : pc[t] \in {"write", "onAir", "parse"} => holder = t
  /\ \A t \in Tasks : pc[t] = "onAir" => fifo = job[t]

(* Every call has its own number; that of a call under way has neither     *)
(* gone over the air nor been refused.                                     *)
CallInv ==
  /\ SendVerdict
  /\ \A i \in 1..Len(air) : air[i] < calls
  /\ \A n \in refused : n < calls
  /\ \A t \in Tasks : Busy(t) =>
       /\ job[t][1] < calls
       /\ job[t][1] \notin refused
       /\ \A i \in 1..Len(air) : air[i] # job[t][1]
       /\ \A u \in Tasks : Busy(u) /\ u # t => job[u][1] # job[t][1]

-----------------------------------------------------------------------------
LEMMA ProtoIsTask == Proto \in Tasks /\ None \notin Tasks
BY RadioAssumption DEF Tasks

LEMMA FrameParts ==
  ASSUME NEW frames \in Seq(Frame), NEW i \in 1..Len(frames)
  PROVE  frames[i] \in Frame /\ frames[i].no \in 1..Len(Incoming)
<1>1. frames[i] \in Frame
  OBVIOUS
<1> QED
  BY <1>1 DEF Frame

LEMMA ShortFrames ==
  /\ <<>> \in Seq(Frame)
  /\ \A f \in Frame : <<f>> \in Seq(Frame) /\ <<f>> # <<>>
OBVIOUS

LEMMA NumbersIn ==
  ASSUME NEW frames \in Seq(Frame), NEW first \in {1, 2}
  PROVE  {frames[i].no : i \in first..Len(frames)} \subseteq 1..Len(Incoming)
<1>1. ASSUME NEW i \in first..Len(frames)
      PROVE  frames[i].no \in 1..Len(Incoming)
  <2>1. i \in 1..Len(frames)
    BY <1>1
  <2> QED
    BY <2>1, FrameParts
<1> QED
  BY <1>1

(* What beginPacket does to the chip keeps the types. *)
LEMMA BeginPacketType ==
  ASSUME TypeInv, BeginPacket
  PROVE  rx' \in Seq(Frame) /\ listening' \in BOOLEAN /\ missed' \in SUBSET (1..Len(Incoming))
<1>1. {rx[i].no : i \in 1..Len(rx)} \subseteq 1..Len(Incoming)
  BY NumbersIn DEF TypeInv, TypeOK
<1>2. rx' \in {rx, <<>>} /\ listening' \in {listening, FALSE}
  BY DEF BeginPacket
<1>3. missed' \in {missed, missed \cup {rx[i].no : i \in 1..Len(rx)}}
  BY DEF BeginPacket
<1>4. rx \in Seq(Frame) /\ listening \in BOOLEAN /\ missed \in SUBSET (1..Len(Incoming))
  BY DEF TypeInv, TypeOK
<1> QED
  BY <1>1, <1>2, <1>3, <1>4, ShortFrames

(* The types of what a call of sendPacket is about. *)
LEMMA CallTypes ==
  ASSUME TypeInv
  PROVE  /\ pc \in [Tasks -> {"idle", "lockTx", "write", "onAir", "poll", "parse", "handle"}]
         /\ waited \in [Tasks -> 0..LockWait] /\ job \in [Tasks -> Seq(Nat)]
         /\ calls \in Nat /\ refused \in SUBSET Nat /\ air \in Seq(Nat)
         /\ \A u \in Tasks : Busy(u) => Len(job[u]) = 1 /\ job[u][1] \in Nat
<1>1. /\ pc \in [Tasks -> {"idle", "lockTx", "write", "onAir", "poll", "parse", "handle"}]
      /\ waited \in [Tasks -> 0..LockWait] /\ job \in [Tasks -> Seq(Nat)]
      /\ calls \in Nat /\ refused \in SUBSET Nat /\ air \in Seq(Nat)
      /\ \A u \in Tasks : Busy(u) => Len(job[u]) = 1
  BY DEF TypeInv, TypeOK
<1>2. \A u \in Tasks : Busy(u) => job[u][1] \in Nat
  BY <1>1
<1> QED
  BY <1>1, <1>2

(* The beginning of a sendPacket call keeps the types. *)
LEMMA SendPacketType ==
  ASSUME TypeInv, NEW t \in Tasks, NEW pkt, NEW back \in {"idle", "poll"},
         SendPacket(t, pkt, back)
  PROVE  /\ pc' \in [Tasks -> {"idle", "lockTx", "write", "onAir", "poll", "parse", "handle"}]
         /\ waited' \in [Tasks -> 0..LockWait]
         /\ job' \in [Tasks -> Seq(Nat)]
         /\ calls' \in Nat /\ refused' \in SUBSET Nat
         /\ \A u \in Tasks : pc'[u] \in {"lockTx", "write", "onAir"} => Len(job'[u]) = 1
         /\ pc'[t] # "handle" /\ \A u \in Tasks \ {t} : pc'[u] = pc[u]
<1> DEFINE frame == <<calls>>
<1>1. frame \in Seq(Nat) /\ Len(frame) = 1
  BY DEF TypeInv, TypeOK
<1>2. CASE Fits(pkt)
  <2>1. job' = [job EXCEPT ![t] = frame] /\ UNCHANGED refused /\ calls' = calls + 1
        /\ waited' = [waited EXCEPT ![t] = 0] /\ pc' = [pc EXCEPT ![t] = "lockTx"]
    BY <1>2 DEF SendPacket, GoTo
  <2> HIDE DEF frame
  <2>2. 0 \in 0..LockWait
    BY RadioAssumption
  <2> QED
    BY <1>1, <2>1, <2>2, CallTypes DEF Busy
<1>3. CASE ~Fits(pkt)
  <2>1. refused' = refused \cup {calls} /\ UNCHANGED <<job, waited>> /\ calls' = calls + 1
        /\ pc' = [pc EXCEPT ![t] = back]
    BY <1>3 DEF SendPacket, GoTo
  <2>2. refused' \in SUBSET Nat
    BY <2>1, CallTypes
  <2> QED
    BY <2>1, <2>2, CallTypes DEF Busy
<1> QED
  BY <1>2, <1>3

-----------------------------------------------------------------------------
(* Where the action leaves the rest alone, a step to another place.        *)
LEMMA TypeStep ==
  ASSUME TypeInv, [Next]_vars
  PROVE  TypeInv'
<1> USE DEF TypeInv
<1>0. Proto \in Tasks /\ LockWait \in Nat /\ AirTimes \subseteq Nat
  BY ProtoIsTask, RadioAssumption
<1>1. ASSUME NEW t \in AppTasks, NEW text \in Texts, SendText(t, text)
      PROVE  TypeInv'
  <2>1. t \in Tasks /\ t # Proto
    BY RadioAssumption DEF Tasks
  <2>2. SendPacket(t, MakeMessage(seq, text), "idle") /\ seq' \in Nat
    BY <1>1 DEF SendText, TypeOK
  <2> QED
    BY <1>0, <1>1, <2>1, <2>2, SendPacketType DEF SendText, TypeOK, Busy, chip
<1>2. CASE Probe
  <2>1. SendPacket(Proto, MakePing(seq), "idle") /\ seq' \in Nat
    BY <1>2 DEF Probe, TypeOK
  <2> QED
    BY <1>0, <1>2, <2>1, SendPacketType DEF Probe, TypeOK, Busy, chip
<1>3. ASSUME NEW t \in Tasks, LockTx(t)
      PROVE  TypeInv'
  BY <1>0, <1>3 DEF LockTx, GoTo, TypeOK, Busy, chip, history
<1>4. ASSUME NEW t \in Tasks, LockTimeout(t)
      PROVE  TypeInv'
  <2>1. job[t][1] \in Nat
    BY <1>4 DEF LockTimeout, TypeOK, Busy
  <2> QED
    BY <1>0, <1>4, <2>1 DEF LockTimeout, Return, GoTo, TypeOK, Busy, chip
<1>5. ASSUME NEW t \in Tasks, WritePacket(t)
      PROVE  TypeInv'
  <2>1. TypeInv
    BY <1>0
  <2>2. rx' \in Seq(Frame) /\ listening' \in BOOLEAN /\ missed' \in SUBSET (1..Len(Incoming))
    BY <1>5, <2>1, BeginPacketType DEF WritePacket
  <2>3. fifo' \in Seq(Nat) /\ left' \in Nat
    BY <1>0, <1>5 DEF WritePacket, TypeOK
  <2>4. /\ pc' \in [Tasks -> {"idle", "lockTx", "write", "onAir", "poll", "parse", "handle"}]
        /\ pc'[Proto] = "handle" => pc[Proto] = "handle"
        /\ \A u \in Tasks : Busy(u)' => Busy(u)
    BY <1>0, <1>5, CallTypes DEF WritePacket, GoTo, Busy
  <2>5. UNCHANGED <<board, holder, waited, job, out, replying, seq, arrived, calls,
                    air, told, refused, clean, decoded>>
    BY <1>5 DEF WritePacket
  <2> QED
    BY <2>2, <2>3, <2>4, <2>5 DEF TypeOK
<1>6. ASSUME NEW t \in Tasks, EndPacket(t)
      PROVE  TypeInv'
  <2>1. air' \in Seq(Nat) /\ told' \in Seq(Nat) /\ holder' = None /\ replying' \in BOOLEAN
    BY <1>0, <1>6 DEF EndPacket, Return, TypeOK
  <2>2. /\ pc' \in [Tasks -> {"idle", "lockTx", "write", "onAir", "poll", "parse", "handle"}]
        /\ pc'[Proto] = "handle" => pc[Proto] = "handle"
        /\ \A u \in Tasks : Busy(u)' => Busy(u)
    BY <1>0, <1>6, CallTypes DEF EndPacket, Return, GoTo, Busy
  <2>3. UNCHANGED <<board, waited, job, left, fifo, rx, listening, out, seq, arrived,
                    calls, refused, clean, missed, decoded>>
    BY <1>6 DEF EndPacket, chip
  <2> QED
    BY <2>1, <2>2, <2>3 DEF TypeOK
<1>7. ASSUME NEW t \in Tasks, TxFails(t)
      PROVE  TypeInv'
  <2>1. job[t][1] \in Nat
    BY <1>7 DEF TxFails, TypeOK, Busy
  <2>2. TypeInv
    BY <1>0
  <2>3. rx' \in Seq(Frame) /\ listening' \in BOOLEAN /\ missed' \in SUBSET (1..Len(Incoming))
    BY <1>7, <2>2, BeginPacketType DEF TxFails
  <2>4. /\ pc' \in [Tasks -> {"idle", "lockTx", "write", "onAir", "poll", "parse", "handle"}]
        /\ pc'[Proto] = "handle" => pc[Proto] = "handle"
        /\ \A u \in Tasks : Busy(u)' => Busy(u)
    BY <1>0, <1>7, CallTypes DEF TxFails, Return, GoTo, Busy
  <2>5. holder' = None /\ refused' \in SUBSET Nat /\ replying' \in BOOLEAN
    BY <1>7, <2>1 DEF TxFails, Return, TypeOK
  <2>6. UNCHANGED <<board, waited, job, left, fifo, out, seq, arrived, calls, air,
                    told, clean, decoded>>
    BY <1>7 DEF TxFails
  <2> QED
    BY <2>3, <2>4, <2>5, <2>6 DEF TypeOK
<1>8. CASE Tick
  <2>1. left' \in Nat
    BY <1>8 DEF Tick, TypeOK
  <2>2. waited' \in [Tasks -> 0..LockWait]
    <3>1. waited' = [u \in Tasks |-> IF pc[u] = "lockTx" THEN waited[u] + 1 ELSE waited[u]]
      BY <1>8 DEF Tick
    <3>2. \A u \in Tasks : waited[u] \in 0..LockWait
                            /\ (pc[u] = "lockTx" => waited[u] + 1 \in 0..LockWait)
      BY <1>0, <1>8, CallTypes DEF Tick
    <3> QED
      BY <3>1, <3>2, Zenon
  <2>3. UNCHANGED <<board, holder, pc, job, fifo, rx, listening, out, replying, seq, arrived,
                    calls, air, told, refused, clean, missed, decoded>>
    BY <1>8 DEF Tick, chip, history
  <2> QED
    BY <2>1, <2>2, <2>3 DEF TypeOK, Busy
<1>9. CASE Poll \/ LockRx \/ RxLockTimeout
  BY <1>0, <1>9 DEF Poll, LockRx, RxLockTimeout, GoTo, TypeOK, Busy, chip, history
<1>10. CASE Parse
  <2>1. rx' \in Seq(Frame) /\ out' \in Seq(Frame) /\ fifo' \in Seq(Nat)
        /\ listening' \in BOOLEAN /\ missed' \in SUBSET (1..Len(Incoming))
        /\ (rx # <<>> => out' # <<>>)
    <3>1. rx # <<>> => rx[1] \in Frame
      BY DEF TypeOK
    <3>2. {rx[i].no : i \in 2..Len(rx)} \subseteq 1..Len(Incoming)
      BY NumbersIn DEF TypeOK
    <3>3. /\ rx \in Seq(Frame) /\ out \in Seq(Frame) /\ fifo \in Seq(Nat) /\ listening \in BOOLEAN
          /\ missed \in SUBSET (1..Len(Incoming))
      BY DEF TypeOK
    <3>4. <<>> \in Seq(Nat)
      OBVIOUS
    <3> HIDE DEF TypeInv
    <3>5. CASE ParseSx1278
      <4>1. rx' \in {rx, <<>>} /\ fifo' \in {fifo, <<>>} /\ listening' \in {listening, TRUE}
            /\ UNCHANGED missed
        BY <3>5 DEF ParseSx1278
      <4>2. (rx # <<>> /\ out' = <<rx[1]>>) \/ (rx = <<>> /\ out' = out)
        BY <3>5 DEF ParseSx1278
      <4>3. out' \in Seq(Frame) /\ (rx # <<>> => out' # <<>>)
        BY <3>1, <4>2, <3>3, ShortFrames
      <4> QED
        BY <4>1, <4>3, <3>3, <3>4, ShortFrames
    <3>6. CASE ParseE220
      <4>1. rx' \in {rx, <<>>} /\ UNCHANGED <<listening, fifo>>
        BY <3>6 DEF ParseE220
      <4>2. (rx # <<>> /\ out' = <<rx[1]>>) \/ (rx = <<>> /\ out' = out)
        BY <3>6 DEF ParseE220
      <4>3. out' \in Seq(Frame) /\ (rx # <<>> => out' # <<>>)
        BY <3>1, <4>2, <3>3, ShortFrames
      <4>4. missed' \in {missed, missed \cup {rx[i].no : i \in 2..Len(rx)}}
        BY <3>6 DEF ParseE220
      <4>5. missed' \in SUBSET (1..Len(Incoming))
        BY <3>2, <3>3, <4>4
      <4> QED
        BY <4>1, <4>3, <4>5, <3>3, ShortFrames
    <3> QED
      BY <1>10, <3>5, <3>6 DEF Parse
  <2> QED
    BY <1>0, <1>10, <2>1 DEF Parse, GoTo, TypeOK, Busy
<1>11. CASE HandleRx
  <2>1. out[1].no \in 1..Len(Incoming)
    <3>1. out \in Seq(Frame) /\ 1 \in 1..Len(out)
      BY <1>11 DEF HandleRx, TypeOK
    <3> QED
      BY <3>1, FrameParts
  <2>2. decoded' \in Seq(1..Len(Incoming)) /\ replying' \in BOOLEAN /\ out' = <<>>
    <3>1. decoded' \in {decoded, Append(decoded, out[1].no)}
      BY <1>11 DEF HandleRx
    <3>2. replying' \in {replying, TRUE, FALSE} /\ out' = <<>>
      <4> DEFINE fits == Fits(Reply(Incoming[out[1].no]))
      <4>1. out' = <<>> /\ (replying' = replying \/ replying' = fits)
        BY <1>11, Zenon DEF HandleRx
      <4>2. fits \in BOOLEAN
        BY DEF Fits
      <4> HIDE DEF fits
      <4> QED
        BY <4>1, <4>2
    <3>3. decoded \in Seq(1..Len(Incoming)) /\ replying \in BOOLEAN
      BY DEF TypeOK
    <3>4. Append(decoded, out[1].no) \in Seq(1..Len(Incoming))
      BY <2>1, <3>3
    <3> HIDE DEF TypeInv
    <3> QED
      BY <3>1, <3>2, <3>3, <3>4
  <2>3. UNCHANGED <<board, holder, left, fifo, rx, listening, seq, arrived, air, told,
                    clean, missed>>
    BY <1>11 DEF HandleRx, chip
  <2>4. ASSUME NEW pkt, SendPacket(Proto, pkt, "poll")
        PROVE  TypeInv'
    <3> HIDE DEF TypeInv
    <3>1. /\ pc' \in [Tasks -> {"idle", "lockTx", "write", "onAir", "poll", "parse", "handle"}]
          /\ waited' \in [Tasks -> 0..LockWait]
          /\ job' \in [Tasks -> Seq(Nat)]
          /\ calls' \in Nat /\ refused' \in SUBSET Nat
          /\ \A u \in Tasks : pc'[u] \in {"lockTx", "write", "onAir"} => Len(job'[u]) = 1
          /\ pc'[Proto] # "handle"
      BY <1>0, <2>4, SendPacketType
    <3> QED
      BY <2>2, <2>3, <3>1, ShortFrames DEF TypeInv, TypeOK, Busy
  <2>5. CASE GoTo(Proto, "poll") /\ UNCHANGED <<calls, job, waited, refused>>
    <3>1. pc' = [pc EXCEPT ![Proto] = "poll"]
      BY <2>5 DEF GoTo
    <3>2. /\ pc' \in [Tasks -> {"idle", "lockTx", "write", "onAir", "poll", "parse", "handle"}]
          /\ pc'[Proto] # "handle" /\ \A u \in Tasks : Busy(u)' => Busy(u)
      BY <1>0, <3>1 DEF TypeOK, Busy
    <3>3. TypeOK'
      BY <2>2, <2>3, <2>5, <3>2, ShortFrames DEF TypeOK
    <3> QED
      BY <2>5, <3>2, <3>3
  <2>6. \/ \E pkt : SendPacket(Proto, pkt, "poll")
        \/ GoTo(Proto, "poll") /\ UNCHANGED <<calls, job, waited, refused>>
    <3> HIDE DEF TypeInv
    <3> QED
      BY <1>11, Zenon DEF HandleRx
  <2> QED
    BY <2>4, <2>5, <2>6
<1>12. ASSUME NEW intact \in BOOLEAN, Arrive(intact)
       PROVE  TypeInv'
  <2>1. arrived' \in 1..Len(Incoming)
    BY <1>12, RadioAssumption DEF Arrive, TypeOK
  <2>2. [no |-> arrived + 1, intact |-> intact] \in Frame
    BY <1>12, <2>1 DEF Arrive, Frame
  <2>3. rx' \in Seq(Frame) /\ listening' \in BOOLEAN /\ clean' \in SUBSET (1..Len(Incoming))
    <3>1. rx' \in {rx, Append(rx, [no |-> arrived + 1, intact |-> intact])}
          /\ listening' \in {listening, FALSE} /\ clean' \in {clean, clean \cup {arrived + 1}}
      BY <1>12 DEF Arrive
    <3>2. rx \in Seq(Frame) /\ Append(rx, [no |-> arrived + 1, intact |-> intact]) \in Seq(Frame)
      BY <2>2 DEF TypeOK
    <3>3. arrived + 1 \in 1..Len(Incoming) /\ clean \in SUBSET (1..Len(Incoming))
          /\ listening \in BOOLEAN
      BY <1>12, <2>1 DEF Arrive, TypeOK
    <3> HIDE DEF TypeInv
    <3> QED
      BY <3>1, <3>2, <3>3
  <2>4. arrived' \in 0..Len(Incoming)
    BY <2>1
  <2> QED
    BY <1>12, <2>3, <2>4 DEF Arrive, TypeOK, Busy
<1>13. CASE UNCHANGED vars
  BY <1>13 DEF vars, TypeOK, Busy, chip, history
<1> QED
  BY <1>1, <1>2, <1>3, <1>4, <1>5, <1>6, <1>7, <1>8, <1>9, <1>10, <1>11, <1>12, <1>13
  DEF Next, Sending, Receiving

-----------------------------------------------------------------------------
(* What a call of sendPacket does first: its frame waits for the mutex, or *)
(* it is refused for its length.                                           *)
LEMMA SendPacketCases ==
  ASSUME NEW t, NEW pkt, NEW back, SendPacket(t, pkt, back)
  PROVE  /\ calls' = calls + 1
         /\ \/ /\ pc' = [pc EXCEPT ![t] = "lockTx"]
               /\ job' = [job EXCEPT ![t] = <<calls>>]
               /\ UNCHANGED refused
            \/ /\ pc' = [pc EXCEPT ![t] = back]
               /\ UNCHANGED job
               /\ refused' = refused \cup {calls}
BY DEF SendPacket, GoTo

(* The three places where it is called. *)
LEMMA SendPacketMutex ==
  ASSUME TypeInv, MutexInv, NEW t \in Tasks, ~Busy(t), pc[t] # "parse",
         NEW pkt, NEW back \in {"idle", "poll"}, SendPacket(t, pkt, back),
         UNCHANGED <<holder, fifo>>
  PROVE  MutexInv'
<1>0. /\ pc' = [pc EXCEPT ![t] = "lockTx"] \/ pc' = [pc EXCEPT ![t] = back]
      /\ job' = [job EXCEPT ![t] = <<calls>>] \/ job' = job
  BY SendPacketCases
<1>1. \A u \in Tasks \ {t} : pc'[u] = pc[u] /\ job'[u] = job[u]
  BY <1>0, CallTypes
<1>2. pc'[t] \in {"lockTx", back}
  BY <1>0, CallTypes
<1>3. \A u \in Tasks : pc'[u] \in {"write", "onAir", "parse"} => u # t
  BY <1>2
<1> QED
  BY <1>1, <1>3 DEF MutexInv

LEMMA SendPacketCall ==
  ASSUME TypeInv, CallInv, NEW t \in Tasks, ~Busy(t),
         NEW pkt, NEW back \in {"idle", "poll"}, SendPacket(t, pkt, back),
         UNCHANGED <<air, told>>
  PROVE  CallInv'
<1> USE DEF CallInv, SendVerdict
<1>0. /\ calls' = calls + 1 /\ calls \in Nat /\ refused \in SUBSET Nat /\ air \in Seq(Nat)
      /\ pc \in [Tasks -> {"idle", "lockTx", "write", "onAir", "poll", "parse", "handle"}]
      /\ job \in [Tasks -> Seq(Nat)]
      /\ \A u \in Tasks : Busy(u) => job[u][1] \in Nat
  BY SendPacketCases, CallTypes
<1>1. CASE /\ pc' = [pc EXCEPT ![t] = "lockTx"]
           /\ job' = [job EXCEPT ![t] = <<calls>>]
           /\ UNCHANGED refused
  <2>1. job'[t][1] = calls /\ \A u \in Tasks \ {t} : pc'[u] = pc[u] /\ job'[u] = job[u]
    BY <1>0, <1>1
  <2>2. \A u \in Tasks \ {t} : Busy(u)' = Busy(u)
    BY <2>1 DEF Busy
  <2> QED
    BY <1>0, <1>1, <2>1, <2>2
<1>2. CASE /\ pc' = [pc EXCEPT ![t] = back]
           /\ UNCHANGED job
           /\ refused' = refused \cup {calls}
  <2>1. \A u \in Tasks : Busy(u)' => Busy(u)
    BY <1>0, <1>2 DEF Busy
  <2> QED
    BY <1>0, <1>2, <2>1
<1> QED
  BY <1>1, <1>2, SendPacketCases

(* Steps that neither end a call nor begin one. *)
LEMMA QuietCall ==
  ASSUME CallInv, UNCHANGED <<calls, air, told, refused, job>>,
         \A t \in Tasks : Busy(t)' => Busy(t)
  PROVE  CallInv'
BY DEF CallInv, SendVerdict

(* A call that ends without its frame on the air. *)
LEMMA RefusedCall ==
  ASSUME TypeInv, CallInv, NEW t \in Tasks, Busy(t),
         UNCHANGED <<calls, air, told, job>>,
         refused' = refused \cup {job[t][1]},
         \A u \in Tasks : Busy(u)' => Busy(u) /\ u # t
  PROVE  CallInv'
<1>1. job[t][1] \in Nat /\ calls \in Nat /\ refused \in SUBSET Nat
  BY CallTypes
<1> QED
  BY <1>1 DEF CallInv, SendVerdict

(* A call that ends with it there. *)
LEMMA EndedCall ==
  ASSUME TypeInv, CallInv, NEW t \in Tasks, Busy(t), fifo = job[t],
         UNCHANGED <<calls, refused, job>>,
         air' = air \o fifo, told' = told \o job[t],
         \A u \in Tasks : Busy(u)' => Busy(u) /\ u # t
  PROVE  CallInv'
<1> DEFINE n == job[t][1]
<1>1. job[t] \in Seq(Nat) /\ Len(job[t]) = 1 /\ air \in Seq(Nat) /\ n \in Nat
  BY CallTypes
<1>2. Len(air') = Len(air) + 1 /\ air'[Len(air) + 1] = n
      /\ \A i \in 1..Len(air) : air'[i] = air[i]
  <2>1. air' = air \o job[t] /\ job[t][1] = n
    OBVIOUS
  <2> HIDE DEF n
  <2>2. /\ Len(air \o job[t]) = Len(air) + 1
        /\ \A i \in 1..(Len(air) + 1) : (air \o job[t])[i] =
              IF i <= Len(air) THEN air[i] ELSE job[t][i - Len(air)]
    <3>1. air \in Seq(Nat) /\ job[t] \in Seq(Nat) /\ Len(job[t]) = 1
      BY <1>1
    <3>2. /\ Len(air \o job[t]) = Len(air) + Len(job[t])
          /\ \A i \in 1..(Len(air) + Len(job[t])) : (air \o job[t])[i] =
                IF i <= Len(air) THEN air[i] ELSE job[t][i - Len(air)]
      BY <3>1, ConcatProperties, Zenon
    <3> QED
      BY <3>1, <3>2, Zenon
  <2>3. Len(air) \in Nat
    BY <1>1
  <2>4. (air \o job[t])[Len(air) + 1] = job[t][(Len(air) + 1) - Len(air)]
    BY <2>2, <2>3
  <2>5. (Len(air) + 1) - Len(air) = 1
    BY <2>3
  <2> QED
    BY <2>1, <2>2, <2>3, <2>4, <2>5
<1>3. air' = told'
  BY DEF CallInv, SendVerdict
<1>4. n < calls /\ n \notin refused /\ \A i \in 1..Len(air) : air[i] # n
  BY DEF CallInv
<1>5. \A u \in Tasks : Busy(u) /\ u # t => job[u][1] # n
  BY DEF CallInv
<1> HIDE DEF n
<1>6. \A i \in 1..Len(air') : i \in 1..Len(air) \/ i = Len(air) + 1
  BY <1>1, <1>2
<1> QED
  BY <1>1, <1>2, <1>3, <1>4, <1>5, <1>6 DEF CallInv, SendVerdict

-----------------------------------------------------------------------------
LEMMA VerdictStep ==
  ASSUME TypeInv, MutexInv, CallInv, [Next]_vars
  PROVE  MutexInv' /\ CallInv'
<1>0. /\ Proto \in Tasks /\ None \notin Tasks
      /\ pc \in [Tasks -> {"idle", "lockTx", "write", "onAir", "poll", "parse", "handle"}]
      /\ job \in [Tasks -> Seq(Nat)]
  BY ProtoIsTask DEF TypeInv, TypeOK
<1>1. ASSUME NEW t \in AppTasks, NEW text \in Texts, SendText(t, text)
      PROVE  MutexInv' /\ CallInv'
  <2>1. t \in Tasks /\ ~Busy(t) /\ pc[t] # "parse"
    BY <1>1 DEF Tasks, SendText, Busy
  <2>2. SendPacket(t, MakeMessage(seq, text), "idle") /\ UNCHANGED <<holder, fifo, air, told>>
    BY <1>1 DEF SendText, chip
  <2> QED
    BY <2>1, <2>2, SendPacketMutex, SendPacketCall
<1>2. CASE Probe
  <2>1. ~Busy(Proto) /\ pc[Proto] # "parse"
    BY <1>2 DEF Probe, Busy
  <2>2. SendPacket(Proto, MakePing(seq), "idle") /\ UNCHANGED <<holder, fifo, air, told>>
    BY <1>2 DEF Probe, chip
  <2> QED
    BY <1>0, <2>1, <2>2, SendPacketMutex, SendPacketCall
<1>3. ASSUME NEW t \in Tasks, LockTx(t)
      PROVE  MutexInv' /\ CallInv'
  <2>1. MutexInv'
    BY <1>0, <1>3 DEF LockTx, GoTo, MutexInv, chip
  <2>2. \A u \in Tasks : Busy(u)' => Busy(u)
    BY <1>0, <1>3 DEF LockTx, GoTo, Busy
  <2> QED
    BY <1>3, <2>1, <2>2, QuietCall DEF LockTx, history
<1>4. ASSUME NEW t \in Tasks, LockTimeout(t) \/ TxFails(t)
      PROVE  MutexInv' /\ CallInv'
  <2>1. pc' = [pc EXCEPT ![t] = IF t = Proto /\ replying THEN "poll" ELSE "idle"]
    BY <1>4 DEF LockTimeout, TxFails, Return, GoTo
  <2>2. MutexInv'
    BY <1>0, <1>4, <2>1 DEF LockTimeout, TxFails, MutexInv, chip
  <2>3. Busy(t) /\ \A u \in Tasks : Busy(u)' => Busy(u) /\ u # t
    BY <1>0, <1>4, <2>1 DEF LockTimeout, TxFails, Busy
  <2>4. UNCHANGED <<calls, air, told, job>> /\ refused' = refused \cup {job[t][1]}
    BY <1>4 DEF LockTimeout, TxFails
  <2> QED
    BY <2>2, <2>3, <2>4, RefusedCall
<1>5. ASSUME NEW t \in Tasks, WritePacket(t)
      PROVE  MutexInv' /\ CallInv'
  <2>1. MutexInv'
    BY <1>0, <1>5 DEF WritePacket, GoTo, MutexInv
  <2>2. \A u \in Tasks : Busy(u)' => Busy(u)
    BY <1>0, <1>5 DEF WritePacket, GoTo, Busy
  <2> QED
    BY <1>5, <2>1, <2>2, QuietCall DEF WritePacket
<1>6. ASSUME NEW t \in Tasks, EndPacket(t)
      PROVE  MutexInv' /\ CallInv'
  <2>1. pc' = [pc EXCEPT ![t] = IF t = Proto /\ replying THEN "poll" ELSE "idle"]
    BY <1>6 DEF EndPacket, Return, GoTo
  <2>2. MutexInv'
    BY <1>0, <1>6, <2>1 DEF EndPacket, MutexInv, chip
  <2>3. Busy(t) /\ \A u \in Tasks : Busy(u)' => Busy(u) /\ u # t
    BY <1>0, <1>6, <2>1 DEF EndPacket, Busy
  <2>4. fifo = job[t] /\ air' = air \o fifo /\ told' = told \o job[t]
        /\ UNCHANGED <<calls, refused, job>>
    BY <1>6 DEF EndPacket, MutexInv
  <2> QED
    BY <2>2, <2>3, <2>4, EndedCall
<1>7. CASE Tick \/ (\E intact \in BOOLEAN : Arrive(intact)) \/ UNCHANGED vars
  <2>1. UNCHANGED <<pc, holder, fifo, job, calls, air, told, refused>>
    BY <1>7 DEF Tick, Arrive, vars, chip, history
  <2>2. \A u \in Tasks : Busy(u)' => Busy(u)
    BY <2>1 DEF Busy
  <2> QED
    BY <2>1, <2>2, QuietCall DEF MutexInv
<1>8. CASE Poll \/ LockRx \/ RxLockTimeout
  <2>1. MutexInv'
    BY <1>0, <1>8 DEF Poll, LockRx, RxLockTimeout, GoTo, MutexInv, chip
  <2>2. \A u \in Tasks : Busy(u)' => Busy(u)
    BY <1>0, <1>8 DEF Poll, LockRx, RxLockTimeout, GoTo, Busy
  <2> QED
    BY <1>8, <2>1, <2>2, QuietCall DEF Poll, LockRx, RxLockTimeout, history
<1>9. CASE Parse
  <2>1. /\ pc[Proto] = "parse" /\ holder' = None
        /\ pc' = [pc EXCEPT ![Proto] = IF rx = <<>> THEN "idle" ELSE "handle"]
        /\ UNCHANGED <<job, calls, air, told, refused>>
    BY <1>9 DEF Parse, GoTo
  <2>2. \A u \in Tasks : pc'[u] \notin {"write", "onAir", "parse"}
    BY <1>0, <2>1 DEF MutexInv
  <2>3. \A u \in Tasks : Busy(u)' => Busy(u)
    BY <1>0, <2>1 DEF Busy
  <2> QED
    BY <2>1, <2>2, <2>3, QuietCall DEF MutexInv
<1>10. CASE HandleRx
  <2>1. ~Busy(Proto) /\ pc[Proto] # "parse" /\ UNCHANGED <<holder, fifo, air, told>>
    BY <1>10 DEF HandleRx, Busy, chip
  <2>2. ASSUME NEW pkt, SendPacket(Proto, pkt, "poll")
        PROVE  MutexInv' /\ CallInv'
    BY <1>0, <2>1, <2>2, SendPacketMutex, SendPacketCall
  <2>3. CASE GoTo(Proto, "poll") /\ UNCHANGED <<calls, job, waited, refused>>
    <3>1. \A u \in Tasks : (Busy(u)' => Busy(u)) /\ (pc'[u] = pc[u] \/ pc'[u] = "poll")
      BY <1>0, <2>1, <2>3 DEF GoTo, Busy
    <3>2. MutexInv'
      BY <2>1, <2>3, <3>1 DEF MutexInv
    <3> QED
      BY <2>1, <2>3, <3>1, <3>2, QuietCall
  <2>4. \/ \E pkt : SendPacket(Proto, pkt, "poll")
        \/ GoTo(Proto, "poll") /\ UNCHANGED <<calls, job, waited, refused>>
    BY <1>10, Zenon DEF HandleRx
  <2> QED
    BY <2>2, <2>3, <2>4
<1> QED
  BY <1>1, <1>2, <1>3, <1>4, <1>5, <1>6, <1>7, <1>8, <1>9, <1>10
  DEF Next, Sending, Receiving

LEMMA InitInv ==
  ASSUME Init
  PROVE  TypeInv /\ MutexInv /\ CallInv
<1>1. 0 \in 0..LockWait /\ 0 \in 0..Len(Incoming)
  BY RadioAssumption
<1>2. <<>> \in Seq(Nat) /\ <<>> \in Seq(1..Len(Incoming)) /\ Len(<<>>) = 0
  OBVIOUS
<1>3. TypeOK
  BY <1>1, <1>2, ShortFrames DEF Init, TypeOK
<1>4. \A t \in Tasks : pc[t] = "idle"
  BY DEF Init
<1>5. TypeInv /\ MutexInv
  BY <1>3, <1>4, ProtoIsTask DEF TypeInv, MutexInv, Busy
<1>6. CallInv
  BY <1>2, <1>4 DEF Init, CallInv, SendVerdict, Busy
<1> QED
  BY <1>5, <1>6

(* TypeOK. *)
THEOREM RadioTypes == Spec => []TypeOK
<1>1. TypeInv => TypeOK
  BY DEF TypeInv
<1> QED
  BY <1>1, InitInv, TypeStep, PTL DEF Spec

(* What sendPacket tells its caller is what happened on the air, for any   *)
(* number of tasks that share the radio.                                   *)
THEOREM VerdictIsTrue == Spec => []SendVerdict
<1>1. CallInv => SendVerdict
  BY DEF CallInv
<1> QED
  BY <1>1, InitInv, TypeStep, VerdictStep, PTL DEF Spec

-----------------------------------------------------------------------------
(* A frame in hand arrived after all that was decoded, and whole if it     *)
(* counts as taken in undamaged.                                           *)
Later(frame) ==
  /\ frame.no <= arrived
  /\ frame.no \in clean => frame.intact
  /\ \A i \in 1..Len(decoded) : decoded[i] < frame.no

(* The chip holds later frames than handleRx; the SX1278 holds one at most *)
(* and listens only while it holds none.                                   *)
OrderInv ==
  /\ HeardIsDecoded
  /\ board = "SX1278" => Len(rx) <= 1 /\ (listening => rx = <<>>)
  /\ out # <<>> => Len(out) = 1 /\ pc[Proto] = "handle"
  /\ \A i \in 1..Len(rx) : Later(rx[i])
  /\ \A i \in 1..Len(out) : Later(out[i])
  /\ \A i \in 1..Len(rx), j \in 1..Len(out) : out[j].no < rx[i].no
  /\ \A n \in clean : n <= arrived
  /\ \A i \in 1..Len(decoded) : decoded[i] <= arrived

-----------------------------------------------------------------------------
(* Steps that leave the frames alone. *)
LEMMA QuietOrder ==
  ASSUME OrderInv, UNCHANGED <<board, rx, listening, out, arrived, clean, missed, decoded>>,
         out # <<>> => pc'[Proto] = "handle"
  PROVE  OrderInv'
BY DEF OrderInv, HeardIsDecoded, InHand, Later

(* beginPacket: what the chip held is counted as missed. *)
LEMMA BeginPacketOrder ==
  ASSUME TypeInv, OrderInv, BeginPacket, UNCHANGED <<board, out, arrived, clean, decoded>>,
         out # <<>> => pc'[Proto] = "handle"
  PROVE  OrderInv'
<1>1. CASE board = "SX1278"
  <2>1. /\ missed' = missed \cup {rx[i].no : i \in 1..Len(rx)}
        /\ rx' = <<>> /\ listening' = FALSE
    BY <1>1 DEF BeginPacket
  <2>2. Len(rx') = 0
    BY <2>1
  <2>3. HeardIsDecoded'
    BY <2>1 DEF OrderInv, HeardIsDecoded, InHand
  <2> QED
    BY <2>1, <2>2, <2>3 DEF OrderInv, Later
<1>2. CASE board # "SX1278"
  <2>1. UNCHANGED <<missed, rx, listening>>
    BY <1>2 DEF BeginPacket
  <2> QED
    BY <2>1, QuietOrder
<1> QED
  BY <1>1, <1>2

(* parsePacket and RecieveFrame: the first frame goes to handleRx, those   *)
(* behind it are missed.                                                   *)
LEMMA ParseOrder ==
  ASSUME TypeInv, OrderInv, Parse
  PROVE  OrderInv'
<1>0. /\ UNCHANGED <<board, arrived, clean, decoded>>
      /\ ParseSx1278 \/ ParseE220
      /\ pc' = [pc EXCEPT ![Proto] = IF rx = <<>> THEN "idle" ELSE "handle"]
  BY DEF Parse, GoTo
<1>1. out = <<>>
  BY DEF OrderInv, Parse
<1>2. rx \in Seq(Frame) /\ Proto \in Tasks /\ Proto \in DOMAIN pc
  BY ProtoIsTask DEF TypeInv, TypeOK
<1>3. CASE rx = <<>>
  <2>1. UNCHANGED <<rx, out, missed>>
    BY <1>0, <1>3 DEF ParseSx1278, ParseE220
  <2> QED
    BY <1>0, <1>1, <1>3, <2>1 DEF OrderInv, HeardIsDecoded, InHand, Later
<1>4. CASE rx # <<>>
  <2>1. /\ rx' = <<>> /\ out' = <<rx[1]>> /\ pc'[Proto] = "handle"
        /\ UNCHANGED listening
    BY <1>0, <1>2, <1>4 DEF ParseSx1278, ParseE220
  <2>2. Len(rx') = 0 /\ Len(out') = 1 /\ out'[1] = rx[1] /\ 1 \in 1..Len(rx)
    BY <1>2, <1>4, <2>1
  <2>3. \A i \in 1..Len(rx) : rx[i].no = rx[1].no \/ rx[i].no \in missed'
    <3>1. CASE board = "SX1278"
      <4>1. \A i \in 1..Len(rx) : i = 1
        BY <1>2, <3>1 DEF OrderInv
      <4> QED
        BY <4>1
    <3>2. CASE board # "SX1278"
      <4>1. missed' = missed \cup {rx[i].no : i \in 2..Len(rx)}
        BY <1>0, <1>4, <3>2 DEF ParseSx1278, ParseE220
      <4>2. \A i \in 1..Len(rx) : i = 1 \/ i \in 2..Len(rx)
        BY <1>2
      <4> QED
        BY <4>1, <4>2
    <3> QED
      BY <3>1, <3>2
  <2>4. missed \subseteq missed'
    BY <1>0, <1>4 DEF ParseSx1278, ParseE220
  <2>5. InHand \subseteq InHand' \cup missed'
    <3>1. InHand = {rx[i].no : i \in 1..Len(rx)}
      BY <1>1 DEF InHand
    <3>2. rx[1].no \in InHand'
      BY <2>2 DEF InHand
    <3> QED
      BY <2>3, <3>1, <3>2
  <2>6. HeardIsDecoded'
    BY <1>0, <2>4, <2>5 DEF OrderInv, HeardIsDecoded
  <2>7. Later(rx[1])
    BY <2>2 DEF OrderInv
  <2> QED
    BY <1>0, <2>1, <2>2, <2>6, <2>7 DEF OrderInv, Later
<1> QED
  BY <1>3, <1>4

(* handleRx: a frame that decodes is the latest decoded, one that does not *)
(* was not taken in undamaged.                                             *)
LEMMA HandleOrder ==
  ASSUME TypeInv, OrderInv, HandleRx
  PROVE  OrderInv'
<1>0. UNCHANGED <<board, rx, listening, arrived, clean, missed>> /\ out' = <<>> /\ Len(out') = 0
  BY DEF HandleRx, chip
<1>1. out \in Seq(Frame) /\ Len(out) = 1 /\ 1 \in 1..Len(out) /\ pc[Proto] = "handle"
  BY DEF HandleRx, OrderInv, TypeInv, TypeOK
<1>2. out[1].no \in 1..Len(Incoming)
  BY <1>1, FrameParts
<1>3. Later(out[1]) /\ \A i \in 1..Len(rx) : out[1].no < rx[i].no
  BY <1>1 DEF OrderInv
<1>4. InHand \subseteq InHand' \cup {out[1].no}
  BY <1>0, <1>1 DEF InHand
<1>5. CASE ~out[1].intact
  <2>1. UNCHANGED decoded
    BY <1>5 DEF HandleRx
  <2>2. out[1].no \notin clean
    BY <1>3, <1>5 DEF Later
  <2>3. HeardIsDecoded'
    BY <1>0, <1>4, <2>1, <2>2 DEF OrderInv, HeardIsDecoded
  <2> QED
    BY <1>0, <2>1, <2>3 DEF OrderInv, Later
<1>6. CASE out[1].intact
  <2> DEFINE n == out[1].no
  <2>1. decoded' = Append(decoded, n)
    BY <1>6 DEF HandleRx
  <2>2. decoded \in Seq(1..Len(Incoming)) /\ n \in 1..Len(Incoming)
    BY <1>2 DEF TypeInv, TypeOK
  <2>3. /\ Len(decoded') = Len(decoded) + 1 /\ Len(decoded) \in Nat
        /\ decoded'[Len(decoded) + 1] = n
        /\ \A i \in 1..Len(decoded) : decoded'[i] = decoded[i]
    BY <2>1, <2>2
  <2>4. \A i \in 1..Len(decoded') : i \in 1..Len(decoded) \/ i = Len(decoded) + 1
    BY <2>3
  <2>5. n <= arrived /\ \A i \in 1..Len(decoded) : decoded[i] < n
    BY <1>3 DEF Later
  <2>6. \A i \in 1..Len(rx) : n < rx[i].no
    BY <1>3
  <2>7. InHand \subseteq InHand' \cup {n}
    BY <1>4
  <2> HIDE DEF n
  <2>8. HeardIsDecoded'
    <3>1. \A i, j \in 1..Len(decoded') : i < j => decoded'[i] < decoded'[j]
      BY <2>3, <2>4, <2>5 DEF OrderInv, HeardIsDecoded
    <3>2. {decoded[i] : i \in 1..Len(decoded)} \cup {n}
            \subseteq {decoded'[i] : i \in 1..Len(decoded')}
      BY <2>3
    <3>3. clean' \subseteq InHand' \cup missed' \cup {decoded'[i] : i \in 1..Len(decoded')}
      BY <1>0, <2>7, <3>2 DEF OrderInv, HeardIsDecoded
    <3> QED
      BY <3>1, <3>3 DEF HeardIsDecoded
  <2>9. \A i \in 1..Len(rx) : Later(rx[i])'
    BY <1>0, <2>3, <2>4, <2>6 DEF OrderInv, Later
  <2>10. \A i \in 1..Len(decoded') : decoded'[i] <= arrived'
    BY <1>0, <2>3, <2>4, <2>5 DEF OrderInv
  <2> QED
    BY <1>0, <2>8, <2>9, <2>10 DEF OrderInv
<1> QED
  BY <1>5, <1>6

(* A frame that comes in is later than all the device has seen. *)
LEMMA ArriveOrder ==
  ASSUME TypeInv, OrderInv, NEW intact \in BOOLEAN, Arrive(intact)
  PROVE  OrderInv'
<1>0. /\ UNCHANGED <<board, pc, out, missed, decoded>> /\ arrived' = arrived + 1
      /\ arrived \in Nat /\ rx \in Seq(Frame) /\ out \in Seq(Frame)
      /\ decoded \in Seq(1..Len(Incoming)) /\ clean \in SUBSET (1..Len(Incoming))
  BY RadioAssumption DEF Arrive, TypeInv, TypeOK
<1>1. /\ \A i \in 1..Len(rx) : rx[i].no \in Nat
      /\ \A i \in 1..Len(out) : out[i].no \in Nat
      /\ \A i \in 1..Len(decoded) : decoded[i] \in Nat
      /\ \A n \in clean : n \in Nat
  BY <1>0, FrameParts
<1>2. /\ \A n \in clean : n <= arrived
      /\ \A i \in 1..Len(decoded) : decoded[i] <= arrived
      /\ \A i \in 1..Len(out) : Later(out[i])
  BY DEF OrderInv
<1>3. /\ \A n \in clean : n <= arrived'
      /\ \A i \in 1..Len(decoded) : decoded[i] <= arrived'
  BY <1>0, <1>1, <1>2
<1>4. \A i \in 1..Len(out) : out[i].no < arrived + 1 /\ out[i].no <= arrived'
  BY <1>0, <1>1, <1>2 DEF Later
<1>5. CASE ~Hears
  <2>1. UNCHANGED <<rx, listening, clean>>
    BY <1>5 DEF Arrive
  <2>2. HeardIsDecoded'
    <3>1. InHand' = InHand
      BY <1>0, <2>1 DEF InHand
    <3> QED
      BY <1>0, <2>1, <3>1 DEF OrderInv, HeardIsDecoded
  <2>3. \A i \in 1..Len(rx) : Later(rx[i])'
    BY <1>0, <1>1, <2>1 DEF OrderInv, Later
  <2>4. \A i \in 1..Len(out) : Later(out[i])'
    BY <1>0, <1>1, <2>1 DEF OrderInv, Later
  <2> QED
    BY <1>0, <1>3, <2>1, <2>2, <2>3, <2>4 DEF OrderInv
<1>6. CASE Hears
  <2>1. [no |-> arrived + 1, intact |-> intact] \in Frame
    BY <1>0 DEF Arrive, Frame
  <2>2. PICK frame \in Frame : frame = [no |-> arrived + 1, intact |-> intact]
    BY <2>1
  <2>3. frame.no = arrived + 1 /\ frame.intact = intact
    BY <2>2
  <2>4. rx' = Append(rx, frame) /\ listening' = FALSE
        /\ clean' = (IF intact THEN clean \cup {arrived + 1} ELSE clean)
    BY <1>6, <2>2 DEF Arrive
  <2>5. /\ Len(rx') = Len(rx) + 1 /\ Len(rx) \in Nat /\ rx'[Len(rx) + 1] = frame
        /\ \A i \in 1..Len(rx) : rx'[i] = rx[i]
    BY <1>0, <2>3, <2>4
  <2>6. \A i \in 1..Len(rx') : i \in 1..Len(rx) \/ i = Len(rx) + 1
    BY <2>5
  <2>7. HeardIsDecoded'
    <3>1. InHand \cup {arrived + 1} \subseteq InHand'
      <4>1. rx'[Len(rx) + 1].no = arrived + 1 /\ Len(rx) + 1 \in 1..Len(rx')
        BY <2>3, <2>5
      <4>2. arrived + 1 \in {rx'[i].no : i \in 1..Len(rx')}
        BY <4>1
      <4>3. {rx[i].no : i \in 1..Len(rx)} \subseteq {rx'[i].no : i \in 1..Len(rx')}
        BY <2>5
      <4> QED
        BY <1>0, <4>2, <4>3 DEF InHand
    <3>2. clean' \subseteq clean \cup {arrived + 1}
      BY <2>4
    <3> QED
      BY <1>0, <3>1, <3>2 DEF OrderInv, HeardIsDecoded
  <2>8. board' = "SX1278" => Len(rx') <= 1 /\ (listening' => rx' = <<>>)
    BY <1>0, <1>6, <2>4, <2>5 DEF OrderInv, Hears
  <2>9. \A n \in clean' : n <= arrived' /\ (n \in clean \/ n = arrived + 1)
    BY <1>0, <1>1, <2>4 DEF OrderInv
  <2>10. arrived + 1 \notin clean /\ (arrived + 1 \in clean' => intact)
    BY <1>0, <1>1, <2>4 DEF OrderInv
  <2>11. Later(frame)'
    <3>1. \A i \in 1..Len(decoded) : decoded[i] < arrived + 1
      BY <1>0, <1>1, <1>2
    <3>2. frame.no <= arrived' /\ (frame.no \in clean' => frame.intact)
      BY <1>0, <2>3, <2>10
    <3>3. \A i \in 1..Len(decoded) : decoded[i] < frame.no
      BY <2>3, <3>1
    <3> QED
      BY <1>0, <3>2, <3>3 DEF Later
  <2>12. (\A i \in 1..Len(rx) : Later(rx[i]))'
    <3> SUFFICES ASSUME NEW i \in 1..Len(rx')
                 PROVE  Later(rx[i])'
      OBVIOUS
    <3>1. CASE i \in 1..Len(rx)
      <4>1. rx'[i] = rx[i] /\ Later(rx[i])
        BY <2>5, <3>1 DEF OrderInv
      <4>2. rx[i].no <= arrived' /\ (rx[i].no \in clean' => rx[i].intact)
        BY <1>0, <1>1, <2>9, <3>1, <4>1 DEF Later
      <4> QED
        BY <1>0, <4>1, <4>2 DEF Later
    <3>2. CASE i = Len(rx) + 1
      <4>1. rx'[i] = frame
        BY <2>5, <3>2
      <4> QED
        BY <1>0, <2>11, <4>1 DEF Later
    <3> QED
      BY <2>6, <3>1, <3>2
  <2>13. \A i \in 1..Len(out) : out[i].no \in clean' => out[i].intact
    BY <1>1, <1>2, <1>4, <2>9, <1>0 DEF Later
  <2>14. \A i \in 1..Len(out) : Later(out[i])'
    BY <1>0, <1>2, <1>4, <2>13 DEF Later
  <2>15. \A i \in 1..Len(rx'), j \in 1..Len(out') : out'[j].no < rx'[i].no
    BY <1>0, <2>3, <2>5, <2>6, <1>4 DEF OrderInv
  <2> QED
    BY <1>0, <2>7, <2>8, <2>9, <2>12, <2>14, <2>15, <1>3 DEF OrderInv
<1> QED
  BY <1>5, <1>6

LEMMA OrderStep ==
  ASSUME TypeInv, OrderInv, [Next]_vars
  PROVE  OrderInv'
<1>0. /\ Proto \in Tasks
      /\ pc \in [Tasks -> {"idle", "lockTx", "write", "onAir", "poll", "parse", "handle"}]
      /\ out # <<>> => pc[Proto] = "handle"
  BY ProtoIsTask DEF TypeInv, TypeOK, OrderInv
<1>1. ASSUME NEW t \in AppTasks, NEW text \in Texts, SendText(t, text)
      PROVE  OrderInv'
  <2>1. t \in Tasks /\ t # Proto /\ SendPacket(t, MakeMessage(seq, text), "idle")
    BY <1>1, RadioAssumption DEF Tasks, SendText
  <2>2. pc'[Proto] = pc[Proto]
    BY <1>0, <2>1, SendPacketType
  <2> QED
    BY <1>0, <1>1, <2>2, QuietOrder DEF SendText, chip
<1>2. CASE Probe
  BY <1>0, <1>2, QuietOrder DEF Probe, chip
<1>3. ASSUME NEW t \in Tasks, LockTx(t) \/ LockTimeout(t) \/ EndPacket(t)
      PROVE  OrderInv'
  <2>1. UNCHANGED <<board, rx, listening, out, arrived, clean, missed, decoded>>
    BY <1>3 DEF LockTx, LockTimeout, EndPacket, chip, history
  <2>2. out # <<>> => pc'[Proto] = "handle"
    BY <1>0, <1>3 DEF LockTx, LockTimeout, EndPacket, Return, GoTo
  <2> QED
    BY <2>1, <2>2, QuietOrder
<1>4. ASSUME NEW t \in Tasks, WritePacket(t) \/ TxFails(t)
      PROVE  OrderInv'
  <2>1. BeginPacket /\ UNCHANGED <<board, out, arrived, clean, decoded>>
    BY <1>4 DEF WritePacket, TxFails
  <2>2. out # <<>> => pc'[Proto] = "handle"
    BY <1>0, <1>4 DEF WritePacket, TxFails, Return, GoTo
  <2> QED
    BY <2>1, <2>2, BeginPacketOrder
<1>5. CASE Poll \/ LockRx \/ RxLockTimeout
  <2>1. UNCHANGED <<board, rx, listening, out, arrived, clean, missed, decoded>>
    BY <1>5 DEF Poll, LockRx, RxLockTimeout, chip, history
  <2>2. out = <<>>
    BY <1>0, <1>5 DEF Poll, LockRx, RxLockTimeout
  <2> QED
    BY <2>1, <2>2, QuietOrder
<1>6. CASE Tick \/ UNCHANGED vars
  <2>1. UNCHANGED <<board, pc, rx, listening, out, arrived, clean, missed, decoded>>
    BY <1>6 DEF Tick, vars, chip, history
  <2> QED
    BY <1>0, <2>1, QuietOrder
<1> QED
  BY <1>1, <1>2, <1>3, <1>4, <1>5, <1>6, ParseOrder, HandleOrder, ArriveOrder
  DEF Next, Sending, Receiving

LEMMA InitOrder == Init => OrderInv
<1>1. Len(<<>>) = 0
  OBVIOUS
<1> QED
  BY <1>1 DEF Init, OrderInv, HeardIsDecoded, InHand, Later

(* The packets are decoded in the order of their arrival, and one that    *)
(* the radio took in undamaged is lost only where the chip loses it: the   *)
(* tasks that share the radio lose none, however many they are.            *)
THEOREM NothingHeardIsLost == Spec => []HeardIsDecoded
<1>1. OrderInv => HeardIsDecoded
  BY DEF OrderInv
<1> QED
  BY <1>1, InitInv, InitOrder, TypeStep, OrderStep, PTL DEF Spec

-----------------------------------------------------------------------------
(* The wire format.  With the same bit, different CRC registers stay       *)
(* different (StepForward); registers that agree in their lowest bits      *)
(* after a step agreed in all but one of these before it, whatever the     *)
(* bits (StepBack).  So over eight steps neither the register nor the byte *)
(* is lost, and messages that differ in one byte have different CRCs       *)
(* (OneByteShows).  The provers cope with sums, not with powers and        *)
(* remainders: a number is split at the bit of weight v into what is above *)
(* it, the bit, and what is below.                                         *)
LEMMA Below ==
  ASSUME NEW k \in Nat
  PROVE  \A n : n \in 0..(k - 1) <=> n \in Nat /\ n < k
OBVIOUS

LEMMA Octets == \A n : n \in Byte <=> n \in Nat /\ n < 256
<1>1. PICK k \in Nat : k = 2^8 /\ k = 256
  OBVIOUS
<1> QED
  BY <1>1, Below DEF Byte

LEMMA Words == \A n : n \in Word <=> n \in Nat /\ n < 65536
<1>1. PICK k \in Nat : k = 2^16 /\ k = 65536
  OBVIOUS
<1> QED
  BY <1>1, Below DEF Word

LEMMA Powers ==
  2^0 = 1 /\ 2^5 = 32 /\ 2^12 = 4096 /\ 2^15 = 32768
OBVIOUS

LEMMA DivMod ==
  ASSUME NEW n \in Nat, NEW v \in Nat \ {0}
  PROVE  \E q \in Nat, r \in 0..(v - 1) : n = v * q + r
<1>1. n = v * (n \div v) + (n % v) /\ n \div v \in Nat /\ n % v \in 0..(v - 1)
  OBVIOUS
<1> QED
  BY <1>1

LEMMA Halves ==
  ASSUME NEW q \in Nat
  PROVE  \E a \in Nat, b \in {0, 1} : q = 2 * a + b
<1>1. 2 \in Nat \ {0}
  OBVIOUS
<1>2. PICK a \in Nat, b \in 0..(2 - 1) : q = 2 * a + b
  BY <1>1, DivMod, Zenon
<1>3. b \in {0, 1}
  OBVIOUS
<1> QED
  BY <1>2, <1>3

LEMMA Distribute ==
  ASSUME NEW v \in Nat, NEW a \in Nat, NEW b \in Nat
  PROVE  v * (2 * a + b) = 2 * v * a + v * b
OBVIOUS

(* b is the bit of weight v of n, a what is above it, c what is below. *)
Parts(n, v, a, b, c) == c \in 0..(v - 1) /\ n = 2 * v * a + v * b + c

LEMMA PartsExist ==
  ASSUME NEW n \in Nat, NEW v \in Nat \ {0}
  PROVE  \E a \in Nat, b \in {0, 1}, c \in Nat : Parts(n, v, a, b, c)
<1>1. PICK q \in Nat, c \in 0..(v - 1) : n = v * q + c
  BY DivMod
<1>2. PICK a \in Nat, b \in {0, 1} : q = 2 * a + b
  BY Halves
<1>3. v * q = 2 * v * a + v * b /\ c \in Nat
  BY <1>2, Distribute
<1> QED
  BY <1>1, <1>2, <1>3 DEF Parts

LEMMA Quotient ==
  ASSUME NEW v \in Nat \ {0}, NEW q \in Nat, NEW c \in 0..(v - 1)
  PROVE  (v * q + c) \div v = q
OBVIOUS

LEMMA Parity ==
  ASSUME NEW a \in Nat, NEW b \in {0, 1}
  PROVE  (2 * a + b) % 2 = b
OBVIOUS

LEMMA BitOf ==
  ASSUME NEW n \in Nat, NEW v \in Nat \ {0},
         NEW a \in Nat, NEW b \in {0, 1}, NEW c \in Nat, Parts(n, v, a, b, c)
  PROVE  (n \div v) % 2 = b
<1>1. 2 * a + b \in Nat /\ v * (2 * a + b) = 2 * v * a + v * b
  BY Distribute
<1>2. (v * (2 * a + b) + c) \div v = 2 * a + b
  BY <1>1, Quotient DEF Parts
<1> QED
  BY <1>1, <1>2, Parity DEF Parts

(* What an XOR does to the bit of weight 2 * v of 2 * x. *)
Toggle(x, v) == IF (x \div v) % 2 = 1 THEN 0 - 2 * v ELSE 2 * v

Top(x) == IF x >= 32768 THEN 1 ELSE 0

LEMMA ToggleSame ==
  ASSUME NEW v \in {16, 2048}, NEW x \in Nat, NEW y \in Nat, NEW z \in Int, x = y + 2 * v * z
  PROVE  Toggle(x, v) = Toggle(y, v)
<1>0. v \in Nat \ {0}
  OBVIOUS
<1>1. PICK a \in Nat, b \in {0, 1}, c \in Nat : Parts(x, v, a, b, c)
  BY <1>0, PartsExist
<1>2. a - z \in Nat /\ Parts(y, v, a - z, b, c)
  <2>1. CASE v = 16
    BY <1>1, <2>1 DEF Parts
  <2>2. CASE v = 2048
    BY <1>1, <2>2 DEF Parts
  <2> QED
    BY <2>1, <2>2
<1>3. (x \div v) % 2 = b
  BY <1>0, <1>1, BitOf
<1>4. (y \div v) % 2 = b
  BY <1>0, <1>1, <1>2, BitOf
<1> QED
  BY <1>3, <1>4 DEF Toggle

LEMMA FlipIs ==
  ASSUME NEW k \in {0, 5, 12}, NEW v \in Nat \ {0}, 2^k = v, NEW n \in Nat,
         NEW a \in Nat, NEW b \in {0, 1}, NEW c \in Nat, Parts(n, v, a, b, c)
  PROVE  Flip(n, k) = IF b = 1 THEN n - v ELSE n + v
<1>1. (n \div v) % 2 = b
  BY BitOf
<1> QED
  BY <1>1 DEF Flip, Bit

(* The shift without the XOR, and the XOR, as sums. *)
Shifted(x) == 2 * x - 65536 * Top(x)

LEMMA ShiftedIs ==
  ASSUME NEW x \in Word
  PROVE  /\ Shifted(x) = (2 * x) % 65536 /\ Bit(x, 15) = Top(x)
         /\ Shifted(x) \in Nat /\ Shifted(x) < 65536 /\ Top(x) \in {0, 1}
<1>1. x \in Nat /\ x < 65536
  BY Words
<1>2. CASE x >= 32768
  <2>1. (2 * x) % 65536 = 2 * x - 65536 /\ x \div 32768 = 1
    BY <1>1, <1>2
  <2> QED
    BY <1>1, <1>2, <2>1, Powers DEF Shifted, Top, Bit
<1>3. CASE x < 32768
  <2>1. (2 * x) % 65536 = 2 * x /\ x \div 32768 = 0
    BY <1>1, <1>3
  <2> QED
    BY <1>1, <1>3, <2>1, Powers DEF Shifted, Top, Bit
<1> QED
  BY <1>1, <1>2, <1>3

LEMMA Xored ==
  ASSUME NEW x \in Word
  PROVE  /\ Flip(Flip(Flip(Shifted(x), 12), 5), 0) = Shifted(x) + Toggle(x, 2048) + Toggle(x, 16) + 1
         /\ Shifted(x) + Toggle(x, 2048) + Toggle(x, 16) + 1 \in Word
<1>n. 2048 \in Nat \ {0} /\ 16 \in Nat \ {0} /\ 4096 \in Nat \ {0} /\ 32 \in Nat \ {0} /\ 1 \in Nat \ {0}
  OBVIOUS
<1>x. x \in Nat /\ x < 65536
  BY Words
<1>t. PICK t \in {0, 1} : t = Top(x) /\ (t = 1 <=> x >= 32768)
  BY <1>x DEF Top
<1>m. PICK n \in Nat : n = Shifted(x) /\ n < 65536
  BY ShiftedIs
<1>0. n = 2 * x - 65536 * t
  BY <1>t, <1>m DEF Shifted
<1>1. PICK a \in Nat, b \in {0, 1}, c \in Nat : Parts(x, 2048, a, b, c)
  BY <1>n, <1>x, PartsExist
<1>2. PICK d \in Nat, e \in {0, 1}, f \in Nat : Parts(x, 16, d, e, f)
  BY <1>n, <1>x, PartsExist
<1>3. a - 8 * t \in Nat /\ 2 * c \in Nat /\ Parts(n, 4096, a - 8 * t, b, 2 * c)
  BY <1>0, <1>1, <1>x, <1>t DEF Parts
<1>4. PICK m \in Nat : m = IF b = 1 THEN n - 4096 ELSE n + 4096
  BY <1>3 DEF Parts
<1>5. Flip(n, 12) = m
  BY <1>n, <1>3, <1>4, FlipIs, Powers
<1>6. (b = 1 => n >= 4096) /\ (b = 0 => n < 65536 - 4096)
  <2>1. a - 8 * t <= 7
    BY <1>m, <1>3 DEF Parts
  <2> QED
    BY <1>m, <1>3, <2>1 DEF Parts
<1>7. m = 2 * x - 65536 * t + (IF b = 1 THEN -4096 ELSE 4096) /\ m < 65536
  BY <1>0, <1>m, <1>4, <1>6
<1>8. PICK h \in Int : h = d - 1024 * t + (IF b = 1 THEN -64 ELSE 64)
  BY <1>0
<1>9. m = 64 * h + 32 * e + 2 * f /\ f < 16
  BY <1>0, <1>2, <1>7, <1>8 DEF Parts
<1>10. h \in Nat /\ 2 * f \in Nat /\ Parts(m, 32, h, e, 2 * f)
  BY <1>9 DEF Parts
<1>11. PICK l \in Nat : l = IF e = 1 THEN m - 32 ELSE m + 32
  BY <1>4, <1>9, <1>10
<1>12. Flip(m, 5) = l
  BY <1>n, <1>10, <1>11, FlipIs, Powers
<1>13. l < 65536
  <2>1. h <= 1023
    BY <1>7, <1>9, <1>10
  <2>2. CASE e = 1
    BY <1>9, <1>10, <1>11, <2>1, <2>2
  <2>3. CASE e = 0
    BY <1>9, <1>10, <1>11, <2>1, <2>3
  <2> QED
    BY <2>2, <2>3
<1>14. PICK g \in Nat : l = 2 * g
  <2>1. CASE e = 1
    <3>1. l = 2 * (32 * h + f) /\ 32 * h + f \in Nat
      BY <1>9, <1>10, <1>11, <2>1
    <3> QED
      BY <3>1
  <2>2. CASE e = 0
    <3>1. l = 2 * (32 * h + 32 + f - 16) /\ 32 * h + 32 + f - 16 \in Nat
      BY <1>9, <1>10, <1>11, <2>2
    <3> QED
      BY <3>1
  <2> QED
    BY <2>1, <2>2
<1>15. Parts(l, 1, g, 0, 0)
  BY <1>14 DEF Parts
<1>16. Flip(l, 0) = l + 1
  BY <1>n, <1>15, FlipIs, Powers
<1>17. Toggle(x, 2048) = (IF b = 1 THEN -4096 ELSE 4096)
  <2>1. (x \div 2048) % 2 = b
    BY <1>n, <1>x, <1>1, BitOf
  <2> QED
    BY <2>1 DEF Toggle
<1>18. Toggle(x, 16) = (IF e = 1 THEN -32 ELSE 32)
  <2>1. (x \div 16) % 2 = e
    BY <1>n, <1>x, <1>2, BitOf
  <2> QED
    BY <2>1 DEF Toggle
<1>19. l + 1 = n + Toggle(x, 2048) + Toggle(x, 16) + 1
  <2>1. m = n + Toggle(x, 2048) /\ l = m + Toggle(x, 16)
    BY <1>4, <1>11, <1>17, <1>18
  <2>2. Toggle(x, 2048) \in Int /\ Toggle(x, 16) \in Int
    BY <1>17, <1>18
  <2> QED
    BY <2>1, <2>2
<1>20. l + 1 \in Word
  BY <1>13, <1>14, Words
<1> QED
  BY <1>m, <1>5, <1>12, <1>16, <1>19, <1>20

LEMMA ShiftInIs ==
  ASSUME NEW x \in Word, NEW b \in {0, 1}
  PROVE  /\ Top(x) = b => ShiftIn(x, b) = Shifted(x)
         /\ Top(x) # b => ShiftIn(x, b) = Shifted(x) + Toggle(x, 2048) + Toggle(x, 16) + 1
         /\ ShiftIn(x, b) \in Word
<1>1. Shifted(x) = (2 * x) % 65536 /\ Bit(x, 15) = Top(x)
  BY ShiftedIs
<1>2. Shifted(x) \in Word
  BY ShiftedIs, Words
<1>3. CASE Top(x) = b
  <2>1. ShiftIn(x, b) = (2 * x) % 65536
    BY <1>1, <1>3, SMT DEF ShiftIn
  <2> QED
    BY <1>1, <1>2, <1>3, <2>1, SMT
<1>4. CASE Top(x) # b
  <2>1. ShiftIn(x, b) = Flip(Flip(Flip((2 * x) % 65536, 12), 5), 0)
    BY <1>1, <1>4, SMT DEF ShiftIn
  <2>2. ShiftIn(x, b) = Flip(Flip(Flip(Shifted(x), 12), 5), 0)
    BY <1>1, <2>1, SMT
  <2> QED
    BY <1>4, <2>2, Xored, SMT
<1> QED
  BY <1>3, <1>4

-----------------------------------------------------------------------------
(* What two registers are after a step each.                               *)
Same(x, y, w) == \E k \in Int : x - y = w * k

LEMMA Doubled ==
  ASSUME NEW x \in Int, NEW y \in Int, NEW w \in Nat, Same(x, y, 2 * w)
  PROVE  \E j, k \in Int : k = w * j /\ x - y = 2 * w * j /\ x - y = 2 * k
<1>1. PICK j \in Int : x - y = 2 * w * j
  BY DEF Same
<1>2. 2 * w * j = 2 * (w * j) /\ w * j \in Int
  OBVIOUS
<1> QED
  BY <1>1, <1>2

LEMMA ToggleSums ==
  ASSUME NEW x \in Word
  PROVE  \E p, q \in {0, 1} : Toggle(x, 2048) = 4096 - 8192 * p /\ Toggle(x, 16) = 32 - 64 * q
<1>1. Toggle(x, 2048) = 4096 - 8192 * 0 \/ Toggle(x, 2048) = 4096 - 8192 * 1
  BY SMT DEF Toggle
<1>2. Toggle(x, 16) = 32 - 64 * 0 \/ Toggle(x, 16) = 32 - 64 * 1
  BY SMT DEF Toggle
<1> QED
  BY <1>1, <1>2, SMT

(* The difference of two registers before a step, from that of the sums    *)
(* after it: both were only shifted, or the XOR was applied to both.       *)
Plain(x, y, w, k, d) == d = Top(x) - Top(y) /\ x - y = w * k + 32768 * d

Crossed(x, y, w, k, d) ==
  /\ d = Top(x) - Top(y)
  /\ 2 * (x - y) = 2 * w * k + 65536 * d - (Toggle(x, 2048) - Toggle(y, 2048))
                     - (Toggle(x, 16) - Toggle(y, 16))

LEMMA Difference ==
  ASSUME NEW x \in Word, NEW y \in Word, NEW b \in {0, 1}, NEW c \in {0, 1},
         NEW w \in Nat \ {0}, Same(ShiftIn(x, b), ShiftIn(y, c), 2 * w)
  PROVE  /\ Top(x) = b <=> Top(y) = c
         /\ \E k \in Int, d \in {-1, 0, 1} : Plain(x, y, w, k, d) \/ Crossed(x, y, w, k, d)
<1>0. x \in Nat /\ y \in Nat
  BY Words
<1>x. PICK X \in Int : X = ShiftIn(x, b)
  BY ShiftInIs, Words
<1>y. PICK Y \in Int : Y = ShiftIn(y, c)
  BY ShiftInIs, Words
<1>1. Same(X, Y, 2 * w)
  BY <1>x, <1>y
<1>2. PICK j \in Int, k \in Int : k = w * j /\ X - Y = 2 * w * j /\ X - Y = 2 * k
  BY <1>1, Doubled
<1>3. PICK s \in {0, 1} : Top(x) = s
  BY DEF Top
<1>s. Shifted(x) = 2 * x - 65536 * s
  BY <1>3, SMT DEF Shifted
<1>4. PICK t \in {0, 1} : Top(y) = t
  BY DEF Top
<1>t. Shifted(y) = 2 * y - 65536 * t
  BY <1>4, SMT DEF Shifted
<1>5. PICK p \in {0, 1}, q \in {0, 1} : Toggle(x, 2048) = 4096 - 8192 * p /\ Toggle(x, 16) = 32 - 64 * q
  BY ToggleSums, SMT
<1>6. PICK u \in {0, 1}, v \in {0, 1} : Toggle(y, 2048) = 4096 - 8192 * u /\ Toggle(y, 16) = 32 - 64 * v
  BY ToggleSums, SMT
<1>7. s = b => X = 2 * x - 65536 * s
  BY <1>x, <1>3, <1>s, ShiftInIs, SMT
<1>8. s # b => X = 2 * x - 65536 * s + (4096 - 8192 * p) + (32 - 64 * q) + 1
  BY <1>x, <1>3, <1>s, <1>5, ShiftInIs, SMT
<1>9. t = c => Y = 2 * y - 65536 * t
  BY <1>y, <1>4, <1>t, ShiftInIs, SMT
<1>10. t # c => Y = 2 * y - 65536 * t + (4096 - 8192 * u) + (32 - 64 * v) + 1
  BY <1>y, <1>4, <1>t, <1>6, ShiftInIs, SMT
<1>11. s = b <=> t = c
  <2>1. ASSUME s = b, t # c
        PROVE  FALSE
    <3>1. 2 * x - 65536 * s - (2 * y - 65536 * t + (4096 - 8192 * u) + (32 - 64 * v) + 1) = 2 * k
      BY <1>2, <1>7, <1>10, <2>1, SMT
    <3> QED
      BY <1>0, <3>1, SMT
  <2>2. ASSUME s # b, t = c
        PROVE  FALSE
    <3>1. X = 2 * x - 65536 * s + (4096 - 8192 * p) + (32 - 64 * q) + 1
      BY <1>8, <2>2
    <3>2. Y = 2 * y - 65536 * t
      BY <1>9, <2>2
    <3> QED
      BY <1>0, <1>2, <3>1, <3>2, SMT
  <2> QED
    BY <2>1, <2>2
<1>12. PICK d \in {-1, 0, 1} : d = s - t /\ d = Top(x) - Top(y)
  BY <1>3, <1>4, SMT
<1>13. CASE s = b
  <2>1. 2 * x - 65536 * s - (2 * y - 65536 * t) = 2 * k
    BY <1>2, <1>7, <1>9, <1>11, <1>13, SMT
  <2>2. x - y = w * j + 32768 * d
    BY <1>0, <1>2, <1>12, <2>1, SMT
  <2>3. Plain(x, y, w, j, d)
    BY <1>12, <2>2 DEF Plain
  <2> QED
    BY <1>3, <1>4, <1>11, <2>3
<1>14. CASE s # b
  <2>1. X = 2 * x - 65536 * s + (4096 - 8192 * p) + (32 - 64 * q) + 1
    BY <1>8, <1>14
  <2>2. Y = 2 * y - 65536 * t + (4096 - 8192 * u) + (32 - 64 * v) + 1
    BY <1>10, <1>11, <1>14
  <2>3. 2 * (x - y) = 2 * k + 65536 * d - ((4096 - 8192 * p) - (4096 - 8192 * u))
                        - ((32 - 64 * q) - (32 - 64 * v))
    BY <1>0, <1>2, <1>12, <2>1, <2>2, SMT
  <2>4. 2 * (x - y) = 2 * w * j + 65536 * d - (Toggle(x, 2048) - Toggle(y, 2048))
                        - (Toggle(x, 16) - Toggle(y, 16))
    BY <1>2, <1>5, <1>6, <2>3, SMT
  <2>5. Crossed(x, y, w, j, d)
    BY <1>12, <2>4 DEF Crossed
  <2> QED
    BY <1>3, <1>4, <1>11, <2>5
<1> QED
  BY <1>13, <1>14, SMT

Untangled(x, y, e, d, p, q) ==
  /\ x - y = e + 32768 * d + 4096 * p + 32 * q
  /\ Toggle(x, 2048) = Toggle(y, 2048) => p = 0
  /\ Toggle(x, 16) = Toggle(y, 16) => q = 0

(* A crossed difference without the factor: the toggled bits differ or not. *)
LEMMA CrossedSum ==
  ASSUME NEW x \in Word, NEW y \in Word, NEW w \in Nat, NEW k \in Int, NEW d \in {-1, 0, 1},
         NEW e \in Int, e = w * k, Crossed(x, y, w, k, d)
  PROVE  \E p, q \in {-1, 0, 1} : Untangled(x, y, e, d, p, q)
<1>0. x \in Nat /\ y \in Nat
  BY Words
<1>1. PICK a \in {0, 1}, b \in {0, 1} : Toggle(x, 2048) = 4096 - 8192 * a /\ Toggle(x, 16) = 32 - 64 * b
  BY ToggleSums, SMT
<1>2. PICK f \in {0, 1}, g \in {0, 1} : Toggle(y, 2048) = 4096 - 8192 * f /\ Toggle(y, 16) = 32 - 64 * g
  BY ToggleSums, SMT
<1>3. PICK p \in {-1, 0, 1} : p = a - f
  OBVIOUS
<1>4. PICK q \in {-1, 0, 1} : q = b - g
  OBVIOUS
<1>5. 2 * w * k = 2 * e
  OBVIOUS
<1>6. 2 * (x - y) = 2 * e + 65536 * d - ((4096 - 8192 * a) - (4096 - 8192 * f))
                      - ((32 - 64 * b) - (32 - 64 * g))
  BY <1>1, <1>2, <1>5, SMT DEF Crossed
<1>7. x - y = e + 32768 * d + 4096 * p + 32 * q
  BY <1>0, <1>3, <1>4, <1>6, SMT
<1>8. Toggle(x, 2048) = Toggle(y, 2048) => p = 0
  BY <1>1, <1>2, <1>3, SMT
<1>9. Toggle(x, 16) = Toggle(y, 16) => q = 0
  BY <1>1, <1>2, <1>4, SMT
<1> QED
  BY <1>7, <1>8, <1>9 DEF Untangled

Weights ==
  {1, 2, 4, 8, 16, 32, 64, 128, 256, 512, 1024, 2048, 4096, 8192, 16384, 32768}

(* Registers that agree below 2 * w after a step agreed below w before it. *)
LEMMA StepBackTwice ==
  ASSUME NEW x \in Word, NEW y \in Word, NEW b \in {0, 1}, NEW c \in {0, 1},
         NEW w \in Weights, Same(ShiftIn(x, b), ShiftIn(y, c), 2 * w)
  PROVE  Same(x, y, w)
<1>0. x \in Nat /\ y \in Nat
  BY Words
<1>w. w \in Nat \ {0}
  BY SMT DEF Weights
<1>1. PICK k \in Int, d \in {-1, 0, 1} : Plain(x, y, w, k, d) \/ Crossed(x, y, w, k, d)
  BY <1>w, Difference
<1>2. PICK r \in Nat : 32768 = w * r
  BY SMT DEF Weights
<1>3. ASSUME NEW z \in Int, x - y = w * z
      PROVE  Same(x, y, w)
  BY <1>3 DEF Same
<1>4. CASE Plain(x, y, w, k, d)
  <2>1. x - y = w * k + 32768 * d
    BY <1>4 DEF Plain
  <2>z. PICK z \in Int : z = k + r * d
    OBVIOUS
  <2>2. x - y = w * z
    BY <1>0, <1>w, <1>2, <2>1, <2>z
  <2> QED
    BY <1>2, <1>3, <2>2
<1>5. CASE Crossed(x, y, w, k, d)
  <2>1. PICK e \in Int : e = w * k
    BY <1>w
  <2>p. PICK p, q \in {-1, 0, 1} : Untangled(x, y, e, d, p, q)
    BY <1>w, <1>5, <2>1, CrossedSum
  <2>2. /\ x - y = e + 32768 * d + 4096 * p + 32 * q
        /\ Toggle(x, 2048) = Toggle(y, 2048) => p = 0
        /\ Toggle(x, 16) = Toggle(y, 16) => q = 0
    BY <2>p DEF Untangled
  <2>3. CASE w \in {1, 2, 4, 8, 16, 32}
    <3>1. PICK s \in Nat : 32 = w * s
      BY <2>3
    <3>2. x - y = w * (k + r * d + 128 * s * p + s * q)
      <4>1. w * (k + r * d + 128 * s * p + s * q) = w * k + (w * r) * d + 128 * (w * s) * p + (w * s) * q
        BY <1>w, <3>1
      <4> QED
        BY <1>2, <2>1, <2>2, <3>1, <4>1
    <3>3. PICK z \in Int : z = k + r * d + 128 * s * p + s * q
      OBVIOUS
    <3>4. x - y = w * z
      BY <3>2, <3>3
    <3> QED
      BY <1>3, <3>4
  <2>4. CASE w \notin {1, 2, 4, 8, 16, 32}
    <3>0. w \in {64, 128, 256, 512, 1024, 2048, 4096, 8192, 16384, 32768}
      BY <2>4, SMT DEF Weights
    <3>1. PICK s \in {2, 4, 8, 16, 32, 64, 128, 256, 512, 1024} : w = 32 * s
      BY <3>0, SMT
    <3>2. PICK u \in Int : u = s * k
      OBVIOUS
    <3>3. e = 32 * u
      BY <2>1, <3>1, <3>2
    <3>4. PICK z \in Int : z = u + 1024 * d + 128 * p + q
      OBVIOUS
    <3>5. x = y + 2 * 16 * z
      BY <1>0, <2>2, <3>3, <3>4
    <3>q. q = 0
      BY <1>0, <2>2, <3>5, ToggleSame
    <3>6. CASE w \in {64, 128, 256, 512, 1024, 2048, 4096}
      <4>1. PICK t \in {1, 2, 4, 8, 16, 32, 64} : 4096 = w * t
        BY <3>6, SMT
      <4>2. PICK h \in Int : h = k + r * d + t * p
        OBVIOUS
      <4>3. w * h = w * k + (w * r) * d + (w * t) * p
        BY <1>w, <4>2
      <4>4. x - y = w * h
        BY <1>2, <2>1, <2>2, <3>q, <4>1, <4>3
      <4> QED
        BY <1>3, <4>4
    <3>7. CASE w \in {8192, 16384, 32768}
      <4>1. PICK t \in {2, 4, 8} : w = 4096 * t
        BY <3>7, SMT
      <4>2. PICK f \in Int : f = t * k
        OBVIOUS
      <4>3. e = 4096 * f
        BY <2>1, <4>1, <4>2
      <4>4. PICK g \in Int : g = f + 8 * d + p
        OBVIOUS
      <4>5. x = y + 2 * 2048 * g
        BY <1>0, <2>2, <3>q, <4>3, <4>4
      <4>6. p = 0
        BY <1>0, <2>2, <4>5, ToggleSame
      <4>7. PICK h \in Int : h = k + r * d
        OBVIOUS
      <4>8. w * h = w * k + (w * r) * d
        BY <1>w, <4>7
      <4>9. x - y = w * h
        BY <1>2, <2>1, <2>2, <3>q, <4>6, <4>8
      <4> QED
        BY <1>3, <4>9
    <3> QED
      BY <2>4, <3>6, <3>7 DEF Weights
  <2> QED
    BY <2>3, <2>4
<1> QED
  BY <1>1, <1>4, <1>5

(* The same with the double of w under a name of its own. *)
LEMMA StepBack ==
  ASSUME NEW x \in Word, NEW y \in Word, NEW b \in {0, 1}, NEW c \in {0, 1},
         NEW w \in Weights, NEW v, v = 2 * w, Same(ShiftIn(x, b), ShiftIn(y, c), v)
  PROVE  Same(x, y, w)
<1>1. Same(ShiftIn(x, b), ShiftIn(y, c), 2 * w)
  OBVIOUS
<1> QED
  BY <1>1, StepBackTwice

LEMMA Itself ==
  ASSUME NEW x \in Int, NEW w \in Nat
  PROVE  Same(x, x, w)
<1>1. x - x = w * 0
  OBVIOUS
<1> QED
  BY <1>1 DEF Same

(* A step with the same bit loses nothing. *)
LEMMA StepForward ==
  ASSUME NEW x \in Word, NEW y \in Word, NEW b \in {0, 1}, ShiftIn(x, b) = ShiftIn(y, b)
  PROVE  x = y
<1>0. x \in Nat /\ y \in Nat /\ x < 65536 /\ y < 65536
  BY Words
<1>n. PICK w \in Nat \ {0} : w = 65536
  BY SMT
<1>1. PICK X \in Int : X = ShiftIn(x, b)
  BY ShiftInIs, Words
<1>2. PICK t \in Nat : t = 2 * w
  BY <1>n
<1>3. Same(ShiftIn(x, b), ShiftIn(y, b), 2 * w)
  BY <1>1, <1>2, Itself
<1>4. PICK k \in Int, d \in {-1, 0, 1} : Plain(x, y, w, k, d) \/ Crossed(x, y, w, k, d)
  BY <1>3, Difference
<1>5. d = 0
  <2>1. Top(x) = b <=> Top(y) = b
    BY <1>3, Difference
  <2>2. Top(x) \in {0, 1} /\ Top(y) \in {0, 1}
    BY ShiftedIs
  <2>3. d = Top(x) - Top(y)
    BY <1>4 DEF Plain, Crossed
  <2> QED
    BY <2>1, <2>2, <2>3
<1>6. ASSUME x - y = 65536 * k
      PROVE  x = y
  BY <1>0, <1>6, SMT
<1>7. CASE Plain(x, y, w, k, d)
  BY <1>5, <1>6, <1>7, <1>n, <1>0, SMT DEF Plain
<1>8. CASE Crossed(x, y, w, k, d)
  <2>0. w \in Nat
    BY <1>n
  <2>1. PICK e \in Int : e = w * k
    OBVIOUS
  <2>p. PICK p, q \in {-1, 0, 1} : Untangled(x, y, e, d, p, q)
    BY <2>0, <1>8, <2>1, CrossedSum
  <2>2. /\ x - y = e + 32768 * d + 4096 * p + 32 * q
        /\ Toggle(x, 2048) = Toggle(y, 2048) => p = 0
        /\ Toggle(x, 16) = Toggle(y, 16) => q = 0
    BY <2>p DEF Untangled
  <2>3. x - y = 65536 * k + 4096 * p + 32 * q
    BY <1>0, <1>5, <1>n, <2>1, <2>2, SMT
  <2>4. PICK z \in Int : z = 2048 * k + 128 * p + q
    BY SMT
  <2>5. x = y + 2 * 16 * z
    BY <1>0, <2>3, <2>4, SMT
  <2>6. q = 0
    BY <1>0, <2>2, <2>5, ToggleSame, SMT
  <2>7. PICK v \in Int : v = 16 * k + p
    OBVIOUS
  <2>8. x = y + 2 * 2048 * v
    BY <1>0, <2>3, <2>6, <2>7, SMT
  <2>9. p = 0
    BY <1>0, <2>2, <2>8, ToggleSame, SMT
  <2>10. x - y = 65536 * k
    BY <1>0, <2>3, <2>6, <2>9, SMT
  <2> QED
    BY <1>6, <2>10
<1> QED
  BY <1>4, <1>7, <1>8

(* Two different bits never bring one register to the same one. *)
LEMMA StepSame ==
  ASSUME NEW x \in Word, NEW b \in {0, 1}, NEW c \in {0, 1},
         Same(ShiftIn(x, b), ShiftIn(x, c), 2)
  PROVE  b = c
<1>1. PICK w \in Nat \ {0} : w = 1
  OBVIOUS
<1>2. Same(ShiftIn(x, b), ShiftIn(x, c), 2 * w)
  BY <1>1
<1>3. Top(x) = b <=> Top(x) = c
  BY <1>2, Difference
<1>4. Top(x) \in {0, 1}
  BY ShiftedIs
<1> QED
  BY <1>3, <1>4

LEMMA EvenDifference ==
  ASSUME NEW x \in Word, NEW y \in Word, NEW h \in Weights, NEW v, v = 2 * h, Same(x, y, v)
  PROVE  Same(x, y, 2)
<1>0. h \in Nat
  BY SMT DEF Weights
<1>1. PICK k \in Int : x - y = v * k
  BY DEF Same
<1>2. PICK u \in Int : u = h * k
  BY <1>0
<1>3. v * k = 2 * u
  BY <1>0, <1>2
<1>4. x - y = 2 * u
  BY <1>1, <1>3
<1> QED
  BY <1>4 DEF Same

-----------------------------------------------------------------------------
(* Registers that run through a sequence: there is a run, all of it Words.  *)
LEMMA UpTo ==
  ASSUME NEW n \in Nat, NEW T, 0 \in T, \A i \in 1..n : i - 1 \in T => i \in T
  PROVE  0..n \subseteq T
<1> DEFINE rest == {i \in 0..n : i \notin T}
<1> SUFFICES ASSUME rest # {}
             PROVE  FALSE
  OBVIOUS
<1>1. rest \in SUBSET Nat
  OBVIOUS
<1>2. PICK k \in rest : \A m \in rest : ~ (<<m, k>> \in OpToRel(<, Nat))
  BY <1>1, NatLessThanWellFounded, WFMin
<1>3. \A m \in rest : ~ (m < k)
  BY <1>1, <1>2 DEF OpToRel
<1>4. k # 0 /\ k \in 0..n /\ k \notin T
  OBVIOUS
<1>5. k \in 1..n /\ k - 1 \in 0..n /\ k - 1 < k
  BY <1>4
<1> QED
  BY <1>3, <1>4, <1>5

IsRun(r, k, S, F, a, s) ==
  r \in [0..k -> S] /\ r[0] = a /\ \A i \in 1..k : r[i] = F[r[i - 1]][s[i]]

LEMMA RunStarts ==
  ASSUME NEW S, NEW F, NEW a \in S, NEW s
  PROVE  \E r : IsRun(r, 0, S, F, a, s)
<1>1. IsRun([i \in 0..0 |-> a], 0, S, F, a, s)
  BY DEF IsRun
<1> QED
  BY <1>1

LEMMA RunGoesOn ==
  ASSUME NEW S, NEW T, NEW F \in [S -> [T -> S]], NEW a \in S, NEW n \in Nat, NEW s \in [1..n -> T],
         NEW k \in 1..n, NEW r, IsRun(r, k - 1, S, F, a, s)
  PROVE  \E h : IsRun(h, k, S, F, a, s)
<1> DEFINE h == [i \in 0..k |-> IF i = k THEN F[r[k - 1]][s[k]] ELSE r[i]]
<1>2. F[r[k - 1]][s[k]] \in S
  BY DEF IsRun
<1>3. h \in [0..k -> S]
  BY <1>2 DEF IsRun
<1>4. h[0] = a
  BY DEF IsRun
<1>5. ASSUME NEW i \in 1..k
      PROVE  h[i] = F[h[i - 1]][s[i]]
  <2>1. h[i - 1] = r[i - 1]
    OBVIOUS
  <2>2. CASE i = k
    BY <2>1, <2>2
  <2>3. CASE i # k
    <3>1. i \in 1..(k - 1) /\ h[i] = r[i]
      BY <2>3
    <3> QED
      BY <2>1, <3>1 DEF IsRun
  <2> QED
    BY <2>2, <2>3
<1>6. IsRun(h, k, S, F, a, s)
  BY <1>3, <1>4, <1>5 DEF IsRun
<1> QED
  BY <1>6

LEMMA Running ==
  ASSUME NEW S, NEW T, NEW F \in [S -> [T -> S]], NEW a \in S, NEW n \in Nat, NEW s \in [1..n -> T]
  PROVE  \E r : IsRun(r, n, S, F, a, s)
<1> DEFINE good == {k \in 0..n : \E r : IsRun(r, k, S, F, a, s)}
<1>1. 0 \in good
  <2>1. 0 \in 0..n
    OBVIOUS
  <2> QED
    BY <2>1, RunStarts
<1>2. ASSUME NEW k \in 1..n, k - 1 \in good
      PROVE  k \in good
  <2>1. PICK r : IsRun(r, k - 1, S, F, a, s)
    BY <1>2
  <2>2. \E h : IsRun(h, k, S, F, a, s)
    BY <2>1, RunGoesOn
  <2> QED
    BY <2>2
<1>3. 0..n \subseteq good
  <2> HIDE DEF good
  <2> QED
    BY <1>1, <1>2, UpTo
<1>4. n \in 0..n
  OBVIOUS
<1> QED
  BY <1>3, <1>4

-----------------------------------------------------------------------------
(* The bits of a byte, and what they determine.                            *)
LEMMA MorePowers ==
  2^0 = 1 /\ 2^1 = 2 /\ 2^2 = 4 /\ 2^3 = 8 /\ 2^4 = 16 /\ 2^5 = 32 /\ 2^6 = 64 /\ 2^7 = 128
OBVIOUS

LEMMA BitType ==
  ASSUME NEW n \in Nat, NEW k \in 0..7
  PROVE  Bit(n, k) \in {0, 1}
<1>0. k \in {0, 1, 2, 3, 4, 5, 6, 7}
  OBVIOUS
<1>1. PICK v \in Nat \ {0} : 2^k = v
  <2>1. 2^k \in {1, 2, 4, 8, 16, 32, 64, 128}
    <3>0. CASE k = 0
      BY <3>0, MorePowers
    <3>1. CASE k = 1
      BY <3>1, MorePowers
    <3>2. CASE k = 2
      BY <3>2, MorePowers
    <3>3. CASE k = 3
      BY <3>3, MorePowers
    <3>4. CASE k = 4
      BY <3>4, MorePowers
    <3>5. CASE k = 5
      BY <3>5, MorePowers
    <3>6. CASE k = 6
      BY <3>6, MorePowers
    <3>7. CASE k = 7
      BY <3>7, MorePowers
    <3> QED
      BY <1>0, <3>0, <3>1, <3>2, <3>3, <3>4, <3>5, <3>6, <3>7
  <2> QED
    BY <2>1
<1>2. PICK a \in Nat, b \in {0, 1}, c \in Nat : Parts(n, v, a, b, c)
  BY PartsExist
<1> QED
  BY <1>1, <1>2, BitOf DEF Bit

BitAt(n, v) == (n \div v) % 2

LEMMA BitsSame ==
  ASSUME NEW v \in {1, 2, 4, 8, 16, 32, 64, 128}, NEW x \in Nat, NEW y \in Nat,
         Same(x, y, v), BitAt(x, v) = BitAt(y, v)
  PROVE  Same(x, y, 2 * v)
<1>0. v \in Nat \ {0}
  OBVIOUS
<1>1. PICK a \in Nat, b \in {0, 1}, c \in Nat : Parts(x, v, a, b, c)
  BY <1>0, PartsExist
<1>2. PICK d \in Nat, e \in {0, 1}, f \in Nat : Parts(y, v, d, e, f)
  BY <1>0, PartsExist
<1>3. b = e
  <2>1. BitAt(x, v) = b
    BY <1>0, <1>1, BitOf DEF BitAt
  <2>2. BitAt(y, v) = e
    BY <1>0, <1>2, BitOf DEF BitAt
  <2> QED
    BY <2>1, <2>2
<1>4. PICK z \in Int : x - y = v * z
  BY DEF Same
<1>5. PICK u \in Int : u = z - 2 * (a - d)
  OBVIOUS
<1>6. c - f = v * u
  BY <1>1, <1>2, <1>3, <1>4, <1>5 DEF Parts
<1>7. c = f
  BY <1>0, <1>1, <1>2, <1>6 DEF Parts
<1>8. PICK g \in Int : g = a - d
  OBVIOUS
<1>9. x - y = 2 * v * g
  BY <1>0, <1>1, <1>2, <1>3, <1>7, <1>8 DEF Parts
<1> QED
  BY <1>9 DEF Same

LEMMA BitsOfByte ==
  ASSUME NEW b \in Byte, NEW c \in Byte, \A k \in 0..7 : Bit(b, k) = Bit(c, k)
  PROVE  b = c
<1>n. b \in Nat /\ c \in Nat /\ b < 256 /\ c < 256
  BY Octets
<1>0. /\ Bit(b, 0) = Bit(c, 0) /\ Bit(b, 1) = Bit(c, 1) /\ Bit(b, 2) = Bit(c, 2) /\ Bit(b, 3) = Bit(c, 3)
      /\ Bit(b, 4) = Bit(c, 4) /\ Bit(b, 5) = Bit(c, 5) /\ Bit(b, 6) = Bit(c, 6) /\ Bit(b, 7) = Bit(c, 7)
  OBVIOUS
<1>1. Same(b, c, 1)
  <2>1. PICK z \in Int : z = b - c
    BY <1>n
  <2>2. b - c = 1 * z
    BY <2>1
  <2> QED
    BY <2>2 DEF Same
<1>2. Same(b, c, 2)
  <2>1. BitAt(b, 1) = BitAt(c, 1)
    BY <1>0, MorePowers DEF Bit, BitAt
  <2> QED
    BY <1>n, <1>1, <2>1, BitsSame
<1>3. Same(b, c, 4)
  <2>1. BitAt(b, 2) = BitAt(c, 2)
    BY <1>0, MorePowers DEF Bit, BitAt
  <2> QED
    BY <1>n, <1>2, <2>1, BitsSame
<1>4. Same(b, c, 8)
  <2>1. BitAt(b, 4) = BitAt(c, 4)
    BY <1>0, MorePowers DEF Bit, BitAt
  <2> QED
    BY <1>n, <1>3, <2>1, BitsSame
<1>5. Same(b, c, 16)
  <2>1. BitAt(b, 8) = BitAt(c, 8)
    BY <1>0, MorePowers DEF Bit, BitAt
  <2> QED
    BY <1>n, <1>4, <2>1, BitsSame
<1>6. Same(b, c, 32)
  <2>1. BitAt(b, 16) = BitAt(c, 16)
    BY <1>0, MorePowers DEF Bit, BitAt
  <2> QED
    BY <1>n, <1>5, <2>1, BitsSame
<1>7. Same(b, c, 64)
  <2>1. BitAt(b, 32) = BitAt(c, 32)
    BY <1>0, MorePowers DEF Bit, BitAt
  <2> QED
    BY <1>n, <1>6, <2>1, BitsSame
<1>8. Same(b, c, 128)
  <2>1. BitAt(b, 64) = BitAt(c, 64)
    BY <1>0, MorePowers DEF Bit, BitAt
  <2> QED
    BY <1>n, <1>7, <2>1, BitsSame
<1>9. Same(b, c, 256)
  <2>1. BitAt(b, 128) = BitAt(c, 128)
    BY <1>0, MorePowers DEF Bit, BitAt
  <2> QED
    BY <1>n, <1>8, <2>1, BitsSame
<1> QED
  BY <1>n, <1>9 DEF Same

-----------------------------------------------------------------------------
(* One byte: the register goes through eight steps.                        *)
Register(r, x, b) ==
  r = [k \in 0..8 |-> IF k = 0 THEN x ELSE ShiftIn(r[k - 1], Bit(b, 8 - k))]

LEMMA BitsOf ==
  ASSUME NEW b \in Byte
  PROVE  \A k \in 1..8 : Bit(b, 8 - k) \in {0, 1}
<1>1. b \in Nat
  BY Octets
<1>2. \A k \in 1..8 : 8 - k \in 0..7
  OBVIOUS
<1> QED
  BY <1>1, <1>2, BitType

LEMMA TakeInRun ==
  ASSUME NEW x \in Word, NEW b \in Byte
  PROVE  \E r \in [0..8 -> Word] :
           /\ r[0] = x /\ TakeIn(x, b) = r[8]
           /\ \A k \in 1..8 : r[k] = ShiftIn(r[k - 1], Bit(b, 8 - k))
<1> DEFINE F == [y \in Word |-> [t \in {0, 1} |-> ShiftIn(y, t)]]
           s == [k \in 1..8 |-> Bit(b, 8 - k)]
<1>1. F \in [Word -> [{0, 1} -> Word]]
  BY ShiftInIs
<1>2. s \in [1..8 -> {0, 1}]
  BY BitsOf
<1>3. PICK r : IsRun(r, 8, Word, F, x, s)
  <2> HIDE DEF F, s
  <2> QED
    BY <1>1, <1>2, Running
<1>4. r \in [0..8 -> Word] /\ r[0] = x /\ \A k \in 1..8 : r[k] = ShiftIn(r[k - 1], Bit(b, 8 - k))
  <2>1. r \in [0..8 -> Word] /\ r[0] = x
    BY <1>3 DEF IsRun
  <2>2. ASSUME NEW k \in 1..8
        PROVE  r[k] = ShiftIn(r[k - 1], Bit(b, 8 - k))
    <3>1. r[k] = F[r[k - 1]][s[k]]
      <4> HIDE DEF F, s
      <4> QED
        BY <1>3 DEF IsRun
    <3>2. r[k - 1] \in Word /\ s[k] = Bit(b, 8 - k) /\ s[k] \in {0, 1}
      BY <1>2, <2>1
    <3> QED
      BY <3>1, <3>2
  <2> QED
    BY <2>1, <2>2
<1>5. Register(r, x, b)
  BY <1>4 DEF Register
<1>6. PICK q : q = CHOOSE p : Register(p, x, b)
  OBVIOUS
<1>7. Register(q, x, b)
  BY <1>5, <1>6
<1>8. TakeIn(x, b) = q[8]
  BY <1>6 DEF TakeIn, Register
<1>9. q = r
  BY <1>4, <1>5, <1>7 DEF Register
<1> QED
  BY <1>4, <1>8, <1>9

LEMMA TakeInType ==
  ASSUME NEW x \in Word, NEW b \in Byte
  PROVE  TakeIn(x, b) \in Word
<1>1. PICK r \in [0..8 -> Word] : TakeIn(x, b) = r[8]
  BY TakeInRun
<1> QED
  BY <1>1

(* Neither the register nor the byte that went in is lost. *)
LEMMA TakeInKeepsCrc ==
  ASSUME NEW x \in Word, NEW y \in Word, NEW b \in Byte, TakeIn(x, b) = TakeIn(y, b)
  PROVE  x = y
<1>1. PICK r \in [0..8 -> Word] :
           /\ r[0] = x /\ TakeIn(x, b) = r[8]
           /\ \A k \in 1..8 : r[k] = ShiftIn(r[k - 1], Bit(b, 8 - k))
  BY TakeInRun
<1>2. PICK s \in [0..8 -> Word] :
           /\ s[0] = y /\ TakeIn(y, b) = s[8]
           /\ \A k \in 1..8 : s[k] = ShiftIn(s[k - 1], Bit(b, 8 - k))
  BY TakeInRun
<1> DEFINE T == {i \in 0..8 : r[8 - i] = s[8 - i]}
<1>3. ASSUME NEW i \in 1..8, i - 1 \in T
      PROVE  i \in T
  <2>0. PICK k \in 1..8, j \in 0..8 : k = 8 - (i - 1) /\ j = 8 - i /\ j = k - 1 /\ 8 - k = i - 1
    OBVIOUS
  <2>1. r[j] \in Word /\ s[j] \in Word /\ Bit(b, 8 - k) \in {0, 1}
    BY BitsOf
  <2>2. r[k] = s[k]
    BY <1>3, <2>0
  <2>3. ShiftIn(r[j], Bit(b, 8 - k)) = ShiftIn(s[j], Bit(b, 8 - k))
    BY <1>1, <1>2, <2>0, <2>2
  <2>4. r[j] = s[j]
    BY <2>1, <2>3, StepForward
  <2> QED
    BY <2>0, <2>4
<1>4. 0 \in T
  <2>1. r[8] = s[8]
    BY <1>1, <1>2, Zenon
  <2> QED
    BY <2>1
<1>5. 0..8 \subseteq T
  <2> HIDE DEF T
  <2> QED
    BY <1>3, <1>4, UpTo
<1>6. r[0] = s[0]
  <2>1. 8 \in T
    BY <1>5
  <2> QED
    BY <2>1
<1> QED
  BY <1>1, <1>2, <1>6

(* What a register agrees in after k of sixteen steps. *)
Weight ==
  [k \in 0..16 |->
     IF k < 8
       THEN IF k < 4 THEN IF k < 2 THEN IF k = 0 THEN 1 ELSE 2 ELSE IF k = 2 THEN 4 ELSE 8
            ELSE IF k < 6 THEN IF k = 4 THEN 16 ELSE 32 ELSE IF k = 6 THEN 64 ELSE 128
       ELSE IF k < 12 THEN IF k < 10 THEN IF k = 8 THEN 256 ELSE 512 ELSE IF k = 10 THEN 1024 ELSE 2048
            ELSE IF k < 14 THEN IF k = 12 THEN 4096 ELSE 8192
            ELSE IF k = 14 THEN 16384 ELSE IF k = 15 THEN 32768 ELSE 65536]

LEMMA WeightSteps ==
  ASSUME NEW k \in 1..16
  PROVE  \E w \in Weights : \E v : w = Weight[k - 1] /\ v = Weight[k] /\ v = 2 * w
<1>1. PICK j \in 0..16 : j = k - 1
  OBVIOUS
<1>2. Weight[j] \in Weights
  BY <1>1, SMT DEF Weight, Weights
<1>3. Weight[k] = 2 * Weight[j]
  BY <1>1, SMT DEF Weight
<1> QED
  BY <1>1, <1>2, <1>3

(* Up to sixteen bits that bring one register to the same one are the same. *)
LEMMA SixteenBits ==
  ASSUME NEW n \in 1..16, NEW r \in [0..n -> Word], NEW s \in [0..n -> Word],
         NEW u \in [1..n -> {0, 1}], NEW v \in [1..n -> {0, 1}], r[0] = s[0], r[n] = s[n],
         \A k \in 1..n : r[k] = ShiftIn(r[k - 1], u[k]) /\ s[k] = ShiftIn(s[k - 1], v[k])
  PROVE  \A k \in 1..n : u[k] = v[k]
<1>n. n \in Nat
  OBVIOUS
<1> DEFINE T == {i \in 0..n : Same(r[n - i], s[n - i], Weight[n - i])}
           U == {i \in 0..n : r[i] = s[i] /\ \A k \in 1..i : u[k] = v[k]}
<1>1. 0 \in T
  <2>1. r[n] \in Int /\ n - 0 = n /\ 0 \in 0..n /\ n \in 0..n
    BY Words
  <2>2. Weight[n] \in Nat
    BY SMT DEF Weight
  <2>3. Same(r[n], r[n], Weight[n])
    BY <2>1, <2>2, Itself
  <2> QED
    BY <2>1, <2>3
<1>2. ASSUME NEW i \in 1..n, i - 1 \in T
      PROVE  i \in T
  <2>k. PICK k \in 1..n : k = n - (i - 1)
    OBVIOUS
  <2>j. PICK j \in 0..n : j = n - i
    OBVIOUS
  <2>1. k = n - (i - 1) /\ j = n - i /\ j = k - 1 /\ k \in 1..16
    BY <2>k, <2>j
  <2>2. PICK w \in Weights : \E z : w = Weight[j] /\ z = Weight[k] /\ z = 2 * w
    BY <2>1, WeightSteps
  <2>z. PICK z : w = Weight[j] /\ z = Weight[k] /\ z = 2 * w
    BY <2>2
  <2>3. Same(ShiftIn(r[j], u[k]), ShiftIn(s[j], v[k]), z)
    BY <1>2, <2>1, <2>z
  <2>4. Same(r[j], s[j], w)
    BY <2>z, <2>3, StepBack
  <2> QED
    BY <2>1, <2>z, <2>4
<1>3. 0..n \subseteq T
  <2> HIDE DEF T
  <2> QED
    BY <1>n, <1>1, <1>2, UpTo
<1>4. 0 \in U
  OBVIOUS
<1>5. ASSUME NEW i \in 1..n, i - 1 \in U
      PROVE  i \in U
  <2>j. PICK j \in 0..n : j = i - 1
    OBVIOUS
  <2>1. j = i - 1 /\ r[j] = s[j] /\ \A k \in 1..j : u[k] = v[k]
    BY <1>5, <2>j
  <2>i. i \in 1..16
    OBVIOUS
  <2>2. PICK w \in Weights : \E z : z = Weight[i] /\ z = 2 * w
    BY <2>i, WeightSteps
  <2>z. PICK z : z = Weight[i] /\ z = 2 * w
    BY <2>2
  <2>3. Same(r[i], s[i], z)
    <3>1. PICK m \in 0..n : m = n - i /\ n - m = i
      OBVIOUS
    <3>2. m \in T
      BY <1>3
    <3> QED
      BY <2>z, <3>1, <3>2
  <2>4. Same(r[i], s[i], 2)
    BY <2>z, <2>3, EvenDifference
  <2>5. Same(ShiftIn(r[j], u[i]), ShiftIn(r[j], v[i]), 2)
    BY <2>1, <2>4
  <2>6. u[i] = v[i]
    BY <2>5, StepSame
  <2> QED
    BY <2>1, <2>6
<1>6. 0..n \subseteq U
  <2> HIDE DEF U
  <2> QED
    BY <1>n, <1>4, <1>5, UpTo
<1>7. n \in U
  BY <1>6
<1> QED
  BY <1>7

LEMMA TakeInKeepsByte ==
  ASSUME NEW x \in Word, NEW b \in Byte, NEW c \in Byte, TakeIn(x, b) = TakeIn(x, c)
  PROVE  b = c
<1>1. PICK r \in [0..8 -> Word] :
           /\ r[0] = x /\ TakeIn(x, b) = r[8]
           /\ \A k \in 1..8 : r[k] = ShiftIn(r[k - 1], Bit(b, 8 - k))
  BY TakeInRun
<1>2. PICK s \in [0..8 -> Word] :
           /\ s[0] = x /\ TakeIn(x, c) = s[8]
           /\ \A k \in 1..8 : s[k] = ShiftIn(s[k - 1], Bit(c, 8 - k))
  BY TakeInRun
<1>3. PICK u \in [1..8 -> {0, 1}] : u = [k \in 1..8 |-> Bit(b, 8 - k)]
  BY BitsOf
<1>4. PICK v \in [1..8 -> {0, 1}] : v = [k \in 1..8 |-> Bit(c, 8 - k)]
  BY BitsOf
<1>5. \A k \in 1..8 : u[k] = v[k]
  <2>1. r[8] = s[8] /\ r[0] = s[0]
    BY <1>1, <1>2, Zenon
  <2>2. \A k \in 1..8 : r[k] = ShiftIn(r[k - 1], u[k]) /\ s[k] = ShiftIn(s[k - 1], v[k])
    BY <1>1, <1>2, <1>3, <1>4
  <2>3. PICK n \in 1..16 : n = 8
    OBVIOUS
  <2> QED
    BY <2>1, <2>2, <2>3, SixteenBits
<1>6. ASSUME NEW k \in 0..7
      PROVE  Bit(b, k) = Bit(c, k)
  <2>1. PICK j \in 1..8 : k = 8 - j
    <3>1. 8 - k \in 1..8 /\ k = 8 - (8 - k)
      OBVIOUS
    <3> QED
      BY <3>1
  <2> QED
    BY <1>3, <1>4, <1>5, <2>1
<1> QED
  BY <1>6, BitsOfByte

(* Two bytes bring one register to the same one only if they are the same. *)
LEMMA TakeInKeepsPair ==
  ASSUME NEW x \in Word, NEW b \in Byte, NEW c \in Byte, NEW d \in Byte, NEW e \in Byte,
         TakeIn(TakeIn(x, b), d) = TakeIn(TakeIn(x, c), e)
  PROVE  b = c /\ d = e
<1>0. TakeIn(x, b) \in Word /\ TakeIn(x, c) \in Word
  BY TakeInType
<1>1. PICK r \in [0..8 -> Word] :
           /\ r[0] = x /\ TakeIn(x, b) = r[8]
           /\ \A k \in 1..8 : r[k] = ShiftIn(r[k - 1], Bit(b, 8 - k))
  BY TakeInRun
<1>2. PICK s \in [0..8 -> Word] :
           /\ s[0] = x /\ TakeIn(x, c) = s[8]
           /\ \A k \in 1..8 : s[k] = ShiftIn(s[k - 1], Bit(c, 8 - k))
  BY TakeInRun
<1>3. PICK p \in [0..8 -> Word] :
           /\ p[0] = r[8] /\ TakeIn(r[8], d) = p[8]
           /\ \A k \in 1..8 : p[k] = ShiftIn(p[k - 1], Bit(d, 8 - k))
  BY TakeInRun
<1>4. PICK q \in [0..8 -> Word] :
           /\ q[0] = s[8] /\ TakeIn(s[8], e) = q[8]
           /\ \A k \in 1..8 : q[k] = ShiftIn(q[k - 1], Bit(e, 8 - k))
  BY TakeInRun
<1>b. \A k \in 1..8 : /\ Bit(b, 8 - k) \in {0, 1} /\ Bit(c, 8 - k) \in {0, 1}
                      /\ Bit(d, 8 - k) \in {0, 1} /\ Bit(e, 8 - k) \in {0, 1}
  BY BitsOf
<1>5. PICK R \in [0..16 -> Word] : R = [k \in 0..16 |-> IF k <= 8 THEN r[k] ELSE p[k - 8]]
  <2>1. ASSUME NEW k \in 0..16
        PROVE  (IF k <= 8 THEN r[k] ELSE p[k - 8]) \in Word
    <3>1. CASE k <= 8
      BY <3>1
    <3>2. CASE k > 8
      <4>1. k - 8 \in 0..8
        BY <3>2
      <4> QED
        BY <3>2, <4>1
    <3> QED
      BY <3>1, <3>2
  <2> QED
    BY <2>1
<1>6. PICK S \in [0..16 -> Word] : S = [k \in 0..16 |-> IF k <= 8 THEN s[k] ELSE q[k - 8]]
  <2>1. ASSUME NEW k \in 0..16
        PROVE  (IF k <= 8 THEN s[k] ELSE q[k - 8]) \in Word
    <3>1. CASE k <= 8
      BY <3>1
    <3>2. CASE k > 8
      <4>1. k - 8 \in 0..8
        BY <3>2
      <4> QED
        BY <3>2, <4>1
    <3> QED
      BY <3>1, <3>2
  <2> QED
    BY <2>1
<1>7. PICK u \in [1..16 -> {0, 1}] :
        u = [k \in 1..16 |-> IF k <= 8 THEN Bit(b, 8 - k) ELSE Bit(d, 8 - (k - 8))]
  <2>1. \A k \in 1..16 : (IF k <= 8 THEN Bit(b, 8 - k) ELSE Bit(d, 8 - (k - 8))) \in {0, 1}
    BY <1>b
  <2> QED
    BY <2>1
<1>8. PICK v \in [1..16 -> {0, 1}] :
        v = [k \in 1..16 |-> IF k <= 8 THEN Bit(c, 8 - k) ELSE Bit(e, 8 - (k - 8))]
  <2>1. \A k \in 1..16 : (IF k <= 8 THEN Bit(c, 8 - k) ELSE Bit(e, 8 - (k - 8))) \in {0, 1}
    BY <1>b
  <2> QED
    BY <2>1
<1>9. ASSUME NEW k \in 1..16
      PROVE  R[k] = ShiftIn(R[k - 1], u[k]) /\ S[k] = ShiftIn(S[k - 1], v[k])
  <2>1. CASE k <= 8
    <3>1. /\ R[k] = r[k] /\ R[k - 1] = r[k - 1] /\ u[k] = Bit(b, 8 - k)
          /\ S[k] = s[k] /\ S[k - 1] = s[k - 1] /\ v[k] = Bit(c, 8 - k)
      BY <1>5, <1>6, <1>7, <1>8, <2>1
    <3> QED
      BY <1>1, <1>2, <2>1, <3>1
  <2>2. CASE k > 8
    <3>1. PICK j \in 1..8 : j = k - 8
      BY <2>2
    <3>2. R[k] = p[j] /\ u[k] = Bit(d, 8 - j) /\ S[k] = q[j] /\ v[k] = Bit(e, 8 - j)
      BY <1>5, <1>6, <1>7, <1>8, <2>2, <3>1
    <3>3. R[k - 1] = p[j - 1] /\ S[k - 1] = q[j - 1]
      <4>1. CASE j = 1
        <5>1. k - 1 = 8 /\ j - 1 = 0
          BY <3>1, <4>1
        <5> QED
          BY <1>3, <1>4, <1>5, <1>6, <5>1
      <4>2. CASE j > 1
        <5>1. k - 1 > 8 /\ k - 1 \in 0..16 /\ k - 1 - 8 = j - 1
          BY <3>1, <4>2
        <5> QED
          BY <1>5, <1>6, <5>1
      <4> QED
        BY <4>1, <4>2
    <3> QED
      BY <1>3, <1>4, <3>2, <3>3
  <2> QED
    BY <2>1, <2>2
<1>10. \A k \in 1..16 : u[k] = v[k]
  <2>1. R[0] = S[0]
    BY <1>1, <1>2, <1>5, <1>6
  <2>2. p[8] = q[8]
    BY <1>1, <1>2, <1>3, <1>4, Zenon
  <2>3. R[16] = S[16]
    BY <1>5, <1>6, <2>2
  <2>4. PICK n \in 1..16 : n = 16
    OBVIOUS
  <2> QED
    BY <1>9, <2>1, <2>3, <2>4, SixteenBits
<1>11. \A k \in 0..7 : Bit(b, k) = Bit(c, k)
  <2>1. ASSUME NEW k \in 0..7
        PROVE  Bit(b, k) = Bit(c, k)
    <3>1. PICK j \in 1..16 : j = 8 - k /\ j <= 8 /\ 8 - j = k
      OBVIOUS
    <3> QED
      BY <1>7, <1>8, <1>10, <3>1
  <2> QED
    BY <2>1
<1>12. \A k \in 0..7 : Bit(d, k) = Bit(e, k)
  <2>1. ASSUME NEW k \in 0..7
        PROVE  Bit(d, k) = Bit(e, k)
    <3>1. PICK j \in 1..16 : j = 16 - k /\ j > 8 /\ 8 - (j - 8) = k
      OBVIOUS
    <3> QED
      BY <1>7, <1>8, <1>10, <3>1
  <2> QED
    BY <2>1
<1> QED
  BY <1>11, <1>12, BitsOfByte

-----------------------------------------------------------------------------
(* A sequence of bytes: the register takes in one after the other.         *)
Taking == [pair \in Word \X Byte |-> TakeIn(pair[1], pair[2])]

Summing(r, s) ==
  r = [i \in 0..Len(s) |-> IF i = 0 THEN CrcInit ELSE Taking[<<r[i - 1], s[i]>>]]

Sums(r, s, n) ==
  /\ r \in [0..n -> Word] /\ r[0] = CrcInit /\ Crc16(s) = r[n]
  /\ \A i \in 1..n : r[i] = TakeIn(r[i - 1], s[i])

LEMMA CrcRun ==
  ASSUME NEW s \in Seq(Byte)
  PROVE  \E r : Sums(r, s, Len(s))
<1> DEFINE F == [y \in Word |-> [b \in Byte |-> TakeIn(y, b)]]
<1>0. PICK n \in Nat : n = Len(s) /\ s \in [1..n -> Byte]
  OBVIOUS
<1>a. PICK a \in Word : a = CrcInit
  BY Words, SMT DEF CrcInit
<1>1. F \in [Word -> [Byte -> Word]]
  BY TakeInType
<1>2. PICK r : IsRun(r, n, Word, F, a, s)
  <2> HIDE DEF F
  <2> QED
    BY <1>0, <1>1, Running
<1>3. r \in [0..n -> Word] /\ r[0] = a
  BY <1>2 DEF IsRun
<1>4. ASSUME NEW i \in 1..n
      PROVE  r[i] = TakeIn(r[i - 1], s[i])
  <2>1. r[i] = F[r[i - 1]][s[i]]
    <3> HIDE DEF F
    <3> QED
      BY <1>2 DEF IsRun
  <2>2. r[i - 1] \in Word /\ s[i] \in Byte
    BY <1>0, <1>3
  <2> QED
    BY <2>1, <2>2
<1> HIDE DEF F
<1>t. \A x \in Word, b \in Byte : Taking[<<x, b>>] = TakeIn(x, b)
  BY DEF Taking
<1>5. \A i \in 0..n : r[i] = IF i = 0 THEN a ELSE Taking[<<r[i - 1], s[i]>>]
  <2>1. ASSUME NEW i \in 1..n
        PROVE  r[i] = Taking[<<r[i - 1], s[i]>>]
    <3>1. r[i - 1] \in Word /\ s[i] \in Byte
      BY <1>0, <1>3
    <3> QED
      BY <1>4, <1>t, <3>1
  <2> QED
    BY <1>3, <2>1
<1>6. Summing(r, s)
  BY <1>0, <1>3, <1>5, <1>a, SMT DEF Summing
<1>7. PICK q : q = CHOOSE p : Summing(p, s)
  OBVIOUS
<1>8. Summing(q, s)
  BY <1>6, <1>7
<1>9. Crc16(s) = q[n]
  BY <1>0, <1>7 DEF Crc16, Summing, Taking
<1>10. /\ q[0] = a /\ q = [i \in 0..n |-> q[i]]
       /\ \A i \in 1..n : q[i] = Taking[<<q[i - 1], s[i]>>]
  <2>1. q = [i \in 0..n |-> IF i = 0 THEN a ELSE Taking[<<q[i - 1], s[i]>>]]
    BY <1>0, <1>8, <1>a, Zenon DEF Summing
  <2>2. q = [i \in 0..n |-> q[i]]
    BY <2>1
  <2>3. q[0] = a
    BY <2>1
  <2>4. ASSUME NEW i \in 1..n
        PROVE  q[i] = Taking[<<q[i - 1], s[i]>>]
    <3>1. i \in 0..n /\ i # 0
      OBVIOUS
    <3> QED
      BY <2>1, <3>1, Zenon
  <2> QED
    BY <2>2, <2>3, <2>4
<1>11. q = r
  <2> DEFINE T == {i \in 0..n : q[i] = r[i]}
  <2>1. 0 \in T
    BY <1>3, <1>10
  <2>2. ASSUME NEW i \in 1..n, i - 1 \in T
        PROVE  i \in T
    <3>1. q[i - 1] = r[i - 1] /\ i \in 0..n /\ i # 0
      BY <2>2
    <3>2. r[i] = Taking[<<r[i - 1], s[i]>>]
      BY <1>5, <3>1, Zenon
    <3>3. q[i] = Taking[<<q[i - 1], s[i]>>]
      BY <1>10, Zenon
    <3> QED
      BY <3>1, <3>2, <3>3
  <2>3. 0..n \subseteq T
    <3> HIDE DEF T
    <3> QED
      BY <2>1, <2>2, UpTo
  <2> QED
    BY <1>3, <1>10, <2>3
<1>12. r[0] = CrcInit /\ Crc16(s) = r[n]
  BY <1>3, <1>9, <1>11, <1>a
<1> QED
  BY <1>0, <1>3, <1>4, <1>12 DEF Sums

LEMMA CrcType ==
  ASSUME NEW s \in Seq(Byte)
  PROVE  Crc16(s) \in Word
<1>0. Len(s) \in 0..Len(s)
  OBVIOUS
<1>1. PICK r : Sums(r, s, Len(s))
  BY CrcRun
<1> QED
  BY <1>0, <1>1 DEF Sums

(* Whatever one byte is replaced by, the CRC shows it. *)
LEMMA OneByteShows ==
  ASSUME NEW s \in Seq(Byte), NEW t \in Seq(Byte), Len(s) = Len(t), NEW j \in 1..Len(s),
         s[j] # t[j], \A i \in 1..Len(s) : i # j => s[i] = t[i]
  PROVE  Crc16(s) # Crc16(t)
<1>0. PICK n \in Nat : n = Len(s) /\ n = Len(t)
  OBVIOUS
<1>1. PICK r : Sums(r, s, n)
  BY <1>0, CrcRun, Zenon
<1>2. PICK q : Sums(q, t, n)
  BY <1>0, CrcRun, Zenon
<1> DEFINE T == {i \in 0..n : IF i < j THEN r[i] = q[i] ELSE r[i] # q[i]}
<1>3. 0 \in T
  <2>1. r[0] = q[0]
    BY <1>1, <1>2 DEF Sums
  <2> QED
    BY <2>1
<1>4. ASSUME NEW i \in 1..n, i - 1 \in T
      PROVE  i \in T
  <2>1. r[i] = TakeIn(r[i - 1], s[i]) /\ q[i] = TakeIn(q[i - 1], t[i])
    BY <1>1, <1>2 DEF Sums
  <2>2. r[i - 1] \in Word /\ q[i - 1] \in Word
    BY <1>1, <1>2 DEF Sums
  <2>b. s[i] \in Byte /\ t[i] \in Byte
    BY <1>0
  <2>3. CASE i < j
    <3>1. s[i] = t[i] /\ r[i - 1] = q[i - 1]
      BY <1>0, <1>4, <2>3
    <3> QED
      BY <2>1, <2>3, <3>1
  <2>4. CASE i = j
    <3>1. r[i - 1] = q[i - 1] /\ s[i] # t[i]
      BY <1>4, <2>4
    <3>2. r[i] # q[i]
      BY <2>1, <2>2, <2>b, <3>1, TakeInKeepsByte
    <3> QED
      BY <2>4, <3>2
  <2>5. CASE i > j
    <3>1. r[i - 1] # q[i - 1] /\ s[i] = t[i]
      BY <1>0, <1>4, <2>5
    <3>2. r[i] # q[i]
      BY <2>1, <2>2, <2>b, <3>1, TakeInKeepsCrc
    <3> QED
      BY <2>5, <3>2
  <2> QED
    BY <2>3, <2>4, <2>5
<1>5. 0..n \subseteq T
  <2> HIDE DEF T
  <2> QED
    BY <1>3, <1>4, UpTo
<1>6. n \in T
  BY <1>5
<1>7. r[n] # q[n]
  BY <1>0, <1>6
<1> QED
  BY <1>1, <1>2, <1>7 DEF Sums

(* Whatever two neighbouring bytes are replaced by, the CRC shows it. *)
LEMMA NeighboursShow ==
  ASSUME NEW s \in Seq(Byte), NEW t \in Seq(Byte), Len(s) = Len(t), NEW j \in 1..Len(s),
         j + 1 \in 1..Len(s), s[j] # t[j] \/ s[j + 1] # t[j + 1],
         \A i \in 1..Len(s) : i # j /\ i # j + 1 => s[i] = t[i]
  PROVE  Crc16(s) # Crc16(t)
<1>0. PICK n \in Nat : n = Len(s) /\ n = Len(t)
  OBVIOUS
<1>1. PICK r : Sums(r, s, n)
  BY <1>0, CrcRun, Zenon
<1>2. PICK q : Sums(q, t, n)
  BY <1>0, CrcRun, Zenon
<1>w. \A i \in 0..n : r[i] \in Word /\ q[i] \in Word
  BY <1>1, <1>2 DEF Sums
<1>s. \A i \in 1..n : r[i] = TakeIn(r[i - 1], s[i]) /\ q[i] = TakeIn(q[i - 1], t[i])
  BY <1>1, <1>2 DEF Sums
<1>b. \A i \in 1..n : s[i] \in Byte /\ t[i] \in Byte
  BY <1>0
<1> DEFINE T == {i \in 0..n : /\ i < j => r[i] = q[i]
                              /\ i = j => r[j - 1] = q[j - 1]
                              /\ i > j => r[i] # q[i]}
<1>3. 0 \in T
  <2>1. r[0] = q[0]
    BY <1>1, <1>2 DEF Sums
  <2> QED
    BY <2>1
<1>4. ASSUME NEW i \in 1..n, i - 1 \in T
      PROVE  i \in T
  <2>2. r[i - 1] \in Word /\ q[i - 1] \in Word /\ s[i] \in Byte /\ t[i] \in Byte
    BY <1>w, <1>b
  <2>3. CASE i < j
    <3>1. s[i] = t[i] /\ r[i - 1] = q[i - 1]
      BY <1>0, <1>4, <2>3
    <3>2. r[i] = q[i]
      BY <1>s, <3>1
    <3> QED
      BY <2>3, <3>2
  <2>4. CASE i = j
    BY <1>4, <2>4
  <2>5. CASE i = j + 1
    <3>1. PICK k \in 1..n : k = j /\ k = i - 1
      BY <1>0, <2>5
    <3>2. r[k - 1] = q[k - 1] /\ (s[k] # t[k] \/ s[i] # t[i])
      BY <1>4, <2>5, <3>1
    <3>3. r[k - 1] \in Word /\ s[k] \in Byte /\ t[k] \in Byte
      BY <1>w, <1>b
    <3>4. /\ r[i] = TakeIn(TakeIn(r[k - 1], s[k]), s[i])
          /\ q[i] = TakeIn(TakeIn(r[k - 1], t[k]), t[i])
      BY <1>s, <3>1, <3>2
    <3>5. r[i] # q[i]
      BY <2>2, <3>2, <3>3, <3>4, TakeInKeepsPair
    <3> QED
      BY <2>5, <3>5
  <2>6. CASE i > j + 1
    <3>1. r[i - 1] # q[i - 1] /\ s[i] = t[i]
      BY <1>0, <1>4, <2>6
    <3>2. r[i] # q[i]
      BY <1>s, <2>2, <3>1, TakeInKeepsCrc
    <3> QED
      BY <2>6, <3>2
  <2> QED
    BY <2>3, <2>4, <2>5, <2>6
<1>5. 0..n \subseteq T
  <2> HIDE DEF T
  <2> QED
    BY <1>3, <1>4, UpTo
<1>6. n \in T /\ n > j
  BY <1>0, <1>5
<1>7. r[n] # q[n]
  BY <1>6
<1> QED
  BY <1>1, <1>2, <1>7 DEF Sums

-----------------------------------------------------------------------------
LEMMA Longs == \A n \in Long : n \in Nat /\ n \div 65536 \in Word
BY SMT DEF Long

LEMMA TwoOctets ==
  ASSUME NEW n \in Word
  PROVE  \E a, b \in Byte : U16LE(n) = <<a, b>> /\ n = a + 256 * b
<1>0. n \in Nat /\ n < 65536
  BY Words
<1>1. PICK q \in Nat, r \in Nat : q = n \div 256 /\ r = n % 256 /\ n = 256 * q + r /\ r < 256
  BY <1>0, SMT
<1>2. q < 256
  BY <1>0, <1>1, SMT
<1>3. q % 256 = q
  BY <1>2, SMT
<1>4. U16LE(n) = <<r, q>>
  BY <1>1, <1>3 DEF U16LE
<1>5. n = r + 256 * q
  BY <1>1
<1>6. r \in Byte /\ q \in Byte
  BY <1>1, <1>2, Octets
<1> QED
  BY <1>4, <1>5, <1>6


LEMMA FourOctets ==
  ASSUME NEW n \in Long
  PROVE  \E lo, hi \in Word : U32LE(n) = U16LE(lo) \o U16LE(hi) /\ n = lo + 65536 * hi
<1>0. n \in Nat /\ n \div 65536 \in Word
  BY Longs
<1>1. PICK q \in Nat, r \in Nat : q = n \div 65536 /\ r = n % 65536 /\ n = 65536 * q + r /\ r < 65536
  BY <1>0, SMT
<1>2. q < 65536
  BY <1>0, <1>1, Words
<1>3. PICK a \in Nat, b \in Nat : a = r \div 256 /\ b = r % 256 /\ r = 256 * a + b /\ b < 256 /\ a < 256
  BY <1>1, SMT
<1>4. n % 256 = b /\ (n \div 256) % 256 = a
  <2>1. n = 256 * (256 * q + a) + b
    BY <1>1, <1>3, SMT
  <2>2. PICK u \in Nat : u = 256 * q + a
    OBVIOUS
  <2>3. n = 256 * u + b
    BY <2>1, <2>2
  <2>4. n % 256 = b /\ n \div 256 = u
    BY <1>3, <2>3, SMT
  <2>5. u % 256 = a
    BY <1>3, <2>2, SMT
  <2> QED
    BY <2>4, <2>5
<1>5. U16LE(n) = U16LE(r)
  <2>1. a % 256 = a
    BY <1>3, SMT
  <2> QED
    BY <1>3, <1>4, <2>1 DEF U16LE
<1>6. n = r + 65536 * q /\ r \in Word /\ q \in Word
  BY <1>1, <1>2, Words, SMT
<1>7. U32LE(n) = U16LE(r) \o U16LE(q)
  BY <1>1, <1>5 DEF U32LE
<1> QED
  BY <1>6, <1>7

-----------------------------------------------------------------------------
(* s stands in f behind at bytes. *)
At(f, at, s) == at + Len(s) <= Len(f) /\ \A i \in 1..Len(s) : f[at + i] = s[i]

LEMMA AtEnd ==
  ASSUME NEW s \in Seq(Byte), NEW t \in Seq(Byte)
  PROVE  s \o t \in Seq(Byte) /\ Len(s \o t) = Len(s) + Len(t) /\ At(s \o t, Len(s), t) /\ At(s \o t, 0, s)
BY DEF At

LEMMA AtStays ==
  ASSUME NEW s \in Seq(Byte), NEW t \in Seq(Byte), NEW at \in Nat, NEW p \in Seq(Byte), At(s, at, p)
  PROVE  At(s \o t, at, p)
<1>0. at + Len(p) <= Len(s)
  BY DEF At
<1>1. at + Len(p) <= Len(s \o t)
  BY <1>0
<1>2. ASSUME NEW i \in 1..Len(p)
      PROVE  (s \o t)[at + i] = p[i]
  <2>1. at + i \in 1..Len(s) /\ s[at + i] = p[i]
    BY <1>0 DEF At
  <2> QED
    BY <2>1
<1> QED
  BY <1>1, <1>2 DEF At

LEMMA ReadsWord ==
  ASSUME NEW f \in Seq(Byte), NEW at \in Nat, NEW n \in Word, At(f, at, U16LE(n))
  PROVE  ReadU16LE(f, at) = n
<1>1. PICK a \in Byte, b \in Byte : U16LE(n) = <<a, b>> /\ n = a + 256 * b
  BY TwoOctets
<1>2. f[at + 1] = a /\ f[at + 2] = b
  BY <1>1 DEF At
<1> QED
  BY <1>1, <1>2 DEF ReadU16LE

LEMMA WordBytes ==
  ASSUME NEW n \in Word
  PROVE  U16LE(n) \in Seq(Byte) /\ Len(U16LE(n)) = 2
<1>1. PICK a \in Byte, b \in Byte : U16LE(n) = <<a, b>>
  BY TwoOctets
<1> QED
  BY <1>1

LEMMA AtParts ==
  ASSUME NEW f \in Seq(Byte), NEW at \in Nat, NEW p \in Seq(Byte), NEW q \in Seq(Byte), At(f, at, p \o q)
  PROVE  At(f, at, p) /\ At(f, at + Len(p), q)
<1>1. Len(p \o q) = Len(p) + Len(q)
  OBVIOUS
<1>2. at + Len(p) + Len(q) <= Len(f)
  BY <1>1 DEF At
<1>3. ASSUME NEW i \in 1..Len(p)
      PROVE  f[at + i] = p[i]
  <2>1. i \in 1..Len(p \o q) /\ (p \o q)[i] = p[i]
    BY <1>1
  <2> QED
    BY <2>1 DEF At
<1>4. ASSUME NEW i \in 1..Len(q)
      PROVE  f[at + Len(p) + i] = q[i]
  <2>1. PICK j \in 1..Len(p \o q) : j = Len(p) + i /\ (p \o q)[j] = q[i]
    BY <1>1
  <2>2. f[at + j] = q[i]
    BY <2>1 DEF At
  <2>3. at + j = at + Len(p) + i
    BY <2>1
  <2> QED
    BY <2>2, <2>3
<1> QED
  BY <1>2, <1>3, <1>4 DEF At

LEMMA ReadsLong ==
  ASSUME NEW f \in Seq(Byte), NEW at \in Nat, NEW n \in Long, At(f, at, U32LE(n))
  PROVE  ReadU32LE(f, at) = n
<1>1. PICK lo \in Word, hi \in Word : U32LE(n) = U16LE(lo) \o U16LE(hi) /\ n = lo + 65536 * hi
  BY FourOctets
<1>2. U16LE(lo) \in Seq(Byte) /\ U16LE(hi) \in Seq(Byte) /\ Len(U16LE(lo)) = 2
  BY WordBytes
<1>3. At(f, at, U16LE(lo)) /\ At(f, at + 2, U16LE(hi))
  <2>1. PICK p \in Seq(Byte), q \in Seq(Byte) : p = U16LE(lo) /\ q = U16LE(hi)
    BY <1>2
  <2>0. At(f, at, p \o q)
    BY <1>1, <2>1
  <2>2. At(f, at, p) /\ At(f, at + Len(p), q)
    BY <2>0, AtParts
  <2> QED
    BY <1>2, <2>1, <2>2
<1>4. ReadU16LE(f, at) = lo /\ ReadU16LE(f, at + 2) = hi
  BY <1>3, ReadsWord
<1> QED
  BY <1>1, <1>4 DEF ReadU32LE

LEMMA LongBytes ==
  ASSUME NEW n \in Long
  PROVE  U32LE(n) \in Seq(Byte) /\ Len(U32LE(n)) = 4
<1>1. PICK lo \in Word, hi \in Word : U32LE(n) = U16LE(lo) \o U16LE(hi)
  BY FourOctets
<1>2. U16LE(lo) \in Seq(Byte) /\ U16LE(hi) \in Seq(Byte) /\ Len(U16LE(lo)) = 2 /\ Len(U16LE(hi)) = 2
  BY WordBytes
<1>3. PICK p \in Seq(Byte), q \in Seq(Byte) : p = U16LE(lo) /\ q = U16LE(hi)
  BY <1>2
<1>4. p \o q \in Seq(Byte) /\ Len(p \o q) = Len(p) + Len(q)
  BY AtEnd
<1> QED
  BY <1>1, <1>2, <1>3, <1>4

-----------------------------------------------------------------------------
(* f starts with the fields of pkt and its payload. *)
Carries(f, pkt) ==
  /\ At(f, 0, U16LE(Magic))
  /\ At(f, 2, <<pkt.version, pkt.type, pkt.flags>>)
  /\ At(f, 5, U16LE(pkt.sequence))
  /\ At(f, 7, U16LE(pkt.source_id))
  /\ At(f, 9, U16LE(pkt.dest_id))
  /\ At(f, 11, <<pkt.hop_count, pkt.ttl>>)
  /\ At(f, 13, U32LE(pkt.timestamp))
  /\ At(f, 17, U16LE(Len(pkt.payload)))
  /\ At(f, 19, pkt.payload)

PiecesTyped(pkt) ==
  /\ U16LE(Magic) \in Seq(Byte) /\ Len(U16LE(Magic)) = 2
  /\ <<pkt.version, pkt.type, pkt.flags>> \in Seq(Byte) /\ Len(<<pkt.version, pkt.type, pkt.flags>>) = 3
  /\ U16LE(pkt.sequence) \in Seq(Byte) /\ Len(U16LE(pkt.sequence)) = 2
  /\ U16LE(pkt.source_id) \in Seq(Byte) /\ Len(U16LE(pkt.source_id)) = 2
  /\ U16LE(pkt.dest_id) \in Seq(Byte) /\ Len(U16LE(pkt.dest_id)) = 2
  /\ <<pkt.hop_count, pkt.ttl>> \in Seq(Byte) /\ Len(<<pkt.hop_count, pkt.ttl>>) = 2
  /\ U32LE(pkt.timestamp) \in Seq(Byte) /\ Len(U32LE(pkt.timestamp)) = 4
  /\ U16LE(Len(pkt.payload)) \in Seq(Byte) /\ Len(U16LE(Len(pkt.payload))) = 2
  /\ pkt.payload \in Seq(Byte)

LEMMA Pieces ==
  ASSUME NEW pkt \in PacketType, Len(pkt.payload) \in Word
  PROVE  PiecesTyped(pkt)
<1>1. Magic \in Word
  BY Words, SMT DEF Magic
<1>2. Version \in Byte
  BY Octets DEF Version
<1>3. /\ pkt.version \in Byte /\ pkt.type \in Byte /\ pkt.flags \in Byte /\ pkt.sequence \in Word
      /\ pkt.source_id \in Word /\ pkt.dest_id \in Word /\ pkt.hop_count \in Byte /\ pkt.ttl \in Byte
      /\ pkt.timestamp \in Long /\ pkt.payload \in Seq(Byte)
  BY <1>2 DEF PacketType
<1>4. <<pkt.version, pkt.type, pkt.flags>> \in Seq(Byte) /\ Len(<<pkt.version, pkt.type, pkt.flags>>) = 3
  BY <1>3
<1>5. <<pkt.hop_count, pkt.ttl>> \in Seq(Byte) /\ Len(<<pkt.hop_count, pkt.ttl>>) = 2
  BY <1>3
<1> QED
  BY <1>1, <1>3, <1>4, <1>5, WordBytes, LongBytes DEF PiecesTyped

LEMMA CarriesStays ==
  ASSUME NEW pkt \in PacketType, Len(pkt.payload) \in Word,
         NEW f \in Seq(Byte), NEW t \in Seq(Byte), Carries(f, pkt)
  PROVE  Carries(f \o t, pkt)
<1>1. PiecesTyped(pkt)
  BY Pieces
<1> QED
  BY <1>1, AtStays DEF Carries, PiecesTyped

(* What stands in s stands in t. *)
Onto(s, t) == \A at \in Nat, p \in Seq(Byte) : At(s, at, p) => At(t, at, p)

Joined(s, n, q, m, t) == t \in Seq(Byte) /\ Len(t) = n + m /\ At(t, n, q) /\ Onto(s, t)

LEMMA OneMore ==
  ASSUME NEW s \in Seq(Byte), NEW q \in Seq(Byte), NEW n, NEW m, n = Len(s), m = Len(q)
  PROVE  Joined(s, n, q, m, s \o q)
BY AtEnd, AtStays DEF Onto, Joined

LEMMA BodyCarries ==
  ASSUME NEW pkt \in PacketType, Len(pkt.payload) \in Word
  PROVE  Body(pkt) \in Seq(Byte) /\ Len(Body(pkt)) = HeaderSize + Len(pkt.payload) /\ Carries(Body(pkt), pkt)
<1>0. PiecesTyped(pkt)
  BY Pieces
<1>q1. PICK q1 \in Seq(Byte) : q1 = U16LE(Magic) /\ Len(q1) = 2
  BY <1>0 DEF PiecesTyped
<1>q2. PICK q2 \in Seq(Byte) : q2 = <<pkt.version, pkt.type, pkt.flags>> /\ Len(q2) = 3
  BY <1>0 DEF PiecesTyped
<1>q3. PICK q3 \in Seq(Byte) : q3 = U16LE(pkt.sequence) /\ Len(q3) = 2
  BY <1>0 DEF PiecesTyped
<1>q4. PICK q4 \in Seq(Byte) : q4 = U16LE(pkt.source_id) /\ Len(q4) = 2
  BY <1>0 DEF PiecesTyped
<1>q5. PICK q5 \in Seq(Byte) : q5 = U16LE(pkt.dest_id) /\ Len(q5) = 2
  BY <1>0 DEF PiecesTyped
<1>q6. PICK q6 \in Seq(Byte) : q6 = <<pkt.hop_count, pkt.ttl>> /\ Len(q6) = 2
  BY <1>0 DEF PiecesTyped
<1>q7. PICK q7 \in Seq(Byte) : q7 = U32LE(pkt.timestamp) /\ Len(q7) = 4
  BY <1>0 DEF PiecesTyped
<1>q8. PICK q8 \in Seq(Byte) : q8 = U16LE(Len(pkt.payload)) /\ Len(q8) = 2
  BY <1>0 DEF PiecesTyped
<1>q9. PICK q9 \in Seq(Byte) : q9 = pkt.payload
  BY <1>0 DEF PiecesTyped
<1>p1. Len(q1) = 2 /\ At(q1, 0, q1)
  BY <1>q1 DEF At
<1>d2. PICK p2 : p2 = q1 \o q2
  OBVIOUS
<1>p2. p2 \in Seq(Byte) /\ Len(p2) = 5 /\ At(p2, 2, q2) /\ Onto(q1, p2)
  <2>1. Joined(q1, 2, q2, 3, q1 \o q2)
    BY <1>p1, <1>q2, <1>q1, OneMore
  <2> QED
    BY <1>d2, <2>1 DEF Joined
<1>d3. PICK p3 : p3 = p2 \o q3
  OBVIOUS
<1>p3. p3 \in Seq(Byte) /\ Len(p3) = 7 /\ At(p3, 5, q3) /\ Onto(p2, p3)
  <2>1. Joined(p2, 5, q3, 2, p2 \o q3)
    BY <1>p2, <1>q3, OneMore
  <2> QED
    BY <1>d3, <2>1 DEF Joined
<1>d4. PICK p4 : p4 = p3 \o q4
  OBVIOUS
<1>p4. p4 \in Seq(Byte) /\ Len(p4) = 9 /\ At(p4, 7, q4) /\ Onto(p3, p4)
  <2>1. Joined(p3, 7, q4, 2, p3 \o q4)
    BY <1>p3, <1>q4, OneMore
  <2> QED
    BY <1>d4, <2>1 DEF Joined
<1>d5. PICK p5 : p5 = p4 \o q5
  OBVIOUS
<1>p5. p5 \in Seq(Byte) /\ Len(p5) = 11 /\ At(p5, 9, q5) /\ Onto(p4, p5)
  <2>1. Joined(p4, 9, q5, 2, p4 \o q5)
    BY <1>p4, <1>q5, OneMore
  <2> QED
    BY <1>d5, <2>1 DEF Joined
<1>d6. PICK p6 : p6 = p5 \o q6
  OBVIOUS
<1>p6. p6 \in Seq(Byte) /\ Len(p6) = 13 /\ At(p6, 11, q6) /\ Onto(p5, p6)
  <2>1. Joined(p5, 11, q6, 2, p5 \o q6)
    BY <1>p5, <1>q6, OneMore
  <2> QED
    BY <1>d6, <2>1 DEF Joined
<1>d7. PICK p7 : p7 = p6 \o q7
  OBVIOUS
<1>p7. p7 \in Seq(Byte) /\ Len(p7) = 17 /\ At(p7, 13, q7) /\ Onto(p6, p7)
  <2>1. Joined(p6, 13, q7, 4, p6 \o q7)
    BY <1>p6, <1>q7, OneMore
  <2> QED
    BY <1>d7, <2>1 DEF Joined
<1>d8. PICK p8 : p8 = p7 \o q8
  OBVIOUS
<1>p8. p8 \in Seq(Byte) /\ Len(p8) = 19 /\ At(p8, 17, q8) /\ Onto(p7, p8)
  <2>1. Joined(p7, 17, q8, 2, p7 \o q8)
    BY <1>p7, <1>q8, OneMore
  <2> QED
    BY <1>d8, <2>1 DEF Joined
<1>d9. PICK p9 : p9 = p8 \o q9
  OBVIOUS
<1>p9. p9 \in Seq(Byte) /\ Len(p9) = 19 + Len(q9) /\ At(p9, 19, q9) /\ Onto(p8, p9)
  <2>1. Joined(p8, 19, q9, Len(q9), p8 \o q9)
    BY <1>p8, OneMore
  <2> QED
    BY <1>d9, <2>1 DEF Joined
<1>1. Body(pkt) = p9
  BY <1>q1, <1>q2, <1>q3, <1>q4, <1>q5, <1>q6, <1>q7, <1>q8, <1>q9,
     <1>d2, <1>d3, <1>d4, <1>d5, <1>d6, <1>d7, <1>d8, <1>d9 DEF Body
<1>a1. At(p9, 0, q1)
  BY <1>p1, <1>p2, <1>p3, <1>p4, <1>p5, <1>p6, <1>p7, <1>p8, <1>p9 DEF Onto
<1>a2. At(p9, 2, q2)
  BY <1>p2, <1>p3, <1>p4, <1>p5, <1>p6, <1>p7, <1>p8, <1>p9 DEF Onto
<1>a3. At(p9, 5, q3)
  BY <1>p3, <1>p4, <1>p5, <1>p6, <1>p7, <1>p8, <1>p9 DEF Onto
<1>a4. At(p9, 7, q4)
  BY <1>p4, <1>p5, <1>p6, <1>p7, <1>p8, <1>p9 DEF Onto
<1>a5. At(p9, 9, q5)
  BY <1>p5, <1>p6, <1>p7, <1>p8, <1>p9 DEF Onto
<1>a6. At(p9, 11, q6)
  BY <1>p6, <1>p7, <1>p8, <1>p9 DEF Onto
<1>a7. At(p9, 13, q7)
  BY <1>p7, <1>p8, <1>p9 DEF Onto
<1>a8. At(p9, 17, q8)
  BY <1>p8, <1>p9 DEF Onto
<1>a9. At(p9, 19, q9)
  BY <1>p9 DEF Onto
<1>2. Carries(p9, pkt)
  BY <1>a1, <1>q1, <1>a2, <1>q2, <1>a3, <1>q3, <1>a4, <1>q4, <1>a5, <1>q5, <1>a6, <1>q6, <1>a7,
     <1>q7, <1>a8, <1>q8, <1>a9, <1>q9 DEF Carries
<1> QED
  BY <1>1, <1>2, <1>p9, <1>q9 DEF HeaderSize

LEMMA AtIsSubSeq ==
  ASSUME NEW f \in Seq(Byte), NEW at \in Nat, NEW p \in Seq(Byte), At(f, at, p)
  PROVE  SubSeq(f, at + 1, at + Len(p)) = p
<1>1. PICK n \in Nat : n = Len(p)
  OBVIOUS
<1>2. PICK q : q = SubSeq(f, at + 1, at + n)
  OBVIOUS
<1>3. at + n <= Len(f)
  BY <1>1 DEF At
<1>4. q \in Seq(Byte) /\ Len(q) = n
  BY <1>1, <1>2, <1>3
<1>5. ASSUME NEW i \in 1..n
      PROVE  q[i] = p[i]
  <2>1. q[i] = f[at + i]
    BY <1>1, <1>2, <1>3
  <2> QED
    BY <1>1, <2>1 DEF At
<1>6. q = p
  BY <1>1, <1>4, <1>5
<1> QED
  BY <1>1, <1>2, <1>6

LEMMA LengthIsWord ==
  ASSUME NEW pkt \in PacketType, Encodable(pkt)
  PROVE  Len(pkt.payload) \in Word
<1>1. pkt.payload \in Seq(Byte)
  BY DEF PacketType
<1>2. Len(pkt.payload) \in Nat /\ Len(pkt.payload) <= MaxPayload
  BY <1>1 DEF Encodable
<1> QED
  BY <1>2, Words, MaxPayloadAssumption

(* What a frame is made of, whatever follows it. *)
FrameOf(f, pkt, n) ==
  /\ f \in Seq(Byte) /\ Len(f) >= HeaderSize + n + CrcSize
  /\ Carries(f, pkt)
  /\ At(f, 0, Body(pkt))
  /\ At(f, HeaderSize + n, U16LE(Crc16(Body(pkt))))

LEMMA EncodeIs ==
  ASSUME NEW pkt \in PacketType, Encodable(pkt), NEW tail \in Seq(Byte), NEW n, n = Len(pkt.payload)
  PROVE  /\ Encode(pkt) \in Seq(Byte) /\ Len(Encode(pkt)) = HeaderSize + n + CrcSize
         /\ FrameOf(Encode(pkt) \o tail, pkt, n) /\ FrameOf(Encode(pkt), pkt, n)
<1>0. n \in Word /\ n \in Nat /\ Len(pkt.payload) \in Word
  BY LengthIsWord, Words
<1>1. PICK b \in Seq(Byte) : b = Body(pkt) /\ Len(b) = HeaderSize + n /\ Carries(b, pkt)
  BY <1>0, BodyCarries
<1>2. PICK c \in Seq(Byte) : c = U16LE(Crc16(b)) /\ Len(c) = CrcSize
  BY CrcType, WordBytes DEF CrcSize
<1>3. PICK e : e = b \o c
  OBVIOUS
<1>4. Joined(b, HeaderSize + n, c, CrcSize, b \o c)
  BY <1>1, <1>2, OneMore
<1>5. e \in Seq(Byte) /\ Len(e) = HeaderSize + n + CrcSize /\ At(e, HeaderSize + n, c) /\ Onto(b, e)
  BY <1>3, <1>4 DEF Joined
<1>6. e = Encode(pkt)
  BY <1>1, <1>2, <1>3 DEF Encode
<1>7. At(b, 0, b)
  BY DEF At
<1>8. Carries(e, pkt) /\ At(e, 0, b)
  <2>1. Carries(b \o c, pkt)
    BY <1>0, <1>1, CarriesStays
  <2>2. At(b \o c, 0, b)
    BY AtEnd
  <2> QED
    BY <1>3, <2>1, <2>2
<1>9. FrameOf(e, pkt, n)
  BY <1>0, <1>1, <1>2, <1>5, <1>8 DEF FrameOf, HeaderSize, CrcSize
<1>10. FrameOf(e \o tail, pkt, n)
  <2>1. e \o tail \in Seq(Byte) /\ Len(e \o tail) >= Len(e)
    BY <1>5
  <2>2. Carries(e \o tail, pkt)
    BY <1>0, <1>5, <1>8, CarriesStays
  <2>3. At(e \o tail, 0, b)
    BY <1>5, <1>8, AtStays
  <2>4. At(e \o tail, HeaderSize + n, c)
    BY <1>0, <1>5, AtStays DEF HeaderSize
  <2>5. Len(e \o tail) >= HeaderSize + n + CrcSize
    BY <1>0, <1>5, <2>1 DEF HeaderSize, CrcSize
  <2> QED
    BY <1>1, <1>2, <2>1, <2>2, <2>3, <2>4, <2>5 DEF FrameOf
<1> QED
  BY <1>5, <1>6, <1>9, <1>10

LEMMA HeaderRead ==
  ASSUME NEW pkt \in PacketType, NEW n \in Word, n = Len(pkt.payload), NEW f, FrameOf(f, pkt, n)
  PROVE  /\ ReadU16LE(f, 0) = Magic /\ f[3] = pkt.version /\ f[4] = pkt.type /\ f[5] = pkt.flags
         /\ ReadU16LE(f, 5) = pkt.sequence /\ ReadU16LE(f, 7) = pkt.source_id
         /\ ReadU16LE(f, 9) = pkt.dest_id /\ f[12] = pkt.hop_count /\ f[13] = pkt.ttl
         /\ ReadU32LE(f, 13) = pkt.timestamp /\ PayloadLen(f) = n
<1>0. f \in Seq(Byte) /\ Carries(f, pkt)
  BY DEF FrameOf
<1>m. Magic \in Word
  BY Words, SMT DEF Magic
<1>1. ReadU16LE(f, 0) = Magic
  BY <1>0, <1>m, ReadsWord DEF Carries
<1>2. f[3] = pkt.version /\ f[4] = pkt.type /\ f[5] = pkt.flags
  BY <1>0 DEF Carries, At
<1>3. f[12] = pkt.hop_count /\ f[13] = pkt.ttl
  BY <1>0 DEF Carries, At
<1>4. ReadU16LE(f, 5) = pkt.sequence
  <2>1. pkt.sequence \in Word
    BY DEF PacketType
  <2> QED
    BY <1>0, <2>1, ReadsWord DEF Carries
<1>5. ReadU16LE(f, 7) = pkt.source_id
  <2>1. pkt.source_id \in Word
    BY DEF PacketType
  <2> QED
    BY <1>0, <2>1, ReadsWord DEF Carries
<1>6. ReadU16LE(f, 9) = pkt.dest_id
  <2>1. pkt.dest_id \in Word
    BY DEF PacketType
  <2> QED
    BY <1>0, <2>1, ReadsWord DEF Carries
<1>7. ReadU32LE(f, 13) = pkt.timestamp
  <2>1. pkt.timestamp \in Long
    BY DEF PacketType
  <2> QED
    BY <1>0, <2>1, ReadsLong DEF Carries
<1>8. PayloadLen(f) = n
  <2>1. ReadU16LE(f, 17) = n
    BY <1>0, ReadsWord DEF Carries
  <2> QED
    BY <2>1 DEF PayloadLen
<1> QED
  BY <1>1, <1>2, <1>3, <1>4, <1>5, <1>6, <1>7, <1>8

LEMMA FrameRead ==
  ASSUME NEW pkt \in PacketType, Encodable(pkt), NEW n, n = Len(pkt.payload), NEW f, FrameOf(f, pkt, n)
  PROVE  Decodable(f) /\ Decode(f) = pkt
<1>0. n \in Word /\ n \in Nat /\ n <= MaxPayload
  BY LengthIsWord, Words DEF Encodable
<1>1. f \in Seq(Byte) /\ Carries(f, pkt) /\ Len(f) >= HeaderSize + n + CrcSize
  BY DEF FrameOf
<1>2. PICK m : m = HeaderSize + n
  OBVIOUS
<1>3. m \in Nat /\ CrcAt(f) = m
  BY <1>0, <1>2, HeaderRead DEF CrcAt, HeaderSize
<1>4. SubSeq(f, HeaderSize + 1, m) = pkt.payload
  <2>1. pkt.payload \in Seq(Byte)
    BY DEF PacketType
  <2>2. At(f, HeaderSize, pkt.payload) /\ HeaderSize \in Nat
    BY <1>1 DEF Carries, HeaderSize
  <2>3. SubSeq(f, HeaderSize + 1, HeaderSize + Len(pkt.payload)) = pkt.payload
    BY <1>1, <2>1, <2>2, AtIsSubSeq
  <2> QED
    BY <1>2, <2>3
<1>5. SubSeq(f, 1, m) = Body(pkt)
  <2>1. PICK b \in Seq(Byte) : b = Body(pkt) /\ Len(b) = m
    BY <1>0, <1>2, BodyCarries
  <2>2. At(f, 0, b)
    BY <2>1 DEF FrameOf
  <2>3. SubSeq(f, 0 + 1, 0 + Len(b)) = b
    BY <1>1, <2>2, AtIsSubSeq
  <2>4. 0 + 1 = 1 /\ 0 + Len(b) = m
    BY <1>3, <2>1
  <2> QED
    BY <2>1, <2>3, <2>4
<1>6. ReadU16LE(f, m) = Crc16(Body(pkt))
  <2>1. Crc16(Body(pkt)) \in Word
    BY <1>0, BodyCarries, CrcType
  <2> QED
    BY <1>1, <1>2, <1>3, <2>1, ReadsWord DEF FrameOf
<1>7. CrcMatches(f)
  BY <1>3, <1>5, <1>6 DEF CrcMatches
<1>8. pkt.version = Version
  BY DEF PacketType
<1>9. Decodable(f)
  <2>1. Len(f) >= HeaderSize + CrcSize /\ Len(f) >= CrcAt(f) + CrcSize
    BY <1>0, <1>1, <1>2, <1>3 DEF HeaderSize, CrcSize
  <2> QED
    BY <1>0, <1>7, <1>8, <2>1, HeaderRead DEF Decodable
<1>10. Decode(f) = [version |-> pkt.version, type |-> pkt.type, flags |-> pkt.flags,
                    sequence |-> pkt.sequence, source_id |-> pkt.source_id, dest_id |-> pkt.dest_id,
                    hop_count |-> pkt.hop_count, ttl |-> pkt.ttl, timestamp |-> pkt.timestamp,
                    payload |-> pkt.payload]
  BY <1>0, <1>3, <1>4, HeaderRead DEF Decode
<1>11. Decode(f) = pkt
  BY <1>10 DEF PacketType
<1> QED
  BY <1>9, <1>11

-----------------------------------------------------------------------------
(* What encode writes is as long as wireSize says, and decode makes the    *)
(* packet of it that was encoded, every field of it and the payload, also  *)
(* when the receiver's buffer holds other bytes behind it.                 *)
THEOREM FrameCarriesPacket ==
  ASSUME NEW pkt \in PacketType, Encodable(pkt), NEW tail \in Seq(Byte)
  PROVE  /\ Encode(pkt) \in Seq(Byte) /\ Len(Encode(pkt)) = WireSize(pkt)
         /\ Decodable(Encode(pkt) \o tail) /\ Decode(Encode(pkt) \o tail) = pkt
<1>1. PICK n : n = Len(pkt.payload)
  OBVIOUS
<1>2. FrameOf(Encode(pkt) \o tail, pkt, n)
  BY <1>1, EncodeIs
<1>3. Decodable(Encode(pkt) \o tail) /\ Decode(Encode(pkt) \o tail) = pkt
  BY <1>1, <1>2, FrameRead
<1> QED
  BY <1>1, <1>3, EncodeIs DEF WireSize

(* A frame that was cut short, at whatever byte, is not decoded. *)
THEOREM CutShortIsRefused ==
  ASSUME NEW pkt \in PacketType, Encodable(pkt), NEW m \in 0..(Len(Encode(pkt)) - 1)
  PROVE  ~Decodable(SubSeq(Encode(pkt), 1, m))
<1>1. PICK n : n = Len(pkt.payload)
  OBVIOUS
<1>0. n \in Word /\ n \in Nat
  BY <1>1, LengthIsWord, Words
<1>2. PICK f \in Seq(Byte) : f = Encode(pkt) /\ Len(f) = HeaderSize + n + CrcSize /\ FrameOf(f, pkt, n)
  <2>1. <<>> \in Seq(Byte)
    OBVIOUS
  <2> QED
    BY <1>1, <2>1, EncodeIs
<1>3. PICK g : g = SubSeq(f, 1, m)
  OBVIOUS
<1>4. m \in Nat /\ m < HeaderSize + n + CrcSize
  BY <1>0, <1>2 DEF HeaderSize, CrcSize
<1>5. Len(g) = m /\ \A i \in 1..m : g[i] = f[i]
  BY <1>2, <1>3, <1>4
<1>6. ASSUME Decodable(g)
      PROVE  FALSE
  <2>1. m >= HeaderSize + CrcSize
    BY <1>5, <1>6 DEF Decodable
  <2>2. g[18] = f[18] /\ g[19] = f[19]
    BY <1>4, <1>5, <2>1 DEF HeaderSize, CrcSize
  <2>3. PayloadLen(g) = PayloadLen(f)
    BY <2>2 DEF PayloadLen, ReadU16LE
  <2>4. PayloadLen(g) = n
    BY <1>0, <1>1, <1>2, <2>3, HeaderRead
  <2>5. m >= HeaderSize + n + CrcSize
    BY <1>5, <1>6, <2>4 DEF Decodable, CrcAt
  <2> QED
    BY <1>0, <1>4, <2>5 DEF HeaderSize, CrcSize
<1> QED
  BY <1>2, <1>3, <1>6

(* Either the bytes that the CRC covers are intact and it is not, or it is *)
(* and they have another.                                                  *)
CrcsDiffer(f, g, m) ==
  \A s, t \in Seq(Byte) :
    /\ Len(s) = m /\ Len(t) = m
    /\ \A i \in 1..m : s[i] = f[i] /\ t[i] = g[i]
    => Crc16(s) # Crc16(t)

Damaged(f, g, m) ==
  \/ /\ \A i \in 1..m : g[i] = f[i]
     /\ g[m + 1] # f[m + 1] \/ g[m + 2] # f[m + 2]
  \/ g[m + 1] = f[m + 1] /\ g[m + 2] = f[m + 2] /\ CrcsDiffer(f, g, m)

LEMMA SameBytes ==
  ASSUME NEW m \in Nat, NEW s \in Seq(Byte), NEW t \in Seq(Byte), Len(s) = m, Len(t) = m,
         \A i \in 1..m : s[i] = t[i]
  PROVE  s = t
OBVIOUS

(* With the length intact the CRC is where it was: what is damaged are      *)
(* bytes it covers, and it shows it, or its own.                           *)
LEMMA DamageShows ==
  ASSUME NEW pkt \in PacketType, Encodable(pkt), NEW f, f = Encode(pkt), NEW g \in Seq(Byte),
         Len(g) = Len(f), g[18] = f[18], g[19] = f[19],
         NEW m, m = HeaderSize + Len(pkt.payload), Damaged(f, g, m)
  PROVE  ~Decodable(g)
<1>1. PICK n : n = Len(pkt.payload)
  OBVIOUS
<1>0. n \in Word /\ n \in Nat
  BY <1>1, LengthIsWord, Words
<1>2. f \in Seq(Byte) /\ Len(f) = HeaderSize + n + CrcSize /\ FrameOf(f, pkt, n)
  <2>1. <<>> \in Seq(Byte)
    OBVIOUS
  <2> QED
    BY <1>1, <2>1, EncodeIs
<1>4. m \in Nat /\ m = HeaderSize + n /\ Len(f) = m + 2 /\ m >= 19
  BY <1>0, <1>1, <1>2 DEF HeaderSize, CrcSize
<1>5. PayloadLen(g) = n
  <2>2. PayloadLen(g) = PayloadLen(f)
    BY DEF PayloadLen, ReadU16LE
  <2> QED
    BY <1>0, <1>1, <1>2, <2>2, HeaderRead
<1>6. CrcAt(g) = m /\ CrcAt(f) = m
  BY <1>0, <1>1, <1>2, <1>4, <1>5, HeaderRead DEF CrcAt
<1>7. CrcMatches(f)
  BY <1>1, <1>2, FrameRead DEF Decodable
<1>8. PICK s : s = SubSeq(f, 1, m)
  OBVIOUS
<1>9. PICK t : t = SubSeq(g, 1, m)
  OBVIOUS
<1>10. /\ s \in Seq(Byte) /\ t \in Seq(Byte) /\ Len(s) = m /\ Len(t) = m
       /\ \A i \in 1..m : s[i] = f[i] /\ t[i] = g[i]
  BY <1>2, <1>4, <1>8, <1>9
<1>11. f[m + 1] + 256 * f[m + 2] = Crc16(s)
  BY <1>6, <1>7, <1>8 DEF CrcMatches, ReadU16LE
<1>12. ASSUME CrcMatches(g)
       PROVE  FALSE
  <2>1. g[m + 1] + 256 * g[m + 2] = Crc16(t)
    BY <1>6, <1>9, <1>12 DEF CrcMatches, ReadU16LE
  <2>2. CASE g[m + 1] = f[m + 1] /\ g[m + 2] = f[m + 2] /\ Crc16(s) # Crc16(t)
    BY <1>11, <2>1, <2>2
  <2>3. CASE /\ \A i \in 1..m : g[i] = f[i]
             /\ g[m + 1] # f[m + 1] \/ g[m + 2] # f[m + 2]
    <3>1. s = t
      <4>1. \A i \in 1..m : s[i] = t[i]
        BY <1>10, <2>3
      <4>2. s \in Seq(Byte) /\ t \in Seq(Byte) /\ Len(s) = m /\ Len(t) = m
        BY <1>10
      <4> QED
        BY <1>4, <4>1, <4>2, SameBytes
    <3>2. /\ f[m + 1] \in Nat /\ f[m + 1] < 256 /\ f[m + 2] \in Nat /\ f[m + 2] < 256
          /\ g[m + 1] \in Nat /\ g[m + 1] < 256 /\ g[m + 2] \in Nat /\ g[m + 2] < 256
      <4>1. f[m + 1] \in Byte /\ f[m + 2] \in Byte /\ g[m + 1] \in Byte /\ g[m + 2] \in Byte
        BY <1>2, <1>4
      <4> QED
        BY <4>1, Octets
    <3>3. g[m + 1] = f[m + 1] /\ g[m + 2] = f[m + 2]
      <4>1. f[m + 1] + 256 * f[m + 2] = g[m + 1] + 256 * g[m + 2]
        BY <1>11, <2>1, <3>1
      <4>2. PICK a \in Nat, b \in Nat : a = f[m + 1] /\ b = f[m + 2] /\ a < 256
        BY <3>2
      <4>3. PICK c \in Nat, d \in Nat : c = g[m + 1] /\ d = g[m + 2] /\ c < 256
        BY <3>2
      <4>4. a + 256 * b = c + 256 * d
        BY <4>1, <4>2, <4>3
      <4>5. a < 256 /\ c < 256
        BY <4>2, <4>3
      <4>6. a = c /\ b = d
        BY <4>4, <4>5
      <4> QED
        BY <4>2, <4>3, <4>6
    <3> QED
      BY <2>3, <3>3
  <2>4. CrcsDiffer(f, g, m) => Crc16(s) # Crc16(t)
    BY <1>10 DEF CrcsDiffer
  <2> QED
    BY <2>2, <2>3, <2>4 DEF Damaged
<1> QED
  BY <1>12 DEF Decodable

(* Where two sequences that are the same as two frames differ. *)
LEMMA DiffersThere ==
  ASSUME NEW m \in Nat, NEW s, NEW t, NEW f, NEW g, NEW A,
         \A i \in 1..m : s[i] = f[i] /\ t[i] = g[i], \A i \in 1..m : i \notin A => g[i] = f[i]
  PROVE  \A i \in 1..m : i \notin A => s[i] = t[i]
OBVIOUS

LEMMA DamagedOutsideLength ==
  ASSUME NEW pkt \in PacketType, Encodable(pkt), NEW g \in Seq(Byte), Len(g) = Len(Encode(pkt)),
         NEW j \in 1..Len(g), j \notin {18, 19}, g[j] # Encode(pkt)[j],
         \A i \in 1..Len(g) : i # j => g[i] = Encode(pkt)[i]
  PROVE  ~Decodable(g)
<1>1. PICK n \in Nat : n = Len(pkt.payload)
  BY LengthIsWord, Words
<1>2. PICK f \in Seq(Byte) : f = Encode(pkt) /\ Len(f) = HeaderSize + n + CrcSize
  <2>1. <<>> \in Seq(Byte)
    OBVIOUS
  <2> QED
    BY <1>1, <2>1, EncodeIs
<1>3. PICK m \in Nat : m = HeaderSize + n /\ Len(f) = m + 2 /\ m >= 19
  BY <1>1, <1>2 DEF HeaderSize, CrcSize
<1>4. /\ Len(g) = Len(f) /\ g[j] # f[j] /\ g[18] = f[18] /\ g[19] = f[19]
      /\ \A i \in 1..Len(f) : i \notin {j} => g[i] = f[i]
  BY <1>2, <1>3
<1>5. CASE j <= m
  <2>1. g[m + 1] = f[m + 1] /\ g[m + 2] = f[m + 2]
    BY <1>3, <1>4, <1>5
  <2>2. ASSUME NEW s \in Seq(Byte), NEW t \in Seq(Byte), Len(s) = m, Len(t) = m,
               \A i \in 1..m : s[i] = f[i] /\ t[i] = g[i]
        PROVE  Crc16(s) # Crc16(t)
    <3>1. j \in 1..Len(s) /\ j \in 1..m
      BY <1>5, <2>2
    <3>2. s[j] # t[j]
      BY <1>4, <2>2, <3>1
    <3>3. \A i \in 1..Len(s) : i # j => s[i] = t[i]
      <4>1. \A i \in 1..m : i \notin {j} => g[i] = f[i]
        BY <1>3, <1>4
      <4>2. \A i \in 1..m : i \notin {j} => s[i] = t[i]
        BY <2>2, <4>1, DiffersThere
      <4> QED
        BY <2>2, <4>2
    <3>4. s \in Seq(Byte) /\ t \in Seq(Byte) /\ Len(s) = Len(t)
      BY <2>2
    <3> QED
      BY <3>1, <3>2, <3>3, <3>4, OneByteShows
  <2>3. CrcsDiffer(f, g, m)
    BY <2>2 DEF CrcsDiffer
  <2>4. Damaged(f, g, m)
    BY <2>1, <2>3 DEF Damaged
  <2> QED
    BY <1>1, <1>2, <1>3, <1>4, <2>4, DamageShows
<1>6. CASE j > m
  <2>1. j = m + 1 \/ j = m + 2
    BY <1>3, <1>4, <1>6
  <2>2. \A i \in 1..m : g[i] = f[i]
    BY <1>3, <1>4, <1>6
  <2>3. g[m + 1] # f[m + 1] \/ g[m + 2] # f[m + 2]
    BY <1>4, <2>1
  <2>4. Damaged(f, g, m)
    BY <2>2, <2>3 DEF Damaged
  <2> QED
    BY <1>1, <1>2, <1>3, <1>4, <2>4, DamageShows
<1> QED
  BY <1>3, <1>5, <1>6

(* A frame with one wrong byte, whichever and whatever was made of it, is  *)
(* not decoded, unless it claims to be shorter than it is: then the CRC is *)
(* looked for elsewhere, and only chance keeps other bytes from matching.  *)
THEOREM DamagedByteIsRefused ==
  ASSUME NEW pkt \in PacketType, Encodable(pkt), NEW g \in Seq(Byte), Len(g) = Len(Encode(pkt)),
         NEW j \in 1..Len(g), g[j] # Encode(pkt)[j],
         \A i \in 1..Len(g) : i # j => g[i] = Encode(pkt)[i],
         j \in {18, 19} => PayloadLen(g) > Len(pkt.payload)
  PROVE  ~Decodable(g)
<1>1. CASE j \notin {18, 19}
  BY <1>1, DamagedOutsideLength
<1>2. CASE j \in {18, 19}
  <2>1. PICK n \in Nat : n = Len(pkt.payload)
    BY LengthIsWord, Words
  <2>2. Len(g) = HeaderSize + n + CrcSize
    <3>1. <<>> \in Seq(Byte)
      OBVIOUS
    <3> QED
      BY <2>1, <3>1, EncodeIs
  <2>3. PICK p \in Nat : p = PayloadLen(g) /\ p > n
    <3>1. g[18] \in Byte /\ g[19] \in Byte
      BY <2>1, <2>2 DEF HeaderSize, CrcSize
    <3>2. g[18] \in Nat /\ g[19] \in Nat
      BY <3>1, Octets
    <3>3. PayloadLen(g) = g[18] + 256 * g[19]
      BY DEF PayloadLen, ReadU16LE
    <3> QED
      BY <1>2, <2>1, <3>2, <3>3
  <2>4. Len(g) < CrcAt(g) + CrcSize
    BY <2>1, <2>2, <2>3 DEF CrcAt, HeaderSize, CrcSize
  <2> QED
    BY <2>1, <2>2, <2>3, <2>4 DEF Decodable, CrcAt, HeaderSize, CrcSize
<1> QED
  BY <1>1, <1>2

(* A frame with two wrong bytes next to each other, whatever was made of   *)
(* them, is not decoded, if its length is intact and they are not the last *)
(* that the CRC covers and the first of the CRC itself.  (Which is stored  *)
(* low byte first, so this pair is no burst of the polynomial: flips       *)
(* 0x89, 0xA1 there are not noticed.)  encode, decode, crc16.              *)
THEOREM DamagedPairIsRefused ==
  ASSUME NEW pkt \in PacketType, Encodable(pkt), NEW g \in Seq(Byte), Len(g) = Len(Encode(pkt)),
         NEW j \in 1..(Len(g) - 1), g[j] # Encode(pkt)[j] \/ g[j + 1] # Encode(pkt)[j + 1],
         \A i \in 1..Len(g) : i \notin {j, j + 1} => g[i] = Encode(pkt)[i],
         g[18] = Encode(pkt)[18], g[19] = Encode(pkt)[19],
         j # HeaderSize + Len(pkt.payload)
  PROVE  ~Decodable(g)
<1>1. PICK n \in Nat : n = Len(pkt.payload)
  BY LengthIsWord, Words
<1>2. PICK f \in Seq(Byte) : f = Encode(pkt) /\ Len(f) = HeaderSize + n + CrcSize
  <2>1. <<>> \in Seq(Byte)
    OBVIOUS
  <2> QED
    BY <1>1, <2>1, EncodeIs
<1>3. PICK m \in Nat : m = HeaderSize + n /\ Len(f) = m + 2 /\ m >= 19
  BY <1>1, <1>2 DEF HeaderSize, CrcSize
<1>k. PICK k \in 1..Len(f) : k = j + 1
  BY <1>2
<1>4. /\ Len(g) = Len(f) /\ (g[j] # f[j] \/ g[k] # f[k])
      /\ g[18] = f[18] /\ g[19] = f[19]
      /\ \A i \in 1..Len(f) : i \notin {j, k} => g[i] = f[i]
  BY <1>2, <1>k
<1>5. CASE k <= m
  <2>1. g[m + 1] = f[m + 1] /\ g[m + 2] = f[m + 2]
    BY <1>3, <1>4, <1>5, <1>k
  <2>2. ASSUME NEW s \in Seq(Byte), NEW t \in Seq(Byte), Len(s) = m, Len(t) = m,
               \A i \in 1..m : s[i] = f[i] /\ t[i] = g[i]
        PROVE  Crc16(s) # Crc16(t)
    <3>1. j \in 1..Len(s) /\ j + 1 \in 1..Len(s) /\ j \in 1..m /\ k \in 1..m
      BY <1>5, <1>k, <2>2
    <3>2. s[j] # t[j] \/ s[j + 1] # t[j + 1]
      BY <1>4, <1>k, <2>2, <3>1
    <3>3. \A i \in 1..Len(s) : i # j /\ i # j + 1 => s[i] = t[i]
      <4>1. \A i \in 1..m : i \notin {j, k} => g[i] = f[i]
        BY <1>3, <1>4
      <4>2. \A i \in 1..m : i \notin {j, k} => s[i] = t[i]
        BY <2>2, <4>1, DiffersThere
      <4> QED
        BY <1>k, <2>2, <4>2
    <3>4. s \in Seq(Byte) /\ t \in Seq(Byte) /\ Len(s) = Len(t)
      BY <2>2
    <3> QED
      BY <3>1, <3>2, <3>3, <3>4, NeighboursShow
  <2>3. CrcsDiffer(f, g, m)
    BY <2>2 DEF CrcsDiffer
  <2>4. Damaged(f, g, m)
    BY <2>1, <2>3 DEF Damaged
  <2> QED
    BY <1>1, <1>2, <1>3, <1>4, <2>4, DamageShows
<1>6. CASE k > m
  <2>1. j = m + 1 /\ k = m + 2
    BY <1>1, <1>3, <1>6, <1>k
  <2>2. \A i \in 1..m : g[i] = f[i]
    BY <1>3, <1>4, <2>1
  <2>3. Damaged(f, g, m)
    BY <1>4, <2>1, <2>2 DEF Damaged
  <2> QED
    BY <1>1, <1>2, <1>3, <1>4, <2>3, DamageShows
<1> QED
  BY <1>3, <1>5, <1>6, <1>k

-----------------------------------------------------------------------------
(* The polynomial has an even number of terms, so a step changes the       *)
(* parity of the ones in the register by the bit it takes in: in a frame   *)
(* that is accepted the ones are even in number.                           *)
WordOnes(x) ==
  BitAt(x, 1) + BitAt(x, 2) + BitAt(x, 4) + BitAt(x, 8) + BitAt(x, 16)
  + BitAt(x, 32) + BitAt(x, 64) + BitAt(x, 128) + BitAt(x, 256)
  + BitAt(x, 512) + BitAt(x, 1024) + BitAt(x, 2048) + BitAt(x, 4096)
  + BitAt(x, 8192) + BitAt(x, 16384) + BitAt(x, 32768)

ByteOnes(b) ==
  BitAt(b, 1) + BitAt(b, 2) + BitAt(b, 4) + BitAt(b, 8) + BitAt(b, 16)
  + BitAt(b, 32) + BitAt(b, 64) + BitAt(b, 128)

Even(n) == \E z \in Int : n = 2 * z

LEMMA ShiftedOnes ==
  ASSUME NEW x \in Nat, x < 65536, NEW t \in {0, 1}, t = 1 <=> x >= 32768,
         NEW y \in Nat, y = 2 * x - 65536 * t
  PROVE  WordOnes(y) = WordOnes(x) - t
<1>1. BitAt(y, 2) = BitAt(x, 1)
  BY SMT DEF BitAt
<1>2. BitAt(y, 4) = BitAt(x, 2)
  BY SMT DEF BitAt
<1>3. BitAt(y, 8) = BitAt(x, 4)
  BY SMT DEF BitAt
<1>4. BitAt(y, 16) = BitAt(x, 8)
  BY SMT DEF BitAt
<1>5. BitAt(y, 32) = BitAt(x, 16)
  BY SMT DEF BitAt
<1>6. BitAt(y, 64) = BitAt(x, 32)
  BY SMT DEF BitAt
<1>7. BitAt(y, 128) = BitAt(x, 64)
  BY SMT DEF BitAt
<1>8. BitAt(y, 256) = BitAt(x, 128)
  BY SMT DEF BitAt
<1>9. BitAt(y, 512) = BitAt(x, 256)
  BY SMT DEF BitAt
<1>10. BitAt(y, 1024) = BitAt(x, 512)
  BY SMT DEF BitAt
<1>11. BitAt(y, 2048) = BitAt(x, 1024)
  BY SMT DEF BitAt
<1>12. BitAt(y, 4096) = BitAt(x, 2048)
  BY SMT DEF BitAt
<1>13. BitAt(y, 8192) = BitAt(x, 4096)
  BY SMT DEF BitAt
<1>14. BitAt(y, 16384) = BitAt(x, 8192)
  BY SMT DEF BitAt
<1>15. BitAt(y, 32768) = BitAt(x, 16384)
  BY SMT DEF BitAt
<1>16. BitAt(y, 1) = 0 /\ BitAt(x, 32768) = t
  BY SMT DEF BitAt
<1>17. /\ BitAt(x, 1) \in Int /\ BitAt(x, 2) \in Int /\ BitAt(x, 4) \in Int /\ BitAt(x, 8) \in Int
       /\ BitAt(x, 16) \in Int /\ BitAt(x, 32) \in Int /\ BitAt(x, 64) \in Int /\ BitAt(x, 128) \in Int
       /\ BitAt(x, 256) \in Int /\ BitAt(x, 512) \in Int /\ BitAt(x, 1024) \in Int /\ BitAt(x, 2048) \in Int
       /\ BitAt(x, 4096) \in Int /\ BitAt(x, 8192) \in Int
       /\ BitAt(x, 16384) \in Int /\ BitAt(x, 32768) \in Int
  BY SMT DEF BitAt
<1> QED
  BY <1>1, <1>2, <1>3, <1>4, <1>5, <1>6, <1>7, <1>8, <1>9, <1>10, <1>11, <1>12, <1>13, <1>14,
     <1>15, <1>16, <1>17, SMT DEF WordOnes

LEMMA TurnedOnes ==
  ASSUME NEW x \in Nat, x < 65536, NEW t \in {0, 1}, t = 1 <=> x >= 32768,
         NEW e \in {0, 1}, e = (x \div 2048) % 2, NEW f \in {0, 1}, f = (x \div 16) % 2,
         NEW y \in Nat, y = 2 * x - 65536 * t + (4096 - 8192 * e) + (32 - 64 * f) + 1
  PROVE  WordOnes(y) = WordOnes(x) - t + 3 - 2 * e - 2 * f
<1>1. BitAt(y, 2) = BitAt(x, 1)
  BY SMT DEF BitAt
<1>2. BitAt(y, 4) = BitAt(x, 2)
  BY SMT DEF BitAt
<1>3. BitAt(y, 8) = BitAt(x, 4)
  BY SMT DEF BitAt
<1>4. BitAt(y, 16) = BitAt(x, 8)
  BY SMT DEF BitAt
<1>5. BitAt(y, 32) = 1 - BitAt(x, 16)
  BY SMT DEF BitAt
<1>6. BitAt(y, 64) = BitAt(x, 32)
  BY SMT DEF BitAt
<1>7. BitAt(y, 128) = BitAt(x, 64)
  BY SMT DEF BitAt
<1>8. BitAt(y, 256) = BitAt(x, 128)
  BY SMT DEF BitAt
<1>9. BitAt(y, 512) = BitAt(x, 256)
  BY SMT DEF BitAt
<1>10. BitAt(y, 1024) = BitAt(x, 512)
  BY SMT DEF BitAt
<1>11. BitAt(y, 2048) = BitAt(x, 1024)
  BY SMT DEF BitAt
<1>12. BitAt(y, 4096) = 1 - BitAt(x, 2048)
  BY SMT DEF BitAt
<1>13. BitAt(y, 8192) = BitAt(x, 4096)
  BY SMT DEF BitAt
<1>14. BitAt(y, 16384) = BitAt(x, 8192)
  BY SMT DEF BitAt
<1>15. BitAt(y, 32768) = BitAt(x, 16384)
  BY SMT DEF BitAt
<1>16. BitAt(y, 1) = 1 /\ BitAt(x, 32768) = t
  BY SMT DEF BitAt
<1>17. /\ BitAt(x, 1) \in Int /\ BitAt(x, 2) \in Int /\ BitAt(x, 4) \in Int /\ BitAt(x, 8) \in Int
       /\ BitAt(x, 16) \in Int /\ BitAt(x, 32) \in Int /\ BitAt(x, 64) \in Int /\ BitAt(x, 128) \in Int
       /\ BitAt(x, 256) \in Int /\ BitAt(x, 512) \in Int /\ BitAt(x, 1024) \in Int /\ BitAt(x, 2048) \in Int
       /\ BitAt(x, 4096) \in Int /\ BitAt(x, 8192) \in Int
       /\ BitAt(x, 16384) \in Int /\ BitAt(x, 32768) \in Int
  BY SMT DEF BitAt
<1>18. BitAt(x, 16) = f /\ BitAt(x, 2048) = e
  BY SMT DEF BitAt
<1>19. WordOnes(y) = WordOnes(x) - t + 3 - 2 * BitAt(x, 2048) - 2 * BitAt(x, 16)
  BY <1>1, <1>2, <1>3, <1>4, <1>5, <1>6, <1>7, <1>8, <1>9, <1>10, <1>11, <1>12, <1>13, <1>14, <1>15, <1>16,
     <1>17, SMT DEF WordOnes
<1> QED
  BY <1>18, <1>19

LEMMA StepParity ==
  ASSUME NEW x \in Word, NEW b \in {0, 1}
  PROVE  Even(WordOnes(ShiftIn(x, b)) - WordOnes(x) - b)
<1>0. PICK n \in Nat : n = x /\ n < 65536
  BY Words
<1>1. PICK y \in Nat : y = ShiftIn(x, b)
  BY ShiftInIs, Words
<1>2. PICK t \in {0, 1} : t = Top(x) /\ (t = 1 <=> n >= 32768)
  BY <1>0 DEF Top
<1>3. WordOnes(n) \in Int
  BY SMT DEF WordOnes, BitAt
<1>4. CASE t = b
  <2>t. Top(x) = b
    BY <1>2, <1>4
  <2>s. y = Shifted(n)
    BY <1>0, <1>1, <2>t, ShiftInIs
  <2>0. y = 2 * n - 65536 * t
    BY <1>0, <1>2, <2>s DEF Shifted
  <2>1. WordOnes(y) = WordOnes(n) - t
    BY <1>0, <1>2, <2>0, ShiftedOnes
  <2>2. PICK z \in Int : z = 0 - b
    OBVIOUS
  <2>3. WordOnes(y) - WordOnes(n) - b = 2 * z
    BY <1>3, <1>4, <2>1, <2>2
  <2> QED
    BY <1>0, <1>1, <2>3 DEF Even
<1>5. CASE t # b
  <2>e. PICK e \in {0, 1} : e = (n \div 2048) % 2 /\ Toggle(n, 2048) = 4096 - 8192 * e
    BY SMT DEF Toggle
  <2>f. PICK f \in {0, 1} : f = (n \div 16) % 2 /\ Toggle(n, 16) = 32 - 64 * f
    BY SMT DEF Toggle
  <2>s. y = Shifted(n) + Toggle(n, 2048) + Toggle(n, 16) + 1
    BY <1>0, <1>1, <1>2, <1>5, ShiftInIs
  <2>h. Shifted(n) = 2 * n - 65536 * t
    BY <1>0, <1>2 DEF Shifted
  <2>0. y = 2 * n - 65536 * t + (4096 - 8192 * e) + (32 - 64 * f) + 1
    <3>1. PICK m \in Int : m = Shifted(n) /\ m = 2 * n - 65536 * t
      BY <2>h
    <3>2. PICK u \in Int : u = Toggle(n, 2048) /\ u = 4096 - 8192 * e
      BY <2>e
    <3>3. PICK v \in Int : v = Toggle(n, 16) /\ v = 32 - 64 * f
      BY <2>f
    <3>4. y = m + u + v + 1
      BY <2>s, <3>1, <3>2, <3>3
    <3> QED
      BY <3>1, <3>2, <3>3, <3>4, SMT
  <2>1. WordOnes(y) = WordOnes(n) - t + 3 - 2 * e - 2 * f
    BY <1>0, <1>2, <2>0, <2>e, <2>f, TurnedOnes
  <2>2. PICK z \in Int : z = 1 - e - f
    OBVIOUS
  <2>3. WordOnes(y) - WordOnes(n) - b = 2 * z
    BY <1>3, <1>5, <2>1, <2>2, SMT
  <2> QED
    BY <1>0, <1>1, <2>3 DEF Even
<1> QED
  BY <1>4, <1>5

LEMMA EvenSum ==
  ASSUME NEW a \in Int, NEW b \in Int, Even(a), Even(b)
  PROVE  Even(a + b) /\ Even(a - b)
<1>1. PICK y \in Int : a = 2 * y
  BY DEF Even
<1>2. PICK z \in Int : b = 2 * z
  BY DEF Even
<1>3. a + b = 2 * (y + z) /\ a - b = 2 * (y - z) /\ y + z \in Int /\ y - z \in Int
  BY <1>1, <1>2
<1> QED
  BY <1>3 DEF Even

LEMMA WordOnesType ==
  ASSUME NEW x \in Word
  PROVE  WordOnes(x) \in Int
<1>1. PICK n \in Nat : n = x
  BY Words
<1>2. WordOnes(n) \in Int
  BY SMT DEF WordOnes, BitAt
<1> QED
  BY <1>1, <1>2

(* The ones a byte has, by its bits. *)
LEMMA ByteOnesIs ==
  ASSUME NEW b \in Byte
  PROVE  /\ ByteOnes(b) = Bit(b, 0) + Bit(b, 1) + Bit(b, 2) + Bit(b, 3)
                            + Bit(b, 4) + Bit(b, 5) + Bit(b, 6) + Bit(b, 7)
         /\ ByteOnes(b) \in Int /\ \A k \in 0..7 : Bit(b, k) \in {0, 1}
<1>1. ByteOnes(b) = Bit(b, 0) + Bit(b, 1) + Bit(b, 2) + Bit(b, 3)
                      + Bit(b, 4) + Bit(b, 5) + Bit(b, 6) + Bit(b, 7)
  BY MorePowers DEF ByteOnes, BitAt, Bit
<1>2. \A k \in 0..7 : Bit(b, k) \in {0, 1}
  BY Octets, BitType
<1>3. /\ Bit(b, 0) \in Int /\ Bit(b, 1) \in Int /\ Bit(b, 2) \in Int /\ Bit(b, 3) \in Int
      /\ Bit(b, 4) \in Int /\ Bit(b, 5) \in Int /\ Bit(b, 6) \in Int /\ Bit(b, 7) \in Int
  BY <1>2
<1> QED
  BY <1>1, <1>2, <1>3

LEMMA TakeInParity ==
  ASSUME NEW x \in Word, NEW c \in Byte
  PROVE  Even(WordOnes(TakeIn(x, c)) - WordOnes(x) - ByteOnes(c))
<1>1. PICK r \in [0..8 -> Word] :
        /\ r[0] = x /\ TakeIn(x, c) = r[8]
        /\ \A k \in 1..8 : r[k] = ShiftIn(r[k - 1], Bit(c, 8 - k))
  BY TakeInRun
<1>b. /\ ByteOnes(c) = Bit(c, 0) + Bit(c, 1) + Bit(c, 2) + Bit(c, 3)
                         + Bit(c, 4) + Bit(c, 5) + Bit(c, 6) + Bit(c, 7)
      /\ \A k \in 0..7 : Bit(c, k) \in {0, 1}
  BY ByteOnesIs
<1>s. ASSUME NEW k \in 1..8, NEW j \in 0..7, j = k - 1
      PROVE  \E z \in Int : WordOnes(r[k]) = WordOnes(r[j]) + Bit(c, 7 - j) + 2 * z
  <2>1. 8 - k = 7 - j /\ 7 - j \in 0..7 /\ r[j] \in Word /\ r[k] \in Word
    BY <1>s
  <2>2. r[k] = ShiftIn(r[j], Bit(c, 7 - j)) /\ Bit(c, 7 - j) \in {0, 1}
    BY <1>1, <1>b, <1>s, <2>1
  <2>3. Even(WordOnes(r[k]) - WordOnes(r[j]) - Bit(c, 7 - j))
    BY <2>1, <2>2, StepParity
  <2>4. PICK z \in Int : WordOnes(r[k]) - WordOnes(r[j]) - Bit(c, 7 - j) = 2 * z
    BY <2>3 DEF Even
  <2>5. WordOnes(r[k]) \in Int /\ WordOnes(r[j]) \in Int /\ Bit(c, 7 - j) \in Int
    BY <2>1, <2>2, WordOnesType
  <2> QED
    BY <2>4, <2>5
<1>w0. PICK w0 \in Int : w0 = WordOnes(r[0])
  BY WordOnesType
<1>c0. PICK c0 \in Int : c0 = Bit(c, 0)
  BY <1>b
<1>w1. PICK w1 \in Int : w1 = WordOnes(r[1])
  BY WordOnesType
<1>c1. PICK c1 \in Int : c1 = Bit(c, 1)
  BY <1>b
<1>w2. PICK w2 \in Int : w2 = WordOnes(r[2])
  BY WordOnesType
<1>c2. PICK c2 \in Int : c2 = Bit(c, 2)
  BY <1>b
<1>w3. PICK w3 \in Int : w3 = WordOnes(r[3])
  BY WordOnesType
<1>c3. PICK c3 \in Int : c3 = Bit(c, 3)
  BY <1>b
<1>w4. PICK w4 \in Int : w4 = WordOnes(r[4])
  BY WordOnesType
<1>c4. PICK c4 \in Int : c4 = Bit(c, 4)
  BY <1>b
<1>w5. PICK w5 \in Int : w5 = WordOnes(r[5])
  BY WordOnesType
<1>c5. PICK c5 \in Int : c5 = Bit(c, 5)
  BY <1>b
<1>w6. PICK w6 \in Int : w6 = WordOnes(r[6])
  BY WordOnesType
<1>c6. PICK c6 \in Int : c6 = Bit(c, 6)
  BY <1>b
<1>w7. PICK w7 \in Int : w7 = WordOnes(r[7])
  BY WordOnesType
<1>c7. PICK c7 \in Int : c7 = Bit(c, 7)
  BY <1>b
<1>w8. PICK w8 \in Int : w8 = WordOnes(r[8])
  BY WordOnesType
<1>z1. PICK z1 \in Int : w1 = w0 + c7 + 2 * z1
  <2>1. \E z \in Int : WordOnes(r[1]) = WordOnes(r[0]) + Bit(c, 7) + 2 * z
    BY <1>s
  <2> QED
    BY <2>1, <1>w1, <1>w0, <1>c7
<1>z2. PICK z2 \in Int : w2 = w1 + c6 + 2 * z2
  <2>1. \E z \in Int : WordOnes(r[2]) = WordOnes(r[1]) + Bit(c, 6) + 2 * z
    BY <1>s
  <2> QED
    BY <2>1, <1>w2, <1>w1, <1>c6
<1>z3. PICK z3 \in Int : w3 = w2 + c5 + 2 * z3
  <2>1. \E z \in Int : WordOnes(r[3]) = WordOnes(r[2]) + Bit(c, 5) + 2 * z
    BY <1>s
  <2> QED
    BY <2>1, <1>w3, <1>w2, <1>c5
<1>z4. PICK z4 \in Int : w4 = w3 + c4 + 2 * z4
  <2>1. \E z \in Int : WordOnes(r[4]) = WordOnes(r[3]) + Bit(c, 4) + 2 * z
    BY <1>s
  <2> QED
    BY <2>1, <1>w4, <1>w3, <1>c4
<1>z5. PICK z5 \in Int : w5 = w4 + c3 + 2 * z5
  <2>1. \E z \in Int : WordOnes(r[5]) = WordOnes(r[4]) + Bit(c, 3) + 2 * z
    BY <1>s
  <2> QED
    BY <2>1, <1>w5, <1>w4, <1>c3
<1>z6. PICK z6 \in Int : w6 = w5 + c2 + 2 * z6
  <2>1. \E z \in Int : WordOnes(r[6]) = WordOnes(r[5]) + Bit(c, 2) + 2 * z
    BY <1>s
  <2> QED
    BY <2>1, <1>w6, <1>w5, <1>c2
<1>z7. PICK z7 \in Int : w7 = w6 + c1 + 2 * z7
  <2>1. \E z \in Int : WordOnes(r[7]) = WordOnes(r[6]) + Bit(c, 1) + 2 * z
    BY <1>s
  <2> QED
    BY <2>1, <1>w7, <1>w6, <1>c1
<1>z8. PICK z8 \in Int : w8 = w7 + c0 + 2 * z8
  <2>1. \E z \in Int : WordOnes(r[8]) = WordOnes(r[7]) + Bit(c, 0) + 2 * z
    BY <1>s
  <2> QED
    BY <2>1, <1>w8, <1>w7, <1>c0
<1>2. w8 - w0 - (c0 + c1 + c2 + c3 + c4 + c5 + c6 + c7) = 2 * (z1 + z2 + z3 + z4 + z5 + z6 + z7 + z8)
  BY <1>z1, <1>z2, <1>z3, <1>z4, <1>z5, <1>z6, <1>z7, <1>z8
<1>3. ByteOnes(c) = c0 + c1 + c2 + c3 + c4 + c5 + c6 + c7
  BY <1>b, <1>c0, <1>c1, <1>c2, <1>c3, <1>c4, <1>c5, <1>c6, <1>c7
<1>4. w8 = WordOnes(TakeIn(x, c)) /\ w0 = WordOnes(x)
  BY <1>1, <1>w8, <1>w0
<1>5. PICK z \in Int : z = z1 + z2 + z3 + z4 + z5 + z6 + z7 + z8
  OBVIOUS
<1>6. WordOnes(TakeIn(x, c)) - WordOnes(x) - ByteOnes(c) = 2 * z
  BY <1>2, <1>3, <1>4, <1>5
<1> QED
  BY <1>6 DEF Even

(* The ones of a word are those of its two bytes. *)
LEMMA WordOfBytes ==
  ASSUME NEW a \in Byte, NEW b \in Byte
  PROVE  WordOnes(a + 256 * b) = ByteOnes(a) + ByteOnes(b)
<1>0. PICK m \in Nat : m = a /\ m < 256
  BY Octets
<1>1. PICK n \in Nat : n = b /\ n < 256
  BY Octets
<1>2. PICK x \in Nat : x = m + 256 * n
  OBVIOUS
<1>l0. BitAt(x, 1) = BitAt(m, 1) /\ BitAt(m, 1) \in Int
  BY <1>0, <1>1, <1>2, SMT DEF BitAt
<1>l1. BitAt(x, 2) = BitAt(m, 2) /\ BitAt(m, 2) \in Int
  BY <1>0, <1>1, <1>2, SMT DEF BitAt
<1>l2. BitAt(x, 4) = BitAt(m, 4) /\ BitAt(m, 4) \in Int
  BY <1>0, <1>1, <1>2, SMT DEF BitAt
<1>l3. BitAt(x, 8) = BitAt(m, 8) /\ BitAt(m, 8) \in Int
  BY <1>0, <1>1, <1>2, SMT DEF BitAt
<1>l4. BitAt(x, 16) = BitAt(m, 16) /\ BitAt(m, 16) \in Int
  BY <1>0, <1>1, <1>2, SMT DEF BitAt
<1>l5. BitAt(x, 32) = BitAt(m, 32) /\ BitAt(m, 32) \in Int
  BY <1>0, <1>1, <1>2, SMT DEF BitAt
<1>l6. BitAt(x, 64) = BitAt(m, 64) /\ BitAt(m, 64) \in Int
  BY <1>0, <1>1, <1>2, SMT DEF BitAt
<1>l7. BitAt(x, 128) = BitAt(m, 128) /\ BitAt(m, 128) \in Int
  BY <1>0, <1>1, <1>2, SMT DEF BitAt
<1>h0. BitAt(x, 256) = BitAt(n, 1) /\ BitAt(n, 1) \in Int
  BY <1>0, <1>1, <1>2, SMT DEF BitAt
<1>h1. BitAt(x, 512) = BitAt(n, 2) /\ BitAt(n, 2) \in Int
  BY <1>0, <1>1, <1>2, SMT DEF BitAt
<1>h2. BitAt(x, 1024) = BitAt(n, 4) /\ BitAt(n, 4) \in Int
  BY <1>0, <1>1, <1>2, SMT DEF BitAt
<1>h3. BitAt(x, 2048) = BitAt(n, 8) /\ BitAt(n, 8) \in Int
  BY <1>0, <1>1, <1>2, SMT DEF BitAt
<1>h4. BitAt(x, 4096) = BitAt(n, 16) /\ BitAt(n, 16) \in Int
  BY <1>0, <1>1, <1>2, SMT DEF BitAt
<1>h5. BitAt(x, 8192) = BitAt(n, 32) /\ BitAt(n, 32) \in Int
  BY <1>0, <1>1, <1>2, SMT DEF BitAt
<1>h6. BitAt(x, 16384) = BitAt(n, 64) /\ BitAt(n, 64) \in Int
  BY <1>0, <1>1, <1>2, SMT DEF BitAt
<1>h7. BitAt(x, 32768) = BitAt(n, 128) /\ BitAt(n, 128) \in Int
  BY <1>0, <1>1, <1>2, SMT DEF BitAt
<1>3. WordOnes(x) = ByteOnes(m) + ByteOnes(n)
  BY <1>l0, <1>l1, <1>l2, <1>l3, <1>l4, <1>l5, <1>l6, <1>l7,
     <1>h0, <1>h1, <1>h2, <1>h3, <1>h4, <1>h5, <1>h6, <1>h7, SMT DEF WordOnes, ByteOnes
<1> QED
  BY <1>0, <1>1, <1>2, <1>3

(* The ones among the first n bits of a sequence of bytes. *)
FrameBit(f, p) == Bit(f[1 + p \div 8], p % 8)
Ones(f, n)  == {p \in 0..(n - 1) : FrameBit(f, p) = 1}

LEMMA OnesType ==
  ASSUME NEW f, NEW n \in Nat
  PROVE  IsFiniteSet(Ones(f, n)) /\ Cardinality(Ones(f, n)) \in Nat
<1>1. IsFiniteSet(0..(n - 1))
  BY FS_Interval
<1>2. Ones(f, n) \in SUBSET (0..(n - 1))
  BY DEF Ones
<1>3. IsFiniteSet(Ones(f, n))
  BY <1>1, <1>2, FS_Subset
<1> QED
  BY <1>3, FS_CardinalityType

LEMMA OneBitMore ==
  ASSUME NEW f, NEW n \in Nat, NEW k \in Nat, k = n + 1, FrameBit(f, n) \in {0, 1}
  PROVE  Cardinality(Ones(f, k)) = Cardinality(Ones(f, n)) + FrameBit(f, n)
<1>1. IsFiniteSet(Ones(f, n)) /\ n \notin Ones(f, n)
  BY OnesType DEF Ones
<1>2. CASE FrameBit(f, n) = 1
  <2>1. Ones(f, k) = Ones(f, n) \cup {n}
    BY <1>2 DEF Ones
  <2> QED
    BY <1>1, <1>2, <2>1, FS_AddElement
<1>3. CASE FrameBit(f, n) = 0
  <2>1. Ones(f, k) = Ones(f, n)
    BY <1>3 DEF Ones
  <2>2. Cardinality(Ones(f, n)) \in Nat
    BY OnesType
  <2> QED
    BY <1>3, <2>1, <2>2
<1> QED
  BY <1>2, <1>3

LEMMA FrameBitIs ==
  ASSUME NEW f, NEW m \in Nat, NEW i, i = m + 1, NEW k \in 0..7, NEW p \in Nat, p = 8 * m + k
  PROVE  FrameBit(f, p) = Bit(f[i], k)
<1>1. p \div 8 = m /\ p % 8 = k
  OBVIOUS
<1>2. 1 + p \div 8 = i
  BY <1>1
<1> QED
  BY <1>1, <1>2 DEF FrameBit

LEMMA OneByteMore ==
  ASSUME NEW f, NEW m \in Nat, NEW i, i = m + 1, f[i] \in Byte
  PROVE  Cardinality(Ones(f, 8 * i)) = Cardinality(Ones(f, 8 * m)) + ByteOnes(f[i])
<1>b. /\ ByteOnes(f[i]) = Bit(f[i], 0) + Bit(f[i], 1) + Bit(f[i], 2) + Bit(f[i], 3)
                            + Bit(f[i], 4) + Bit(f[i], 5) + Bit(f[i], 6) + Bit(f[i], 7)
      /\ \A k \in 0..7 : Bit(f[i], k) \in {0, 1}
  BY ByteOnesIs
<1>s. ASSUME NEW k \in 0..7, NEW p \in Nat, p = 8 * m + k, NEW q \in Nat, q = p + 1
      PROVE  Cardinality(Ones(f, q)) = Cardinality(Ones(f, p)) + Bit(f[i], k)
  <2>1. FrameBit(f, p) = Bit(f[i], k)
    BY <1>s, FrameBitIs
  <2>2. FrameBit(f, p) \in {0, 1}
    BY <1>b, <2>1
  <2> QED
    BY <1>s, <2>1, <2>2, OneBitMore
<1>p0. PICK p0 \in Nat : p0 = 8 * m + 0
  OBVIOUS
<1>p1. PICK p1 \in Nat : p1 = 8 * m + 1
  OBVIOUS
<1>p2. PICK p2 \in Nat : p2 = 8 * m + 2
  OBVIOUS
<1>p3. PICK p3 \in Nat : p3 = 8 * m + 3
  OBVIOUS
<1>p4. PICK p4 \in Nat : p4 = 8 * m + 4
  OBVIOUS
<1>p5. PICK p5 \in Nat : p5 = 8 * m + 5
  OBVIOUS
<1>p6. PICK p6 \in Nat : p6 = 8 * m + 6
  OBVIOUS
<1>p7. PICK p7 \in Nat : p7 = 8 * m + 7
  OBVIOUS
<1>p8. PICK p8 \in Nat : p8 = 8 * m + 8
  OBVIOUS
<1>w0. PICK w0 \in Nat : w0 = Cardinality(Ones(f, p0))
  BY OnesType
<1>w1. PICK w1 \in Nat : w1 = Cardinality(Ones(f, p1))
  BY OnesType
<1>w2. PICK w2 \in Nat : w2 = Cardinality(Ones(f, p2))
  BY OnesType
<1>w3. PICK w3 \in Nat : w3 = Cardinality(Ones(f, p3))
  BY OnesType
<1>w4. PICK w4 \in Nat : w4 = Cardinality(Ones(f, p4))
  BY OnesType
<1>w5. PICK w5 \in Nat : w5 = Cardinality(Ones(f, p5))
  BY OnesType
<1>w6. PICK w6 \in Nat : w6 = Cardinality(Ones(f, p6))
  BY OnesType
<1>w7. PICK w7 \in Nat : w7 = Cardinality(Ones(f, p7))
  BY OnesType
<1>w8. PICK w8 \in Nat : w8 = Cardinality(Ones(f, p8))
  BY OnesType
<1>c0. PICK c0 \in Int : c0 = Bit(f[i], 0)
  BY <1>b
<1>c1. PICK c1 \in Int : c1 = Bit(f[i], 1)
  BY <1>b
<1>c2. PICK c2 \in Int : c2 = Bit(f[i], 2)
  BY <1>b
<1>c3. PICK c3 \in Int : c3 = Bit(f[i], 3)
  BY <1>b
<1>c4. PICK c4 \in Int : c4 = Bit(f[i], 4)
  BY <1>b
<1>c5. PICK c5 \in Int : c5 = Bit(f[i], 5)
  BY <1>b
<1>c6. PICK c6 \in Int : c6 = Bit(f[i], 6)
  BY <1>b
<1>c7. PICK c7 \in Int : c7 = Bit(f[i], 7)
  BY <1>b
<1>s0. w1 = w0 + c0
  <2>1. Cardinality(Ones(f, p1)) = Cardinality(Ones(f, p0)) + Bit(f[i], 0)
    BY <1>s, <1>p0, <1>p1
  <2> QED
    BY <2>1, <1>w0, <1>w1, <1>c0
<1>s1. w2 = w1 + c1
  <2>1. Cardinality(Ones(f, p2)) = Cardinality(Ones(f, p1)) + Bit(f[i], 1)
    BY <1>s, <1>p1, <1>p2
  <2> QED
    BY <2>1, <1>w1, <1>w2, <1>c1
<1>s2. w3 = w2 + c2
  <2>1. Cardinality(Ones(f, p3)) = Cardinality(Ones(f, p2)) + Bit(f[i], 2)
    BY <1>s, <1>p2, <1>p3
  <2> QED
    BY <2>1, <1>w2, <1>w3, <1>c2
<1>s3. w4 = w3 + c3
  <2>1. Cardinality(Ones(f, p4)) = Cardinality(Ones(f, p3)) + Bit(f[i], 3)
    BY <1>s, <1>p3, <1>p4
  <2> QED
    BY <2>1, <1>w3, <1>w4, <1>c3
<1>s4. w5 = w4 + c4
  <2>1. Cardinality(Ones(f, p5)) = Cardinality(Ones(f, p4)) + Bit(f[i], 4)
    BY <1>s, <1>p4, <1>p5
  <2> QED
    BY <2>1, <1>w4, <1>w5, <1>c4
<1>s5. w6 = w5 + c5
  <2>1. Cardinality(Ones(f, p6)) = Cardinality(Ones(f, p5)) + Bit(f[i], 5)
    BY <1>s, <1>p5, <1>p6
  <2> QED
    BY <2>1, <1>w5, <1>w6, <1>c5
<1>s6. w7 = w6 + c6
  <2>1. Cardinality(Ones(f, p7)) = Cardinality(Ones(f, p6)) + Bit(f[i], 6)
    BY <1>s, <1>p6, <1>p7
  <2> QED
    BY <2>1, <1>w6, <1>w7, <1>c6
<1>s7. w8 = w7 + c7
  <2>1. Cardinality(Ones(f, p8)) = Cardinality(Ones(f, p7)) + Bit(f[i], 7)
    BY <1>s, <1>p7, <1>p8
  <2> QED
    BY <2>1, <1>w7, <1>w8, <1>c7
<1>1. w8 = w0 + (c0 + c1 + c2 + c3 + c4 + c5 + c6 + c7)
  BY <1>s0, <1>s1, <1>s2, <1>s3, <1>s4, <1>s5, <1>s6, <1>s7
<1>2. ByteOnes(f[i]) = c0 + c1 + c2 + c3 + c4 + c5 + c6 + c7
  BY <1>b, <1>c0, <1>c1, <1>c2, <1>c3, <1>c4, <1>c5, <1>c6, <1>c7
<1>3. p0 = 8 * m /\ p8 = 8 * i
  BY <1>p0, <1>p8
<1> QED
  BY <1>1, <1>2, <1>3, <1>w0, <1>w8

(* The register has as many ones as it took in, but for an even number. *)
LEMMA CrcParity ==
  ASSUME NEW s \in Seq(Byte)
  PROVE  Even(WordOnes(Crc16(s)) - Cardinality(Ones(s, 8 * Len(s))))
<1>0. PICK n \in Nat : n = Len(s)
  OBVIOUS
<1>1. PICK r : Sums(r, s, n)
  BY <1>0, CrcRun, Zenon
<1> DEFINE T == {i \in 0..n : Even(WordOnes(r[i]) - Cardinality(Ones(s, 8 * i)))}
<1>2. 0 \in T
  <2>1. Cardinality(Ones(s, 0)) = 0
    <3>1. Ones(s, 0) = {}
      BY DEF Ones
    <3> QED
      BY <3>1, FS_EmptySet
  <2>2. WordOnes(65535) = 16
    BY SMT DEF WordOnes, BitAt
  <2>3. r[0] = 65535
    BY <1>1 DEF Sums, CrcInit
  <2>z. PICK z \in Int : z = 8
    OBVIOUS
  <2>4. WordOnes(r[0]) - Cardinality(Ones(s, 0)) = 2 * z
    BY <2>1, <2>2, <2>3, <2>z
  <2>5. Even(WordOnes(r[0]) - Cardinality(Ones(s, 0)))
    BY <2>4 DEF Even
  <2>6. PICK y : y = 8 * 0 /\ y = 0
    OBVIOUS
  <2> QED
    BY <2>5, <2>6
<1>3. ASSUME NEW i \in 1..n, i - 1 \in T
      PROVE  i \in T
  <2>1. PICK m \in Nat : m \in 0..n /\ m = i - 1 /\ i = m + 1
    OBVIOUS
  <2>2. r[i] = TakeIn(r[m], s[i]) /\ r[i] \in Word /\ r[m] \in Word /\ s[i] \in Byte
    BY <1>0, <1>1, <2>1 DEF Sums
  <2>3. PICK a \in Int : a = WordOnes(r[i])
    BY <2>2, WordOnesType
  <2>4. PICK b \in Int : b = WordOnes(r[m])
    BY <2>2, WordOnesType
  <2>5. PICK c \in Int : c = ByteOnes(s[i])
    BY <2>2, ByteOnesIs
  <2>6. PICK d \in Int : d = Cardinality(Ones(s, 8 * m))
    BY OnesType
  <2>7. Cardinality(Ones(s, 8 * i)) = d + c
    <3>1. Cardinality(Ones(s, 8 * i)) = Cardinality(Ones(s, 8 * m)) + ByteOnes(s[i])
      BY <2>1, <2>2, OneByteMore
    <3> QED
      BY <2>5, <2>6, <3>1
  <2>8. Even(a - b - c)
    BY <2>2, <2>3, <2>4, <2>5, TakeInParity
  <2>9. Even(b - d)
    BY <1>3, <2>1, <2>4, <2>6
  <2>10. PICK e \in Int : e = a - b - c
    OBVIOUS
  <2>11. PICK h \in Int : h = b - d
    OBVIOUS
  <2>12. Even(e + h)
    BY <2>8, <2>9, <2>10, <2>11, EvenSum
  <2>13. e + h = a - (d + c)
    BY <2>10, <2>11
  <2> QED
    BY <2>3, <2>7, <2>12, <2>13
<1>4. n \in T
  <2> HIDE DEF T
  <2>1. 0..n \subseteq T
    BY <1>2, <1>3, UpTo
  <2> QED
    BY <2>1
<1>5. Crc16(s) = r[n]
  BY <1>1 DEF Sums
<1> QED
  BY <1>0, <1>4, <1>5

LEMMA SameOnes ==
  ASSUME NEW m \in Nat, NEW f, NEW g, \A i \in 1..m : f[i] = g[i]
  PROVE  Ones(f, 8 * m) = Ones(g, 8 * m)
<1>1. ASSUME NEW p \in 0..(8 * m - 1)
      PROVE  FrameBit(f, p) = FrameBit(g, p)
  <2>1. 1 + p \div 8 \in 1..m
    OBVIOUS
  <2> QED
    BY <2>1 DEF FrameBit
<1> QED
  BY <1>1 DEF Ones

(* Every frame that decode accepts has an even number of ones, from its    *)
(* first byte to the last one of its CRC, whoever made it and whatever     *)
(* comes behind.  decode, crc16.                                           *)
THEOREM FramesAreEven ==
  ASSUME NEW f \in Seq(Byte), Decodable(f)
  PROVE  Even(Cardinality(Ones(f, 8 * (CrcAt(f) + CrcSize))))
<1>1. PICK m \in Nat : m = CrcAt(f) /\ m + 2 <= Len(f)
  <2>1. 18 \in 1..Len(f) /\ 19 \in 1..Len(f)
    BY DEF Decodable, HeaderSize, CrcSize
  <2>2. f[18] \in Byte /\ f[19] \in Byte
    BY <2>1
  <2>3. f[18] \in Nat /\ f[19] \in Nat
    BY <2>2, Octets
  <2>4. CrcAt(f) \in Nat
    BY <2>3 DEF CrcAt, PayloadLen, ReadU16LE, HeaderSize
  <2> QED
    BY <2>4 DEF Decodable, CrcSize
<1>2. PICK s : s = SubSeq(f, 1, m)
  OBVIOUS
<1>3. s \in Seq(Byte) /\ Len(s) = m /\ \A i \in 1..m : s[i] = f[i]
  BY <1>1, <1>2
<1>k. PICK k \in Nat : k = m + 1
  OBVIOUS
<1>l. PICK l \in Nat : l = k + 1
  OBVIOUS
<1>4. f[k] \in Byte /\ f[l] \in Byte
  BY <1>1, <1>k, <1>l
<1>5. f[k] + 256 * f[l] = Crc16(s)
  BY <1>1, <1>2, <1>k, <1>l DEF Decodable, CrcMatches, ReadU16LE
<1>a. PICK a \in Int : a = ByteOnes(f[k])
  BY <1>4, ByteOnesIs
<1>b. PICK b \in Int : b = ByteOnes(f[l])
  BY <1>4, ByteOnesIs
<1>c. PICK c \in Int : c = Cardinality(Ones(f, 8 * m))
  BY OnesType
<1>6. WordOnes(Crc16(s)) = a + b
  BY <1>4, <1>5, <1>a, <1>b, WordOfBytes
<1>7. Cardinality(Ones(s, 8 * m)) = c
  BY <1>3, <1>c, SameOnes
<1>8. Even(a + b - c)
  BY <1>3, <1>6, <1>7, CrcParity
<1>9. Cardinality(Ones(f, 8 * k)) = c + a
  <2>1. Cardinality(Ones(f, 8 * k)) = Cardinality(Ones(f, 8 * m)) + ByteOnes(f[k])
    BY <1>4, <1>k, OneByteMore
  <2> QED
    BY <2>1, <1>a, <1>c
<1>10. Cardinality(Ones(f, 8 * l)) = c + a + b
  <2>1. Cardinality(Ones(f, 8 * l)) = Cardinality(Ones(f, 8 * k)) + ByteOnes(f[l])
    BY <1>4, <1>l, OneByteMore
  <2> QED
    BY <1>9, <2>1, <1>b
<1>11. PICK e \in Int : e = a + b - c
  OBVIOUS
<1>12. PICK z \in Int : e = 2 * z
  BY <1>8, <1>11 DEF Even
<1>13. PICK y \in Int : y = z + c
  OBVIOUS
<1>14. c + a + b = 2 * y
  BY <1>11, <1>12, <1>13
<1>15. CrcAt(f) + CrcSize = l
  BY <1>1, <1>k, <1>l DEF CrcSize
<1>16. Cardinality(Ones(f, 8 * (CrcAt(f) + CrcSize))) = 2 * y
  BY <1>10, <1>14, <1>15
<1> QED
  BY <1>16 DEF Even

LEMMA InOneOnly ==
  ASSUME NEW A, NEW B, IsFiniteSet(A), IsFiniteSet(B),
         Even(Cardinality(A)), Even(Cardinality(B))
  PROVE  Even(Cardinality((A \ B) \cup (B \ A)))
<1>a. PICK a \in Nat : a = Cardinality(A)
  BY FS_CardinalityType
<1>b. PICK b \in Nat : b = Cardinality(B)
  BY FS_CardinalityType
<1>0. IsFiniteSet(A \cap B)
  BY FS_Intersection
<1>c. PICK c \in Nat : c = Cardinality(A \cap B)
  BY <1>0, FS_CardinalityType
<1>1. IsFiniteSet(A \ B) /\ Cardinality(A \ B) = a - c
  BY <1>a, <1>c, FS_Difference
<1>2. IsFiniteSet(B \ A) /\ Cardinality(B \ A) = b - c
  <2>1. B \cap A = A \cap B
    OBVIOUS
  <2> QED
    BY <2>1, <1>b, <1>c, FS_Difference
<1>3. Cardinality((A \ B) \cap (B \ A)) = 0
  <2>1. (A \ B) \cap (B \ A) = {}
    OBVIOUS
  <2> QED
    BY <2>1, FS_EmptySet
<1>4. Cardinality((A \ B) \cup (B \ A)) = a + b - 2 * c
  <2>1. Cardinality((A \ B) \cup (B \ A))
          = Cardinality(A \ B) + Cardinality(B \ A) - Cardinality((A \ B) \cap (B \ A))
    BY <1>1, <1>2, FS_Union
  <2> QED
    BY <1>1, <1>2, <1>3, <2>1
<1>5. PICK y \in Int : a = 2 * y
  BY <1>a DEF Even
<1>6. PICK z \in Int : b = 2 * z
  BY <1>b DEF Even
<1>7. PICK x \in Int : x = y + z - c
  OBVIOUS
<1>8. Cardinality((A \ B) \cup (B \ A)) = 2 * x
  BY <1>4, <1>5, <1>6, <1>7
<1> QED
  BY <1>8 DEF Even

(* A frame in which an odd number of bits have flipped, wherever they are, *)
(* is not decoded, if its length is intact.  encode, decode, crc16.        *)
THEOREM OddDamageIsRefused ==
  ASSUME NEW pkt \in PacketType, Encodable(pkt), NEW g \in Seq(Byte), Len(g) = Len(Encode(pkt)),
         g[18] = Encode(pkt)[18], g[19] = Encode(pkt)[19],
         ~Even(Cardinality({p \in 0..(8 * Len(g) - 1) : FrameBit(g, p) # FrameBit(Encode(pkt), p)}))
  PROVE  ~Decodable(g)
<1>1. PICK n \in Nat : n = Len(pkt.payload) /\ n \in Word
  BY LengthIsWord, Words
<1>2. PICK f \in Seq(Byte) : f = Encode(pkt) /\ Len(f) = HeaderSize + n + CrcSize /\ FrameOf(f, pkt, n)
  <2>1. <<>> \in Seq(Byte)
    OBVIOUS
  <2> QED
    BY <1>1, <2>1, EncodeIs
<1>3. PICK l \in Nat : l = Len(f) /\ l = HeaderSize + n + CrcSize /\ l = Len(g)
  BY <1>1, <1>2 DEF HeaderSize, CrcSize
<1>4. PayloadLen(f) = n
  BY <1>1, <1>2, HeaderRead
<1>5. PayloadLen(g) = n
  BY <1>2, <1>4 DEF PayloadLen, ReadU16LE
<1>6. CrcAt(f) + CrcSize = l /\ CrcAt(g) + CrcSize = l
  BY <1>3, <1>4, <1>5 DEF CrcAt
<1>7. Decodable(f)
  BY <1>1, <1>2, FrameRead
<1> SUFFICES ASSUME Decodable(g)
             PROVE  FALSE
  OBVIOUS
<1>8. Even(Cardinality(Ones(f, 8 * l))) /\ Even(Cardinality(Ones(g, 8 * l)))
  BY <1>6, <1>7, FramesAreEven
<1>k. PICK k \in Nat : k = 8 * l
  OBVIOUS
<1>9. ASSUME NEW p \in 0..(k - 1)
      PROVE  FrameBit(f, p) \in {0, 1} /\ FrameBit(g, p) \in {0, 1}
  <2>1. 1 + p \div 8 \in 1..l /\ p % 8 \in 0..7
    BY <1>k
  <2>2. f[1 + p \div 8] \in Byte /\ g[1 + p \div 8] \in Byte
    BY <1>2, <1>3, <2>1
  <2> QED
    BY <2>1, <2>2, ByteOnesIs DEF FrameBit
<1>10. {p \in 0..(k - 1) : FrameBit(g, p) # FrameBit(f, p)}
         = (Ones(f, k) \ Ones(g, k)) \cup (Ones(g, k) \ Ones(f, k))
  BY <1>9 DEF Ones
<1>11. Even(Cardinality({p \in 0..(k - 1) : FrameBit(g, p) # FrameBit(f, p)}))
  <2>1. IsFiniteSet(Ones(f, k)) /\ IsFiniteSet(Ones(g, k))
    BY OnesType
  <2> QED
    BY <1>8, <1>k, <1>10, <2>1, InOneOnly
<1> QED
  BY <1>2, <1>3, <1>k, <1>11

=============================================================================
