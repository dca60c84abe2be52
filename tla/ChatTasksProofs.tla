-------------------------- MODULE ChatTasksProofs ----------------------------
(***************************************************************************)
(* The properties of ChatTasks for any number of tasks and messages and    *)
(* any capacities of the conversation and of the store.                    *)
(***************************************************************************)
EXTENDS ChatTasks, FiniteSetTheorems, TLAPS

(* The tasks that hold a slot or a number they read at one of these places. *)
At(labels) == {t \in Task : pc[t] \in labels}

SlotsAt(labels) == {reg[t].slot : t \in At(labels)}
ReadAt(labels)  == {reg[t].old : t \in At(labels)}

(* The only task that is in onInbound, with a message no other was in the  *)
(* way of.                                                                 *)
Undisturbed(t) == pc[t] # "idle" /\ reg[t].msg \notin crowded

(* The ranges that TypeOK leaves out.                                      *)
TypeInv ==
  /\ TypeOK
  /\ Len(ids) <= MaxMessages
  /\ shown \subseteq 1..Len(ids)
  /\ \A t \in Task :
       /\ pc[t] # "idle" => reg[t].msg \in 1..Len(ids)
       /\ pc[t] = "fill" => reg[t].slot < DisplayCapacity
       /\ pc[t] = "write" => reg[t].slot < StoreCapacity
       /\ pc[t] = "storeHead" => reg[t].old < DisplayCapacity
       /\ pc[t] = "storeOldest" => reg[t].old < StoreCapacity
       /\ pc[t] = "storeStored" => reg[t].old < StoreCapacity
  /\ store.count <= StoreCapacity

-----------------------------------------------------------------------------
(* Two tasks: each of those that are counting adds at most one more.       *)
Counting == {"fill", "loadCount", "storeCount"}

CountInv ==
  /\ conv.count <= DisplayCapacity + 1
  /\ \A t \in At(Counting) : conv.count <= DisplayCapacity
  /\ \A t, u \in At(Counting) : t # u => conv.count < DisplayCapacity
  /\ \A u \in At({"storeCount"}) :
       /\ reg[u].old <= DisplayCapacity
       /\ conv.count < DisplayCapacity => reg[u].old < DisplayCapacity
       /\ \A t \in At(Counting) : t # u => reg[u].old < DisplayCapacity

-----------------------------------------------------------------------------
(* What a task in the middle of an undisturbed message knows is still so.  *)
SoloInv(t) ==
  LET convEnd  == (conv.head + conv.count) % DisplayCapacity
      storeEnd == (store.head + store.count) % StoreCapacity
      m        == reg[t].msg IN
  /\ \A u \in Task \ {t} : pc[u] = "idle"
  /\ m = Len(ids) /\ m \notin shown
  /\ pc[t] \in Counting => conv.count < DisplayCapacity
  /\ pc[t] = "fill" => reg[t].slot = convEnd
  /\ pc[t] \in {"loadCount", "storeCount"} => conv.slots[convEnd] = m
  /\ pc[t] = "storeCount" => reg[t].old = conv.count
  /\ pc[t] \in {"replace", "loadHead", "storeHead"} => conv.count >= DisplayCapacity
  /\ pc[t] \in {"loadHead", "storeHead"} => conv.slots[conv.head] = m
  /\ pc[t] = "storeHead" => reg[t].old = conv.head
  /\ pc[t] = "write" => reg[t].slot = storeEnd
  /\ pc[t] \in {"advance", "storeStored", "storeOldest"} => store.slots[storeEnd] = m
  /\ pc[t] = "storeStored" => store.count < StoreCapacity /\ reg[t].old = store.count
  /\ pc[t] = "storeOldest" => store.count = StoreCapacity /\ reg[t].old = store.head

-----------------------------------------------------------------------------
(* The entry of a ring that slot p is, counted from head h.                *)
Pos(p, h, capacity) == IF p >= h THEN p - h ELSE p - h + capacity

Least(c, capacity) == IF c < capacity THEN c ELSE capacity

(* Message m is in slot p of the ring, whichever of the counts and heads   *)
(* that some task holds is written back; no task is about to write to the  *)
(* slot; and at most `room' entries of the ring are newer.                 *)
SafeAt(p, m, slots, capacity, counts, heads, targets, room) ==
  /\ slots[p] = m
  /\ p \notin targets
  /\ \A c \in counts, h \in heads :
       /\ Pos(p, h, capacity) < c
       /\ Least(c, capacity) - 1 - Pos(p, h, capacity) <= room

Safe(m, slots, capacity, counts, heads, targets, room) ==
  \E p \in 0..(capacity - 1) : SafeAt(p, m, slots, capacity, counts, heads, targets, room)

(* The counts and heads of the conversation that are in the variables, in  *)
(* a task, or (the capacity) what a task took the count to be.             *)
ConvFull   == {"replace", "loadHead", "storeHead"}
ConvCounts == {conv.count} \cup ReadAt({"storeCount"})
                \cup {c \in {DisplayCapacity} : At(ConvFull) # {}}
ConvHeads  == {conv.head} \cup ReadAt({"storeHead"})
ConvBusy   == {"id", "reserve"} \cup Counting \cup ConvFull

StoreCounts == {store.count} \cup ReadAt({"storeStored"})
                 \cup {c \in {StoreCapacity} : At({"storeOldest"}) # {}}
StoreHeads  == {store.head} \cup ReadAt({"storeOldest"})
StoreBusy   == ConvBusy \cup {"push", "write", "advance", "storeStored", "storeOldest"}

(* The messages handled alone that a ring has: those that are through and  *)
(* those whose task is at a later place.                                   *)
Kept(labels) ==
  {m \in 1..Len(ids) : m \notin crowded /\ (m \in shown \/ \E t \in At(labels) : reg[t].msg = m)}

(* Each of the later messages has made at most one newer entry, and those  *)
(* that are still being handled none yet.                                  *)
Room(m, busy) == Since(m) - Cardinality(At(busy))

ConvInv ==
  \A m \in Kept({"push", "write", "advance", "storeStored", "storeOldest", "listen"}) :
    Since(m) < DisplayCapacity =>
      Safe(m, conv.slots, DisplayCapacity, ConvCounts, ConvHeads,
           SlotsAt({"fill"}), Room(m, ConvBusy))

StoreInv ==
  \A m \in Kept({"listen"}) :
    Since(m) < StoreCapacity =>
      Safe(m, store.slots, StoreCapacity, StoreCounts, StoreHeads,
           SlotsAt({"write"}), Room(m, StoreBusy))

-----------------------------------------------------------------------------
(* m_next_id and what tasks are about to write to it are past the number   *)
(* of every message that was numbered alone.                               *)
NumInv ==
  /\ \A t \in At({"id"}) : reg[t].old = ids[reg[t].msg]
  /\ \A m \in 1..Len(ids) :
       m \notin crowded /\ (\A t \in At({"id"}) : reg[t].msg # m) =>
         /\ nextId > ids[m]
         /\ \A t \in At({"id"}) : reg[t].old > ids[m]
         /\ \A n \in 1..Len(ids) : n > m => ids[n] > ids[m]

ChatInv ==
  /\ TypeInv
  /\ Cardinality(Task) <= 2 => CountInv
  /\ \A t \in Task : Undisturbed(t) => SoloInv(t)
  /\ ConvInv
  /\ StoreInv
  /\ NumInv

-----------------------------------------------------------------------------
(* What the operations on a ring do to SafeAt.                             *)

LEMMA Wrap ==
  ASSUME NEW c \in Nat \ {0}, NEW x \in Nat, x < 2 * c
  PROVE  x % c = (IF x < c THEN x ELSE x - c) /\ x % c \in 0..(c - 1)
<1>1. CASE x < c
  BY <1>1
<1>2. CASE x >= c
  BY <1>2
<1> QED
  BY <1>1, <1>2

(* Once around the ring. *)
LEMMA WrapAround ==
  ASSUME NEW C \in Nat \ {0}, NEW h \in 0..(C - 1)
  PROVE  (h + C) % C = h
<1> DEFINE x == h + C
<1>1. x \in Nat /\ x < 2 * C /\ x >= C /\ x - C = h
  OBVIOUS
<1>2. x % C = x - C
  <2> HIDE DEF x
  <2> QED
    BY <1>1, Wrap
<1> QED
  BY <1>1, <1>2

LEMMA PosRange ==
  ASSUME NEW C \in Nat \ {0}, NEW p \in 0..(C - 1), NEW h \in 0..(C - 1)
  PROVE  Pos(p, h, C) \in 0..(C - 1) /\ (Pos(p, h, C) = 0 <=> p = h)
  BY DEF Pos

(* at(i) finds the entry at position i. *)
LEMMA PosIsAt ==
  ASSUME NEW C \in Nat \ {0}, NEW p \in 0..(C - 1), NEW h \in 0..(C - 1)
  PROVE  (h + Pos(p, h, C)) % C = p
<1>1. h + Pos(p, h, C) \in Nat /\ h + Pos(p, h, C) < 2 * C
  BY DEF Pos
<1> QED
  BY <1>1, Wrap DEF Pos

(* The slot after the last entry has the position of the count. *)
LEMMA PosOfEnd ==
  ASSUME NEW C \in Nat \ {0}, NEW c \in Nat, c < C, NEW h \in 0..(C - 1)
  PROVE  (h + c) % C \in 0..(C - 1) /\ Pos((h + c) % C, h, C) = c
<1> DEFINE x == h + c
<1>1. x \in Nat /\ x < 2 * C
  OBVIOUS
<1>2. x % C = (IF x < C THEN x ELSE x - C) /\ x % C \in 0..(C - 1)
  <2> HIDE DEF x
  <2> QED
    BY <1>1, Wrap
<1> QED
  BY <1>2 DEF Pos

(* Moving the head on brings every entry but the first one forward, and    *)
(* makes the first one the last.                                           *)
LEMMA PosNextHead ==
  ASSUME NEW C \in Nat \ {0}, NEW p \in 0..(C - 1), NEW h \in 0..(C - 1)
  PROVE  /\ (h + 1) % C \in 0..(C - 1)
         /\ p # h => Pos(p, (h + 1) % C, C) = Pos(p, h, C) - 1
         /\ p = h => Pos(p, (h + 1) % C, C) = C - 1
<1> DEFINE x == h + 1
<1>1. x \in Nat /\ x < 2 * C
  OBVIOUS
<1>2. x % C = (IF x < C THEN x ELSE x - C) /\ x % C \in 0..(C - 1)
  <2> HIDE DEF x
  <2> QED
    BY <1>1, Wrap
<1> QED
  BY <1>2 DEF Pos

(* What a task is going to do with a slot, a count or a head. *)
LEMMA SafeFrame ==
  ASSUME NEW C \in Nat \ {0}, NEW m, NEW slots, NEW p \in 0..(C - 1),
         NEW counts \in SUBSET Nat, NEW heads \in SUBSET (0..(C - 1)), NEW targets, NEW room \in Int,
         SafeAt(p, m, slots, C, counts, heads, targets, room),
         NEW counts2 \in SUBSET counts, NEW heads2 \in SUBSET heads,
         NEW targets2 \in SUBSET targets, NEW room2 \in Int, room2 >= room
  PROVE  SafeAt(p, m, slots, C, counts2, heads2, targets2, room2)
<1> SUFFICES ASSUME NEW c \in counts2, NEW h \in heads2
             PROVE  /\ Pos(p, h, C) < c
                    /\ Least(c, C) - 1 - Pos(p, h, C) <= room2
  BY DEF SafeAt
<1>1. c \in counts /\ h \in heads /\ c \in Nat /\ Pos(p, h, C) \in Int /\ Least(c, C) \in Int
  BY PosRange DEF Least
<1> QED
  BY <1>1 DEF SafeAt

(* The slot after the last entry of a ring that is not full is another one. *)
LEMMA SafeEnd ==
  ASSUME NEW C \in Nat \ {0}, NEW m, NEW slots, NEW p \in 0..(C - 1),
         NEW counts \in SUBSET Nat, NEW heads \in SUBSET (0..(C - 1)), NEW targets, NEW room \in Int,
         SafeAt(p, m, slots, C, counts, heads, targets, room),
         NEW c \in counts, NEW h \in heads, c < C
  PROVE  p # (h + c) % C
<1>1. Pos(p, h, C) < c /\ c \in Nat /\ h \in 0..(C - 1) /\ Pos(p, h, C) \in Int
  BY PosRange DEF SafeAt
<1>2. Pos((h + c) % C, h, C) = c
  BY <1>1, PosOfEnd
<1> QED
  BY <1>1, <1>2

(* Another slot is reserved. *)
LEMMA SafeReserve ==
  ASSUME NEW C, NEW m, NEW slots, NEW p, NEW counts, NEW heads, NEW targets, NEW room,
         SafeAt(p, m, slots, C, counts, heads, targets, room),
         NEW q, q # p
  PROVE  SafeAt(p, m, slots, C, counts, heads, targets \cup {q}, room)
  BY DEF SafeAt

(* The ring is taken to be full. *)
LEMMA SafeFull ==
  ASSUME NEW C \in Nat \ {0}, NEW m, NEW slots, NEW p \in 0..(C - 1),
         NEW counts \in SUBSET Nat, NEW heads \in SUBSET (0..(C - 1)), NEW targets, NEW room \in Int,
         SafeAt(p, m, slots, C, counts, heads, targets, room),
         NEW c \in counts, c >= C
  PROVE  SafeAt(p, m, slots, C, counts \cup {C}, heads, targets, room)
<1> SUFFICES ASSUME NEW h \in heads
             PROVE  Pos(p, h, C) < C /\ Least(C, C) - 1 - Pos(p, h, C) <= room
  BY DEF SafeAt
<1>1. Least(c, C) = C /\ Least(C, C) = C
  BY DEF Least
<1>2. Pos(p, h, C) < C
  BY PosRange
<1> QED
  BY <1>1, <1>2 DEF SafeAt

(* The first entry of a full ring is no recent one. *)
LEMMA SafeFirst ==
  ASSUME NEW C \in Nat \ {0}, NEW m, NEW slots, NEW p \in 0..(C - 1),
         NEW counts \in SUBSET Nat, NEW heads \in SUBSET (0..(C - 1)), NEW targets, NEW room \in Int,
         SafeAt(p, m, slots, C, counts, heads, targets, room),
         NEW c \in counts, c >= C, NEW h \in heads, room < C - 1
  PROVE  p # h
<1>1. Least(c, C) = C /\ Pos(p, h, C) \in 0..(C - 1) /\ (Pos(p, h, C) = 0 <=> p = h)
  BY PosRange DEF Least
<1>2. Least(c, C) - 1 - Pos(p, h, C) <= room
  BY DEF SafeAt
<1> QED
  BY <1>1, <1>2

(* Another slot is written. *)
LEMMA SafeWrite ==
  ASSUME NEW C, NEW m, NEW slots, NEW p, NEW counts, NEW heads, NEW targets, NEW room,
         SafeAt(p, m, slots, C, counts, heads, targets, room),
         NEW slots2, slots2[p] = slots[p]
  PROVE  SafeAt(p, m, slots2, C, counts, heads, targets, room)
  BY DEF SafeAt

(* A count that was read is written back with one more. *)
LEMMA SafeCount ==
  ASSUME NEW C \in Nat \ {0}, NEW m, NEW slots, NEW p \in 0..(C - 1),
         NEW counts \in SUBSET Nat, NEW heads \in SUBSET (0..(C - 1)), NEW targets, NEW room \in Int,
         SafeAt(p, m, slots, C, counts, heads, targets, room),
         NEW c \in counts
  PROVE  SafeAt(p, m, slots, C, counts \cup {c + 1}, heads, targets, room + 1)
<1> SUFFICES ASSUME NEW d \in counts \cup {c + 1}, NEW h \in heads
             PROVE  Pos(p, h, C) < d /\ Least(d, C) - 1 - Pos(p, h, C) <= room + 1
  BY DEF SafeAt
<1>1. Pos(p, h, C) \in Int
  BY PosRange
<1>2. CASE d \in counts
  <2>1. Pos(p, h, C) < d /\ Least(d, C) - 1 - Pos(p, h, C) <= room /\ Least(d, C) \in Int
    BY <1>2 DEF SafeAt, Least
  <2> QED
    BY <1>1, <2>1
<1>3. CASE d = c + 1
  <2>1. Pos(p, h, C) < c /\ Least(c, C) - 1 - Pos(p, h, C) <= room /\ c \in Nat
    BY DEF SafeAt
  <2>2. Least(c + 1, C) <= Least(c, C) + 1 /\ Least(c, C) \in Int /\ Least(c + 1, C) \in Int
    BY <2>1 DEF Least
  <2> QED
    BY <1>1, <1>3, <2>1, <2>2
<1> QED
  BY <1>2, <1>3

(* A head that was read is written back, moved on. *)
LEMMA SafeHead ==
  ASSUME NEW C \in Nat \ {0}, NEW m, NEW slots, NEW p \in 0..(C - 1),
         NEW counts \in SUBSET Nat, NEW heads \in SUBSET (0..(C - 1)), NEW targets, NEW room \in Int,
         SafeAt(p, m, slots, C, counts, heads, targets, room),
         NEW h \in heads, p # h
  PROVE  SafeAt(p, m, slots, C, counts, heads \cup {(h + 1) % C}, targets, room + 1)
<1> SUFFICES ASSUME NEW c \in counts, NEW k \in heads \cup {(h + 1) % C}
             PROVE  Pos(p, k, C) < c /\ Least(c, C) - 1 - Pos(p, k, C) <= room + 1
  BY DEF SafeAt
<1>1. /\ Pos(p, h, C) \in Int /\ Pos(p, h, C) < c /\ Least(c, C) - 1 - Pos(p, h, C) <= room
      /\ c \in Nat /\ Least(c, C) \in Int
  BY PosRange DEF SafeAt, Least
<1>2. CASE k \in heads
  <2>1. Pos(p, k, C) \in Int /\ Pos(p, k, C) < c /\ Least(c, C) - 1 - Pos(p, k, C) <= room
    BY <1>2, PosRange DEF SafeAt
  <2> QED
    BY <1>1, <2>1
<1>3. CASE k = (h + 1) % C
  <2>1. Pos(p, k, C) = Pos(p, h, C) - 1
    BY <1>3, PosNextHead
  <2> QED
    BY <1>1, <2>1
<1> QED
  BY <1>2, <1>3

(* The message that was just added after the last entry ... *)
LEMMA SafeAdded ==
  ASSUME NEW C \in Nat \ {0}, NEW m, NEW slots, NEW c \in Nat, c < C, NEW h \in 0..(C - 1),
         slots[(h + c) % C] = m
  PROVE  Safe(m, slots, C, {c + 1}, {h}, {}, 0)
<1> DEFINE p == (h + c) % C
<1>1. p \in 0..(C - 1) /\ Pos(p, h, C) = c
  BY PosOfEnd
<1>2. SafeAt(p, m, slots, C, {c + 1}, {h}, {}, 0)
  <2> HIDE DEF p
  <2>1. slots[p] = m
    BY DEF p
  <2> QED
    BY <1>1, <2>1 DEF SafeAt, Least
<1> QED
  BY <1>1, <1>2 DEF Safe

(* ... or in place of the first one. *)
LEMMA SafeReplaced ==
  ASSUME NEW C \in Nat \ {0}, NEW m, NEW slots, NEW c \in Nat, c >= C, NEW h \in 0..(C - 1),
         slots[h] = m
  PROVE  Safe(m, slots, C, {c}, {(h + 1) % C}, {}, 0)
<1>1. Pos(h, (h + 1) % C, C) = C - 1
  BY PosNextHead
<1>2. SafeAt(h, m, slots, C, {c}, {(h + 1) % C}, {}, 0)
  BY <1>1 DEF SafeAt, Least
<1> QED
  BY <1>2 DEF Safe

-----------------------------------------------------------------------------
(* Types.                                                                  *)

Labels == {"idle", "id", "reserve", "fill", "loadCount", "storeCount", "replace", "loadHead",
           "storeHead", "push", "write", "advance", "storeStored", "storeOldest", "listen"}

Register == [msg : Message \cup {Nothing}, slot : Nat, old : Nat]

LEMMA Capacities ==
  DisplayCapacity \in Nat \ {0} /\ StoreCapacity \in Nat \ {0} /\ MaxMessages \in Nat
  BY ChatAssumption

(* The type invariant, one task at a time. *)
LEMMA TypeFacts ==
  ASSUME TypeInv, NEW t \in Task
  PROVE  /\ pc \in [Task -> Labels] /\ reg \in [Task -> Register]
         /\ pc[t] \in Labels /\ reg[t] \in Register
         /\ reg[t].msg \in Message \cup {Nothing} /\ reg[t].slot \in Nat /\ reg[t].old \in Nat
         /\ pc[t] # "idle" => reg[t].msg \in 1..Len(ids)
         /\ pc[t] # "idle" => reg[t].msg \in Message
<1>1. pc \in [Task -> Labels] /\ reg \in [Task -> Register]
  BY DEF TypeInv, TypeOK, Labels, Register
<1>2. pc[t] \in Labels /\ reg[t] \in Register
  BY <1>1
<1>3. reg[t].msg \in Message \cup {Nothing} /\ reg[t].slot \in Nat /\ reg[t].old \in Nat
  BY <1>2 DEF Register
<1>4. pc[t] # "idle" => reg[t].msg \in 1..Len(ids)
  BY DEF TypeInv
<1>5. 1..Len(ids) \subseteq Message
  BY Capacities DEF TypeInv, TypeOK, Message
<1> QED
  BY <1>1, <1>2, <1>3, <1>4, <1>5

(* The conversation and the store. *)
LEMMA RingFacts ==
  ASSUME TypeInv
  PROVE  /\ conv \in Ring(DisplayCapacity) /\ conv.head \in 0..(DisplayCapacity - 1) /\ conv.count \in Nat
         /\ conv.slots \in [0..(DisplayCapacity - 1) -> Message \cup {Nothing}]
         /\ store \in Ring(StoreCapacity) /\ store.head \in 0..(StoreCapacity - 1) /\ store.count \in Nat
         /\ store.slots \in [0..(StoreCapacity - 1) -> Message \cup {Nothing}]
         /\ store.count <= StoreCapacity
         /\ Len(ids) \in Nat /\ Len(ids) <= MaxMessages
  BY DEF TypeInv, TypeOK, Ring

(* The places and registers of the other tasks stay as they are. *)
LEMMA OneMoves ==
  ASSUME TypeInv, NEW t \in Task, OnInbound(t), NEW u \in Task, u # t
  PROVE  pc'[u] = pc[u] /\ reg'[u] = reg[u]
  BY TypeFacts DEF OnInbound, LoadId, StoreId, Reserve, Fill, LoadCount, StoreCount, Replace, LoadHead,
     StoreHead, Push, WriteRecord, LoadStored, Advance, Listen, Goto, Clear

LEMMA InitChat == Init => ChatInv
<1> SUFFICES ASSUME Init
             PROVE  ChatInv
  OBVIOUS
<1>1. /\ nextId = 1 /\ ids = <<>> /\ Len(ids) = 0 /\ crowded = {} /\ shown = {}
      /\ conv = EmptyRing(DisplayCapacity) /\ store = EmptyRing(StoreCapacity)
      /\ pc = [t \in Task |-> "idle"] /\ reg = [t \in Task |-> Idle]
  BY DEF Init
<1>2. \A labels : "idle" \notin labels => At(labels) = {}
  BY <1>1 DEF At
<1>3. TypeInv
  <2>1. conv \in Ring(DisplayCapacity) /\ store \in Ring(StoreCapacity) /\ store.count = 0
    BY <1>1, Capacities DEF EmptyRing, Ring
  <2>2. Idle \in Register
    BY DEF Idle, Register, Nothing
  <2> QED
    BY <1>1, <2>1, <2>2, Capacities DEF TypeInv, TypeOK, Register
<1>4. CountInv
  <2>1. conv.count = 0
    BY <1>1 DEF EmptyRing
  <2> QED
    BY <1>2, <2>1, Capacities DEF CountInv, Counting
<1>5. \A t \in Task : ~ Undisturbed(t)
  BY <1>1 DEF Undisturbed
<1>6. 1..Len(ids) = {}
  BY <1>1
<1> QED
  BY <1>2, <1>3, <1>4, <1>5, <1>6 DEF ChatInv, ConvInv, StoreInv, Kept, NumInv

(* What each step does to the place and the register of its task. *)
LEMMA Effects ==
  ASSUME TypeInv, NEW t \in Task
  PROVE  LET keepsMsg == reg'[t].msg = reg[t].msg
             cleared  == reg'[t].slot = 0 /\ reg'[t].old = 0
             sameReg  == reg'[t] = reg[t] IN
         /\ LoadId(t) => pc[t] = "idle" /\ pc'[t] = "id" /\ reg'[t].msg = Len(ids) + 1
                          /\ reg'[t].old = nextId
         /\ StoreId(t) => pc[t] = "id" /\ pc'[t] = "reserve" /\ keepsMsg
         /\ Reserve(t) => /\ pc[t] = "reserve" /\ keepsMsg
                          /\ reg'[t].slot = (conv.head + conv.count) % DisplayCapacity
                          /\ pc'[t] = (IF conv.count < DisplayCapacity THEN "fill" ELSE "replace")
         /\ Fill(t) => pc[t] = "fill" /\ pc'[t] = "loadCount" /\ sameReg
         /\ LoadCount(t) => pc[t] = "loadCount" /\ pc'[t] = "storeCount" /\ keepsMsg
                             /\ reg'[t].old = conv.count
         /\ StoreCount(t) => pc[t] = "storeCount" /\ pc'[t] = "push" /\ keepsMsg
         /\ Replace(t) => pc[t] = "replace" /\ pc'[t] = "loadHead" /\ sameReg
         /\ LoadHead(t) => pc[t] = "loadHead" /\ pc'[t] = "storeHead" /\ keepsMsg
                            /\ reg'[t].old = conv.head
         /\ StoreHead(t) => pc[t] = "storeHead" /\ pc'[t] = "push" /\ keepsMsg
         /\ Push(t) => pc[t] = "push" /\ pc'[t] = "write" /\ keepsMsg
                        /\ reg'[t].slot = (store.head + store.count) % StoreCapacity
         /\ WriteRecord(t) => pc[t] = "write" /\ pc'[t] = "advance" /\ sameReg
         /\ LoadStored(t) =>
              /\ pc[t] = "advance" /\ keepsMsg
              /\ store.count < StoreCapacity => pc'[t] = "storeStored" /\ reg'[t].old = store.count
              /\ store.count >= StoreCapacity => pc'[t] = "storeOldest" /\ reg'[t].old = store.head
         /\ Advance(t) => pc[t] \in {"storeStored", "storeOldest"} /\ pc'[t] = "listen" /\ keepsMsg
         /\ Listen(t) => pc[t] = "listen" /\ pc'[t] = "idle"
<1>1. pc \in [Task -> Labels] /\ reg \in [Task -> Register] /\ reg[t] \in Register
  BY TypeFacts
<1>2. \A label : Goto(t, label) => pc'[t] = label
  BY <1>1 DEF Goto
<1>3. Clear(t) => reg'[t].msg = reg[t].msg
  BY <1>1 DEF Clear, Register
<1>4. LoadId(t) => /\ pc[t] = "idle" /\ pc'[t] = "id" /\ reg'[t].msg = Len(ids) + 1
                   /\ reg'[t].old = nextId
  BY <1>1, <1>2 DEF LoadId
<1>5. StoreId(t) => pc[t] = "id" /\ pc'[t] = "reserve" /\ reg'[t].msg = reg[t].msg
  BY <1>2, <1>3 DEF StoreId
<1>6. Reserve(t) => /\ pc[t] = "reserve" /\ reg'[t].msg = reg[t].msg
                    /\ reg'[t].slot = (conv.head + conv.count) % DisplayCapacity
                    /\ pc'[t] = (IF conv.count < DisplayCapacity THEN "fill" ELSE "replace")
  BY <1>1, <1>2 DEF Reserve, Register
<1>7. Fill(t) => pc[t] = "fill" /\ pc'[t] = "loadCount" /\ reg'[t] = reg[t]
  BY <1>2 DEF Fill
<1>8. LoadCount(t) => /\ pc[t] = "loadCount" /\ pc'[t] = "storeCount" /\ reg'[t].msg = reg[t].msg
                      /\ reg'[t].old = conv.count
  BY <1>1, <1>2 DEF LoadCount, Register
<1>9. StoreCount(t) => pc[t] = "storeCount" /\ pc'[t] = "push" /\ reg'[t].msg = reg[t].msg
  BY <1>2, <1>3 DEF StoreCount
<1>10. Replace(t) => pc[t] = "replace" /\ pc'[t] = "loadHead" /\ reg'[t] = reg[t]
  BY <1>2 DEF Replace
<1>11. LoadHead(t) => /\ pc[t] = "loadHead" /\ pc'[t] = "storeHead" /\ reg'[t].msg = reg[t].msg
                      /\ reg'[t].old = conv.head
  BY <1>1, <1>2 DEF LoadHead, Register
<1>12. StoreHead(t) => pc[t] = "storeHead" /\ pc'[t] = "push" /\ reg'[t].msg = reg[t].msg
  BY <1>2, <1>3 DEF StoreHead
<1>13. Push(t) => /\ pc[t] = "push" /\ pc'[t] = "write" /\ reg'[t].msg = reg[t].msg
                  /\ reg'[t].slot = (store.head + store.count) % StoreCapacity
  BY <1>1, <1>2 DEF Push, Register
<1>14. WriteRecord(t) => pc[t] = "write" /\ pc'[t] = "advance" /\ reg'[t] = reg[t]
  BY <1>2 DEF WriteRecord
<1>15. LoadStored(t) =>
         /\ pc[t] = "advance" /\ reg'[t].msg = reg[t].msg
         /\ store.count < StoreCapacity => pc'[t] = "storeStored" /\ reg'[t].old = store.count
         /\ store.count >= StoreCapacity => pc'[t] = "storeOldest" /\ reg'[t].old = store.head
  BY <1>1, <1>2, RingFacts, Capacities DEF LoadStored, Register
<1>16. Advance(t) => /\ pc[t] \in {"storeStored", "storeOldest"} /\ pc'[t] = "listen"
                     /\ reg'[t].msg = reg[t].msg
  BY <1>2, <1>3 DEF Advance
<1>17. Listen(t) => pc[t] = "listen" /\ pc'[t] = "idle"
  BY <1>2 DEF Listen
<1> QED
  BY <1>4, <1>5, <1>6, <1>7, <1>8, <1>9, <1>10, <1>11, <1>12, <1>13, <1>14, <1>15, <1>16, <1>17

(* The places and registers keep their type. *)
LEMMA TaskTypes ==
  ASSUME TypeInv, NEW t \in Task, OnInbound(t)
  PROVE  pc' \in [Task -> Labels] /\ reg' \in [Task -> Register]
<1>1. /\ pc \in [Task -> Labels] /\ reg \in [Task -> Register]
      /\ reg[t] \in Register /\ Len(ids) \in Nat /\ Len(ids) <= MaxMessages
      /\ nextId \in Nat /\ conv.head \in Nat /\ conv.count \in Nat
      /\ store.head \in Nat /\ store.count \in Nat
  <2>1. nextId \in Nat
    BY DEF TypeInv, TypeOK
  <2>2. /\ conv.head \in Nat /\ conv.count \in Nat /\ store.head \in Nat /\ store.count \in Nat
        /\ Len(ids) \in Nat /\ Len(ids) <= MaxMessages
    BY RingFacts, Capacities
  <2> QED
    BY <2>1, <2>2, TypeFacts
<1>2. \E label \in Labels : Goto(t, label)
  BY DEF OnInbound, LoadId, StoreId, Reserve, Fill, LoadCount, StoreCount, Replace, LoadHead,
         StoreHead, Push, WriteRecord, LoadStored, Advance, Listen, Labels
<1>3. pc' \in [Task -> Labels]
  BY <1>1, <1>2 DEF Goto
<1>4. CASE LoadId(t)
  <2>1. [msg |-> Len(ids) + 1, slot |-> 0, old |-> nextId] \in Register
    BY <1>1, <1>4, Capacities DEF LoadId, Register, Message
  <2> QED
    BY <1>1, <1>3, <1>4, <2>1 DEF LoadId
<1>5. ASSUME Clear(t)
      PROVE  reg' \in [Task -> Register]
  BY <1>1, <1>5 DEF Clear, Register
<1>6. ASSUME NEW x \in Nat, reg' = [reg EXCEPT ![t].slot = x]
      PROVE  reg' \in [Task -> Register]
  BY <1>1, <1>6 DEF Register
<1>7. ASSUME NEW x \in Nat, reg' = [reg EXCEPT ![t].old = x]
      PROVE  reg' \in [Task -> Register]
  BY <1>1, <1>7 DEF Register
<1>8. CASE Reserve(t)
  <2>1. (conv.head + conv.count) % DisplayCapacity \in Nat
    BY <1>1, Capacities
  <2> QED
    BY <1>3, <1>6, <1>8, <2>1 DEF Reserve
<1>9. CASE Push(t)
  <2>1. (store.head + store.count) % StoreCapacity \in Nat
    BY <1>1, Capacities
  <2> QED
    BY <1>3, <1>6, <1>9, <2>1 DEF Push
<1>10. CASE LoadCount(t)
  BY <1>1, <1>3, <1>7, <1>10 DEF LoadCount
<1>11. CASE LoadHead(t)
  BY <1>1, <1>3, <1>7, <1>11 DEF LoadHead
<1>12. CASE LoadStored(t)
  BY <1>1, <1>3, <1>7, <1>12 DEF LoadStored
<1>13. CASE StoreId(t) \/ StoreCount(t) \/ StoreHead(t) \/ Advance(t)
  BY <1>3, <1>5, <1>13 DEF StoreId, StoreCount, StoreHead, Advance
<1>14. CASE Fill(t) \/ Replace(t) \/ WriteRecord(t)
  BY <1>1, <1>3, <1>14 DEF Fill, Replace, WriteRecord
<1>15. CASE Listen(t)
  BY <1>1, <1>3, <1>15 DEF Listen, Idle, Nothing, Register
<1> QED
  BY <1>4, <1>8, <1>9, <1>10, <1>11, <1>12, <1>13, <1>14, <1>15 DEF OnInbound

(* Which of the shared variables a step changes, and how. *)
LEMMA Writes ==
  ASSUME TypeInv, NEW t \in Task, OnInbound(t)
  PROVE  /\ StoreId(t) \/ nextId' = nextId
         /\ LoadId(t) \/ (ids' = ids /\ crowded' = crowded)
         /\ Listen(t) \/ shown' = shown
         /\ \/ Fill(t) \/ StoreCount(t) \/ Replace(t) \/ StoreHead(t)
            \/ conv' = conv
         /\ WriteRecord(t) \/ Advance(t) \/ store' = store
  BY DEF OnInbound, LoadId, StoreId, Reserve, Fill, LoadCount, StoreCount, Replace, LoadHead,
         StoreHead, Push, WriteRecord, LoadStored, Advance, Listen

(* The shared variables keep theirs. *)
LEMMA SharedTypes ==
  ASSUME TypeInv, NEW t \in Task, OnInbound(t)
  PROVE  /\ nextId' \in Nat
         /\ conv' \in Ring(DisplayCapacity)
         /\ store' \in Ring(StoreCapacity) /\ store'.count <= StoreCapacity
<1>1. /\ nextId \in Nat /\ conv \in Ring(DisplayCapacity) /\ store \in Ring(StoreCapacity)
      /\ reg[t].old \in Nat /\ reg[t].slot \in Nat /\ (pc[t] # "idle" => reg[t].msg \in Message)
      /\ store.count <= StoreCapacity
  BY TypeFacts, RingFacts DEF TypeInv, TypeOK
<1>2. nextId' \in Nat
  BY <1>1, Writes DEF StoreId
<1>3. conv' \in Ring(DisplayCapacity)
  <2>1. CASE Fill(t)
    BY <1>1, <2>1 DEF Fill, Ring
  <2>2. CASE StoreCount(t)
    BY <1>1, <2>2 DEF StoreCount, Ring
  <2>3. CASE Replace(t)
    BY <1>1, <2>3 DEF Replace, Ring
  <2>4. CASE StoreHead(t)
    <3>1. (reg[t].old + 1) % DisplayCapacity \in 0..(DisplayCapacity - 1)
      BY <1>1, Capacities
    <3> QED
      BY <1>1, <2>4, <3>1 DEF StoreHead, Ring
  <2> QED
    BY <1>1, <2>1, <2>2, <2>3, <2>4, Writes
<1>4. store' \in Ring(StoreCapacity) /\ store'.count <= StoreCapacity
  <2>1. CASE WriteRecord(t)
    BY <1>1, <2>1 DEF WriteRecord, Ring
  <2>2. CASE Advance(t) /\ pc[t] = "storeStored"
    <3>1. reg[t].old < StoreCapacity
      BY <2>2 DEF TypeInv
    <3>2. store' = [store EXCEPT !.count = reg[t].old + 1]
      BY <2>2 DEF Advance
    <3>3. reg[t].old + 1 \in Nat /\ reg[t].old + 1 <= StoreCapacity
      BY <1>1, <3>1, Capacities
    <3> QED
      BY <1>1, <3>2, <3>3 DEF Ring
  <2>3. CASE Advance(t) /\ pc[t] = "storeOldest"
    <3>1. (reg[t].old + 1) % StoreCapacity \in 0..(StoreCapacity - 1)
      BY <1>1, Capacities
    <3> QED
      BY <1>1, <2>3, <3>1 DEF Advance, Ring
  <2>4. CASE store' = store
    BY <1>1, <2>4
  <2> QED
    BY <2>1, <2>2, <2>3, <2>4, Writes DEF Advance
<1> QED
  BY <1>2, <1>3, <1>4

(* So do the histories; only LoadId adds to them. *)
LEMMA HistoryTypes ==
  ASSUME TypeInv, NEW t \in Task, OnInbound(t)
  PROVE  /\ ids' \in Seq(Nat) /\ Len(ids') <= MaxMessages
         /\ Len(ids') = (IF LoadId(t) THEN Len(ids) + 1 ELSE Len(ids))
         /\ \A n \in 1..Len(ids) : ids'[n] = ids[n]
         /\ crowded \subseteq crowded' /\ crowded' \subseteq Message
         /\ shown \subseteq shown' /\ shown' \subseteq 1..Len(ids')
<1>1. /\ ids \in Seq(Nat) /\ nextId \in Nat /\ Len(ids) \in Nat /\ Len(ids) <= MaxMessages
      /\ crowded \subseteq Message /\ shown \subseteq 1..Len(ids)
  BY RingFacts DEF TypeInv, TypeOK
<1>2. CASE LoadId(t)
  <2>1. ids' = Append(ids, nextId) /\ Len(ids) + 1 <= MaxMessages /\ shown' = shown
    BY <1>2 DEF LoadId
  <2>2. /\ ids' \in Seq(Nat) /\ Len(ids') = Len(ids) + 1
        /\ \A n \in 1..Len(ids) : ids'[n] = ids[n]
    BY <1>1, <2>1
  <2>3. crowded \subseteq crowded' /\ crowded' \subseteq Message
    <3>1. Len(ids) + 1 \in Message
      BY <1>1, <2>1, Capacities DEF Message
    <3>2. \A u \in Busy : reg[u].msg \in Message
      BY TypeFacts DEF Busy
    <3> QED
      BY <1>1, <1>2, <3>1, <3>2 DEF LoadId
  <2> QED
    BY <1>1, <1>2, <2>1, <2>2, <2>3
<1>3. CASE ~ LoadId(t)
  <2>1. ids' = ids /\ crowded' = crowded
    BY <1>3, Writes
  <2>2. CASE Listen(t)
    <3>1. pc[t] # "idle" /\ shown' = shown \cup {reg[t].msg}
      BY <2>2 DEF Listen
    <3> QED
      BY <1>1, <1>3, <2>1, <3>1, TypeFacts
  <2>3. CASE shown' = shown
    BY <1>1, <1>3, <2>1, <2>3
  <2> QED
    BY <2>2, <2>3, Writes
<1> QED
  BY <1>2, <1>3

LEMMA TypeStep ==
  ASSUME TypeInv, NEW t \in Task, OnInbound(t)
  PROVE  TypeInv'
<1>1. TypeOK'
  <2>1. 1..Len(ids') \subseteq Message
    BY HistoryTypes, Capacities DEF Message
  <2> QED
    BY <2>1, TaskTypes, SharedTypes, HistoryTypes DEF TypeOK, Labels, Register
<1>2. ASSUME NEW u \in Task
      PROVE  /\ pc'[u] # "idle" => reg'[u].msg \in 1..Len(ids')
             /\ pc'[u] = "fill" => reg'[u].slot < DisplayCapacity
             /\ pc'[u] = "write" => reg'[u].slot < StoreCapacity
             /\ pc'[u] = "storeHead" => reg'[u].old < DisplayCapacity
             /\ pc'[u] = "storeOldest" => reg'[u].old < StoreCapacity
             /\ pc'[u] = "storeStored" => reg'[u].old < StoreCapacity
  <2>1. Len(ids) \in Nat /\ Len(ids') \in Nat /\ Len(ids') >= Len(ids)
    BY RingFacts, HistoryTypes
  <2>2. CASE u # t
    <3>1. pc'[u] = pc[u] /\ reg'[u] = reg[u]
      BY <2>2, OneMoves
    <3> QED
      BY <2>1, <3>1 DEF TypeInv
  <2>3. CASE u = t
    <3>1. /\ (conv.head + conv.count) % DisplayCapacity < DisplayCapacity
          /\ (store.head + store.count) % StoreCapacity < StoreCapacity
      <4>1. /\ conv.head \in Nat /\ conv.count \in Nat
            /\ store.head \in Nat /\ store.count \in Nat
        BY RingFacts, Capacities
      <4>2. conv.head + conv.count \in Nat /\ store.head + store.count \in Nat
        BY <4>1
      <4> QED
        BY <4>2, Capacities
    <3>2. conv.head < DisplayCapacity /\ store.head < StoreCapacity /\ store.count \in Nat
      BY RingFacts, Capacities
    <3>3. pc[t] # "idle" => reg[t].msg \in 1..Len(ids')
      BY <2>1, TypeFacts
    <3>4. CASE LoadId(t)
      BY <2>1, <2>3, <3>4, Effects, HistoryTypes
    <3>5. CASE LoadStored(t)
      BY <2>3, <3>2, <3>3, <3>5, Effects, Capacities
    <3>6. CASE ~ LoadId(t) /\ ~ LoadStored(t)
      BY <2>3, <3>1, <3>2, <3>3, <3>6, Effects DEF OnInbound
    <3> QED
      BY <3>4, <3>5, <3>6
  <2> QED
    BY <2>2, <2>3
<1> QED
  BY <1>1, <1>2, SharedTypes, HistoryTypes DEF TypeInv

-----------------------------------------------------------------------------
(* Two tasks cannot count further than one beyond the capacity.            *)
LEMMA CountStep ==
  ASSUME TypeInv, CountInv, \A a, b, c \in Task : a = b \/ b = c \/ a = c,
         NEW t \in Task, OnInbound(t)
  PROVE  CountInv'
<1> DEFINE C == DisplayCapacity
<1>1. /\ C \in Nat \ {0} /\ conv.count \in Nat /\ conv'.count \in Nat
      /\ \A u \in Task : reg[u].old \in Nat /\ reg'[u].old \in Nat
  BY Capacities, RingFacts, TypeFacts, TaskTypes, SharedTypes DEF Ring, Register
<1>2. \A u \in Task \ {t} : pc'[u] = pc[u] /\ reg'[u] = reg[u]
  BY OneMoves
<1>3. conv'.count = IF StoreCount(t) THEN reg[t].old + 1 ELSE conv.count
  <2>1. CASE StoreCount(t)
    BY <2>1, RingFacts DEF StoreCount, Ring
  <2>2. CASE ~ StoreCount(t)
    BY <2>2, RingFacts, Writes DEF Fill, Replace, StoreHead, Ring
  <2> QED
    BY <2>1, <2>2
<1>4. \A u \in Task : u \in At(Counting) => conv.count <= C
  BY DEF CountInv
<1>5. \A u, v \in Task : u \in At(Counting) /\ v \in At(Counting) /\ u # v => conv.count < C
  BY DEF CountInv
<1>6. \A u \in Task : pc[u] = "storeCount" =>
        /\ u \in At(Counting) /\ reg[u].old <= C
        /\ conv.count < C => reg[u].old < C
        /\ \A v \in At(Counting) : v # u => reg[u].old < C
  BY DEF CountInv, At, Counting
<1>7. CASE Reserve(t) /\ conv.count < C
  <2>1. /\ conv'.count = conv.count
        /\ \A u \in Task : pc'[u] = "storeCount" => u # t /\ pc[u] = "storeCount"
    BY <1>2, <1>3, <1>7, Effects DEF Reserve, StoreCount
  <2>2. conv'.count <= C + 1 /\ \A u, v \in Task : u # v => conv'.count < C
    BY <1>1, <1>7, <2>1
  <2>3. \A u \in At({"storeCount"})' : reg'[u].old < C
    BY <1>2, <1>6, <1>7, <2>1 DEF At
  <2> QED
    BY <1>1, <1>7, <2>1, <2>2, <2>3 DEF CountInv, At
<1>8. CASE LoadCount(t)
  <2>1. /\ pc[t] = "loadCount" /\ pc'[t] = "storeCount" /\ reg'[t].old = conv.count
        /\ conv'.count = conv.count
    BY <1>3, <1>8, Effects DEF LoadCount, StoreCount
  <2>2. \A u \in Task : (u \in At(Counting)) <=> (u \in At(Counting)')
    BY <1>2, <2>1 DEF At, Counting
  <2>3. t \in At(Counting)
    BY <2>1 DEF At, Counting
  <2>4. \A u \in At({"storeCount"})' :
          /\ reg'[u].old <= C
          /\ conv'.count < C => reg'[u].old < C
          /\ \A v \in At(Counting)' : v # u => reg'[u].old < C
    <3> SUFFICES ASSUME NEW u \in Task, pc'[u] = "storeCount"
                 PROVE  /\ reg'[u].old <= C
                        /\ conv'.count < C => reg'[u].old < C
                        /\ \A v \in At(Counting)' : v # u => reg'[u].old < C
      BY DEF At
    <3>1. CASE u = t
      BY <1>4, <1>5, <2>1, <2>2, <2>3, <3>1 DEF At
    <3>2. CASE u # t
      BY <1>2, <1>6, <2>1, <2>2, <3>2 DEF At
    <3> QED
      BY <3>1, <3>2
  <2> QED
    BY <1>4, <1>5, <2>1, <2>2, <2>4 DEF CountInv, At
<1>9. CASE StoreCount(t)
  <2>1. /\ pc[t] = "storeCount" /\ pc'[t] = "push" /\ conv'.count = reg[t].old + 1
    BY <1>3, <1>9, Effects
  <2>2. \A u \in Task : u \in At(Counting)' => u # t /\ u \in At(Counting)
    BY <1>2, <2>1 DEF At, Counting
  <2>3. conv'.count <= C + 1
    BY <1>1, <1>6, <2>1
  <2>4. \A u \in At(Counting)' : conv'.count <= C
    BY <1>1, <1>6, <2>1, <2>2 DEF At
  <2>5. \A u, v \in At(Counting)' : u # v => FALSE
    BY <2>2 DEF At
  <2>6. \A u \in At({"storeCount"})' : reg'[u].old < C
    <3> SUFFICES ASSUME NEW u \in Task, pc'[u] = "storeCount"
                 PROVE  reg'[u].old < C
      BY DEF At
    <3>1. u # t /\ pc[u] = "storeCount" /\ reg'[u] = reg[u]
      BY <1>2, <2>1
    <3>2. t \in At(Counting)
      BY <2>1 DEF At, Counting
    <3> QED
      BY <1>6, <3>1, <3>2
  <2> QED
    BY <1>1, <2>1, <2>3, <2>4, <2>5, <2>6 DEF CountInv, At
<1>10. CASE Fill(t) \/ (~ StoreCount(t) /\ ~ LoadCount(t) /\ ~ Fill(t)
                         /\ ~ (Reserve(t) /\ conv.count < C))
  <2>1. conv'.count = conv.count
    BY <1>3, <1>10 DEF Fill, StoreCount
  <2>2. pc'[t] # "storeCount" /\ (pc'[t] \in Counting => pc[t] \in Counting)
    <3>1. store.count < StoreCapacity \/ store.count >= StoreCapacity
      BY RingFacts, Capacities
    <3> QED
      BY <1>10, <3>1, Effects DEF OnInbound, Counting
  <2>3. \A u \in Task :
          /\ u \in At(Counting)' => u \in At(Counting)
          /\ pc'[u] = "storeCount" => pc[u] = "storeCount" /\ reg'[u] = reg[u]
    BY <1>2, <2>2 DEF At
  <2> QED
    BY <2>1, <2>3 DEF CountInv, At
<1> QED
  BY <1>7, <1>8, <1>9, <1>10

-----------------------------------------------------------------------------
(* Whoever is disturbed by a step of another task has met it in onInbound. *)
LEMMA NoOther ==
  ASSUME TypeInv, NEW t \in Task, OnInbound(t), NEW s \in Task, s # t,
         Undisturbed(s) => SoloInv(s)
  PROVE  ~ Undisturbed(s)'
<1> SUFFICES ASSUME Undisturbed(s)'
             PROVE  FALSE
  OBVIOUS
<1>1. pc'[s] = pc[s] /\ reg'[s] = reg[s] /\ crowded \subseteq crowded'
  BY OneMoves, HistoryTypes
<1>2. pc[s] # "idle" /\ reg[s].msg \notin crowded' /\ Undisturbed(s)
  BY <1>1 DEF Undisturbed
<1>3. pc[t] = "idle"
  BY <1>2 DEF SoloInv
<1>4. LoadId(t)
  BY <1>3, Effects DEF OnInbound
<1>5. s \in Busy
  BY <1>2 DEF Busy
<1> QED
  BY <1>2, <1>4, <1>5 DEF LoadId

LEMMA SoloStep ==
  ASSUME TypeInv, \A u \in Task : Undisturbed(u) => SoloInv(u),
         NEW t \in Task, OnInbound(t), NEW s \in Task, Undisturbed(s)'
  PROVE  SoloInv(s)'
<1>1. s = t
  BY NoOther
<1>2. \A u \in Task \ {t} : pc'[u] = pc[u] /\ reg'[u] = reg[u]
  BY OneMoves
<1>3. pc'[t] # "idle" /\ reg'[t].msg \notin crowded'
  BY <1>1 DEF Undisturbed
<1>4. CASE LoadId(t)
  <2>1. pc'[t] = "id" /\ reg'[t].msg = Len(ids) + 1
    BY <1>4, Effects
  <2>2. Busy = {}
    BY <1>3, <1>4, <2>1 DEF LoadId
  <2>3. Len(ids') = Len(ids) + 1
    BY <1>4, HistoryTypes
  <2>4. reg'[t].msg \notin shown'
    <3>1. shown' = shown /\ shown \subseteq 1..Len(ids) /\ Len(ids) \in Nat
      BY <1>4, RingFacts DEF LoadId, TypeInv
    <3> QED
      BY <2>1, <3>1
  <2> QED
    BY <1>1, <1>2, <2>1, <2>2, <2>3, <2>4 DEF SoloInv, Busy, Counting
<1>5. CASE ~ LoadId(t)
  <2>1. pc[t] # "idle" /\ reg'[t].msg = reg[t].msg /\ ids' = ids /\ crowded' = crowded
    BY <1>3, <1>5, Effects, Writes DEF OnInbound
  <2>2. Undisturbed(t) /\ SoloInv(t)
    BY <1>3, <2>1 DEF Undisturbed
  <2>3. /\ \A u \in Task \ {t} : pc'[u] = "idle"
        /\ reg'[t].msg = Len(ids') /\ reg'[t].msg \notin shown'
    <3>1. ~ Listen(t)
      BY <1>3, Effects
    <3> QED
      BY <1>2, <2>1, <2>2, <3>1, Writes DEF SoloInv
  <2>4. /\ conv.head \in 0..(DisplayCapacity - 1) /\ conv.count \in Nat
        /\ store.head \in 0..(StoreCapacity - 1) /\ store.count \in Nat /\ store.count <= StoreCapacity
        /\ (conv.head + conv.count) % DisplayCapacity \in 0..(DisplayCapacity - 1)
        /\ (store.head + store.count) % StoreCapacity \in 0..(StoreCapacity - 1)
    <3>1. /\ conv.head \in 0..(DisplayCapacity - 1) /\ conv.count \in Nat
          /\ store.head \in 0..(StoreCapacity - 1) /\ store.count \in Nat /\ store.count <= StoreCapacity
      BY RingFacts
    <3>2. /\ (conv.head + conv.count) % DisplayCapacity \in 0..(DisplayCapacity - 1)
          /\ (store.head + store.count) % StoreCapacity \in 0..(StoreCapacity - 1)
      BY <3>1, Capacities
    <3> QED
      BY <3>1, <3>2
  <2>5. CASE StoreId(t) \/ StoreCount(t) \/ StoreHead(t) \/ Advance(t)
    <3>1. pc'[t] \in {"reserve", "push", "listen"}
      BY <2>5, Effects
    <3> QED
      BY <1>1, <2>3, <3>1 DEF SoloInv, Counting
  <2>6. CASE Reserve(t)
    <3>1. conv' = conv /\ store' = store
      BY <2>6 DEF Reserve
    <3>2. CASE conv.count < DisplayCapacity
      <4>1. pc'[t] = "fill" /\ reg'[t].slot = (conv.head + conv.count) % DisplayCapacity
        BY <2>6, <3>2, Effects
      <4> QED
        BY <1>1, <2>3, <3>1, <3>2, <4>1 DEF SoloInv, Counting
    <3>3. CASE conv.count >= DisplayCapacity
      <4>1. pc'[t] = "replace"
        <5>1. ~ (conv.count < DisplayCapacity)
          BY <2>4, <3>3, Capacities
        <5> QED
          BY <2>6, <5>1, Effects
      <4> QED
        BY <1>1, <2>3, <3>1, <3>3, <4>1 DEF SoloInv, Counting
    <3> QED
      BY <2>4, <3>2, <3>3, Capacities
  <2>7. CASE Fill(t)
    <3>1. /\ pc[t] = "fill" /\ pc'[t] = "loadCount"
          /\ reg[t].slot = (conv.head + conv.count) % DisplayCapacity
          /\ conv.count < DisplayCapacity
      BY <2>2, <2>7, Effects DEF SoloInv, Counting
    <3>2. /\ conv'.head = conv.head /\ conv'.count = conv.count
          /\ conv'.slots[reg[t].slot] = reg[t].msg
      BY <2>4, <2>7, <3>1, RingFacts DEF Fill, Ring
    <3> QED
      BY <1>1, <2>1, <2>3, <3>1, <3>2 DEF SoloInv, Counting
  <2>8. CASE LoadCount(t)
    <3>1. conv' = conv /\ pc[t] = "loadCount" /\ pc'[t] = "storeCount" /\ reg'[t].old = conv.count
      BY <2>8, Effects DEF LoadCount
    <3> QED
      BY <1>1, <2>1, <2>2, <2>3, <3>1 DEF SoloInv, Counting
  <2>9. CASE Replace(t)
    <3>1. pc[t] = "replace" /\ pc'[t] = "loadHead" /\ conv.count >= DisplayCapacity
      BY <2>2, <2>9, Effects DEF SoloInv
    <3>2. /\ conv'.head = conv.head /\ conv'.count = conv.count
          /\ conv'.slots[conv.head] = reg[t].msg
      BY <2>4, <2>9, RingFacts DEF Replace, Ring
    <3> QED
      BY <1>1, <2>1, <2>3, <3>1, <3>2 DEF SoloInv, Counting
  <2>10. CASE LoadHead(t)
    <3>1. conv' = conv /\ pc[t] = "loadHead" /\ pc'[t] = "storeHead" /\ reg'[t].old = conv.head
      BY <2>10, Effects DEF LoadHead
    <3> QED
      BY <1>1, <2>1, <2>2, <2>3, <3>1 DEF SoloInv, Counting
  <2>11. CASE Push(t)
    <3>1. /\ store' = store /\ pc'[t] = "write"
          /\ reg'[t].slot = (store.head + store.count) % StoreCapacity
      BY <2>11, Effects DEF Push
    <3> QED
      BY <1>1, <2>3, <3>1 DEF SoloInv, Counting
  <2>12. CASE WriteRecord(t)
    <3>1. /\ pc'[t] = "advance"
          /\ reg[t].slot = (store.head + store.count) % StoreCapacity
      BY <2>2, <2>12, Effects DEF SoloInv
    <3>2. /\ store'.head = store.head /\ store'.count = store.count
          /\ store'.slots[reg[t].slot] = reg[t].msg
      BY <2>4, <2>12, <3>1, RingFacts DEF WriteRecord, Ring
    <3> QED
      BY <1>1, <2>1, <2>3, <3>1, <3>2 DEF SoloInv, Counting
  <2>13. CASE LoadStored(t)
    <3>1. store' = store /\ store.slots[(store.head + store.count) % StoreCapacity] = reg[t].msg
      BY <2>2, <2>13, Effects DEF SoloInv, LoadStored
    <3>2. \/ store.count < StoreCapacity /\ pc'[t] = "storeStored" /\ reg'[t].old = store.count
          \/ store.count = StoreCapacity /\ pc'[t] = "storeOldest" /\ reg'[t].old = store.head
      BY <2>4, <2>13, Effects, Capacities
    <3> QED
      BY <1>1, <2>1, <2>3, <3>1, <3>2 DEF SoloInv, Counting
  <2> QED
    BY <1>3, <1>5, <2>5, <2>6, <2>7, <2>8, <2>9, <2>10, <2>11, <2>12, <2>13, Effects DEF OnInbound
<1> QED
  BY <1>4, <1>5

-----------------------------------------------------------------------------
(* Numbers only go back among messages that were numbered together.        *)
LEMMA NumStep ==
  ASSUME TypeInv, \A u \in Task : Undisturbed(u) => SoloInv(u), NumInv,
         NEW t \in Task, OnInbound(t)
  PROVE  NumInv'
<1>1. /\ \A u \in Task \ {t} : pc'[u] = pc[u] /\ reg'[u] = reg[u]
      /\ Len(ids) \in Nat /\ nextId \in Nat
      /\ \A n \in 1..Len(ids) : ids[n] \in Nat /\ ids'[n] = ids[n]
  <2>1. ids \in Seq(Nat) /\ nextId \in Nat
    BY DEF TypeInv, TypeOK
  <2>2. Len(ids) \in Nat /\ \A n \in 1..Len(ids) : ids[n] \in Nat
    BY <2>1
  <2> QED
    BY <2>1, <2>2, OneMoves, HistoryTypes
<1>2. LoadId(t) => /\ pc'[t] = "id" /\ reg'[t].msg = Len(ids) + 1 /\ reg'[t].old = nextId
                   /\ nextId' = nextId /\ Len(ids') = Len(ids) + 1 /\ ids'[Len(ids) + 1] = nextId
  <2> SUFFICES ASSUME LoadId(t)
               PROVE  ids'[Len(ids) + 1] = nextId
    BY Effects, HistoryTypes DEF LoadId
  <2> QED
    BY DEF LoadId, TypeInv, TypeOK
<1>3. ~ LoadId(t) => pc'[t] # "id" /\ Len(ids') = Len(ids)
  <2>1. store.count < StoreCapacity \/ store.count >= StoreCapacity
    BY RingFacts, Capacities
  <2> QED
    BY <2>1, Effects, HistoryTypes DEF OnInbound
<1>4. ASSUME NEW u \in Task, pc'[u] = "id"
      PROVE  reg'[u].old = ids'[reg'[u].msg]
  <2>1. CASE u = t
    BY <1>2, <1>3, <1>4, <2>1
  <2>2. CASE u # t
    <3>1. /\ pc[u] = "id" /\ reg'[u] = reg[u] /\ reg[u].msg \in 1..Len(ids)
          /\ reg[u].old = ids[reg[u].msg]
      BY <1>1, <1>4, <2>2, TypeFacts DEF NumInv, At
    <3> QED
      BY <1>1, <3>1
  <2> QED
    BY <2>1, <2>2
<1>5. ASSUME NEW m \in 1..Len(ids'), m \notin crowded', \A u \in At({"id"})' : reg'[u].msg # m
      PROVE  /\ nextId' > ids'[m]
             /\ \A u \in At({"id"})' : reg'[u].old > ids'[m]
             /\ \A n \in 1..Len(ids') : n > m => ids'[n] > ids'[m]
  <2>1. m \in 1..Len(ids) /\ m \notin crowded /\ ids[m] \in Nat /\ ids'[m] = ids[m]
    <3>1. LoadId(t) => m # Len(ids) + 1
      BY <1>2, <1>5 DEF At
    <3>2. m \in 1..Len(ids)
      BY <1>1, <1>2, <1>3, <3>1
    <3> QED
      BY <1>1, <1>5, <3>2, HistoryTypes
  <2>2. CASE \E u \in At({"id"}) : reg[u].msg = m
    <3>1. PICK u \in Task : pc[u] = "id" /\ reg[u].msg = m
      BY <2>2 DEF At
    <3>2. u = t
      BY <1>1, <1>5, <3>1 DEF At
    <3>3. StoreId(t)
      BY <3>1, <3>2, Effects DEF OnInbound
    <3>4. Undisturbed(t) /\ SoloInv(t)
      BY <2>1, <3>1, <3>2 DEF Undisturbed
    <3>5. m = Len(ids) /\ \A v \in Task \ {t} : pc[v] = "idle"
      BY <3>1, <3>2, <3>4 DEF SoloInv
    <3>6. pc'[t] # "id" /\ ids' = ids
      BY <3>3, Effects, Writes DEF StoreId
    <3>7. At({"id"})' = {}
      BY <1>1, <3>5, <3>6 DEF At
    <3>8. nextId' = reg[t].old + 1 /\ reg[t].old = ids[m]
      BY <3>1, <3>2, <3>3 DEF StoreId, NumInv, At
    <3> QED
      BY <1>1, <2>1, <3>5, <3>6, <3>7, <3>8
  <2>3. CASE \A u \in At({"id"}) : reg[u].msg # m
    <3>1. /\ nextId > ids[m]
          /\ \A u \in Task : pc[u] = "id" => reg[u].old > ids[m]
          /\ \A n \in 1..Len(ids) : n > m => ids[n] > ids[m]
      BY <2>1, <2>3 DEF NumInv, At
    <3>2. nextId' > ids[m]
      <4>1. CASE StoreId(t)
        <5>1. pc[t] = "id" /\ nextId' = reg[t].old + 1 /\ reg[t].old \in Nat
          BY <4>1, TypeFacts DEF StoreId
        <5> QED
          BY <2>1, <3>1, <5>1
      <4>2. CASE nextId' = nextId
        BY <3>1, <4>2
      <4> QED
        BY <4>1, <4>2, Writes
    <3>3. \A u \in At({"id"})' : reg'[u].old > ids[m]
      BY <1>1, <1>2, <1>3, <3>1 DEF At
    <3>4. \A n \in 1..Len(ids') : n > m => ids'[n] > ids[m]
      BY <1>1, <1>2, <1>3, <3>1
    <3> QED
      BY <2>1, <3>2, <3>3, <3>4
  <2> QED
    BY <2>2, <2>3
<1> QED
  BY <1>4, <1>5 DEF NumInv, At

-----------------------------------------------------------------------------
(* How the sets of the ring invariants change with a step of task t.       *)

(* Only t comes to a place or leaves one. *)
LEMMA AtStep ==
  ASSUME TypeInv, NEW t \in Task, OnInbound(t), NEW labels
  PROVE  /\ At(labels)' = (At(labels) \ {t}) \cup (IF pc'[t] \in labels THEN {t} ELSE {})
         /\ ReadAt(labels)' \subseteq ReadAt(labels) \cup (IF pc'[t] \in labels THEN {reg'[t].old} ELSE {})
         /\ SlotsAt(labels)' \subseteq SlotsAt(labels) \cup (IF pc'[t] \in labels THEN {reg'[t].slot} ELSE {})
<1>1. \A u \in Task \ {t} : pc'[u] = pc[u] /\ reg'[u] = reg[u]
  BY OneMoves
<1>2. \A u \in Task : (u \in At(labels)') <=> IF u = t THEN pc'[t] \in labels ELSE u \in At(labels)
  BY <1>1 DEF At
<1>3. At(labels)' = (At(labels) \ {t}) \cup (IF pc'[t] \in labels THEN {t} ELSE {})
  BY <1>2 DEF At
<1>4. ReadAt(labels)' \subseteq ReadAt(labels) \cup (IF pc'[t] \in labels THEN {reg'[t].old} ELSE {})
  BY <1>1, <1>3 DEF ReadAt, At
<1>5. SlotsAt(labels)' \subseteq SlotsAt(labels) \cup (IF pc'[t] \in labels THEN {reg'[t].slot} ELSE {})
  BY <1>1, <1>3 DEF SlotsAt, At
<1> QED
  BY <1>3, <1>4, <1>5

LEMMA AtFinite ==
  ASSUME NEW labels
  PROVE  IsFiniteSet(At(labels)) /\ Cardinality(At(labels)) \in Nat
<1>1. IsFiniteSet(Task) /\ At(labels) \in SUBSET Task
  BY ChatAssumption DEF At
<1>2. IsFiniteSet(At(labels))
  BY <1>1, FS_Subset
<1> QED
  BY <1>2, FS_CardinalityType

(* There is room for the entries to come: as long as the message is one of *)
(* the last, what a task adds is room it had.                              *)
LEMMA RoomStep ==
  ASSUME TypeInv, NEW t \in Task, OnInbound(t), NEW busy, "id" \in busy, "idle" \notin busy,
         pc'[t] \in busy => pc[t] \in busy \cup {"idle"}, NEW m \in Nat
  PROVE  /\ Room(m, busy) \in Int /\ Room(m, busy)' \in Int
         /\ Room(m, busy)' >= Room(m, busy)
         /\ pc[t] \in busy /\ pc'[t] \notin busy => Room(m, busy)' = Room(m, busy) + 1
         /\ pc[t] \in busy => Room(m, busy) < Since(m)
         /\ Since(m) \in Int /\ Since(m)' \in Int /\ Since(m)' >= Since(m)
<1> DEFINE A == At(busy)
           n == Cardinality(A)
           B == At(busy)'
           k == Cardinality(B)
<1>1. /\ IsFiniteSet(A) /\ n \in Nat
      /\ B = (A \ {t}) \cup (IF pc'[t] \in busy THEN {t} ELSE {})
      /\ t \in A <=> pc[t] \in busy
  BY AtFinite, AtStep DEF At
<1>2. /\ IsFiniteSet(A \ {t}) /\ Cardinality(A \ {t}) = (IF t \in A THEN n - 1 ELSE n)
      /\ Cardinality((A \ {t}) \cup {t}) = Cardinality(A \ {t}) + 1
  <2>1. IsFiniteSet(A \ {t}) /\ Cardinality(A \ {t}) = IF t \in A THEN n - 1 ELSE n
    BY <1>1, FS_RemoveElement
  <2> QED
    BY <2>1, FS_AddElement
<1>3. Len(ids) \in Nat /\ Len(ids') = IF LoadId(t) THEN Len(ids) + 1 ELSE Len(ids)
  BY RingFacts, HistoryTypes
<1>4. /\ Room(m, busy) = Len(ids) - m - n /\ Room(m, busy)' = Len(ids') - m - k
      /\ Since(m) = Len(ids) - m /\ Since(m)' = Len(ids') - m
  BY DEF Room, Since
<1>5. t \in A => n > 0
  BY <1>1, FS_EmptySet
<1>6. CASE LoadId(t)
  <2>1. t \notin A /\ pc'[t] \in busy
    BY <1>1, <1>6, Effects
  <2>2. k = n + 1
    BY <1>1, <1>2, <2>1
  <2> QED
    BY <1>1, <1>3, <1>4, <1>6, <2>1, <2>2
<1>7. CASE ~ LoadId(t)
  <2>1. pc[t] # "idle"
    BY <1>7, Effects DEF OnInbound
  <2>2. k = (IF pc'[t] \in busy THEN n ELSE IF pc[t] \in busy THEN n - 1 ELSE n)
    BY <1>1, <1>2, <2>1
  <2> QED
    BY <1>1, <1>2, <1>3, <1>4, <1>5, <1>7, <2>1, <2>2
<1> QED
  BY <1>6, <1>7

(* A message is kept after a step if it was before, or if t has come to    *)
(* one of the places with it.                                              *)
LEMMA KeptStep ==
  ASSUME TypeInv, NEW t \in Task, OnInbound(t), NEW labels, "listen" \in labels, "id" \notin labels,
         "idle" \notin labels, NEW m \in Kept(labels)'
  PROVE  /\ m \in 1..Len(ids) /\ m \notin crowded /\ m \notin crowded'
         /\ \/ m \in Kept(labels)
            \/ pc[t] \notin labels /\ pc'[t] \in labels /\ reg[t].msg = m /\ Undisturbed(t)
<1>1. m \in 1..Len(ids') /\ m \notin crowded' /\ m \notin crowded
  BY HistoryTypes DEF Kept
<1>2. CASE m \in shown'
  <2>1. CASE m \in shown
    BY <1>1, <2>1 DEF Kept, TypeInv
  <2>2. CASE m \notin shown
    <3>1. Listen(t) /\ m = reg[t].msg /\ pc[t] = "listen"
      BY <1>2, <2>2, Writes DEF Listen
    <3>2. m \in 1..Len(ids)
      BY <3>1, TypeFacts
    <3> QED
      BY <1>1, <3>1, <3>2 DEF Kept, At
  <2> QED
    BY <2>1, <2>2
<1>3. CASE m \notin shown'
  <2>1. PICK u \in Task : pc'[u] \in labels /\ reg'[u].msg = m
    BY <1>3 DEF Kept, At
  <2>2. CASE u # t
    <3>1. pc[u] \in labels /\ reg[u].msg = m
      BY <2>1, <2>2, OneMoves
    <3>2. m \in 1..Len(ids)
      BY <3>1, TypeFacts
    <3> QED
      BY <1>1, <3>1, <3>2 DEF Kept, At
  <2>3. CASE u = t
    <3>1. pc[t] # "idle" /\ reg[t].msg = m
      BY <2>1, <2>3, Effects DEF OnInbound
    <3>2. m \in 1..Len(ids)
      BY <3>1, TypeFacts
    <3> QED
      BY <1>1, <2>1, <2>3, <3>1, <3>2 DEF Kept, At, Undisturbed
  <2> QED
    BY <2>2, <2>3
<1> QED
  BY <1>2, <1>3

-----------------------------------------------------------------------------
(* The conversation. *)

AfterConv == {"push", "write", "advance", "storeStored", "storeOldest", "listen"}

LEMMA ConvSets ==
  ASSUME TypeInv
  PROVE  /\ ConvCounts \in SUBSET Nat
         /\ ConvHeads \in SUBSET (0..(DisplayCapacity - 1))
         /\ \A t \in Task :
              /\ pc[t] = "storeCount" => reg[t].old \in ConvCounts
              /\ pc[t] = "storeHead" => reg[t].old \in ConvHeads
              /\ pc[t] \in ConvFull => DisplayCapacity \in ConvCounts
              /\ pc[t] = "fill" => reg[t].slot \in SlotsAt({"fill"})
         /\ conv.count \in ConvCounts /\ conv.head \in ConvHeads
<1>1. \A u \in At({"storeCount"}) : reg[u].old \in Nat
  BY TypeFacts DEF At
<1>2. \A u \in At({"storeHead"}) : reg[u].old \in 0..(DisplayCapacity - 1)
  <2> SUFFICES ASSUME NEW u \in Task, pc[u] = "storeHead"
               PROVE  reg[u].old \in 0..(DisplayCapacity - 1)
    BY DEF At
  <2>1. reg[u].old \in Nat /\ reg[u].old < DisplayCapacity
    BY TypeFacts DEF TypeInv
  <2> QED
    BY <2>1, Capacities
<1>3. ConvCounts \in SUBSET Nat
  BY <1>1, RingFacts, Capacities DEF ConvCounts, ReadAt
<1>4. ConvHeads \in SUBSET (0..(DisplayCapacity - 1))
  BY <1>2, RingFacts DEF ConvHeads, ReadAt
<1>5. ASSUME NEW t \in Task
      PROVE  /\ pc[t] = "storeCount" => reg[t].old \in ConvCounts
             /\ pc[t] = "storeHead" => reg[t].old \in ConvHeads
             /\ pc[t] \in ConvFull => DisplayCapacity \in ConvCounts
             /\ pc[t] = "fill" => reg[t].slot \in SlotsAt({"fill"})
  <2>1. \A labels : pc[t] \in labels => /\ t \in At(labels) /\ reg[t].old \in ReadAt(labels)
                                        /\ reg[t].slot \in SlotsAt(labels)
    BY DEF At, ReadAt, SlotsAt
  <2>2. pc[t] = "storeCount" => reg[t].old \in ReadAt({"storeCount"})
    BY <2>1
  <2>3. pc[t] = "storeHead" => reg[t].old \in ReadAt({"storeHead"})
    BY <2>1
  <2>4. pc[t] = "fill" => reg[t].slot \in SlotsAt({"fill"})
    BY <2>1
  <2>5. pc[t] \in ConvFull => At(ConvFull) # {}
    BY <2>1
  <2> QED
    BY <2>2, <2>3, <2>4, <2>5 DEF ConvCounts, ConvHeads
<1> QED
  BY <1>3, <1>4, <1>5 DEF ConvCounts, ConvHeads

(* A message that was in the conversation stays there. *)
LEMMA ConvKeeps ==
  ASSUME TypeInv, NEW t \in Task, OnInbound(t), NEW m \in Nat, NEW p \in 0..(DisplayCapacity - 1),
         SafeAt(p, m, conv.slots, DisplayCapacity, ConvCounts, ConvHeads, SlotsAt({"fill"}),
                Room(m, ConvBusy)),
         Since(m) < DisplayCapacity
  PROVE  SafeAt(p, m, conv'.slots, DisplayCapacity, ConvCounts', ConvHeads', SlotsAt({"fill"})',
                Room(m, ConvBusy)')
<1> DEFINE C == DisplayCapacity
           counts == ConvCounts
           heads == ConvHeads
           targets == SlotsAt({"fill"})
           room == Room(m, ConvBusy)
<1> USE Capacities
<1>1. counts \in SUBSET Nat /\ heads \in SUBSET (0..(C - 1))
  BY ConvSets
<1>2. /\ room \in Int /\ room' \in Int /\ room' >= room /\ Since(m) \in Int
      /\ pc[t] \in ConvBusy /\ pc'[t] \notin ConvBusy => room' = room + 1
      /\ pc[t] \in ConvBusy => room < C - 1
  <2>1. "id" \in ConvBusy /\ "idle" \notin ConvBusy
    BY DEF ConvBusy, Counting, ConvFull
  <2>2. pc'[t] \in ConvBusy => pc[t] \in ConvBusy \cup {"idle"}
    <3>1. store.count < StoreCapacity \/ store.count >= StoreCapacity
      BY RingFacts
    <3> QED
      BY <3>1, Effects DEF OnInbound, ConvBusy, Counting, ConvFull
  <2> QED
    BY <2>1, <2>2, RoomStep
<1>3. /\ ReadAt({"storeCount"})' \subseteq
             ReadAt({"storeCount"}) \cup (IF pc'[t] = "storeCount" THEN {reg'[t].old} ELSE {})
      /\ ReadAt({"storeHead"})' \subseteq
             ReadAt({"storeHead"}) \cup (IF pc'[t] = "storeHead" THEN {reg'[t].old} ELSE {})
      /\ targets' \subseteq targets \cup (IF pc'[t] = "fill" THEN {reg'[t].slot} ELSE {})
      /\ At(ConvFull)' # {} => At(ConvFull) # {} \/ pc'[t] \in ConvFull
  BY AtStep
<1>4. /\ counts' \subseteq counts \cup {conv'.count}
                 \cup (IF pc'[t] = "storeCount" THEN {reg'[t].old} ELSE {})
                 \cup (IF pc'[t] \in ConvFull THEN {C} ELSE {})
      /\ heads' \subseteq heads \cup {conv'.head} \cup (IF pc'[t] = "storeHead" THEN {reg'[t].old} ELSE {})
  BY <1>3 DEF ConvCounts, ConvHeads
<1>5. /\ \A u \in Task :
           /\ pc[u] = "storeCount" => reg[u].old \in counts
           /\ pc[u] = "storeHead" => reg[u].old \in heads
           /\ pc[u] \in ConvFull => C \in counts
           /\ pc[u] = "fill" => reg[u].slot \in targets
      /\ conv.count \in counts /\ conv.head \in heads /\ conv.count \in Nat
  BY ConvSets, RingFacts
<1> HIDE DEF counts, heads, targets, room
<1> DEFINE Safe0(slots, cs, hs, ts, r) == SafeAt(p, m, slots, C, cs, hs, ts, r)
<1>6. Safe0(conv.slots, counts, heads, targets, room)
  BY DEF counts, heads, targets, room
<1> SUFFICES Safe0(conv'.slots, counts', heads', targets', room')
  BY DEF counts, heads, targets, room
<1>7. CASE LoadId(t) \/ StoreId(t) \/ Push(t) \/ WriteRecord(t) \/ LoadStored(t) \/ Advance(t) \/ Listen(t)
  <2>1. conv' = conv
    BY <1>7 DEF LoadId, StoreId, Push, WriteRecord, LoadStored, Advance, Listen
  <2>2. pc'[t] \notin {"storeCount", "storeHead", "fill"} \cup ConvFull
    <3>1. store.count < StoreCapacity \/ store.count >= StoreCapacity
      BY RingFacts
    <3> QED
      BY <1>7, <3>1, Effects DEF ConvFull
  <2>3. counts' \in SUBSET counts /\ heads' \in SUBSET heads /\ targets' \in SUBSET targets
    BY <1>3, <1>4, <1>5, <2>1, <2>2
  <2> QED
    BY <1>1, <1>2, <1>6, <2>1, <2>3, SafeFrame
<1>8. CASE Reserve(t)
  <2>1. conv' = conv
    BY <1>8 DEF Reserve
  <2>2. CASE conv.count < C
    <3> DEFINE q == (conv.head + conv.count) % C
    <3>1. pc'[t] = "fill" /\ reg'[t].slot = q
      BY <1>8, <2>2, Effects
    <3>2. counts' \in SUBSET counts /\ heads' \in SUBSET heads /\ targets' \in SUBSET (targets \cup {q})
      BY <1>3, <1>4, <1>5, <2>1, <3>1 DEF ConvFull
    <3>3. q # p
      BY <1>1, <1>2, <1>5, <1>6, <2>2, SafeEnd
    <3> HIDE DEF q
    <3>4. Safe0(conv.slots, counts, heads, targets \cup {q}, room)
      BY <1>6, <3>3, SafeReserve
    <3> QED
      BY <1>1, <1>2, <2>1, <3>2, <3>4, SafeFrame
  <2>3. CASE conv.count >= C
    <3>1. pc'[t] = "replace"
      BY <1>5, <1>8, <2>3, Effects
    <3>2. /\ counts' \in SUBSET (counts \cup {C}) /\ heads' \in SUBSET heads
          /\ targets' \in SUBSET targets
      BY <1>3, <1>4, <1>5, <2>1, <3>1 DEF ConvFull
    <3>3. Safe0(conv.slots, counts \cup {C}, heads, targets, room)
      BY <1>1, <1>2, <1>5, <1>6, <2>3, SafeFull
    <3>4. counts \cup {C} \in SUBSET Nat
      BY <1>1
    <3> QED
      BY <1>1, <1>2, <2>1, <3>2, <3>3, <3>4, SafeFrame
  <2> QED
    BY <1>5, <2>2, <2>3
<1>9. CASE Fill(t)
  <2> DEFINE q == reg[t].slot
  <2>1. /\ conv'.slots = [conv.slots EXCEPT ![q] = reg[t].msg]
        /\ conv'.head = conv.head /\ conv'.count = conv.count
        /\ pc[t] = "fill" /\ pc'[t] = "loadCount"
    BY <1>9, RingFacts, Effects DEF Fill, Ring
  <2>2. q # p
    BY <1>5, <1>6, <2>1 DEF SafeAt
  <2>3. counts' \in SUBSET counts /\ heads' \in SUBSET heads /\ targets' \in SUBSET targets
    BY <1>3, <1>4, <1>5, <2>1 DEF ConvFull
  <2>4. conv'.slots[p] = conv.slots[p]
    BY <2>1, <2>2, RingFacts
  <2>5. Safe0(conv'.slots, counts, heads, targets, room)
    BY <1>6, <2>4, SafeWrite
  <2> QED
    BY <1>1, <1>2, <2>3, <2>5, SafeFrame
<1>10. CASE LoadCount(t) \/ LoadHead(t)
  <2>1. conv' = conv
    BY <1>10 DEF LoadCount, LoadHead
  <2>2. counts' \in SUBSET counts /\ heads' \in SUBSET heads /\ targets' \in SUBSET targets
    <3>1. CASE LoadCount(t)
      <4>1. pc'[t] = "storeCount" /\ reg'[t].old = conv.count
        BY <3>1, Effects
      <4> QED
        BY <1>3, <1>4, <1>5, <2>1, <4>1 DEF ConvFull
    <3>2. CASE LoadHead(t)
      <4>1. pc[t] = "loadHead" /\ pc'[t] = "storeHead" /\ reg'[t].old = conv.head
        BY <3>2, Effects
      <4>2. C \in counts
        BY <1>5, <4>1 DEF ConvFull
      <4> QED
        BY <1>3, <1>4, <1>5, <2>1, <4>1, <4>2
    <3> QED
      BY <1>10, <3>1, <3>2
  <2> QED
    BY <1>1, <1>2, <1>6, <2>1, <2>2, SafeFrame
<1>11. CASE StoreCount(t)
  <2> DEFINE c == reg[t].old
  <2>1. /\ conv'.slots = conv.slots /\ conv'.head = conv.head /\ conv'.count = c + 1
        /\ pc[t] = "storeCount" /\ pc'[t] = "push"
    BY <1>11, RingFacts, Effects DEF StoreCount, Ring
  <2>2. c \in counts /\ c \in Nat /\ room' = room + 1
    BY <1>2, <1>5, <2>1, TypeFacts DEF ConvBusy, Counting, ConvFull
  <2>3. counts' \in SUBSET (counts \cup {c + 1}) /\ heads' \in SUBSET heads /\ targets' \in SUBSET targets
    BY <1>3, <1>4, <1>5, <2>1 DEF ConvFull
  <2> HIDE DEF c
  <2>4. Safe0(conv.slots, counts \cup {c + 1}, heads, targets, room + 1)
    BY <1>1, <1>2, <1>6, <2>2, SafeCount
  <2>5. counts \cup {c + 1} \in SUBSET Nat /\ room' >= room + 1 /\ room + 1 \in Int
    BY <1>1, <1>2, <2>2
  <2> QED
    BY <1>1, <1>2, <2>1, <2>3, <2>4, <2>5, SafeFrame
<1>12. CASE Replace(t)
  <2> DEFINE q == conv.head
  <2>1. /\ conv'.slots = [conv.slots EXCEPT ![q] = reg[t].msg]
        /\ conv'.head = conv.head /\ conv'.count = conv.count
        /\ pc[t] = "replace" /\ pc'[t] = "loadHead"
    BY <1>12, RingFacts, Effects DEF Replace, Ring
  <2>2. C \in counts /\ room < C - 1
    BY <1>2, <1>5, <2>1 DEF ConvBusy, ConvFull
  <2>3. q # p
    BY <1>1, <1>2, <1>5, <1>6, <2>2, SafeFirst
  <2>4. counts' \in SUBSET counts /\ heads' \in SUBSET heads /\ targets' \in SUBSET targets
    BY <1>3, <1>4, <1>5, <2>1, <2>2
  <2>5. conv'.slots[p] = conv.slots[p]
    BY <2>1, <2>3, RingFacts
  <2>6. Safe0(conv'.slots, counts, heads, targets, room)
    BY <1>6, <2>5, SafeWrite
  <2> QED
    BY <1>1, <1>2, <2>4, <2>6, SafeFrame
<1>13. CASE StoreHead(t)
  <2> DEFINE h == reg[t].old
             k == (h + 1) % C
  <2>1. /\ conv'.slots = conv.slots /\ conv'.head = k /\ conv'.count = conv.count
        /\ pc[t] = "storeHead" /\ pc'[t] = "push"
    BY <1>13, RingFacts, Effects DEF StoreHead, Ring
  <2>2. h \in heads /\ C \in counts /\ room < C - 1 /\ room' = room + 1
    BY <1>2, <1>5, <2>1 DEF ConvBusy, Counting, ConvFull
  <2>3. counts' \in SUBSET counts /\ heads' \in SUBSET (heads \cup {k}) /\ targets' \in SUBSET targets
    BY <1>3, <1>4, <1>5, <2>1 DEF ConvFull
  <2>4. C >= C /\ h \in 0..(C - 1)
    <3>1. h \in 0..(C - 1)
      BY <1>1, <2>2
    <3> QED
      BY <3>1
  <2> HIDE DEF h, k
  <2>5. h # p
    <3>1. Safe0(conv.slots, counts, heads, targets, room) /\ C \in counts /\ h \in heads /\ room < C - 1
      BY <1>6, <2>2
    <3>2. counts \in SUBSET Nat /\ heads \in SUBSET (0..(C - 1)) /\ room \in Int /\ C >= C
      BY <1>1, <1>2, <2>4
    <3> HIDE DEF C
    <3>3. C \in Nat \ {0} /\ p \in 0..(C - 1)
      BY DEF C
    <3> QED
      BY <3>1, <3>2, <3>3, SafeFirst
  <2>6. Safe0(conv.slots, counts, heads \cup {k}, targets, room + 1)
    BY <1>1, <1>2, <1>6, <2>2, <2>5, SafeHead DEF k
  <2>7. k \in 0..(C - 1)
    BY <2>4, PosNextHead DEF k
  <2>8. heads \cup {k} \in SUBSET (0..(C - 1))
    <3> HIDE DEF k
    <3> QED
      BY <1>1, <2>7
  <2>9. room' >= room + 1 /\ room + 1 \in Int
    BY <1>2, <2>2
  <2> HIDE DEF k
  <2> QED
    BY <1>1, <1>2, <2>1, <2>3, <2>6, <2>8, <2>9, SafeFrame
<1> QED
  BY <1>7, <1>8, <1>9, <1>10, <1>11, <1>12, <1>13 DEF OnInbound

(* When the task of an undisturbed message steps on, the other tasks are   *)
(* idle and the message is the last one.                                   *)
LEMMA SoloSets ==
  ASSUME TypeInv, NEW t \in Task, OnInbound(t), Undisturbed(t), SoloInv(t),
         NEW labels, "idle" \notin labels, pc'[t] \notin labels, NEW m, m = reg[t].msg
  PROVE  /\ At(labels)' = {} /\ ReadAt(labels)' = {} /\ SlotsAt(labels)' = {}
         /\ Room(m, labels)' = 0
<1>1. At(labels)' = {}
  <2>1. \A u \in Task : pc'[u] \notin labels
    BY OneMoves DEF SoloInv
  <2> QED
    BY <2>1 DEF At
<1>2. ReadAt(labels)' = {} /\ SlotsAt(labels)' = {}
  BY <1>1 DEF ReadAt, SlotsAt
<1>3. Cardinality({}) = 0
  BY FS_EmptySet
<1>4. ids' = ids
  BY Effects, Writes DEF Undisturbed
<1>5. m = Len(ids) /\ Len(ids) \in Nat
  BY RingFacts DEF SoloInv
<1>6. Room(m, labels)' = Len(ids') - m - Cardinality(At(labels)')
  BY DEF Room, Since
<1> QED
  BY <1>1, <1>2, <1>3, <1>4, <1>5, <1>6

LEMMA ConvAdds ==
  ASSUME TypeInv, NEW t \in Task, OnInbound(t), Undisturbed(t), SoloInv(t),
         pc[t] \notin AfterConv, pc'[t] \in AfterConv, NEW m, m = reg[t].msg
  PROVE  Safe(m, conv'.slots, DisplayCapacity, ConvCounts', ConvHeads', SlotsAt({"fill"})',
              Room(m, ConvBusy)')
<1>1. (StoreCount(t) \/ StoreHead(t)) /\ pc'[t] = "push"
  <2>1. store.count < StoreCapacity \/ store.count >= StoreCapacity
    BY RingFacts, Capacities
  <2> QED
    BY <2>1, Effects DEF OnInbound, AfterConv
<1>2. SlotsAt({"fill"})' = {} /\ ReadAt({"storeCount"})' = {} /\ ReadAt({"storeHead"})' = {}
  BY <1>1, SoloSets
<1>3. At(ConvFull)' = {} /\ Room(m, ConvBusy)' = 0
  BY <1>1, SoloSets DEF ConvBusy, Counting, ConvFull
<1>4. ConvCounts' = {conv'.count} /\ ConvHeads' = {conv'.head}
  BY <1>2, <1>3 DEF ConvCounts, ConvHeads
<1>5. conv.count \in Nat /\ conv.head \in 0..(DisplayCapacity - 1) /\ DisplayCapacity \in Nat \ {0}
  BY RingFacts, Capacities
<1>6. CASE StoreCount(t)
  <2>1. /\ conv.count < DisplayCapacity /\ reg[t].old = conv.count
        /\ conv.slots[(conv.head + conv.count) % DisplayCapacity] = m
    BY <1>6, Effects DEF SoloInv, Counting
  <2>2. /\ conv'.slots = conv.slots /\ conv'.head = conv.head
        /\ conv'.count = reg[t].old + 1
    BY <1>6, RingFacts DEF StoreCount, Ring
  <2>3. Safe(m, conv.slots, DisplayCapacity, {conv.count + 1}, {conv.head}, {}, 0)
    BY <1>5, <2>1, SafeAdded
  <2> QED
    BY <1>2, <1>3, <1>4, <2>1, <2>2, <2>3
<1>7. CASE StoreHead(t)
  <2>1. /\ conv.count >= DisplayCapacity /\ reg[t].old = conv.head
        /\ conv.slots[conv.head] = m
    BY <1>7, Effects DEF SoloInv
  <2>2. /\ conv'.slots = conv.slots /\ conv'.count = conv.count
        /\ conv'.head = (reg[t].old + 1) % DisplayCapacity
    BY <1>7, RingFacts DEF StoreHead, Ring
  <2>3. Safe(m, conv.slots, DisplayCapacity, {conv.count}, {(conv.head + 1) % DisplayCapacity}, {}, 0)
    BY <1>5, <2>1, SafeReplaced
  <2> QED
    BY <1>2, <1>3, <1>4, <2>1, <2>2, <2>3
<1> QED
  BY <1>1, <1>6, <1>7

LEMMA ConvStep ==
  ASSUME TypeInv, \A u \in Task : Undisturbed(u) => SoloInv(u), ConvInv,
         NEW t \in Task, OnInbound(t)
  PROVE  ConvInv'
<1> SUFFICES ASSUME NEW m \in Kept(AfterConv)', Since(m)' < DisplayCapacity
             PROVE  Safe(m, conv'.slots, DisplayCapacity, ConvCounts', ConvHeads',
                         SlotsAt({"fill"})', Room(m, ConvBusy)')
  BY DEF ConvInv, AfterConv
<1>1. m \in 1..Len(ids) /\ m \in Nat
  BY KeptStep, RingFacts DEF AfterConv
<1>2. CASE m \in Kept(AfterConv)
  <2>1. Since(m) < DisplayCapacity
    <3>1. Len(ids) \in Nat /\ Len(ids') \in Nat /\ Len(ids') >= Len(ids)
      BY RingFacts, HistoryTypes
    <3> QED
      BY <1>1, <3>1, Capacities DEF Since
  <2>2. Safe(m, conv.slots, DisplayCapacity, ConvCounts, ConvHeads, SlotsAt({"fill"}), Room(m, ConvBusy))
    BY <1>2, <2>1 DEF ConvInv, AfterConv
  <2> QED
    BY <1>1, <2>1, <2>2, ConvKeeps DEF Safe
<1>3. CASE m \notin Kept(AfterConv)
  <2>1. /\ pc[t] \notin AfterConv /\ pc'[t] \in AfterConv /\ reg[t].msg = m
        /\ Undisturbed(t) /\ SoloInv(t)
    BY <1>3, KeptStep DEF AfterConv
  <2> QED
    BY <2>1, ConvAdds
<1> QED
  BY <1>2, <1>3

-----------------------------------------------------------------------------
(* The store. *)

LEMMA StoreSets ==
  ASSUME TypeInv
  PROVE  /\ StoreCounts \in SUBSET Nat
         /\ StoreHeads \in SUBSET (0..(StoreCapacity - 1))
         /\ \A t \in Task :
              /\ pc[t] = "storeStored" => reg[t].old \in StoreCounts
              /\ pc[t] = "storeOldest" => reg[t].old \in StoreHeads /\ StoreCapacity \in StoreCounts
              /\ pc[t] = "write" => reg[t].slot \in SlotsAt({"write"})
         /\ store.count \in StoreCounts /\ store.head \in StoreHeads
<1>1. \A u \in At({"storeStored"}) : reg[u].old \in Nat
  BY TypeFacts DEF At
<1>2. \A u \in At({"storeOldest"}) : reg[u].old \in 0..(StoreCapacity - 1)
  <2> SUFFICES ASSUME NEW u \in Task, pc[u] = "storeOldest"
               PROVE  reg[u].old \in 0..(StoreCapacity - 1)
    BY DEF At
  <2>1. reg[u].old \in Nat /\ reg[u].old < StoreCapacity
    BY TypeFacts DEF TypeInv
  <2> QED
    BY <2>1, Capacities
<1>3. StoreCounts \in SUBSET Nat
  BY <1>1, RingFacts, Capacities DEF StoreCounts, ReadAt
<1>4. StoreHeads \in SUBSET (0..(StoreCapacity - 1))
  BY <1>2, RingFacts DEF StoreHeads, ReadAt
<1>5. ASSUME NEW t \in Task
      PROVE  /\ pc[t] = "storeStored" => reg[t].old \in StoreCounts
             /\ pc[t] = "storeOldest" => reg[t].old \in StoreHeads /\ StoreCapacity \in StoreCounts
             /\ pc[t] = "write" => reg[t].slot \in SlotsAt({"write"})
  <2>1. \A labels : pc[t] \in labels => /\ t \in At(labels) /\ reg[t].old \in ReadAt(labels)
                                        /\ reg[t].slot \in SlotsAt(labels)
    BY DEF At, ReadAt, SlotsAt
  <2>2. pc[t] = "storeStored" => reg[t].old \in ReadAt({"storeStored"})
    BY <2>1
  <2>3. pc[t] = "storeOldest" => reg[t].old \in ReadAt({"storeOldest"}) /\ At({"storeOldest"}) # {}
    BY <2>1
  <2>4. pc[t] = "write" => reg[t].slot \in SlotsAt({"write"})
    BY <2>1
  <2> QED
    BY <2>2, <2>3, <2>4 DEF StoreCounts, StoreHeads
<1> QED
  BY <1>3, <1>4, <1>5 DEF StoreCounts, StoreHeads

(* A record that was in the store stays there. *)
LEMMA StoreKeeps ==
  ASSUME TypeInv, NEW t \in Task, OnInbound(t), NEW m \in Nat, NEW p \in 0..(StoreCapacity - 1),
         SafeAt(p, m, store.slots, StoreCapacity, StoreCounts, StoreHeads, SlotsAt({"write"}),
                Room(m, StoreBusy)),
         Since(m) < StoreCapacity
  PROVE  SafeAt(p, m, store'.slots, StoreCapacity, StoreCounts', StoreHeads', SlotsAt({"write"})',
                Room(m, StoreBusy)')
<1> DEFINE C == StoreCapacity
           counts == StoreCounts
           heads == StoreHeads
           targets == SlotsAt({"write"})
           room == Room(m, StoreBusy)
<1> USE Capacities
<1>1. counts \in SUBSET Nat /\ heads \in SUBSET (0..(C - 1))
  BY StoreSets
<1>2. /\ room \in Int /\ room' \in Int /\ room' >= room /\ Since(m) \in Int
      /\ pc[t] \in StoreBusy /\ pc'[t] \notin StoreBusy => room' = room + 1
      /\ pc[t] \in StoreBusy => room < C - 1
  <2>1. "id" \in StoreBusy /\ "idle" \notin StoreBusy
    BY DEF StoreBusy, ConvBusy, Counting, ConvFull
  <2>2. pc'[t] \in StoreBusy => pc[t] \in StoreBusy \cup {"idle"}
    BY Effects DEF OnInbound, StoreBusy, ConvBusy, Counting, ConvFull
  <2> QED
    BY <2>1, <2>2, RoomStep
<1>3. /\ ReadAt({"storeStored"})' \subseteq
             ReadAt({"storeStored"}) \cup (IF pc'[t] = "storeStored" THEN {reg'[t].old} ELSE {})
      /\ ReadAt({"storeOldest"})' \subseteq
             ReadAt({"storeOldest"}) \cup (IF pc'[t] = "storeOldest" THEN {reg'[t].old} ELSE {})
      /\ targets' \subseteq targets \cup (IF pc'[t] = "write" THEN {reg'[t].slot} ELSE {})
      /\ At({"storeOldest"})' # {} => At({"storeOldest"}) # {} \/ pc'[t] = "storeOldest"
  BY AtStep
<1>4. /\ counts' \subseteq counts \cup {store'.count}
                 \cup (IF pc'[t] = "storeStored" THEN {reg'[t].old} ELSE {})
                 \cup (IF pc'[t] = "storeOldest" THEN {C} ELSE {})
      /\ heads' \subseteq heads \cup {store'.head} \cup (IF pc'[t] = "storeOldest" THEN {reg'[t].old} ELSE {})
  BY <1>3 DEF StoreCounts, StoreHeads
<1>5. /\ \A u \in Task :
           /\ pc[u] = "storeStored" => reg[u].old \in counts
           /\ pc[u] = "storeOldest" => reg[u].old \in heads /\ C \in counts
           /\ pc[u] = "write" => reg[u].slot \in targets
      /\ store.count \in counts /\ store.head \in heads
      /\ store.count \in Nat /\ store.count <= C
  BY StoreSets, RingFacts
<1> HIDE DEF counts, heads, targets, room
<1> DEFINE Safe0(slots, cs, hs, ts, r) == SafeAt(p, m, slots, C, cs, hs, ts, r)
<1>6. Safe0(store.slots, counts, heads, targets, room)
  BY DEF counts, heads, targets, room
<1> SUFFICES Safe0(store'.slots, counts', heads', targets', room')
  BY DEF counts, heads, targets, room
<1>7. CASE ~ Push(t) /\ ~ WriteRecord(t) /\ ~ LoadStored(t) /\ ~ Advance(t)
  <2>1. store' = store
    BY <1>7, Writes
  <2>2. pc'[t] \notin {"storeStored", "storeOldest", "write"}
    BY <1>7, Effects DEF OnInbound
  <2>3. counts' \in SUBSET counts /\ heads' \in SUBSET heads /\ targets' \in SUBSET targets
    BY <1>3, <1>4, <1>5, <2>1, <2>2
  <2> QED
    BY <1>1, <1>2, <1>6, <2>1, <2>3, SafeFrame
<1>8. CASE Push(t)
  <2> DEFINE q == (store.head + store.count) % C
  <2>1. store' = store /\ pc[t] = "push" /\ pc'[t] = "write" /\ reg'[t].slot = q
    BY <1>8, Effects DEF Push
  <2>2. counts' \in SUBSET counts /\ heads' \in SUBSET heads /\ targets' \in SUBSET (targets \cup {q})
    BY <1>3, <1>4, <1>5, <2>1
  <2>3. q # p
    <3>1. CASE store.count < C
      BY <1>1, <1>2, <1>5, <1>6, <3>1, SafeEnd
    <3>2. CASE store.count = C
      <4>1. store.head \in 0..(C - 1)
        BY RingFacts
      <4>2. q = store.head
        BY <3>2, <4>1, WrapAround
      <4>3. room < C - 1 /\ store.count >= C
        BY <1>2, <2>1, <3>2 DEF StoreBusy
      <4> QED
        BY <1>1, <1>2, <1>5, <1>6, <4>2, <4>3, SafeFirst
    <3> QED
      BY <1>5, <3>1, <3>2
  <2> HIDE DEF q
  <2>4. Safe0(store.slots, counts, heads, targets \cup {q}, room)
    BY <1>6, <2>3, SafeReserve
  <2> QED
    BY <1>1, <1>2, <2>1, <2>2, <2>4, SafeFrame
<1>9. CASE WriteRecord(t)
  <2> DEFINE q == reg[t].slot
  <2>1. /\ store'.slots = [store.slots EXCEPT ![q] = reg[t].msg]
        /\ store'.head = store.head /\ store'.count = store.count
        /\ pc[t] = "write" /\ pc'[t] = "advance"
    BY <1>9, RingFacts, Effects DEF WriteRecord, Ring
  <2>2. q # p
    BY <1>5, <1>6, <2>1 DEF SafeAt
  <2>3. counts' \in SUBSET counts /\ heads' \in SUBSET heads /\ targets' \in SUBSET targets
    BY <1>3, <1>4, <1>5, <2>1
  <2>4. store'.slots[p] = store.slots[p]
    BY <2>1, <2>2, RingFacts
  <2>5. Safe0(store'.slots, counts, heads, targets, room)
    BY <1>6, <2>4, SafeWrite
  <2> QED
    BY <1>1, <1>2, <2>3, <2>5, SafeFrame
<1>10. CASE LoadStored(t)
  <2>1. store' = store
    BY <1>10 DEF LoadStored
  <2>2. CASE store.count < C
    <3>1. pc'[t] = "storeStored" /\ reg'[t].old = store.count
      BY <1>10, <2>2, Effects
    <3>2. counts' \in SUBSET counts /\ heads' \in SUBSET heads /\ targets' \in SUBSET targets
      BY <1>3, <1>4, <1>5, <2>1, <3>1
    <3> QED
      BY <1>1, <1>2, <1>6, <2>1, <3>2, SafeFrame
  <2>3. CASE store.count >= C
    <3>1. pc'[t] = "storeOldest" /\ reg'[t].old = store.head
      BY <1>10, <2>3, Effects
    <3>2. /\ counts' \in SUBSET (counts \cup {C}) /\ heads' \in SUBSET heads
          /\ targets' \in SUBSET targets
      BY <1>3, <1>4, <1>5, <2>1, <3>1
    <3>3. Safe0(store.slots, counts \cup {C}, heads, targets, room)
      BY <1>1, <1>2, <1>5, <1>6, <2>3, SafeFull
    <3>4. counts \cup {C} \in SUBSET Nat
      BY <1>1
    <3> QED
      BY <1>1, <1>2, <2>1, <3>2, <3>3, <3>4, SafeFrame
  <2> QED
    BY <1>5, <2>2, <2>3
<1>11. CASE Advance(t) /\ pc[t] = "storeStored"
  <2> DEFINE c == reg[t].old
  <2>1. store' = [store EXCEPT !.count = c + 1]
    BY <1>11 DEF Advance
  <2>2. /\ store'.slots = store.slots /\ store'.head = store.head /\ store'.count = c + 1
        /\ pc'[t] = "listen"
    BY <1>11, <2>1, RingFacts, Effects DEF Ring
  <2>3. c \in counts /\ c \in Nat /\ room' = room + 1
    BY <1>2, <1>5, <1>11, <2>2, TypeFacts DEF StoreBusy, ConvBusy, Counting, ConvFull
  <2>4. counts' \in SUBSET (counts \cup {c + 1}) /\ heads' \in SUBSET heads /\ targets' \in SUBSET targets
    BY <1>3, <1>4, <1>5, <2>2
  <2> HIDE DEF c
  <2>5. Safe0(store.slots, counts \cup {c + 1}, heads, targets, room + 1)
    BY <1>1, <1>2, <1>6, <2>3, SafeCount
  <2>6. counts \cup {c + 1} \in SUBSET Nat /\ room' >= room + 1 /\ room + 1 \in Int
    BY <1>1, <1>2, <2>3
  <2> QED
    BY <1>1, <1>2, <2>2, <2>4, <2>5, <2>6, SafeFrame
<1>12. CASE Advance(t) /\ pc[t] = "storeOldest"
  <2> DEFINE h == reg[t].old
             k == (h + 1) % C
  <2>1. store' = [store EXCEPT !.head = k]
    BY <1>12 DEF Advance
  <2>2. /\ store'.slots = store.slots /\ store'.head = k /\ store'.count = store.count
        /\ pc'[t] = "listen"
    BY <1>12, <2>1, RingFacts, Effects DEF Ring
  <2>3. h \in heads /\ C \in counts /\ room < C - 1 /\ room' = room + 1
    BY <1>2, <1>5, <1>12, <2>2 DEF StoreBusy, ConvBusy, Counting, ConvFull
  <2>4. counts' \in SUBSET counts /\ heads' \in SUBSET (heads \cup {k}) /\ targets' \in SUBSET targets
    BY <1>3, <1>4, <1>5, <2>2
  <2>5. C >= C /\ h \in 0..(C - 1)
    <3>1. h \in 0..(C - 1)
      BY <1>1, <2>3
    <3> QED
      BY <3>1
  <2> HIDE DEF h, k
  <2>6. h # p
    <3>1. Safe0(store.slots, counts, heads, targets, room) /\ C \in counts /\ h \in heads /\ room < C - 1
      BY <1>6, <2>3
    <3>2. counts \in SUBSET Nat /\ heads \in SUBSET (0..(C - 1)) /\ room \in Int /\ C >= C
      BY <1>1, <1>2, <2>5
    <3> HIDE DEF C
    <3>3. C \in Nat \ {0} /\ p \in 0..(C - 1)
      BY DEF C
    <3> QED
      BY <3>1, <3>2, <3>3, SafeFirst
  <2>7. Safe0(store.slots, counts, heads \cup {k}, targets, room + 1)
    BY <1>1, <1>2, <1>6, <2>3, <2>6, SafeHead DEF k
  <2>8. k \in 0..(C - 1)
    BY <2>5, PosNextHead DEF k
  <2>9. heads \cup {k} \in SUBSET (0..(C - 1))
    <3> HIDE DEF k
    <3> QED
      BY <1>1, <2>8
  <2>10. room' >= room + 1 /\ room + 1 \in Int
    BY <1>2, <2>3
  <2> HIDE DEF k
  <2> QED
    BY <1>1, <1>2, <2>2, <2>4, <2>7, <2>9, <2>10, SafeFrame
<1> QED
  BY <1>7, <1>8, <1>9, <1>10, <1>11, <1>12, Effects

LEMMA StoreAdds ==
  ASSUME TypeInv, NEW t \in Task, OnInbound(t), Undisturbed(t), SoloInv(t),
         pc[t] # "listen", pc'[t] = "listen", NEW m, m = reg[t].msg
  PROVE  Safe(m, store'.slots, StoreCapacity, StoreCounts', StoreHeads', SlotsAt({"write"})',
              Room(m, StoreBusy)')
<1>1. Advance(t)
  <2>1. store.count < StoreCapacity \/ store.count >= StoreCapacity
    BY RingFacts, Capacities
  <2> QED
    BY <2>1, Effects DEF OnInbound
<1>2. SlotsAt({"write"})' = {} /\ ReadAt({"storeStored"})' = {} /\ ReadAt({"storeOldest"})' = {}
  BY SoloSets
<1>3. At({"storeOldest"})' = {} /\ Room(m, StoreBusy)' = 0
  BY SoloSets DEF StoreBusy, ConvBusy, Counting, ConvFull
<1>4. StoreCounts' = {store'.count} /\ StoreHeads' = {store'.head}
  BY <1>2, <1>3 DEF StoreCounts, StoreHeads
<1>5. store.count \in Nat /\ store.head \in 0..(StoreCapacity - 1) /\ StoreCapacity \in Nat \ {0}
  BY RingFacts, Capacities
<1>6. CASE pc[t] = "storeStored"
  <2>1. /\ store.count < StoreCapacity /\ reg[t].old = store.count
        /\ store.slots[(store.head + store.count) % StoreCapacity] = m
    BY <1>6 DEF SoloInv
  <2>2. store' = [store EXCEPT !.count = reg[t].old + 1]
    BY <1>1, <1>6 DEF Advance
  <2>3. store'.slots = store.slots /\ store'.head = store.head /\ store'.count = reg[t].old + 1
    BY <2>2, RingFacts DEF Ring
  <2>4. Safe(m, store.slots, StoreCapacity, {store.count + 1}, {store.head}, {}, 0)
    BY <1>5, <2>1, SafeAdded
  <2> QED
    BY <1>2, <1>3, <1>4, <2>1, <2>3, <2>4
<1>7. CASE pc[t] = "storeOldest"
  <2>1. /\ store.count = StoreCapacity /\ reg[t].old = store.head
        /\ store.slots[(store.head + store.count) % StoreCapacity] = m
    BY <1>7 DEF SoloInv
  <2>2. store' = [store EXCEPT !.head = (reg[t].old + 1) % StoreCapacity]
    BY <1>1, <1>7 DEF Advance
  <2>3. /\ store'.slots = store.slots /\ store'.count = store.count
        /\ store'.head = (reg[t].old + 1) % StoreCapacity
    BY <2>2, RingFacts DEF Ring
  <2>4. (store.head + store.count) % StoreCapacity = store.head /\ store.count >= StoreCapacity
    BY <1>5, <2>1, WrapAround
  <2>5. Safe(m, store.slots, StoreCapacity, {store.count}, {(store.head + 1) % StoreCapacity}, {}, 0)
    BY <1>5, <2>1, <2>4, SafeReplaced
  <2> QED
    BY <1>2, <1>3, <1>4, <2>1, <2>3, <2>5
<1> QED
  BY <1>1, <1>6, <1>7 DEF Advance

LEMMA StoreStep ==
  ASSUME TypeInv, \A u \in Task : Undisturbed(u) => SoloInv(u), StoreInv,
         NEW t \in Task, OnInbound(t)
  PROVE  StoreInv'
<1> SUFFICES ASSUME NEW m \in Kept({"listen"})', Since(m)' < StoreCapacity
             PROVE  Safe(m, store'.slots, StoreCapacity, StoreCounts', StoreHeads',
                         SlotsAt({"write"})', Room(m, StoreBusy)')
  BY DEF StoreInv
<1>1. m \in 1..Len(ids) /\ m \in Nat
  BY KeptStep, RingFacts
<1>2. CASE m \in Kept({"listen"})
  <2>1. Since(m) < StoreCapacity
    <3>1. Len(ids) \in Nat /\ Len(ids') \in Nat /\ Len(ids') >= Len(ids)
      BY RingFacts, HistoryTypes
    <3> QED
      BY <1>1, <3>1, Capacities DEF Since
  <2>2. Safe(m, store.slots, StoreCapacity, StoreCounts, StoreHeads, SlotsAt({"write"}),
             Room(m, StoreBusy))
    BY <1>2, <2>1 DEF StoreInv
  <2> QED
    BY <1>1, <2>1, <2>2, StoreKeeps DEF Safe
<1>3. CASE m \notin Kept({"listen"})
  <2>1. /\ pc[t] # "listen" /\ pc'[t] = "listen" /\ reg[t].msg = m
        /\ Undisturbed(t) /\ SoloInv(t)
    BY <1>3, KeptStep
  <2> QED
    BY <2>1, StoreAdds
<1> QED
  BY <1>2, <1>3

-----------------------------------------------------------------------------
(* Three different tasks are more than two. *)
LEMMA TwoTasks ==
  ASSUME Cardinality(Task) <= 2
  PROVE  \A a, b, c \in Task : a = b \/ b = c \/ a = c
<1> SUFFICES ASSUME NEW a \in Task, NEW b \in Task, NEW c \in Task, a # b, b # c, a # c
             PROVE  FALSE
  OBVIOUS
<1>1. IsFiniteSet({}) /\ Cardinality({}) = 0
  BY FS_EmptySet
<1>2. IsFiniteSet({} \cup {a}) /\ Cardinality({} \cup {a}) = 1
  BY <1>1, FS_AddElement
<1>3. IsFiniteSet(({} \cup {a}) \cup {b}) /\ Cardinality(({} \cup {a}) \cup {b}) = 2
  BY <1>2, FS_AddElement
<1>4. Cardinality((({} \cup {a}) \cup {b}) \cup {c}) = 3
  BY <1>3, FS_AddElement
<1>5. (({} \cup {a}) \cup {b}) \cup {c} \in SUBSET Task
  OBVIOUS
<1>6. IsFiniteSet(Task) /\ Cardinality(Task) \in Nat
  BY ChatAssumption, FS_CardinalityType
<1>7. Cardinality((({} \cup {a}) \cup {b}) \cup {c}) <= Cardinality(Task)
  BY <1>5, <1>6, FS_Subset
<1> QED
  BY <1>4, <1>6, <1>7

LEMMA ChatStep == ChatInv /\ [Next]_vars => ChatInv'
<1> SUFFICES ASSUME ChatInv, [Next]_vars
             PROVE  ChatInv'
  OBVIOUS
<1>1. ASSUME NEW t \in Task, OnInbound(t)
      PROVE  ChatInv'
  <2>1. TypeInv /\ \A u \in Task : Undisturbed(u) => SoloInv(u)
    BY DEF ChatInv
  <2>2. TypeInv'
    BY <1>1, <2>1, TypeStep
  <2>3. Cardinality(Task) <= 2 => CountInv'
    BY <1>1, <2>1, CountStep, TwoTasks DEF ChatInv
  <2>4. \A u \in Task : Undisturbed(u)' => SoloInv(u)'
    BY <1>1, <2>1, SoloStep
  <2>5. ConvInv'
    BY <1>1, <2>1, ConvStep DEF ChatInv
  <2>6. StoreInv'
    BY <1>1, <2>1, StoreStep DEF ChatInv
  <2>7. NumInv'
    BY <1>1, <2>1, NumStep DEF ChatInv
  <2> QED
    BY <2>2, <2>3, <2>4, <2>5, <2>6, <2>7 DEF ChatInv
<1>2. CASE UNCHANGED vars
  <2> USE <1>2 DEF vars
  <2>1. TypeInv' <=> TypeInv
    BY DEF TypeInv, TypeOK
  <2>2. CountInv' <=> CountInv
    BY DEF CountInv, At
  <2>3. \A u \in Task : (Undisturbed(u)' <=> Undisturbed(u)) /\ (SoloInv(u)' <=> SoloInv(u))
    BY DEF Undisturbed, SoloInv
  <2>4. \A labels : /\ At(labels)' = At(labels) /\ ReadAt(labels)' = ReadAt(labels)
                   /\ SlotsAt(labels)' = SlotsAt(labels) /\ Kept(labels)' = Kept(labels)
    BY DEF At, ReadAt, SlotsAt, Kept
  <2>5. /\ ConvCounts' = ConvCounts /\ ConvHeads' = ConvHeads
        /\ StoreCounts' = StoreCounts /\ StoreHeads' = StoreHeads
    BY <2>4 DEF ConvCounts, ConvHeads, StoreCounts, StoreHeads
  <2>6. \A m, labels : Room(m, labels)' = Room(m, labels) /\ Since(m)' = Since(m)
    BY <2>4 DEF Room, Since
  <2>7. ConvInv' <=> ConvInv
    BY <2>4, <2>5, <2>6 DEF ConvInv
  <2>8. StoreInv' <=> StoreInv
    BY <2>4, <2>5, <2>6 DEF StoreInv
  <2>9. NumInv' <=> NumInv
    BY <2>4 DEF NumInv
  <2> QED
    BY <2>1, <2>2, <2>3, <2>7, <2>8, <2>9 DEF ChatInv
<1> QED
  BY <1>1, <1>2 DEF Next

THEOREM ChatInvariant == Spec => []ChatInv
  BY InitChat, ChatStep, PTL DEF Spec

-----------------------------------------------------------------------------
(* The type of every variable, whichever tasks race: no step leaves a slot *)
(* of the ring or a place of onInbound.                                    *)
THEOREM ChatTypes == Spec => []TypeOK
<1>1. ChatInv => TypeOK
  BY DEF ChatInv, TypeInv
<1> QED
  BY <1>1, ChatInvariant, PTL

LEMMA AloneIsKept ==
  ASSUME ChatInv, NEW m \in Alone, NEW labels
  PROVE  m \in Kept(labels) /\ m \in 1..Len(ids) /\ Since(m) \in Nat
<1>1. m \in 1..Len(ids) /\ m \in shown /\ m \notin crowded
  BY DEF Alone, ChatInv, TypeInv
<1>2. Len(ids) \in Nat
  BY RingFacts DEF ChatInv
<1> QED
  BY <1>1, <1>2 DEF Kept, Since

LEMMA SafeIsVisible ==
  ASSUME NEW C \in Nat \ {0}, NEW ring, ring.head \in 0..(C - 1), ring.count \in Nat, NEW m,
         NEW counts, ring.count \in counts, NEW heads, ring.head \in heads, NEW targets, NEW room,
         Safe(m, ring.slots, C, counts, heads, targets, room)
  PROVE  m \in Visible(ring, C)
<1>1. PICK p \in 0..(C - 1) : SafeAt(p, m, ring.slots, C, counts, heads, targets, room)
  BY DEF Safe
<1> DEFINE i == Pos(p, ring.head, C)
<1>2. ring.slots[p] = m /\ i < ring.count
  BY <1>1 DEF SafeAt
<1>3. i \in 0..(C - 1)
  BY PosRange
<1>4. i \in 0..(ring.count - 1) /\ (ring.head + i) % C = p
  BY <1>2, <1>3, PosIsAt
<1> QED
  BY <1>2, <1>4 DEF Visible

(* The conversation shows a message handled alone until as many later ones *)
(* came as it has room for, whatever those race with and whatever the      *)
(* capacity.                                                               *)
THEOREM StaysShown == Spec => []AloneIsShown
<1>1. ChatInv => AloneIsShown
  <2> SUFFICES ASSUME ChatInv, NEW m \in Alone, ~(Since(m) >= DisplayCapacity)
               PROVE  m \in Visible(conv, DisplayCapacity)
    BY DEF AloneIsShown
  <2>1. m \in Kept(AfterConv) /\ Since(m) < DisplayCapacity
    BY AloneIsKept, Capacities
  <2>2. TypeInv
    BY DEF ChatInv
  <2>3. Safe(m, conv.slots, DisplayCapacity, ConvCounts, ConvHeads, SlotsAt({"fill"}), Room(m, ConvBusy))
    BY <2>1 DEF ChatInv, ConvInv, AfterConv
  <2>4. /\ conv.head \in 0..(DisplayCapacity - 1) /\ conv.count \in Nat
        /\ conv.count \in ConvCounts /\ conv.head \in ConvHeads
    BY <2>2, RingFacts, ConvSets
  <2> QED
    BY <2>3, <2>4, SafeIsVisible, Capacities
<1> QED
  BY <1>1, ChatInvariant, PTL

(* loadAll finds the record of a message handled alone, in the same way.   *)
THEOREM StaysStored == Spec => []AloneIsStored
<1>1. ChatInv => AloneIsStored
  <2> SUFFICES ASSUME ChatInv, NEW m \in Alone, ~(Since(m) >= StoreCapacity)
               PROVE  m \in Visible(store, StoreCapacity)
    BY DEF AloneIsStored
  <2>1. m \in Kept({"listen"}) /\ Since(m) < StoreCapacity
    BY AloneIsKept, Capacities
  <2>2. TypeInv
    BY DEF ChatInv
  <2>3. Safe(m, store.slots, StoreCapacity, StoreCounts, StoreHeads, SlotsAt({"write"}), Room(m, StoreBusy))
    BY <2>1 DEF ChatInv, StoreInv
  <2>4. /\ store.head \in 0..(StoreCapacity - 1) /\ store.count \in Nat
        /\ store.count \in StoreCounts /\ store.head \in StoreHeads
    BY <2>2, RingFacts, StoreSets
  <2> QED
    BY <2>3, <2>4, SafeIsVisible, Capacities
<1> QED
  BY <1>1, ChatInvariant, PTL

(* m_next_id never gives a later message a number that is not higher than  *)
(* that of one handled alone.                                              *)
THEOREM StaysNumbered == Spec => []AloneIsNumbered
<1>1. ChatInv => AloneIsNumbered
  <2> SUFFICES ASSUME ChatInv, NEW m \in Alone, NEW n \in 1..Len(ids), n > m
               PROVE  ids[n] > ids[m]
    BY DEF AloneIsNumbered
  <2>1. m \in 1..Len(ids) /\ m \notin crowded /\ m \in shown
    BY AloneIsKept DEF Alone
  <2>2. \A t \in At({"id"}) : reg[t].msg # m
    <3> SUFFICES ASSUME NEW t \in Task, pc[t] = "id", reg[t].msg = m
                 PROVE  FALSE
      BY DEF At
    <3>1. SoloInv(t)
      BY <2>1 DEF ChatInv, Undisturbed
    <3> QED
      BY <2>1, <3>1 DEF SoloInv
  <2> QED
    BY <2>1, <2>2 DEF ChatInv, NumInv
<1> QED
  BY <1>1, ChatInvariant, PTL

(* The store never counts more than its records, whatever the number of    *)
(* tasks; with two tasks the conversation counts at most one too many.     *)
THEOREM CountsStayBounded == Spec => []CountBounded
<1>1. ChatInv => CountBounded
  BY DEF ChatInv, TypeInv, CountInv, CountBounded
<1> QED
  BY <1>1, ChatInvariant, PTL

=============================================================================
