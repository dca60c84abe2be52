----------------------------- MODULE ChatTasks ------------------------------
(***************************************************************************)
(* ChatService::onInbound when several tasks run it at the same time.      *)
(*                                                                         *)
(* The protocol task calls it for a received packet, the Arduino loop for  *)
(* a typed line, and on the gateway the AsyncTCP task for a text from a    *)
(* phone.  They share m_next_id, the ring of the conversation and the      *)
(* index of the store, and nothing locks.  A step here is one access to    *)
(* shared data, with two exceptions: head and count of a ring are read in  *)
(* one step where the code reads them one right after the other (Reserve,  *)
(* Push, LoadStored), and a message or a record is copied in one step.     *)
(* Only messages whose handling overlaps could tell.                       *)
(* (What the store keeps on flash, and when, is in MessageStore.)          *)
(***************************************************************************)
EXTENDS Integers, Sequences, FiniteSets

CONSTANTS
  Task,             \* the tasks that handle messages
  DisplayCapacity,  \* ConversationModel::kDisplayCapacity (50 in the code)
  StoreCapacity,    \* CircularIndex::kCapacity (1000 in the code)
  MaxMessages       \* bound: messages of the run

ASSUME ChatAssumption ==
  /\ DisplayCapacity \in Nat \ {0} /\ StoreCapacity \in Nat \ {0}
  /\ MaxMessages \in Nat
  /\ IsFiniteSet(Task)

VARIABLES
  nextId,   \* m_next_id
  conv,     \* m_model: slots, head and count
  store,    \* m_store: the slots of the file, and m_index
  pc,       \* where each task is in onInbound, or "idle"
  reg,      \* what it holds: the message, a slot or flag and a number it read
  ids,      \* history: the id of every message so far
  crowded,  \* history: messages whose handling overlapped with another's
  shown     \* history: messages the listener was called with

vars == <<nextId, conv, store, pc, reg, ids, crowded, shown>>

Message == 1..MaxMessages
Nothing == 0
Idle    == [msg |-> Nothing, slot |-> 0, old |-> 0]

Ring(capacity) ==
  [slots : [0..(capacity - 1) -> Message \cup {Nothing}],
   head : 0..(capacity - 1), count : Nat]

EmptyRing(capacity) ==
  [slots |-> [s \in 0..(capacity - 1) |-> Nothing], head |-> 0, count |-> 0]

(* What at(0) .. at(count - 1), or loadAll, go through.                    *)
Visible(ring, capacity) ==
  {ring.slots[(ring.head + i) % capacity] : i \in 0..(ring.count - 1)}

Busy == {t \in Task : pc[t] # "idle"}

Goto(t, label) == pc' = [pc EXCEPT ![t] = label]

(* What the task read is not used any more. *)
Clear(t) == reg' = [reg EXCEPT ![t].slot = 0, ![t].old = 0]

-----------------------------------------------------------------------------
(* A message comes in or was sent: ++ of m_next_id reads ...               *)
LoadId(t) ==
  LET m == Len(ids) + 1 IN
  /\ pc[t] = "idle"
  /\ m <= MaxMessages
  /\ ids' = Append(ids, nextId)
  /\ reg' = [reg EXCEPT ![t] = [msg |-> m, slot |-> 0, old |-> nextId]]
  /\ crowded' = IF Busy = {} THEN crowded
                             ELSE crowded \cup {m} \cup {reg[u].msg : u \in Busy}
  /\ Goto(t, "id")
  /\ UNCHANGED <<nextId, conv, store, shown>>

(* Mutant: the number is not advanced. *)
StoreIdUnchanged(t) ==
  /\ pc[t] = "id"
  /\ nextId' = reg[t].old
  /\ Goto(t, "reserve")
  /\ Clear(t)
  /\ UNCHANGED <<conv, store, ids, crowded, shown>>

(* ... and writes.                                                         *)
StoreId(t) ==
  /\ pc[t] = "id"
  /\ nextId' = reg[t].old + 1
  /\ Goto(t, "reserve")
  /\ Clear(t)
  /\ UNCHANGED <<conv, store, ids, crowded, shown>>

(* Mutant: one entry more than the ring has. *)
ReserveOneMore(t) ==
  /\ pc[t] = "reserve"
  /\ reg' = [reg EXCEPT ![t].slot = (conv.head + conv.count) % DisplayCapacity]
  /\ Goto(t, IF conv.count <= DisplayCapacity THEN "fill" ELSE "replace")
  /\ UNCHANGED <<nextId, conv, store, ids, crowded, shown>>

(* ConversationModel::append computes idx and compares m_count.            *)
Reserve(t) ==
  /\ pc[t] = "reserve"
  /\ reg' = [reg EXCEPT ![t].slot = (conv.head + conv.count) % DisplayCapacity]
  /\ Goto(t, IF conv.count < DisplayCapacity THEN "fill" ELSE "replace")
  /\ UNCHANGED <<nextId, conv, store, ids, crowded, shown>>

Fill(t) ==
  /\ pc[t] = "fill"
  /\ conv' = [conv EXCEPT !.slots[reg[t].slot] = reg[t].msg]
  /\ Goto(t, "loadCount")
  /\ UNCHANGED <<nextId, store, reg, ids, crowded, shown>>

LoadCount(t) ==
  /\ pc[t] = "loadCount"
  /\ reg' = [reg EXCEPT ![t].old = conv.count]
  /\ Goto(t, "storeCount")
  /\ UNCHANGED <<nextId, conv, store, ids, crowded, shown>>

StoreCount(t) ==
  /\ pc[t] = "storeCount"
  /\ conv' = [conv EXCEPT !.count = reg[t].old + 1]
  /\ Goto(t, "push")
  /\ Clear(t)
  /\ UNCHANGED <<nextId, store, ids, crowded, shown>>

(* Mutant: the newest message is replaced, not the oldest. *)
ReplaceNewest(t) ==
  /\ pc[t] = "replace"
  /\ conv' = [conv EXCEPT !.slots[(conv.head + conv.count - 1) % DisplayCapacity] = reg[t].msg]
  /\ Goto(t, "loadHead")
  /\ UNCHANGED <<nextId, store, reg, ids, crowded, shown>>

(* When it is full: m_messages[m_head], with m_head read again.            *)
Replace(t) ==
  /\ pc[t] = "replace"
  /\ conv' = [conv EXCEPT !.slots[conv.head] = reg[t].msg]
  /\ Goto(t, "loadHead")
  /\ UNCHANGED <<nextId, store, reg, ids, crowded, shown>>

LoadHead(t) ==
  /\ pc[t] = "loadHead"
  /\ reg' = [reg EXCEPT ![t].old = conv.head]
  /\ Goto(t, "storeHead")
  /\ UNCHANGED <<nextId, conv, store, ids, crowded, shown>>

(* Mutant: the head does not wrap. *)
StoreHeadUnwrapped(t) ==
  /\ pc[t] = "storeHead"
  /\ conv' = [conv EXCEPT !.head = reg[t].old + 1]
  /\ Goto(t, "push")
  /\ Clear(t)
  /\ UNCHANGED <<nextId, store, ids, crowded, shown>>

StoreHead(t) ==
  /\ pc[t] = "storeHead"
  /\ conv' = [conv EXCEPT !.head = (reg[t].old + 1) % DisplayCapacity]
  /\ Goto(t, "push")
  /\ Clear(t)
  /\ UNCHANGED <<nextId, store, ids, crowded, shown>>

-----------------------------------------------------------------------------
(* MessageStore::append: pushIndex, the record, advance.                   *)
Push(t) ==
  /\ pc[t] = "push"
  /\ reg' = [reg EXCEPT ![t].slot = (store.head + store.count) % StoreCapacity]
  /\ Goto(t, "write")
  /\ UNCHANGED <<nextId, conv, store, ids, crowded, shown>>

WriteRecord(t) ==
  /\ pc[t] = "write"
  /\ store' = [store EXCEPT !.slots[reg[t].slot] = reg[t].msg]
  /\ Goto(t, "advance")
  /\ UNCHANGED <<nextId, conv, reg, ids, crowded, shown>>

(* advance() compares the count and reads what it will increment.          *)
LoadStored(t) ==
  LET full == store.count >= StoreCapacity IN
  /\ pc[t] = "advance"
  /\ reg' = [reg EXCEPT ![t].old = IF full THEN store.head ELSE store.count]
  /\ Goto(t, IF full THEN "storeOldest" ELSE "storeStored")
  /\ UNCHANGED <<nextId, conv, store, ids, crowded, shown>>

(* Mutant: a full store does not move its head. *)
AdvanceCountOnly(t) ==
  /\ pc[t] \in {"storeStored", "storeOldest"}
  /\ store' = IF pc[t] = "storeStored" THEN [store EXCEPT !.count = reg[t].old + 1] ELSE store
  /\ Goto(t, "listen")
  /\ Clear(t)
  /\ UNCHANGED <<nextId, conv, ids, crowded, shown>>

Advance(t) ==
  /\ pc[t] \in {"storeStored", "storeOldest"}
  /\ store' = IF pc[t] = "storeStored"
              THEN [store EXCEPT !.count = reg[t].old + 1]
              ELSE [store EXCEPT !.head = (reg[t].old + 1) % StoreCapacity]
  /\ Goto(t, "listen")
  /\ Clear(t)
  /\ UNCHANGED <<nextId, conv, ids, crowded, shown>>

(* m_listener: the web server passes the message to every phone.           *)
Listen(t) ==
  /\ pc[t] = "listen"
  /\ shown' = shown \cup {reg[t].msg}
  /\ reg' = [reg EXCEPT ![t] = Idle]
  /\ Goto(t, "idle")
  /\ UNCHANGED <<nextId, conv, store, ids, crowded>>

-----------------------------------------------------------------------------
Init ==
  /\ nextId = 1
  /\ conv = EmptyRing(DisplayCapacity)
  /\ store = EmptyRing(StoreCapacity)
  /\ pc = [t \in Task |-> "idle"]
  /\ reg = [t \in Task |-> Idle]
  /\ ids = <<>>
  /\ crowded = {}
  /\ shown = {}

OnInbound(t) ==
  \/ LoadId(t) \/ StoreId(t)
  \/ Reserve(t) \/ Fill(t) \/ LoadCount(t) \/ StoreCount(t)
  \/ Replace(t) \/ LoadHead(t) \/ StoreHead(t)
  \/ Push(t) \/ WriteRecord(t) \/ LoadStored(t) \/ Advance(t)
  \/ Listen(t)

Next == \E t \in Task : OnInbound(t)

Spec == Init /\ [][Next]_vars

-----------------------------------------------------------------------------
(* The type of every variable. *)
TypeOK ==
  /\ nextId \in Nat
  /\ conv \in Ring(DisplayCapacity)
  /\ store \in Ring(StoreCapacity)
  /\ pc \in [Task -> {"idle", "id", "reserve", "fill", "loadCount", "storeCount",
                      "replace", "loadHead", "storeHead", "push", "write", "advance",
                      "storeStored", "storeOldest", "listen"}]
  /\ reg \in [Task -> [msg : Message \cup {Nothing}, slot : Nat, old : Nat]]
  /\ ids \in Seq(Nat)
  /\ crowded \subseteq Message
  /\ shown \subseteq Message

(* Messages that were handled with no other in the way.                    *)
Alone == shown \ crowded

Since(m) == Len(ids) - m

(* A message handled alone stays in the conversation until as many later   *)
(* ones as the display holds came, whatever races those are in.            *)
AloneIsShown ==
  \A m \in Alone : m \in Visible(conv, DisplayCapacity) \/ Since(m) >= DisplayCapacity

(* The same for the store.                                                 *)
AloneIsStored ==
  \A m \in Alone : m \in Visible(store, StoreCapacity) \/ Since(m) >= StoreCapacity

(* Every later message has a higher number than one handled alone: a race  *)
(* never takes m_next_id back before it.                                   *)
AloneIsNumbered ==
  \A m \in Alone : \A n \in 1..Len(ids) : n > m => ids[n] > ids[m]

(* The store never counts more records than it has.  With two tasks, those *)
(* of the Cardputer, the conversation counts at most one message too many: *)
(* a task that found room adds one whatever the other did meanwhile.  With *)
(* three a count read long ago can be written back while another task      *)
(* still holds a high one, and the excess grows with the capacity.         *)
CountBounded ==
  /\ store.count <= StoreCapacity
  /\ Cardinality(Task) <= 2 => conv.count <= DisplayCapacity + 1

=============================================================================
