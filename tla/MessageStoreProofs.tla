------------------------- MODULE MessageStoreProofs -------------------------
(***************************************************************************)
(* Theorems about MessageStore, for every capacity, every number of        *)
(* messages and every number of crashes.                                   *)
(*                                                                         *)
(* The first part allows every fault and shows that an append that went    *)
(* through is what a restart loads last.  The second part allows crashes   *)
(* only (and a file that cannot be opened, for append() or at a power-up)  *)
(* and shows that the store is a RecentLog, and that the numbers of its    *)
(* messages increase as far as a power-up could read them.  The last part  *)
(* is the type of the variables, whatever fails.                           *)
(***************************************************************************)
EXTENDS MessageStore, WellFoundedInduction, TLAPS

-----------------------------------------------------------------------------
(* The arithmetic of the ring.                                             *)

(* No sum of an index goes around twice. *)
LEMMA ModTwice ==
  ASSUME NEW c \in Nat \ {0}, NEW x \in Nat, x < c + c
  PROVE  x % c = IF x < c THEN x ELSE x - c
  OBVIOUS

LEMMA ModRange ==
  ASSUME NEW c \in Nat \ {0}, NEW x \in Nat
  PROVE  x % c \in 0..(c - 1)
  OBVIOUS

LEMMA CapacityPositive == Capacity \in Nat \ {0}
  BY StoreAssumption

(* Within less than a whole turn two places of the ring differ. *)
LEMMA ModDistinct ==
  ASSUME NEW c \in Nat \ {0}, NEW x \in Nat, NEW y \in Nat,
         x < y, y < x + c, y < c + c
  PROVE  x % c # y % c
  <1>0. x < c + c
    OBVIOUS
  <1>1. x % c = IF x < c THEN x ELSE x - c
    BY <1>0, ModTwice
  <1>2. y % c = IF y < c THEN y ELSE y - c
    BY ModTwice
  <1>3. (IF x < c THEN x ELSE x - c) # (IF y < c THEN y ELSE y - c)
    OBVIOUS
  <1> QED BY <1>1, <1>2, <1>3, Zenon

LEMMA PushIndexSlot ==
  ASSUME NEW x \in Index
  PROVE  PushIndex(x) \in Slot
  <1>1. x.head \in Nat /\ x.count \in Nat
    BY CapacityPositive DEF Index, Slot
  <1> QED BY <1>1, CapacityPositive DEF PushIndex, Slot

(* advance() makes the slot that was written the last one of the ring. *)
LEMMA AdvanceLast ==
  ASSUME NEW x \in Index
  PROVE  /\ Advance(x) \in Index
         /\ Advance(x).count > 0
         /\ (Advance(x).head + Advance(x).count - 1) % Capacity = PushIndex(x)
  <1>1. x.head \in Slot /\ x.count \in 0..Capacity /\ x = [head |-> x.head, count |-> x.count]
    BY DEF Index
  <1>2. x.head \in Nat /\ x.head < Capacity
    BY <1>1, CapacityPositive DEF Slot
  <1>3. CASE x.count < Capacity
    <2>1. Advance(x) = [head |-> x.head, count |-> x.count + 1]
      BY <1>1, <1>3 DEF Advance
    <2>2. x.count + 1 \in 0..Capacity
      BY <1>1, <1>3, CapacityPositive
    <2>3. x.head + (x.count + 1) - 1 = x.head + x.count
      BY <1>1, <1>2
    <2> QED BY <1>1, <2>1, <2>2, <2>3 DEF PushIndex, Index
  <1>4. CASE ~(x.count < Capacity)
    <2>1. Advance(x) = [head |-> (x.head + 1) % Capacity, count |-> x.count]
      BY <1>1, <1>4 DEF Advance
    <2>2. x.count = Capacity
      BY <1>1, <1>4, CapacityPositive
    <2>3. (x.head + 1) % Capacity = IF x.head + 1 < Capacity THEN x.head + 1 ELSE 0
      BY <1>2, CapacityPositive, ModTwice
    <2>4. (x.head + 1) % Capacity \in Slot
      BY <1>2, <2>3, CapacityPositive DEF Slot
    <2>5. PushIndex(x) = x.head
      BY <1>2, <2>2, CapacityPositive, ModTwice DEF PushIndex
    <2>6. (((x.head + 1) % Capacity) + Capacity - 1) % Capacity = x.head
      <3>1. CASE x.head + 1 < Capacity
        <4>1. ((x.head + 1) % Capacity) + Capacity - 1 = x.head + Capacity
          BY <1>2, <2>3, <3>1, CapacityPositive
        <4> QED BY <4>1, <1>2, CapacityPositive, ModTwice
      <3>2. CASE ~(x.head + 1 < Capacity)
        <4>1. ((x.head + 1) % Capacity) + Capacity - 1 = x.head
          BY <1>2, <2>3, <3>2, CapacityPositive
        <4> QED BY <4>1, <1>2, CapacityPositive, ModTwice
      <3> QED BY <3>1, <3>2
    <2> QED BY <1>1, <2>1, <2>2, <2>4, <2>5, <2>6, CapacityPositive DEF Index
  <1> QED BY <1>3, <1>4

-----------------------------------------------------------------------------
(* What went through is the newest, whatever fails.                        *)

(* The last record of the index in RAM is the message append() works on;   *)
(* saveIndex brings head and count to NVS one after the other.             *)
NewestInv ==
  /\ index \in Index /\ nvs \in Index
  /\ DOMAIN file = Slot
  /\ intact /\ pc \in {"head", "count", "saved"} =>
       /\ index.count > 0
       /\ file[(index.head + index.count - 1) % Capacity] = cur
  /\ intact /\ pc \in {"count", "saved"} => nvs.head = index.head
  /\ intact /\ pc = "saved" => nvs.count = index.count

LEMMA EmptyIndex == Empty \in Index
  BY CapacityPositive DEF Empty, Index, Slot

LEMMA NewestInit == Init => NewestInv
  BY EmptyIndex DEF Init, NewestInv

LEMMA IndexExtensional ==
  ASSUME NEW x \in Index, NEW y \in Index, x.head = y.head, x.count = y.count
  PROVE  x = y
  BY DEF Index

LEMMA NewestStep ==
  ASSUME NewestInv, [Next]_vars
  PROVE  NewestInv'
  <1> USE DEF disk, ram, blind, tally
  <1>1. CASE Begin
    BY <1>1 DEF NewestInv, Begin, StoreBegin
  <1>blind. CASE BeginBlind
    BY <1>blind DEF NewestInv, BeginBlind, StoreBegin
  <1>2. CASE CreateTorn
    BY <1>2 DEF NewestInv, CreateTorn
  <1>3. CASE Start
    BY <1>3 DEF NewestInv, Start
  <1>4. CASE OpenFails
    BY <1>4 DEF NewestInv, OpenFails
  <1>5. CASE WriteRecord
    <2>1. /\ PushIndex(index) \in Slot
          /\ Advance(index) \in Index
          /\ Advance(index).count > 0
          /\ (Advance(index).head + Advance(index).count - 1) % Capacity = PushIndex(index)
      BY AdvanceLast, PushIndexSlot DEF NewestInv
    <2>2. file'[PushIndex(index)] = cur /\ DOMAIN file' = Slot
      BY <1>5, <2>1 DEF NewestInv, WriteRecord
    <2> QED BY <1>5, <2>1, <2>2 DEF NewestInv, WriteRecord
  <1>6. CASE WriteFails
    BY <1>6, AdvanceLast DEF NewestInv, WriteFails
  <1>7. CASE SaveHead
    BY <1>7 DEF NewestInv, SaveHead, Index
  <1>8. CASE SaveCount
    BY <1>8 DEF NewestInv, SaveCount, Index
  <1>9. CASE SaveFails
    BY <1>9 DEF NewestInv, SaveFails
  <1>10. CASE Return
    BY <1>10 DEF NewestInv, Return
  <1>11. CASE Clear
    BY <1>11, EmptyIndex DEF NewestInv, Clear
  <1>clear. CASE ClearBegin
    BY <1>clear DEF NewestInv, ClearBegin
  <1>12. CASE PowerLoss
    BY <1>12, EmptyIndex DEF NewestInv, PowerLoss
  <1>13. CASE Reformat
    BY <1>13 DEF NewestInv, Reformat
  <1>14. CASE UNCHANGED vars
    BY <1>14 DEF NewestInv, vars
  <1> QED
    BY <1>1, <1>blind, <1>2, <1>3, <1>4, <1>5, <1>6, <1>7, <1>8, <1>9, <1>10, <1>11,
       <1>clear, <1>12, <1>13, <1>14 DEF Next, AppendStep

LEMMA NewestImplies == NewestInv => StoredIsNewest
  <1> SUFFICES ASSUME NewestInv, pc = "saved", intact
               PROVE  LET s == LoadRecent(file, nvs) IN s # <<>> /\ s[Len(s)] = cur
    BY DEF StoredIsNewest
  <1>1. /\ nvs.head \in Nat /\ nvs.count \in Nat /\ nvs.count > 0
        /\ file[(nvs.head + nvs.count - 1) % Capacity] = cur
    BY CapacityPositive DEF NewestInv, Index, Slot
  <1>2. PICK n \in Nat : n = IF Recent > nvs.count THEN nvs.count ELSE Recent
    BY <1>1, StoreAssumption
  <1>3. n > 0
    BY <1>1, <1>2, StoreAssumption
  <1>4. PICK s : s = LoadRecent(file, nvs)
    OBVIOUS
  <1>5. s = [i \in 1..n |-> file[(nvs.head + (nvs.count - n + i - 1)) % Capacity]]
    BY <1>2, <1>4 DEF LoadRecent, WindowSize
  <1>6. nvs.head + (nvs.count - n + n - 1) = nvs.head + nvs.count - 1
    BY <1>1
  <1>7. Len(s) = n /\ s # <<>>
    BY <1>3, <1>5
  <1>8. s[n] = file[(nvs.head + (nvs.count - n + n - 1)) % Capacity]
    BY <1>3, <1>5
  <1> QED BY <1>1, <1>4, <1>6, <1>7, <1>8

(* StoredIsNewest: a message whose append went through is the last one a   *)
(* restart loads, for any faults, crashes, formats and clears before it.   *)
THEOREM NewestSurvives == Spec => []StoredIsNewest
  <1>1. Spec => []NewestInv
    BY NewestInit, NewestStep, PTL DEF Spec
  <1> QED BY <1>1, NewestImplies, PTL

-----------------------------------------------------------------------------
(* What the next restart loads: the window of LoadRecent.                  *)

LEMMA Window ==
  ASSUME NEW x \in Index
  PROVE  /\ WindowSize(x) \in Nat
         /\ WindowSize(x) <= x.count /\ WindowSize(x) <= Recent /\ WindowSize(x) < Capacity
  <1>1. x.count \in Nat
    BY CapacityPositive DEF Index
  <1> QED BY <1>1, StoreAssumption DEF WindowSize

(* The slot append() writes is outside of it. *)
LEMMA WriteOutside ==
  ASSUME NEW x \in Index, NEW f, NEW g, NEW s,
         s = PushIndex(x), DOMAIN f = Slot, DOMAIN g = Slot,
         \A r \in Slot : r # s => g[r] = f[r]
  PROVE  LoadRecent(g, x) = LoadRecent(f, x)
  <1>1. /\ x.head \in Nat /\ x.head < Capacity
        /\ x.count \in Nat /\ x.count <= Capacity
        /\ Capacity \in Nat \ {0}
    BY CapacityPositive DEF Index, Slot
  <1>2. PICK n : n = WindowSize(x)
    OBVIOUS
  <1>3. n \in Nat /\ n <= x.count /\ n < Capacity
    BY <1>2, Window
  <1>4. ASSUME NEW i \in 1..n
        PROVE  g[(x.head + (x.count - n + i - 1)) % Capacity] =
               f[(x.head + (x.count - n + i - 1)) % Capacity]
    <2>1. PICK y \in Nat : y = x.head + (x.count - n + i - 1)
      BY <1>1, <1>3
    <2>2. y < x.head + x.count /\ x.head + x.count < y + Capacity
      BY <1>1, <1>3, <2>1
    <2>3. x.head + x.count \in Nat /\ x.head + x.count < Capacity + Capacity
      BY <1>1
    <2>4. y % Capacity # (x.head + x.count) % Capacity
      BY <1>1, <2>2, <2>3, ModDistinct
    <2>5. y % Capacity \in Slot
      BY <1>1, ModRange DEF Slot
    <2> QED BY <2>1, <2>4, <2>5 DEF PushIndex
  <1> QED BY <1>2, <1>4 DEF LoadRecent

(* A committed append shifts the window by one message. *)
LEMMA CommitWindow ==
  ASSUME NEW x \in Index, NEW f, NEW m, DOMAIN f = Slot, f[PushIndex(x)] = m
  PROVE  LoadRecent(f, Advance(x)) = Log!LastOf(Append(LoadRecent(f, x), m), Recent)
  <1>1. /\ x.head \in Nat /\ x.head < Capacity
        /\ x.count \in Nat /\ x.count <= Capacity
        /\ Capacity \in Nat \ {0} /\ Recent \in Nat \ {0} /\ Recent < Capacity
        /\ x = [head |-> x.head, count |-> x.count]
    BY CapacityPositive, StoreAssumption DEF Index, Slot
  <1>2. PICK n \in Nat : n = WindowSize(x)
    BY Window
  <1>old. n <= x.count /\ n <= Recent /\ n = IF Recent > x.count THEN x.count ELSE Recent
    BY <1>2, Window DEF WindowSize
  <1>3. PICK y \in Index : y = Advance(x)
    BY AdvanceLast
  <1>4. y.head \in Nat /\ y.count \in Nat
    BY <1>1 DEF Index, Slot
  <1>5. PICK k \in Nat : k = WindowSize(y)
    BY Window
  <1>new. k = IF Recent > y.count THEN y.count ELSE Recent
    BY <1>5 DEF WindowSize
  <1>6. PICK s : s = Append(LoadRecent(f, x), m)
    OBVIOUS
  <1>7. /\ s = [i \in 1..(n + 1) |->
                  IF i = n + 1 THEN m ELSE f[(x.head + (x.count - n + i - 1)) % Capacity]]
        /\ Len(s) = n + 1
    BY <1>2, <1>6 DEF LoadRecent
  <1>len. Len(s) = n + 1
    BY <1>7
  \* place i of s lies i - n - 1 from the slot of the append
  <1>8. \A i \in 1..(n + 1) : s[i] = f[(x.head + x.count + i - n - 1) % Capacity]
    <2>1. TAKE i \in 1..(n + 1)
    <2>2. CASE i = n + 1
      <3>1. x.head + x.count + i - n - 1 = x.head + x.count
        BY <1>1, <2>2
      <3> QED BY <1>7, <2>2, <3>1 DEF PushIndex
    <2>3. CASE i # n + 1
      <3>1. x.head + x.count + i - n - 1 = x.head + (x.count - n + i - 1)
        BY <1>1
      <3> QED BY <1>7, <2>3, <3>1
    <2> QED BY <2>2, <2>3
  \* so does place i of the new window, with k for n + 1
  <1>9. \A i \in 1..k :
          (y.head + (y.count - k + i - 1)) % Capacity = (x.head + x.count + i - k) % Capacity
    <2>1. TAKE i \in 1..k
    <2>2. CASE x.count < Capacity
      <3>1. y.head = x.head /\ y.count = x.count + 1
        BY <1>1, <1>3, <2>2 DEF Advance
      <3>2. y.head + (y.count - k + i - 1) = x.head + x.count + i - k
        BY <1>1, <3>1
      <3> QED BY <3>2
    <2>3. CASE ~(x.count < Capacity)
      <3>1. y.head = (x.head + 1) % Capacity /\ y.count = Capacity /\ x.count = Capacity
        BY <1>1, <1>3, <2>3 DEF Advance
      <3>2. y.head = IF x.head + 1 < Capacity THEN x.head + 1 ELSE 0
        BY <1>1, <3>1, ModTwice
      <3>3. k = Recent
        BY <1>1, <1>new, <3>1
      <3>4. CASE x.head + 1 < Capacity
        <4>1. y.head + (y.count - k + i - 1) = x.head + x.count + i - k
          BY <1>1, <3>1, <3>2, <3>4
        <4> QED BY <4>1
      <3>5. CASE ~(x.head + 1 < Capacity)
        <4>1. PICK z \in Nat : z = Capacity + i - k - 1 /\ z < Capacity
          BY <1>1, <3>3
        <4>2. y.head + (y.count - k + i - 1) = z
          BY <1>1, <3>1, <3>2, <3>5, <4>1
        <4>3. x.head + x.count + i - k = z + Capacity
          BY <1>1, <3>1, <3>5, <4>1
        <4>4. z % Capacity = z
          BY <1>1, <4>1, ModTwice
        <4>5. (z + Capacity) % Capacity = z
          BY <1>1, <4>1, ModTwice
        <4> QED BY <4>2, <4>3, <4>4, <4>5
      <3> QED BY <3>4, <3>5
    <2> QED BY <2>2, <2>3
  <1>10. k = IF n + 1 <= Recent THEN n + 1 ELSE Recent
    <2>1. CASE x.count < Capacity
      <3>1. y.count = x.count + 1
        BY <1>1, <1>3, <2>1 DEF Advance
      <3> QED BY <1>1, <1>old, <1>new, <3>1
    <2>2. CASE ~(x.count < Capacity)
      <3>1. y.count = Capacity /\ x.count = Capacity
        BY <1>1, <1>3, <2>2 DEF Advance
      <3> QED BY <1>1, <1>old, <1>new, <3>1
    <2> QED BY <2>1, <2>2
  <1>11. Log!LastOf(s, Recent) = [i \in 1..k |-> s[i + (n + 1 - k)]]
    <2>1. PICK d : d = IF Len(s) <= Recent THEN 0 ELSE Len(s) - Recent
      OBVIOUS
    <2>2. Log!LastOf(s, Recent) = [i \in 1..(Len(s) - d) |-> s[i + d]]
      BY <2>1 DEF Log!LastOf
    <2>3. d = n + 1 - k /\ n + 1 - d = k
      BY <1>1, <1>len, <1>10, <2>1
    <2> QED BY <1>len, <2>2, <2>3
  <1>12. ASSUME NEW i \in 1..k
         PROVE  s[i + (n + 1 - k)] = f[(y.head + (y.count - k + i - 1)) % Capacity]
    <2>1. i + (n + 1 - k) \in 1..(n + 1)
      BY <1>1, <1>10
    <2>2. x.head + x.count + (i + (n + 1 - k)) - n - 1 = x.head + x.count + i - k
      BY <1>1
    <2> QED BY <1>8, <1>9, <2>1, <2>2
  <1> QED BY <1>3, <1>5, <1>6, <1>11, <1>12 DEF LoadRecent

-----------------------------------------------------------------------------
(* The number the chat goes on with after a power-up.                      *)

(* A sequence of numbers that is not empty has a greatest one. *)
LEMMA GreatestOfSequence ==
  ASSUME NEW n \in Nat \ {0}, NEW g \in [1..n -> Nat]
  PROVE  \E i \in 1..n : \A j \in 1..n : g[j] <= g[i]
  <1> DEFINE Top(k) == \E i \in 1..k : \A j \in 1..k : g[j] <= g[i]
             none   == {k \in 1..n : ~Top(k)}
  <1>1. none = {}
    <2> SUFFICES ASSUME none # {} PROVE FALSE
      OBVIOUS
    <2>0. /\ \A k : k \in none <=> k \in 1..n /\ ~Top(k)
          /\ 1..n \subseteq Nat
      OBVIOUS
    <2>0a. \A k : Top(k) <=> \E i \in 1..k : \A j \in 1..k : g[j] <= g[i]
      OBVIOUS
    <2> HIDE DEF none, Top
    <2>1. none \in SUBSET Nat
      BY <2>0
    <2>2. PICK k \in none : \A m \in none : ~ (<<m, k>> \in OpToRel(<, Nat))
      BY <2>1, NatLessThanWellFounded, WFMin
    <2>3. \A m \in none : ~ (m < k)
      BY <2>1, <2>2 DEF OpToRel
    <2>4. k # 1
      <3>1. 1..1 = {1} /\ g[1] <= g[1]
        OBVIOUS
      <3> QED BY <2>0, <2>0a, <3>1
    <2>5. k - 1 \in 1..n /\ ~ (k - 1 \in none)
      <3>1. k \in Nat /\ k >= 1 /\ k <= n
        BY <2>0
      <3>2. k - 1 < k /\ k - 1 \in 1..n
        BY <2>4, <3>1
      <3> QED BY <2>3, <3>2
    <2>6. PICK i \in 1..(k - 1) : \A j \in 1..(k - 1) : g[j] <= g[i]
      BY <2>0, <2>0a, <2>5
    <2>7. /\ i \in 1..k /\ k \in 1..k /\ k \in 1..n
          /\ \A j \in 1..k : j = k \/ j \in 1..(k - 1)
          /\ \A j \in 1..k : g[j] \in Nat
      BY <2>0
    <2>8. CASE g[k] <= g[i]
      <3>1. \A j \in 1..k : g[j] <= g[i]
        BY <2>6, <2>7, <2>8
      <3> QED BY <2>0, <2>0a, <2>2, <2>7, <3>1
    <2>9. CASE ~(g[k] <= g[i])
      <3>1. ASSUME NEW j \in 1..k
            PROVE  g[j] <= g[k]
        <4>1. g[j] \in Nat /\ g[i] \in Nat /\ g[k] \in Nat
          BY <2>7
        <4>2. j = k \/ g[j] <= g[i]
          BY <2>6, <2>7
        <4>3. g[i] <= g[k] /\ g[k] <= g[k]
          BY <2>9, <4>1
        <4> QED BY <4>1, <4>2, <4>3
      <3> QED BY <2>0, <2>0a, <2>2, <2>7, <3>1
    <2> QED BY <2>8, <2>9
  <1>2. n \in 1..n
    OBVIOUS
  <1> QED BY <1>1, <1>2

(* The next number is above those of the records it was computed from.     *)
LEMMA NextIdAbove ==
  ASSUME NEW n \in Nat, NEW s, DOMAIN s = 1..n,
         \A i \in 1..n : s[i].id \in Int /\ s[i].id >= -1
  PROVE  /\ NextIdAfter(s) \in Nat \ {0}
         /\ \A i \in 1..n : s[i].id < NextIdAfter(s)
  <1> DEFINE ids == {1} \cup {i + 1 : i \in LoadedIds(s)}
             g   == [i \in 1..(n + 1) |-> IF i = n + 1 THEN 1 ELSE s[i].id + 1]
  <1>1. ASSUME NEW i \in 1..n
        PROVE  s[i].id + 1 \in Nat
    OBVIOUS
  <1>2. g \in [1..(n + 1) -> Nat]
    BY <1>1
  <1>3. PICK i \in 1..(n + 1) : \A j \in 1..(n + 1) : g[j] <= g[i]
    <2>1. n + 1 \in Nat \ {0}
      OBVIOUS
    <2> HIDE DEF g
    <2> QED BY <1>2, <2>1, GreatestOfSequence
  <1>4. \A x \in ids : \E j \in 1..(n + 1) : x = g[j]
    <2>1. g[n + 1] = 1 /\ n + 1 \in 1..(n + 1)
      OBVIOUS
    <2>2. \A j \in 1..n : g[j] = s[j].id + 1 /\ j \in 1..(n + 1)
      OBVIOUS
    <2> QED BY <2>1, <2>2 DEF LoadedIds
  <1>5. g[i] \in ids /\ 1 \in ids /\ \A j \in 1..n : s[j].id + 1 \in ids
    BY DEF LoadedIds
  <1>6. ids \subseteq Nat /\ \A x \in ids : g[i] >= x
    <2> HIDE DEF g, ids
    <2>1. ASSUME NEW x \in ids
          PROVE  x \in Nat /\ g[i] >= x
      <3>1. PICK j \in 1..(n + 1) : x = g[j]
        BY <1>4
      <3>2. g[j] \in Nat /\ g[i] \in Nat /\ g[j] <= g[i]
        BY <1>2, <1>3
      <3> QED BY <3>1, <3>2
    <2> QED BY <2>1
  <1>7. PICK m : m = NextIdAfter(s)
    OBVIOUS
  <1>8. m \in ids /\ \A x \in ids : m >= x
    <2> HIDE DEF g
    <2> QED BY <1>5, <1>6, <1>7 DEF NextIdAfter, Max
  <1>9. m \in Nat \ {0} /\ \A j \in 1..n : s[j].id < m
    <2> HIDE DEF ids, g
    <2>1. m \in Nat /\ m >= 1
      BY <1>5, <1>6, <1>8
    <2>2. ASSUME NEW j \in 1..n
          PROVE  s[j].id < m
      <3>1. m >= s[j].id + 1 /\ s[j].id \in Int
        BY <1>5, <1>8
      <3> QED BY <2>1, <3>1
    <2> QED BY <2>1, <2>2
  <1> QED BY <1>7, <1>9

-----------------------------------------------------------------------------
(* Without faulty flash: the store is a RecentLog.                         *)

CrashesOnly == Faults \subseteq {"open"} /\ MaxReformats = 0 /\ MaxClears = 0

(* Index and NVS agree between appends; within one, the index is one step  *)
(* ahead of NVS and the slot it will add holds the message, until the put  *)
(* that changes something is done.                                         *)
LogInv ==
  /\ index \in Index /\ nvs \in Index
  /\ DOMAIN file = Slot
  /\ sent \in Nat
  /\ nextId \in Nat \ {0}
  /\ pc \in {"off", "ready", "open", "head", "count", "saved"}
  /\ pc \in {"off", "ready"} => cur = Blank
  /\ pc = "off" => loaded = <<>>
  /\ pc \notin {"off", "ready"} => cur \in Record /\ cur # Blank
  /\ pc \in {"ready", "open", "saved"} => index = nvs
  /\ unread \in Nat /\ behind \in Seq(Nat) /\ Len(behind) = sent
  /\ pc = "head" => index = Advance(nvs) /\ file[PushIndex(nvs)] = cur
  /\ pc = "count" => \/ index = nvs
                     \/ /\ nvs.count < Capacity
                        /\ index = Advance(nvs) /\ file[PushIndex(nvs)] = cur
  /\ ~exists => pc = "off" /\ nvs.count = 0
  /\ reformats = 0 /\ clears = 0

(* The numbers of what a restart would load; b is the history behind.      *)
Numbered(s, b) ==
  /\ \A i \in DOMAIN s : s[i].id \in Nat \ {0} /\ s[i].text \in 1..Len(b)
  /\ \A i, j \in DOMAIN s : i < j => Below(s[i], s[j].id, b[s[j].text])

(* The running append has a number of this power-up, and of what it has    *)
(* read everything comes before that number.                               *)
IdInv ==
  LET s == LoadRecent(file, nvs) IN
  /\ Numbered(s, behind)
  /\ pc # "off" => \A i \in DOMAIN s : Below(s[i], nextId, unread)
  /\ pc \notin {"off", "ready"} =>
       /\ cur.id \in Nat \ {0} /\ cur.id < nextId
       /\ cur.text \in 1..Len(behind) /\ behind[cur.text] = unread
  /\ pc \in {"open", "head", "count"} /\ ~Committed =>
       \A i \in DOMAIN s : Below(s[i], cur.id, unread)

LEMMA EmptyWindow ==
  ASSUME NEW x \in Index, NEW f, x.count = 0
  PROVE  LoadRecent(f, x) = <<>>
  <1>1. WindowSize(x) = 0
    BY StoreAssumption, x.count = 0 DEF WindowSize
  <1> QED BY <1>1 DEF LoadRecent

LEMMA LogInit == Init => LogInv /\ IdInv
  <1> SUFFICES ASSUME Init PROVE LogInv /\ IdInv
    OBVIOUS
  <1>1. LogInv
    BY EmptyIndex DEF Init, LogInv, Empty
  <1>2. LoadRecent(file, nvs) = <<>>
    BY EmptyIndex, EmptyWindow DEF Init, Empty
  <1> QED BY <1>1, <1>2 DEF Init, IdInv, Numbered, Committed

LEMMA WindowSeq ==
  ASSUME NEW x \in Index, NEW f, NEW s, s = LoadRecent(f, x)
  PROVE  \E n \in Nat :
           /\ DOMAIN s = 1..n
           /\ \A m : /\ Len(Append(s, m)) = n + 1
                     /\ Append(s, m)[n + 1] = m
                     /\ \A i \in 1..n : Append(s, m)[i] = s[i]
  <1>1. PICK n \in Nat : n = WindowSize(x)
    BY Window
  <1>2. s = [i \in 1..n |-> f[(x.head + (x.count - n + i - 1)) % Capacity]]
    BY <1>1 DEF LoadRecent
  <1>3. DOMAIN s = 1..n
    BY <1>2
  <1>4. ASSUME NEW m
        PROVE  /\ Len(Append(s, m)) = n + 1
               /\ Append(s, m)[n + 1] = m
               /\ \A i \in 1..n : Append(s, m)[i] = s[i]
    BY <1>2
  <1> QED BY <1>3, <1>4

LEMMA StoreBeginWindow ==
  ASSUME LogInv, StoreBegin
  PROVE  /\ LoadRecent(file', nvs) = LoadRecent(file, nvs)
         /\ UNCHANGED LoadRecent(file, nvs)
  <1>1. nvs' = nvs /\ nvs \in Index
    BY DEF StoreBegin, LogInv
  <1>2. LoadRecent(file', nvs) = LoadRecent(file, nvs)
    <2>1. CASE exists
      BY <2>1 DEF StoreBegin
    <2>2. CASE ~exists
      BY <1>1, <2>2, EmptyWindow DEF LogInv
    <2> QED BY <2>1, <2>2
  <1> QED BY <1>1, <1>2

LEMMA BeginWindow ==
  ASSUME LogInv, Begin
  PROVE  loaded' = LoadRecent(file, nvs) /\ UNCHANGED LoadRecent(file, nvs)
  BY StoreBeginWindow DEF Begin

LEMMA LogStep ==
  ASSUME CrashesOnly, LogInv, IdInv, [Next]_vars
  PROVE  LogInv'
  <1> USE DEF disk, ram, blind, tally
  <1>file. ASSUME StoreBegin
           PROVE  /\ DOMAIN file' = Slot /\ nvs' = nvs /\ exists' = TRUE /\ pc' = "ready"
                  /\ cur' = cur /\ sent' = sent /\ behind' = behind /\ pc = "off"
                  /\ reformats' = reformats /\ clears' = clears
    BY <1>file DEF StoreBegin, LogInv
  <1>1. CASE Begin
    <2>1. StoreBegin /\ index' = nvs /\ unread' = 0 /\ nextId' = NextIdAfter(loaded')
      BY <1>1 DEF Begin
    <2>2. loaded' = LoadRecent(file, nvs) /\ nvs \in Index
      BY <1>1, BeginWindow DEF LogInv
    <2>3. PICK s : s = LoadRecent(file, nvs)
      OBVIOUS
    <2>4. PICK n \in Nat : DOMAIN s = 1..n
      BY <2>2, <2>3, WindowSeq
    <2>5. nextId' \in Nat \ {0}
      <3>1. \A i \in 1..n : s[i].id \in Int /\ s[i].id >= -1
        BY <2>3, <2>4 DEF IdInv, Numbered
      <3> QED BY <2>1, <2>2, <2>3, <2>4, <3>1, NextIdAbove
    <2> QED BY <1>file, <2>1, <2>5 DEF LogInv
  <1>blind. CASE BeginBlind
    <2>1. StoreBegin /\ index' = nvs /\ unread' = sent /\ nextId' = 1
      BY <1>blind DEF BeginBlind, CrashesOnly
    <2> QED BY <1>file, <2>1 DEF LogInv
  <1>2. CASE CreateTorn
    BY <1>2 DEF LogInv, CreateTorn
  <1>3. CASE Start
    <2>1. cur' \in Record /\ cur' # Blank
      BY <1>3 DEF LogInv, Start, Record, Blank
    <2>2. behind' \in Seq(Nat) /\ Len(behind') = sent' /\ unread' = unread
      BY <1>3 DEF LogInv, Start
    <2> QED BY <1>3, <2>1, <2>2 DEF LogInv, Start
  <1>4. CASE OpenFails
    BY <1>4 DEF LogInv, OpenFails
  <1>5. CASE WriteRecord
    BY <1>5, AdvanceLast, PushIndexSlot DEF LogInv, WriteRecord
  <1>6. CASE WriteFails
    BY <1>6 DEF CrashesOnly, WriteFails
  <1>7. CASE SaveHead
    <2>1. nvs' = [nvs EXCEPT !.head = index.head] /\ index = Advance(nvs) /\ index' = index
      BY <1>7 DEF LogInv, SaveHead
    <2>2. CASE nvs.count < Capacity
      <3>1. nvs' = nvs
        BY <2>1, <2>2 DEF Advance, LogInv, Index
      <3> QED BY <1>7, <2>1, <2>2, <3>1 DEF LogInv, SaveHead
    <2>3. CASE ~(nvs.count < Capacity)
      <3>1. nvs' = index
        BY <2>1, <2>3 DEF Advance, LogInv, Index
      <3> QED BY <1>7, <2>1, <3>1 DEF LogInv, SaveHead
    <2> QED BY <2>2, <2>3
  <1>8. CASE SaveCount
    <2>1. nvs' = [nvs EXCEPT !.count = index.count] /\ index' = index
      BY <1>8 DEF SaveCount
    <2>2. nvs' = index
      <3>1. CASE index = nvs
        BY <2>1, <3>1 DEF LogInv, Index
      <3>2. CASE index # nvs
        <4>1. nvs.count < Capacity /\ index = Advance(nvs)
          BY <1>8, <3>2 DEF LogInv, SaveCount
        <4> QED BY <2>1, <4>1 DEF Advance, LogInv, Index
      <3> QED BY <3>1, <3>2
    <2> QED BY <1>8, <2>1, <2>2 DEF LogInv, SaveCount
  <1>9. CASE SaveFails
    BY <1>9 DEF CrashesOnly, SaveFails
  <1>10. CASE Return
    BY <1>10 DEF LogInv, Return
  <1>11. CASE Clear
    BY <1>11 DEF CrashesOnly, LogInv, Clear
  <1>clear. CASE ClearBegin
    BY <1>clear DEF LogInv, ClearBegin
  <1>12. CASE PowerLoss
    BY <1>12, EmptyIndex DEF LogInv, PowerLoss
  <1>13. CASE Reformat
    BY <1>13 DEF CrashesOnly, LogInv, Reformat
  <1>14. CASE UNCHANGED vars
    BY <1>14 DEF LogInv, vars
  <1> QED
    BY <1>1, <1>blind, <1>2, <1>3, <1>4, <1>5, <1>6, <1>7, <1>8, <1>9, <1>10, <1>11,
       <1>clear, <1>12, <1>13, <1>14 DEF Next, AppendStep

(* What a step does to the window of the next restart: the put of head or  *)
(* count commits the message, every other step leaves the window alone.    *)
Commits ==
  /\ pc \in {"head", "count"} /\ ~Committed /\ Committed'
  /\ UNCHANGED <<cur, nextId, loaded, unread, behind>>
  /\ LoadRecent(file, nvs)' = Log!LastOf(Append(LoadRecent(file, nvs), cur), Recent)

LEMMA SaveHeadWindow ==
  ASSUME LogInv, SaveHead
  PROVE  Commits \/ (UNCHANGED LoadRecent(file, nvs) /\ Committed' = Committed)
  <1> USE DEF disk, ram, blind, tally
  <1>1. /\ nvs' = [nvs EXCEPT !.head = index.head] /\ index = Advance(nvs) /\ index' = index
        /\ file' = file /\ pc = "head" /\ pc' = "count"
        /\ nvs \in Index /\ DOMAIN file = Slot /\ file[PushIndex(nvs)] = cur
    BY DEF LogInv, SaveHead
  <1>2. ~Committed
    BY <1>1 DEF Committed
  <1>3. nvs = [head |-> nvs.head, count |-> nvs.count] /\ nvs.count \in Nat
    BY <1>1, CapacityPositive DEF Index
  <1>4. CASE nvs.count < Capacity
    <2>1. nvs' = nvs /\ index.count = nvs.count + 1
      BY <1>1, <1>3, <1>4 DEF Advance
    <2>2. nvs.count + 1 # nvs.count
      BY <1>3
    <2>3. Committed' = Committed
      BY <1>1, <2>1, <2>2 DEF Committed
    <2> QED BY <1>1, <2>1, <2>3
  <1>5. CASE ~(nvs.count < Capacity)
    <2>1. nvs' = index /\ index.count = nvs.count
      BY <1>1, <1>3, <1>5 DEF Advance
    <2>2. Committed'
      BY <1>1, <2>1 DEF Committed
    <2>3. LoadRecent(file, index) = Log!LastOf(Append(LoadRecent(file, nvs), cur), Recent)
      BY <1>1, CommitWindow
    <2> QED BY <1>1, <1>2, <2>1, <2>2, <2>3 DEF Commits, SaveHead
  <1> QED BY <1>4, <1>5

LEMMA SaveCountWindow ==
  ASSUME LogInv, SaveCount
  PROVE  Commits \/ (UNCHANGED LoadRecent(file, nvs) /\ Committed' = Committed)
  <1> USE DEF disk, ram, blind, tally
  <1>1. /\ nvs' = [nvs EXCEPT !.count = index.count] /\ index' = index
        /\ file' = file /\ pc = "count" /\ pc' = "saved"
        /\ nvs \in Index /\ DOMAIN file = Slot
        /\ \/ index = nvs
           \/ nvs.count < Capacity /\ index = Advance(nvs) /\ file[PushIndex(nvs)] = cur
    BY DEF LogInv, SaveCount
  <1>2. Committed'
    BY <1>1 DEF Committed
  <1>3. nvs = [head |-> nvs.head, count |-> nvs.count] /\ nvs.count \in Nat
    BY <1>1, CapacityPositive DEF Index
  <1>4. CASE index = nvs
    <2>1. nvs' = nvs
      BY <1>1, <1>3, <1>4
    <2>2. Committed' = Committed
      BY <1>1, <1>4, <2>1 DEF Committed
    <2> QED BY <1>1, <2>1, <2>2
  <1>5. CASE index # nvs
    <2>1. nvs.count < Capacity /\ index = Advance(nvs) /\ file[PushIndex(nvs)] = cur
      BY <1>1, <1>5
    <2>2. nvs' = index /\ index.count = nvs.count + 1
      BY <1>1, <1>3, <2>1 DEF Advance
    <2>3. ~Committed
      BY <1>1, <1>3, <2>2 DEF Committed
    <2>4. LoadRecent(file, index) = Log!LastOf(Append(LoadRecent(file, nvs), cur), Recent)
      BY <1>1, <2>1, CommitWindow
    <2> QED BY <1>1, <1>2, <2>2, <2>3, <2>4 DEF Commits, SaveCount
  <1> QED BY <1>4, <1>5

LEMMA WriteWindow ==
  ASSUME LogInv, WriteRecord
  PROVE  UNCHANGED LoadRecent(file, nvs)
  <1>1. /\ nvs' = nvs /\ index = nvs /\ nvs \in Index /\ DOMAIN file = Slot
        /\ file' = [file EXCEPT ![PushIndex(nvs)] = cur]
    BY DEF LogInv, WriteRecord
  <1>2. DOMAIN file' = Slot /\ \A r \in Slot : r # PushIndex(nvs) => file'[r] = file[r]
    BY <1>1
  <1>3. LoadRecent(file', nvs) = LoadRecent(file, nvs)
    BY <1>1, <1>2, WriteOutside
  <1> QED BY <1>1, <1>3

LEMMA TornWindow ==
  ASSUME LogInv, CreateTorn
  PROVE  UNCHANGED LoadRecent(file, nvs)
  <1>1. nvs' = nvs /\ nvs \in Index /\ nvs.count = 0
    BY DEF CreateTorn, LogInv
  <1> QED BY <1>1, EmptyWindow

-----------------------------------------------------------------------------
(* The numbers.                                                             *)

LEMMA LastOfIs ==
  ASSUME NEW n \in Nat, NEW t, Len(t) = n
  PROVE  \E d \in Nat :
           Log!LastOf(t, Recent) = [i \in 1..(n - d) |-> t[i + d]]
  <1>1. PICK d : d = IF n <= Recent THEN 0 ELSE n - Recent
    OBVIOUS
  <1>2. d \in Nat
    BY <1>1, StoreAssumption
  <1>3. Log!LastOf(t, Recent) = [i \in 1..(n - d) |-> t[i + d]]
    BY <1>1 DEF Log!LastOf
  <1> QED BY <1>2, <1>3

LEMMA ShiftIs ==
  ASSUME NEW n \in Nat, NEW t, Len(t) = n + 1
  PROVE  \E d \in Nat : Log!LastOf(t, Recent) = [i \in 1..(n + 1 - d) |-> t[i + d]]
  <1>0. PICK k \in Nat : k = n + 1
    OBVIOUS
  <1> QED BY <1>0, LastOfIs

(* m continues s: its number is above those of s, but for the first u.     *)
Continues(m, s, b, u) ==
  /\ Numbered(s, b)
  /\ m.id \in Nat \ {0} /\ m.text \in 1..Len(b) /\ b[m.text] = u
  /\ \A i \in DOMAIN s : Below(s[i], m.id, u)

(* w is t without its first d messages, and t is s of length n and m.      *)
Shifted(n, d, s, m, t, w) ==
  /\ DOMAIN s = 1..n
  /\ t[n + 1] = m
  /\ \A i \in 1..n : t[i] = s[i]
  /\ w = [i \in 1..(n + 1 - d) |-> t[i + d]]

(* A window shifted by a message with a higher number. *)
LEMMA ShiftNumbered ==
  ASSUME NEW n \in Nat, NEW d \in Nat, NEW s, NEW m, NEW t, NEW w,
         Shifted(n, d, s, m, t, w),
         NEW b, NEW u, Continues(m, s, b, u)
  PROVE  Numbered(w, b) /\ \A i \in DOMAIN w : w[i].id <= m.id \/ w[i].text <= u
  <1>1. /\ DOMAIN s = 1..n /\ t[n + 1] = m
        /\ \A i \in 1..n : t[i] = s[i]
        /\ w = [i \in 1..(n + 1 - d) |-> t[i + d]]
    BY DEF Shifted
  <1>2. /\ \A i \in 1..n : /\ t[i].id \in Nat \ {0} /\ t[i].text \in 1..Len(b)
                           /\ Below(t[i], m.id, u)
        /\ \A i, j \in 1..n : i < j => Below(t[i], t[j].id, b[t[j].text])
    BY <1>1 DEF Continues, Numbered
  <1>3. \A i \in 1..(n + 1) : /\ t[i].id \in Nat \ {0} /\ t[i].text \in 1..Len(b)
                              /\ t[i].id <= m.id \/ t[i].text <= u
    <2>1. TAKE i \in 1..(n + 1)
    <2>2. i = n + 1 \/ i \in 1..n
      OBVIOUS
    <2> QED BY <1>1, <1>2, <2>2 DEF Continues, Below
  <1>4. \A i, j \in 1..(n + 1) : i < j => Below(t[i], t[j].id, b[t[j].text])
    <2>1. SUFFICES ASSUME NEW i \in 1..(n + 1), NEW j \in 1..(n + 1), i < j
                   PROVE  Below(t[i], t[j].id, b[t[j].text])
      OBVIOUS
    <2>2. i \in 1..n /\ (j = n + 1 \/ j \in 1..n)
      BY <2>1
    <2> QED BY <1>1, <1>2, <2>1, <2>2 DEF Continues
  <1>5. DOMAIN w = 1..(n + 1 - d) /\ \A i \in DOMAIN w : i + d \in 1..(n + 1) /\ w[i] = t[i + d]
    BY <1>1
  <1>6. \A i, j \in DOMAIN w : i < j => i + d < j + d
    BY <1>5
  <1>7. \A i \in DOMAIN w : /\ w[i].id \in Nat \ {0} /\ w[i].text \in 1..Len(b)
                            /\ w[i].id <= m.id \/ w[i].text <= u
    BY <1>3, <1>5
  <1>8. \A i, j \in DOMAIN w : i < j => Below(w[i], w[j].id, b[w[j].text])
    BY <1>4, <1>5, <1>6
  <1> QED BY <1>7, <1>8 DEF Numbered

LEMMA IdCommit ==
  ASSUME LogInv, IdInv, Commits, pc' # "off"
  PROVE  IdInv'
  <1>1. PICK s : s = LoadRecent(file, nvs)
    OBVIOUS
  <1>idx. nvs \in Index
    BY DEF LogInv
  <1>2. PICK n \in Nat :
          /\ DOMAIN s = 1..n
          /\ \A m : /\ Len(Append(s, m)) = n + 1
                    /\ Append(s, m)[n + 1] = m
                    /\ \A i \in 1..n : Append(s, m)[i] = s[i]
    BY <1>idx, <1>1, WindowSeq
  <1>3. /\ Numbered(s, behind)
        /\ cur.id \in Nat \ {0} /\ cur.id < nextId
        /\ cur.text \in 1..Len(behind) /\ behind[cur.text] = unread
        /\ \A i \in DOMAIN s : Below(s[i], cur.id, unread)
    BY <1>1 DEF IdInv, Commits
  <1>t. PICK t : t = Append(s, cur)
    OBVIOUS
  <1>4. PICK w : w = Log!LastOf(t, Recent)
    OBVIOUS
  <1>m. PICK m : m = cur
    OBVIOUS
  <1>b. PICK b : b = behind
    OBVIOUS
  <1>u. PICK u : u = unread
    OBVIOUS
  <1>app. Len(t) = n + 1 /\ t[n + 1] = m /\ \A i \in 1..n : t[i] = s[i]
    BY <1>2, <1>t, <1>m
  <1>ids. Continues(m, s, b, u)
    BY <1>3, <1>m, <1>b, <1>u DEF Continues
  <1>len. Len(t) = n + 1
    BY <1>app
  <1>last. \E d \in Nat : Log!LastOf(t, Recent) = [i \in 1..(n + 1 - d) |-> t[i + d]]
    BY <1>len, ShiftIs
  <1>d. PICK d \in Nat : w = [i \in 1..(n + 1 - d) |-> t[i + d]]
    BY <1>4, <1>last
  <1>dom. DOMAIN s = 1..n
    BY <1>2
  <1>way. Shifted(n, d, s, m, t, w)
    BY <1>d, <1>app, <1>dom DEF Shifted
  <1>shift. Numbered(w, b) /\ \A i \in DOMAIN w : w[i].id <= m.id \/ w[i].text <= u
    BY <1>way, <1>ids, ShiftNumbered
  <1>5. Numbered(w, behind) /\ \A i \in DOMAIN w : w[i].id <= cur.id \/ w[i].text <= unread
    BY <1>m, <1>b, <1>u, <1>shift
  <1>6. /\ LoadRecent(file, nvs)' = w /\ nextId' = nextId /\ cur' = cur /\ Committed'
        /\ unread' = unread /\ behind' = behind
    BY <1>1, <1>t, <1>4 DEF Commits
  <1>7. \A i \in DOMAIN w : Below(w[i], nextId, unread)
    BY <1>3, <1>5 DEF LogInv, Numbered, Below
  <1> QED BY <1>3, <1>5, <1>6, <1>7 DEF IdInv

LEMMA IdStep ==
  ASSUME CrashesOnly, LogInv, IdInv, [Next]_vars
  PROVE  IdInv'
  <1> USE DEF disk, ram, blind, tally
  <1>1. CASE Begin
    <2>1. PICK s : s = LoadRecent(file, nvs)
      OBVIOUS
    <2>idx. nvs \in Index
      BY DEF LogInv
    <2>2. PICK n \in Nat : DOMAIN s = 1..n
      BY <2>idx, <2>1, WindowSeq
    <2>3. /\ LoadRecent(file, nvs)' = s /\ nextId' = NextIdAfter(s) /\ pc' = "ready"
          /\ behind' = behind
      BY <1>1, <2>1, BeginWindow DEF Begin, StoreBegin
    <2>4. Numbered(s, behind)
      BY <2>1 DEF IdInv
    <2>5. \A i \in DOMAIN s : s[i].id < NextIdAfter(s)
      <3>1. \A i \in 1..n : s[i].id \in Int /\ s[i].id >= -1
        BY <2>2, <2>4 DEF Numbered
      <3> QED BY <2>2, <3>1, NextIdAbove
    <2> QED BY <2>3, <2>4, <2>5 DEF IdInv, Below
  <1>blind. CASE BeginBlind
    <2>1. PICK s : s = LoadRecent(file, nvs)
      OBVIOUS
    <2>2. LoadRecent(file, nvs)' = s /\ unread' = sent /\ behind' = behind /\ pc' = "ready"
      BY <1>blind, <2>1, StoreBeginWindow DEF BeginBlind, StoreBegin
    <2>3. Numbered(s, behind) /\ Len(behind) = sent
      BY <2>1 DEF IdInv, LogInv
    <2>4. \A i \in DOMAIN s : s[i].text <= sent
      BY <2>3 DEF Numbered, LogInv
    <2> QED BY <2>2, <2>3, <2>4 DEF IdInv, Below
  <1>2. CASE CreateTorn
    <2>1. pc = "off" /\ pc' = "off" /\ behind' = behind
      BY <1>2 DEF CreateTorn
    <2> QED BY <1>2, <2>1, TornWindow DEF IdInv
  <1>3. CASE Start
    <2>1. LoadRecent(file, nvs)' = LoadRecent(file, nvs) /\ pc = "ready" /\ pc' = "open"
      BY <1>3 DEF Start
    <2>2. /\ cur'.id = nextId /\ cur'.text = sent + 1
          /\ nextId' = nextId + 1 /\ nextId \in Nat \ {0} /\ unread' = unread
      BY <1>3 DEF Start, LogInv
    <2>3. PICK s : s = LoadRecent(file, nvs)
      OBVIOUS
    <2>b. /\ behind' = Append(behind, unread) /\ behind \in Seq(Nat) /\ Len(behind) = sent
          /\ sent \in Nat /\ unread \in Nat
      BY <1>3 DEF Start, LogInv
    <2>c. /\ Len(behind') = sent + 1 /\ behind'[sent + 1] = unread
          /\ \A k \in 1..sent : behind'[k] = behind[k]
      BY <2>b
    <2>4. Numbered(s, behind) /\ \A i \in DOMAIN s : Below(s[i], nextId, unread)
      BY <2>1, <2>3 DEF IdInv
    <2>n. Numbered(s, behind')
      <3>1. \A i \in DOMAIN s : s[i].id \in Nat \ {0} /\ s[i].text \in 1..sent
        BY <2>4, <2>b DEF Numbered
      <3>2. 1..sent \subseteq 1..(sent + 1)
        BY <2>b
      <3>3. \A i, j \in DOMAIN s : i < j => Below(s[i], s[j].id, behind'[s[j].text])
        BY <2>4, <2>c, <3>1 DEF Numbered
      <3> QED BY <2>c, <3>1, <3>2, <3>3 DEF Numbered
    <2>5. \A i \in DOMAIN s : Below(s[i], nextId + 1, unread)
      BY <2>2, <2>4 DEF Numbered, Below
    <2>6. nextId < nextId + 1 /\ sent + 1 \in 1..(sent + 1)
      BY <2>2, <2>b
    <2> QED BY <2>1, <2>2, <2>3, <2>4, <2>c, <2>n, <2>5, <2>6 DEF IdInv
  <1>4. CASE OpenFails
    BY <1>4 DEF IdInv, OpenFails
  <1>5. CASE WriteRecord
    <2>1. ~Committed /\ pc = "open" /\ pc' = "head"
      BY <1>5 DEF WriteRecord, Committed
    <2> QED BY <1>5, <2>1, WriteWindow DEF WriteRecord, IdInv
  <1>6. CASE WriteFails
    BY <1>6 DEF CrashesOnly, WriteFails
  <1>7. CASE SaveHead
    <2>0. unread' = unread /\ behind' = behind
      BY <1>7 DEF SaveHead
    <2>1. cur' = cur /\ nextId' = nextId /\ pc = "head" /\ pc' = "count"
      BY <1>7 DEF SaveHead
    <2>2. CASE Commits
      BY <2>1, <2>2, IdCommit
    <2>3. CASE UNCHANGED LoadRecent(file, nvs) /\ Committed' = Committed
      BY <2>0, <2>1, <2>3 DEF IdInv
    <2> QED BY <1>7, <2>2, <2>3, SaveHeadWindow
  <1>8. CASE SaveCount
    <2>0. unread' = unread /\ behind' = behind
      BY <1>8 DEF SaveCount
    <2>1. cur' = cur /\ nextId' = nextId /\ pc = "count" /\ pc' = "saved"
      BY <1>8 DEF SaveCount
    <2>2. CASE Commits
      BY <2>1, <2>2, IdCommit
    <2>3. CASE UNCHANGED LoadRecent(file, nvs) /\ Committed' = Committed
      BY <2>0, <2>1, <2>3 DEF IdInv
    <2> QED BY <1>8, <2>2, <2>3, SaveCountWindow
  <1>9. CASE SaveFails
    BY <1>9 DEF CrashesOnly, SaveFails
  <1>10. CASE Return
    BY <1>10 DEF IdInv, Return
  <1>11. CASE Clear
    BY <1>11 DEF CrashesOnly, LogInv, Clear
  <1>clear. CASE ClearBegin
    BY <1>clear DEF LogInv, ClearBegin
  <1>12. CASE PowerLoss
    BY <1>12 DEF IdInv, PowerLoss
  <1>13. CASE Reformat
    BY <1>13 DEF CrashesOnly, LogInv, Reformat
  <1>14. CASE UNCHANGED vars
    <2>1. Committed' = Committed
      BY <1>14 DEF vars, Committed
    <2> QED BY <1>14, <2>1 DEF vars, IdInv
  <1> QED
    BY <1>1, <1>blind, <1>2, <1>3, <1>4, <1>5, <1>6, <1>7, <1>8, <1>9, <1>10, <1>11,
       <1>clear, <1>12, <1>13, <1>14 DEF Next, AppendStep

-----------------------------------------------------------------------------
(* Every step is one of RecentLog, or none.                                *)
LEMMA MapStep ==
  ASSUME CrashesOnly, LogInv, [Next]_vars
  PROVE  [Log!Next]_(Log!vars)
  <1> USE DEF disk, ram, blind, tally
  <1>0. ASSUME Commits PROVE Log!Commit
    <2>1. cur # Blank
      BY <1>0 DEF Commits, LogInv
    <2> QED BY <1>0, <2>1 DEF Commits, Log!Commit
  <1>1. CASE Begin
    <2>1. Committed' = Committed /\ cur' = cur
      BY <1>1 DEF Begin, StoreBegin, Committed
    <2>2. Log!PowerUp
      BY <1>1, <2>1, BeginWindow DEF Log!PowerUp
    <2> QED BY <2>2 DEF Log!Next
  <1>blind. CASE BeginBlind
    <2>1. Committed' = Committed /\ cur' = cur
      BY <1>blind DEF BeginBlind, StoreBegin, Committed
    <2>2. LoadRecent(file, nvs)' = LoadRecent(file, nvs) /\ loaded' = <<>> /\ loaded = <<>>
      BY <1>blind, StoreBeginWindow DEF BeginBlind, StoreBegin, LogInv
    <2> QED BY <2>1, <2>2 DEF Log!vars
  <1>2. CASE CreateTorn
    <2>1. Committed' = Committed
      BY <1>2 DEF CreateTorn, Committed
    <2> QED BY <1>2, <2>1, TornWindow DEF CreateTorn, Log!vars
  <1>3. CASE Start
    <2>1. LoadRecent(file, nvs)' = LoadRecent(file, nvs) /\ loaded' = loaded
      BY <1>3 DEF Start
    <2>2. Committed' = Committed
      BY <1>3 DEF Start, Committed
    <2>3. cur = Blank /\ cur' \in Record
      BY <1>3 DEF Start, LogInv, Record
    <2>4. Log!Start
      BY <2>1, <2>2, <2>3 DEF Log!Start
    <2> QED BY <2>4 DEF Log!Next
  <1>4. CASE OpenFails
    <2>1. LoadRecent(file, nvs)' = LoadRecent(file, nvs) /\ loaded' = loaded /\ cur' = Blank
      BY <1>4 DEF OpenFails
    <2>2. ~Committed /\ Committed' = Committed
      BY <1>4 DEF OpenFails, Committed
    <2>3. Log!Fail
      BY <2>1, <2>2 DEF Log!Fail
    <2> QED BY <2>3 DEF Log!Next
  <1>5. CASE WriteRecord
    <2>1. Committed' = Committed
      BY <1>5 DEF WriteRecord, Committed
    <2> QED BY <1>5, <2>1, WriteWindow DEF WriteRecord, Log!vars
  <1>6. CASE WriteFails
    BY <1>6 DEF CrashesOnly, WriteFails
  <1>7. CASE SaveHead
    <2>1. cur' = cur /\ loaded' = loaded
      BY <1>7 DEF SaveHead
    <2> QED BY <1>0, <1>7, <2>1, SaveHeadWindow DEF Log!Next, Log!vars
  <1>8. CASE SaveCount
    <2>1. cur' = cur /\ loaded' = loaded
      BY <1>8 DEF SaveCount
    <2> QED BY <1>0, <1>8, <2>1, SaveCountWindow DEF Log!Next, Log!vars
  <1>9. CASE SaveFails
    BY <1>9 DEF CrashesOnly, SaveFails
  <1>10. CASE Return
    <2>1. LoadRecent(file, nvs)' = LoadRecent(file, nvs) /\ loaded' = loaded /\ cur' = Blank
      BY <1>10 DEF Return
    <2>2. Committed /\ ~Committed'
      BY <1>10 DEF Return, Committed
    <2>3. Log!Return
      BY <2>1, <2>2 DEF Log!Return
    <2> QED BY <2>3 DEF Log!Next
  <1>11. CASE Clear
    BY <1>11 DEF CrashesOnly, LogInv, Clear
  <1>clear. CASE ClearBegin
    BY <1>clear DEF LogInv, ClearBegin
  <1>12. CASE PowerLoss
    <2>1. LoadRecent(file, nvs)' = LoadRecent(file, nvs) /\ loaded' = <<>> /\ cur' = Blank
      BY <1>12 DEF PowerLoss
    <2>2. ~Committed'
      BY <1>12 DEF PowerLoss, Committed
    <2>3. Log!PowerLoss
      BY <2>1, <2>2 DEF Log!PowerLoss
    <2> QED BY <2>3 DEF Log!Next
  <1>13. CASE Reformat
    BY <1>13 DEF CrashesOnly, LogInv, Reformat
  <1>14. CASE UNCHANGED vars
    <2>1. Committed' = Committed
      BY <1>14 DEF vars, Committed
    <2> QED BY <1>14, <2>1 DEF vars, Log!vars
  <1> QED
    BY <1>1, <1>blind, <1>2, <1>3, <1>4, <1>5, <1>6, <1>7, <1>8, <1>9, <1>10, <1>11,
       <1>clear, <1>12, <1>13, <1>14 DEF Next, AppendStep

(* Implements: under crashes at any moment the store is a RecentLog: what  *)
(* returned true is there after a restart, in order, the last Recent of    *)
(* it, and a cut-off append leaves the whole message or nothing.           *)
THEOREM StoreIsRecentLog ==
  ASSUME CrashesOnly
  PROVE  Spec => Implements
  <1>1. Init => Log!Init
    <2> SUFFICES ASSUME Init PROVE Log!Init
      OBVIOUS
    <2>1. LoadRecent(file, nvs) = <<>>
      BY EmptyIndex, EmptyWindow DEF Init, Empty
    <2>2. Committed = FALSE
      BY DEF Init, Committed
    <2> QED BY <2>1, <2>2 DEF Init, Log!Init
  <1>2. LogInv /\ IdInv /\ [Next]_vars => LogInv' /\ IdInv'
    BY LogStep, IdStep
  <1>3. LogInv /\ [Next]_vars => [Log!Next]_(Log!vars)
    BY MapStep
  <1> QED BY <1>1, <1>2, <1>3, LogInit, PTL DEF Spec, Implements, Log!Spec

(* IdsIncrease: what a restart loads carries increasing numbers, and the   *)
(* next number is above them, with the exception of messages that the      *)
(* power-up which gave the higher place could not read.                    *)
THEOREM NumbersIncrease ==
  ASSUME CrashesOnly
  PROVE  Spec => []IdsIncrease
  <1>1. LogInv /\ IdInv /\ [Next]_vars => LogInv' /\ IdInv'
    BY LogStep, IdStep
  <1>2. IdInv => IdsIncrease
    BY DEF IdInv, IdsIncrease, Numbered
  <1> QED BY <1>1, <1>2, LogInit, PTL DEF Spec

-----------------------------------------------------------------------------
(* The type of every variable, whatever fails.                             *)

(* A restart loads at most Recent cells of the file. *)
LEMMA LoadRecentType ==
  ASSUME NEW f \in [Slot -> Cells], NEW x \in Index
  PROVE  /\ LoadRecent(f, x) \in Seq(Cells)
         /\ NextIdAfter(LoadRecent(f, x)) \in Nat
  <1>1. /\ x.head \in Nat /\ x.count \in Nat /\ Capacity \in Nat \ {0}
    BY CapacityPositive DEF Index, Slot
  <1>2. PICK n \in Nat : n = WindowSize(x) /\ n <= x.count
    BY Window
  <1>3. \A i \in 1..n : (x.head + (x.count - n + i - 1)) % Capacity \in Slot
    <2>1. TAKE i \in 1..n
    <2>2. PICK y \in Nat : y = x.head + (x.count - n + i - 1)
      BY <1>1, <1>2
    <2> QED BY <1>1, <2>2, ModRange DEF Slot
  <1>4. PICK s \in [1..n -> Cells] : s = LoadRecent(f, x)
    BY <1>2, <1>3 DEF LoadRecent
  <1>5. s \in Seq(Cells)
    OBVIOUS
  <1>6. DOMAIN s = 1..n /\ \A i \in 1..n : s[i].id \in Int /\ s[i].id >= -1
    BY DEF Cells, Record, Skipped
  <1> QED BY <1>4, <1>5, <1>6, NextIdAbove

LEMMA TypesInit == Init => TypeOK
  <1> SUFFICES ASSUME Init PROVE TypeOK
    OBVIOUS
  <1>1. Blank \in Record /\ Blank \in Cells
    BY DEF Blank, Record, Cells
  <1>2. loaded \in Seq(Cells) /\ behind \in Seq(Nat)
    BY DEF Init
  <1> QED BY <1>1, <1>2, EmptyIndex DEF Init, TypeOK

LEMMA TypesStep ==
  ASSUME TypeOK, [Next]_vars
  PROVE  TypeOK'
  <1> USE DEF disk, ram, blind, tally
  <1>0. /\ Blank \in Record /\ Blank \in Cells /\ Skipped \in Cells
        /\ <<>> \in Seq(Cells) /\ Record \subseteq Cells
    BY DEF Blank, Record, Cells
  <1>file. ASSUME StoreBegin
           PROVE  file' \in [Slot -> Cells] /\ exists' \in BOOLEAN
    BY <1>0, <1>file DEF TypeOK, StoreBegin
  <1>1. CASE Begin
    <2>1. StoreBegin /\ loaded' = LoadRecent(file', nvs) /\ nextId' = NextIdAfter(loaded')
      BY <1>1 DEF Begin
    <2>2. loaded' \in Seq(Cells) /\ nextId' \in Nat
      BY <1>file, <2>1, LoadRecentType DEF TypeOK
    <2> QED BY <1>1, <1>file, <2>1, <2>2 DEF TypeOK, Begin, StoreBegin
  <1>blind. CASE BeginBlind
    <2>1. StoreBegin /\ loaded' = <<>> /\ nextId' = 1 /\ unread' = sent /\ index' \in Index
      BY <1>blind DEF BeginBlind, TypeOK
    <2> QED BY <1>0, <1>file, <2>1 DEF TypeOK, StoreBegin
  <1>2. CASE CreateTorn
    BY <1>0, <1>2 DEF TypeOK, CreateTorn
  <1>3. CASE Start
    <2>1. behind' \in Seq(Nat)
      BY <1>3 DEF TypeOK, Start
    <2> QED BY <1>3, <2>1 DEF TypeOK, Start, Record
  <1>4. CASE OpenFails
    BY <1>0, <1>4 DEF TypeOK, OpenFails
  <1>5. CASE WriteRecord
    <2>1. PushIndex(index) \in Slot /\ Advance(index) \in Index
      BY AdvanceLast, PushIndexSlot DEF TypeOK
    <2>2. file' \in [Slot -> Cells]
      BY <1>0, <1>5, <2>1 DEF TypeOK, WriteRecord
    <2> QED BY <1>5, <2>1, <2>2 DEF TypeOK, WriteRecord
  <1>6. CASE WriteFails
    BY <1>6, AdvanceLast DEF TypeOK, WriteFails
  <1>7. CASE SaveHead
    BY <1>7 DEF TypeOK, SaveHead, Index
  <1>8. CASE SaveCount
    BY <1>8 DEF TypeOK, SaveCount, Index
  <1>9. CASE SaveFails
    BY <1>9 DEF TypeOK, SaveFails
  <1>10. CASE Return
    BY <1>0, <1>10 DEF TypeOK, Return
  <1>11. CASE Clear
    <2>1. intact' \in BOOLEAN
      BY <1>11, Zenon DEF Clear
    <2> QED BY <1>11, <2>1, EmptyIndex DEF TypeOK, Clear
  <1>clear. CASE ClearBegin
    BY <1>clear DEF TypeOK, ClearBegin
  <1>12. CASE PowerLoss
    BY <1>0, <1>12, EmptyIndex DEF TypeOK, PowerLoss
  <1>13. CASE Reformat
    <2>1. exists' \in BOOLEAN
      BY <1>13, Zenon DEF Reformat
    <2> QED BY <1>0, <1>13, <2>1 DEF TypeOK, Reformat
  <1>14. CASE UNCHANGED vars
    BY <1>14 DEF TypeOK, vars
  <1> QED
    BY <1>1, <1>blind, <1>2, <1>3, <1>4, <1>5, <1>6, <1>7, <1>8, <1>9, <1>10, <1>11,
       <1>clear, <1>12, <1>13, <1>14 DEF Next, AppendStep

(* TypeOK: head and count name a slot of the file and the next number is a *)
(* number, whatever the flash operations of a run do.                      *)
THEOREM StoreTypes == Spec => []TypeOK
  BY TypesInit, TypesStep, PTL DEF Spec

=============================================================================
