---------------------------- MODULE MessageStore ----------------------------
(***************************************************************************)
(* The flash store of the messages (src/lib/storage) and the part of       *)
(* ChatService that loads from it and numbers messages after it.           *)
(*                                                                         *)
(* The records are in a LittleFS file of Capacity slots, the index (head,  *)
(* count) in NVS: two media that are not updated together.  A write to the *)
(* file is durable at close(), each putUInt at its return, and power may   *)
(* fail between any two of them.  The file can also be replaced as a whole *)
(* (uploadfs, or begin(true) formatting what it cannot mount) while NVS    *)
(* stays.  next_id of the index is left out: it numbers only messages with *)
(* id 0, and ChatService passes none.                                      *)
(*                                                                         *)
(* A device whose file system does not mount, or whose file cannot be      *)
(* created, does not start (app_core.cpp): it stays "off" here.  Assumed:  *)
(* what was written can be read, once the file is open, and a put into an  *)
(* open namespace succeeds.                                                *)
(***************************************************************************)
EXTENDS Integers, Sequences, FiniteSetsExt

CONSTANTS
  Capacity,      \* CircularIndex::kCapacity (1000 in the code)
  Recent,        \* messages ChatService::begin loads (20 in the code)
  Faults,        \* what may fail: to "open" or "write" the file, to open the
                 \* namespace of the index for writing ("save") or reading ("index")
  MaxMessages,   \* bound: messages of the run
  MaxCrashes,    \* bound: losses of power
  MaxReformats,  \* bound: replacements of the file system
  MaxClears      \* bound: calls of clear()

ASSUME StoreAssumption ==
  /\ Capacity \in Nat /\ Recent \in Nat \ {0} /\ Recent < Capacity
  /\ Faults \subseteq {"open", "write", "save", "index"}
  /\ MaxMessages \in Nat /\ MaxCrashes \in Nat
  /\ MaxReformats \in Nat /\ MaxClears \in Nat

VARIABLES
  exists,  \* /msgs.bin is there
  file,    \* its slots
  nvs,     \* head and count in the namespace loralink_msg
  index,   \* m_index
  pc,      \* where the device is: "off", "ready", in append or in clear
  cur,     \* the message append() is working on
  nextId,  \* ChatService::m_next_id
  loaded,  \* the records the last power-up went through
  sent,    \* history: messages so far
  intact,  \* history: no operation of the running append failed
  unread,  \* history: messages sent before this power-up, if it could read none
  behind,  \* history: for each message, unread when it got its number
  crashes, reformats, clears

disk  == <<exists, file, nvs>>
ram   == <<index, cur, nextId, loaded>>
blind == <<unread, behind>>
tally == <<crashes, reformats, clears>>
vars  == <<exists, file, nvs, index, pc, cur, nextId, loaded, sent, intact,
           unread, behind, crashes, reformats, clears>>

Slot    == 0..(Capacity - 1)
Record  == [id : Nat, text : Nat]
(* StoredRecord{} : zeros, but with the magic of a valid record. *)
Blank   == [id |-> 0, text |-> 0]
(* A slot that was never written: reading it fails or finds no magic. *)
Skipped == [id |-> -1, text |-> 0]
Cells   == Record \cup {Skipped}
Index   == [head : Slot, count : 0..Capacity]
Empty   == [head |-> 0, count |-> 0]

PushIndex(x) == (x.head + x.count) % Capacity

(* Mutants: head stays; head does not wrap. *)
AdvanceFixedHead(x) ==
  IF x.count < Capacity THEN [x EXCEPT !.count = @ + 1] ELSE x

AdvanceUnwrapped(x) ==
  IF x.count < Capacity THEN [x EXCEPT !.count = @ + 1] ELSE [x EXCEPT !.head = @ + 1]

Advance(x) ==
  IF x.count < Capacity THEN [x EXCEPT !.count = @ + 1]
                        ELSE [x EXCEPT !.head = (@ + 1) % Capacity]

(* How many records loadRecent(Recent) goes through.                       *)
WindowSize(x) == IF Recent > x.count THEN x.count ELSE Recent

(* Mutants: the first records; one slot too far. *)
LoadRecentFirst(f, x) ==
  LET n == WindowSize(x)
  IN  [i \in 1..n |-> f[(x.head + i - 1) % Capacity]]

LoadRecentShifted(f, x) ==
  LET n == WindowSize(x)
  IN  [i \in 1..n |-> f[(x.head + (x.count - n + i)) % Capacity]]

(* The slots loadRecent goes through; it calls back for all but Skipped.   *)
LoadRecent(f, x) ==
  LET n == WindowSize(x)
  IN  [i \in 1..n |-> f[(x.head + (x.count - n + i - 1)) % Capacity]]

LoadedIds(s) == {s[i].id : i \in DOMAIN s}

(* Mutant: the highest number itself is handed out again. *)
NextIdReused(s) == Max({1} \cup LoadedIds(s))

(* m_next_id after the callbacks of ChatService::begin; Skipped is below.  *)
NextIdAfter(s) == Max({1} \cup {i + 1 : i \in LoadedIds(s)})

-----------------------------------------------------------------------------
(* MessageStore::begin, but for the index.  A new file is filled with      *)
(* blank records; the results of these writes are ignored.                 *)
StoreBegin ==
  /\ pc = "off"
  /\ exists' = TRUE
  /\ \/ exists /\ UNCHANGED file
     \/ ~exists /\ file' = [s \in Slot |-> Blank]
     \/ ~exists /\ "write" \in Faults /\ file' = [s \in Slot |-> Skipped]
  /\ pc' = "ready"
  /\ UNCHANGED <<nvs, cur, sent, intact, behind, tally>>

(* ChatService::begin.  The index in NVS is always in range here, so the   *)
(* clamps of loadIndex change nothing.                                     *)
Begin ==
  /\ StoreBegin
  /\ index' = nvs
  /\ loaded' = LoadRecent(file', nvs)
  /\ nextId' = NextIdAfter(loaded')
  /\ unread' = 0

(* loadRecent cannot open the file, or loadIndex the namespace, so that    *)
(* m_index keeps its zeros.  Nobody looks at the results: the chat begins  *)
(* empty and numbers its messages from 1, whatever is on flash.            *)
BeginBlind ==
  /\ StoreBegin
  /\ \/ "open" \in Faults /\ index' = nvs
     \/ "index" \in Faults /\ UNCHANGED index
  /\ loaded' = <<>>
  /\ nextId' = 1
  /\ unread' = sent

(* Power fails while begin() fills the new file: it exists, but is empty.  *)
CreateTorn ==
  /\ pc = "off"
  /\ ~exists
  /\ crashes < MaxCrashes
  /\ crashes' = crashes + 1
  /\ exists' = TRUE
  /\ file' = [s \in Slot |-> Skipped]
  /\ UNCHANGED <<nvs, ram, pc, sent, intact, blind, reformats, clears>>

-----------------------------------------------------------------------------
(* ChatService::onInbound numbers a message and calls append().            *)
Start ==
  /\ pc = "ready"
  /\ sent < MaxMessages
  /\ sent' = sent + 1
  /\ cur' = [id |-> nextId, text |-> sent + 1]
  /\ nextId' = nextId + 1
  /\ intact' = TRUE
  /\ behind' = Append(behind, unread)
  /\ pc' = "open"
  /\ UNCHANGED <<disk, index, loaded, unread, tally>>

OpenFails ==
  /\ pc = "open"
  /\ "open" \in Faults
  /\ pc' = "ready"
  /\ cur' = Blank
  /\ UNCHANGED <<disk, index, nextId, loaded, sent, intact, blind, tally>>

(* Mutant: the slot after the one the index names. *)
WriteNextSlot ==
  /\ pc = "open"
  /\ file' = [file EXCEPT ![(PushIndex(index) + 1) % Capacity] = cur]
  /\ index' = Advance(index)
  /\ pc' = "head"
  /\ UNCHANGED <<exists, nvs, cur, nextId, loaded, sent, intact, blind, tally>>

(* The record is written and closed, the index in RAM advanced.            *)
WriteRecord ==
  /\ pc = "open"
  /\ file' = [file EXCEPT ![PushIndex(index)] = cur]
  /\ index' = Advance(index)
  /\ pc' = "head"
  /\ UNCHANGED <<exists, nvs, cur, nextId, loaded, sent, intact, blind, tally>>

(* The result of f.write is ignored: the index advances over old content.  *)
WriteFails ==
  /\ pc = "open"
  /\ "write" \in Faults
  /\ index' = Advance(index)
  /\ intact' = FALSE
  /\ pc' = "head"
  /\ UNCHANGED <<disk, cur, nextId, loaded, sent, blind, tally>>

(* saveIndex: the values in NVS change one after the other.                *)
SaveHead ==
  /\ pc = "head"
  /\ nvs' = [nvs EXCEPT !.head = index.head]
  /\ pc' = "count"
  /\ UNCHANGED <<exists, file, ram, sent, intact, blind, tally>>

SaveCount ==
  /\ pc = "count"
  /\ nvs' = [nvs EXCEPT !.count = index.count]
  /\ pc' = "saved"
  /\ UNCHANGED <<exists, file, ram, sent, intact, blind, tally>>

(* Preferences::begin fails; the result of saveIndex is ignored.           *)
SaveFails ==
  /\ pc = "head"
  /\ "save" \in Faults
  /\ intact' = FALSE
  /\ pc' = "saved"
  /\ UNCHANGED <<disk, ram, sent, blind, tally>>

(* append() returns true. *)
Return ==
  /\ pc = "saved"
  /\ cur # Blank
  /\ pc' = "ready"
  /\ cur' = Blank
  /\ UNCHANGED <<disk, index, nextId, loaded, sent, intact, blind, tally>>

(* clear() empties the index and saves it, unless that fails, ...          *)
Clear ==
  /\ pc = "ready"
  /\ clears < MaxClears
  /\ clears' = clears + 1
  /\ index' = Empty
  /\ intact' = FALSE
  /\ pc' = "head"
  /\ UNCHANGED <<disk, cur, nextId, loaded, sent, blind, crashes, reformats>>

(* ... and ends with begin(), which reads it again.                        *)
ClearBegin ==
  /\ pc = "saved"
  /\ cur = Blank
  /\ \/ index' = nvs
     \/ "index" \in Faults /\ UNCHANGED index
  /\ pc' = "ready"
  /\ UNCHANGED <<disk, cur, nextId, loaded, sent, intact, blind, tally>>

-----------------------------------------------------------------------------
PowerLoss ==
  /\ pc # "off"
  /\ crashes < MaxCrashes
  /\ crashes' = crashes + 1
  /\ pc' = "off"
  /\ index' = Empty
  /\ cur' = Blank
  /\ nextId' = 1
  /\ loaded' = <<>>
  /\ unread' = 0
  /\ UNCHANGED <<disk, sent, intact, behind, reformats, clears>>

Reformat ==
  /\ pc = "off"
  /\ reformats < MaxReformats
  /\ reformats' = reformats + 1
  /\ exists' = FALSE
  /\ file' = [s \in Slot |-> Blank]
  /\ UNCHANGED <<nvs, ram, pc, sent, intact, blind, crashes, clears>>

Init ==
  /\ exists = FALSE
  /\ file = [s \in Slot |-> Blank]
  /\ nvs = Empty
  /\ index = Empty
  /\ pc = "off"
  /\ cur = Blank
  /\ nextId = 1
  /\ loaded = <<>>
  /\ sent = 0
  /\ intact = TRUE
  /\ unread = 0
  /\ behind = <<>>
  /\ crashes = 0 /\ reformats = 0 /\ clears = 0

AppendStep ==
  \/ Start \/ OpenFails \/ WriteRecord \/ WriteFails
  \/ SaveHead \/ SaveCount \/ SaveFails \/ Return

Next ==
  \/ Begin \/ BeginBlind \/ CreateTorn
  \/ AppendStep
  \/ Clear \/ ClearBegin
  \/ PowerLoss
  \/ Reformat

Spec == Init /\ [][Next]_vars

-----------------------------------------------------------------------------
(* The type of every variable. *)
TypeOK ==
  /\ exists \in BOOLEAN
  /\ file \in [Slot -> Cells]
  /\ nvs \in Index
  /\ index \in Index
  /\ pc \in {"off", "ready", "open", "head", "count", "saved"}
  /\ cur \in Record
  /\ nextId \in Nat
  /\ loaded \in Seq(Cells)
  /\ sent \in Nat
  /\ intact \in BOOLEAN
  /\ unread \in Nat
  /\ behind \in Seq(Nat)
  /\ crashes \in Nat /\ reformats \in Nat /\ clears \in Nat

(* A message whose append went through is what a restart loads last,       *)
(* whatever failed before it: failed writes and saves, a new file system,  *)
(* power lost half way through an append or a clear().                     *)
StoredIsNewest ==
  pc = "saved" /\ intact =>
    LET s == LoadRecent(file, nvs) IN s # <<>> /\ s[Len(s)] = cur

(* A message comes before number n, or is one of the first u messages.     *)
Below(m, n, u) == m.id < n \/ m.text <= u

(* A number given to a message is above that of every older message that a *)
(* restart would load, unless the power-up that gave it could not read     *)
(* the older one.  Phone and display tell messages apart by the numbers.   *)
IdsIncrease ==
  LET s == LoadRecent(file, nvs) IN
  /\ \A i, j \in DOMAIN s : i < j => Below(s[i], s[j].id, behind[s[j].text])
  /\ pc # "off" => \A i \in DOMAIN s : Below(s[i], nextId, unread)

(* What a restart shows was sent or received once: not so after the file   *)
(* system was replaced (README, section 6).                                *)
LoadedWasSent == \A i \in DOMAIN loaded : loaded[i].text # 0 \/ loaded[i] = Skipped

(* The store implements RecentLog: an append takes effect with the put of  *)
(* the one of head and count it changes.  A power-up that reads nothing    *)
(* shows nothing, and leaves what is kept as it was.                       *)
Committed == pc = "saved" \/ (pc = "count" /\ nvs.count = index.count)

Log == INSTANCE RecentLog WITH
  Message <- Record, None <- Blank, Window <- Recent,
  kept <- LoadRecent(file, nvs), pending <- cur, done <- Committed, view <- loaded

Implements == Log!Spec

=============================================================================
