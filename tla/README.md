# LoRaLink in TLA+

Models of the LoRaLink firmware (a Cardputer terminal and a LoRa gateway with a
web page that chat over LoRa), the TLC runs that check them, and theorems about
them that TLAPS checks. All paths below are those of the repository, with
`src/` in front as the models quote them.

## 1. The system

```
 keyboard, serial ─┐                                   ┌─ serial, phones (WebSocket)
                   ▼                                   ▼
   cardputer_app (Arduino loop)          gateway_app (loop) + AsyncTCP task
                   │ sendText                          │ sendText
                   ▼                                   ▼
   ChatService ── ConversationModel      ChatService ── ConversationModel ── listener: phones
        │    └─── MessageStore (flash)        │    └─── MessageStore (flash)
        ▼  ▲ inbound queue                    ▼  ▲ inbound queue
   ReliableTransport (protocol task)     ReliableTransport (protocol task) + LinkProbe
        │                                     │
   E220 driver  ~~~~~~~~~~~ LoRa ~~~~~~~~~~~  SX1278 driver
```

| Component | State | Operations | How it can go wrong |
|---|---|---|---|
| Reliable transport (`lib/transport`, `SequenceManager`) | send counter, table of 64 numbers seen, 8 pending packets, inbound queue of 16 | `sendMessage`, `send`, `sendPing`, `poll` = `processRetries` + `handleRx` | lost and late frames, ACKs before the packet is registered, numbers that stand for another packet, restarts, full tables, a clock that wraps |
| Packets and codec (`lib/protocol`) | none | `make...`, `encode`, `decode`, CRC | limits of lengths, damaged and merged frames |
| Message store (`lib/storage`) | file of 1000 records in LittleFS, index (head, count) in NVS, index in RAM | `begin`, `append`, `loadRecent`, `clear` | power lost between file and index, failed writes, a file replaced under its index |
| Chat (`lib/chat`) | next message number, ring of 50 messages, listener | `begin`, `poll`, `sendText`, `onInbound` | two or three tasks in `onInbound` at once, without a lock |
| Application core (`src/app/app_core.cpp`) | the objects above, one task | `start`, `stop`, protocol task | half-finished start, stop under running tasks |
| Applications (`src/app`) | key queue, settings page | loops, `handleKeyEvent` | a key handled twice or lost |
| Web server (`lib/webserver`), page (`data/app.js`) | connected clients; set of seen messages per page | connect, message, status, stop | history and live messages crossing |
| Keyboard, display | input buffer; dirty flags | `poll`, draw | events later than the buffer they are about |
| Radio drivers | mutex, the chip's one buffer and mode | `initialize`, `setConfig`, `sendPacket`, `receivePacket` | lock not obtained or not given back, a frame in the chip overwritten by another task |
| Configuration (`lib/config`) | NVS keys | `loadDefaults`, `load`, `save` | save cut off, then other defaults flashed |
| Fragmentation, routing | assemblies; table of devices | `split`, `ingest`, `add`, ... | order, duplicates, limits; nothing calls them yet |
| Crypto, `lib/websocket` | none (stubs) | | |
| WiFi, logger | a state flag | | pure calls of libraries |
| First bridge firmware (`cardputer/`, `lilygo/`, `shared/`) | its own | its own | not part of the builds of `platformio.ini` |

Interactions. The *protocol task* (priority 4, every 10 ms) runs
`transport.poll`, `probe.poll`, `chat.poll` in this order and for ever. The
*Arduino loop* calls `sendText` for a typed line, on the gateway the *AsyncTCP
task* does so for a text from a phone. `sendText` calls `sendMessage` and then
`onInbound` in the caller's task; `chat.poll` calls `onInbound` in the protocol
task. `onInbound` calls the listener, which writes to every WebSocket. None of
these objects has a lock; only the queue and the radio drivers do.

What makes each component correct, in short: the transport must not give two
verdicts on a text, show a text twice, lose one behind an ACK or confirm one
that was never accepted; its clock must neither forget a packet nor repeat it
early; the store must keep the newest messages through any loss of power; the
chat must not lose or confuse messages because two tasks handle some.

## 2. Plan

| Sitting | Modules | Status |
|---|---|---|
| Core | `Transport`, `ReliableDelivery` (abstract), `TransportProofs` | done |
| Core | `RetryTimer`, `RetryTimerProofs` | done |
| Core | `MessageStore`, `RecentLog` (abstract), `MessageStoreProofs` | done |
| Core | `ChatTasks`, `ChatTasksProofs` | done |
| Core | `GatewayWeb` (connections, histories, pages), `GatewayWebProofs` | done |
| Core | `CardputerApp` (keys, input, settings, screen), `CardputerAppProofs` | done |
| Extension | `AppLifecycle` (both start-ups, `start`, `stop`, `ConfigStore`), `AppLifecycleProofs` | done |
| Extension | `PacketCodec` (wire format and CRC), `RadioDriver` (the mutex and both radios under their tasks), `RadioDriverProofs` (of both) | done, liveness and two flips far apart only model-checked |
| Extension | `Fragmentation`, `AddressTable` | open, nothing calls them |

Order: what the user would miss first comes first, that is a message lost,
doubled or confirmed wrongly, on the air or on flash.

## 3. The modules

### Transport

One device `n` of `Nodes` has, as in the code, a protocol task and `SendTasks[n]`
tasks that send: the loop, on the gateway also the AsyncTCP task (`TaskFree`).

| Definition | Code |
|---|---|
| `SendMessage`, `RegisterPending` | the two halves of `sendMessage`/`send`: the frame is on the air before `addPending` runs. It finds no slot free, or one that another task in `addPending` found free too and fills afterwards: then the text is never retried |
| `SendRefused` | the radio refuses; the number is spent |
| `Retry`, `GiveUp` | one turn of the loop in `processRetries`; `GiveUp` is "ACK timeout" |
| `HandleAck` .. `HandleMessage` | the ways through `handleRx`, in the order of its returns: ACK lookup before the destination, duplicates before PONG, HELLO and MESSAGE, mark before ACK before queue |
| `ProbePoll`, `ChatPoll` | `LinkProbe::poll`, one turn of `ChatService::poll` |
| `Boot`, `PowerLoss` | `start` with its HELLO of literal number 1; everything in RAM is lost |
| `Broadcast`, `LoseFrame` | the channel: every listening device receives, each copy may be lost (this is also how a retransmission or an ACK that the driver refuses to send appears) |

The `epoch` of a packet is no field of the wire format. It records the boot it
was made in, so that history variables can tell two texts with one number
apart. `accepted`, `acked` and `gaveUp` are history and guard nothing. Time is left out:
an entry may expire in any round; what counts are the attempts. The statistics
are left out. A number is drawn in one step, although nothing protects `m_tx_seq++`
from the other tasks that draw one: two texts with the same number are not in the model.

`ReliableDelivery` is what the users of the transport may rely on: a message is
drawn, perhaps accepted, acknowledged only if accepted, given up otherwise, with
one verdict. `Transport!Implements` maps the drawn messages to the numbers below
`m_tx_seq`.

### RetryTimer

The eight entries with their times, `millis()` modulo `Modulus`, and the
protocol task as `StartRound` (reads the clock once), `Retry`/`GiveUp` (first
expired entry, with the clock of the round), `RetriesDone`, `OnAck`,
`EndRound`; the application task as `AddPending` with the clock of the moment.
`Tick` lets time pass between any two of them. `age`, `life`, `elapsed` and
`fresh` are history.

### MessageStore and RecentLog

`append` step by step: `Start` (number), `OpenFails`, `WriteRecord` (the file is
durable at `close`, the index in RAM moves) or `WriteFails` (its result is
ignored), `SaveHead`, `SaveCount` (`putUInt` commits one key at a time) or
`SaveFails`, `Return`. Power may fail between any two. `Begin` is
`ChatService::begin` with `MessageStore::begin` (`StoreBegin`); `BeginBlind` is the same
when `loadRecent` cannot open the file or `loadIndex` the namespace: nobody looks at their
results, so the chat begins empty and numbers from 1. `CreateTorn` is a new file cut off
while it is filled, `Reformat` a replaced file system (`uploadfs`, or
`LittleFS.begin(true)` on one it cannot mount), `Clear` the first part of
`clear()`, which then goes on with `SaveHead` and ends with `ClearBegin` (it is called by
nobody yet). If the file system does not mount or the file cannot be created, the
device does not start (`ChatFails` of `AppLifecycle`). A record is its number and its
text (the number of the message in the run); `unread` and `behind` are history: which
messages a power-up, and the power-up that numbered a message, could not read. That what was written can be read
once the file is open, and that a `put` into an open namespace succeeds, is assumed of the libraries.

The record and the index are two media. That no pair of half states is visible
rests on one fact: while the ring fills, `append` changes only `count` in NVS, and when it is
full only `head`, so one key commits the append; the record it wrote before lies
outside of what the old index shows, as long as the window loaded is smaller
than the ring. `RecentLog` says what this gives: after any loss of power the last
`Window` messages are there, in order, and the one being appended is there as a
whole or not at all.

### ChatTasks

`onInbound` by several tasks, access by access to the shared data: `m_next_id++`
is `LoadId`, `StoreId`; `ConversationModel::append` is `Reserve`, then `Fill`,
`LoadCount`, `StoreCount` or `Replace`, `LoadHead`, `StoreHead`;
`MessageStore::append` is `Push`, `WriteRecord`, `LoadStored`, `Advance`; `Listen`
calls the listener. These are data races; the model takes the accesses of a word
as steps, each write as one of its own, in the orders the compiled code can produce on this
processor. Left out are a message seen half copied, and a write of another task between
the reads of head and count of one ring in `Reserve`, `Push` and `LoadStored`, which are
one step each; both only concern messages whose handling overlaps, of which the
properties promise nothing. `crowded` remembers which messages were handled while another was.

### GatewayWeb

The gateway's conversation, its tasks between `append` and the listener
(`AppendMessage`, `MoveHead` for the second half of an append to a full ring,
`Tell`, `TellNobody` before the listener is set), and the AsyncTCP task:
`Connect` (the library lists the client, then the handler runs), `ReadHistory`
(one `at(i)` at a time, with `count()` and the ring as they are by then),
`SendHistory`, `Disconnect`; `SetMessageListener` is the end of `begin()`. The
frames of a phone are a queue that drops what finds it full. `Deliver` is
`ws.onmessage` of `data/app.js`: a history replaces the page and the set of
what it has seen, a message is appended if it was not seen. A message stands for its
key `id:ts:text`; that two tasks append at the same time, and then possibly use
one number, is left to `ChatTasks`. The frames before the history of the same
client, the messages that arrive while it is built and the order of two tasks in
the listener are all in the model.

`disturbed`, `crowded`, `midway`, `untold` and `dropped` are history: they record
*why* a page may differ from the conversation, so that the properties can say
that it differs for no other reason.

### CardputerApp

One pass of the Arduino loop: `FnKey` or `OtherKey` (`KeyboardTask::poll`, with the
callback it calls), the events one by one (`FnEvent` .. `OtherEvent`),
`EventsDone`, `Look` and `Draw` (`CardputerUi::poll` before and while it draws),
`SerialLine`. `Inbound` is the protocol task, which may append between any two
of them. A text is its length, the conversation the number of its messages: the
hash of its last six messages is taken to tell two states apart, except that an
empty conversation has hash 0, the value `showSettings` uses for "draw again".
`chatArea` and `inputArea` are history: what the pixels show. `wanted` is what the
settings would be if every Fn+S toggled them once. The status bar is left out.

### PacketCodec and RadioDriver

`PacketCodec` is `packet_codec.cpp`, `crc16.cpp` and `wire_endian.h` as operators on
sequences of bytes, with the real CRC, of packets whose fields have the widths of the
struct. Only the largest payload is a constant.

`RadioDriver` is one device's radio, either driver (`board`), with the tasks that
use it. `SendText` and `Probe` are the transport's way into `sendPacket`, which
refuses what is too long (`Fits`) before it asks for the lock; then `LockTx` or
`LockTimeout` after `LockWait` ticks, `WritePacket` or `TxFails`, `EndPacket`. The
protocol task alone receives: `Poll`, `LockRx` or `RxLockTimeout`, `Parse`
(`ParseSx1278`, `ParseE220`), `HandleRx`, which may send an ACK or a PONG from
inside the loop of `poll()` and then goes on polling. `Arrive` is the channel.

The two radios differ in what the properties are about. The SX1278 has one
buffer: `beginPacket` forgets a frame that nobody read, and it hears nothing
until `parsePacket` finds it idle and makes it listen. The E220 buffers what
it hears, and returns everything that waits as one frame, of which `decode` takes
the first packet. That `RecieveFrame` returns at once, that a frame is
either received whole or damaged, and that `SendFrame` sends nothing when it
fails, is assumed of the library. The locks of `receivePacket` are asked for 5 or
10 ms and the caller waits for 2 ms in all, so there is one attempt. Time passes in transmissions
only (at spreading factor 12 a frame takes longer than the second of `lock()`;
`AirTimes` 2 against `LockWait` 1). The model begins after `initialize()`.
A frame is the number of its `sendPacket` call, a received one the number of the
packet it was made of; `DecodesWhatWasEncoded` is what allows this, and what allows
`Transport` to treat a damaged frame as a lost one.

### AppLifecycle

From power-up to the loop, one call of `start()` or of its callers per action, with a loss
of power between any two, and any firmware version at each `PowerUp`. A setting is the
version whose default it is; `SaveKey` writes one key, `SaveConfigured` the last.
`TransportFails` and `ChatFails` lead to `stop()`, one `Release` per object in the order
of the code (the order of independent ones does not matter, nobody runs).
`chip` is what the radio works with: the SX1278 starts from nothing, the E220
keeps what it has if its switches do not let it be configured. That a `put`
into an open namespace succeeds, and that `load` finds the namespace unless nothing was
saved, is assumed of the library. What `start()` does not look at is in the model:
the result of `save`, of `xTaskCreatePinnedToCore`, and the gateway's access point.

## 4. The runs

| Run | What it asks | Instance | States |
|---|---|---|---|
| `transport` | safety, refinement and liveness, frames lost, late, retried | Cardputer sends 1, the gateway's two tasks send or it probes 2, 2 frames on the air per receiver, 1 retry, 1 pending entry | 212,000 |
| `transport_reboot` | up to one restart each | two Cardputers and a gateway; one Cardputer sends a text per boot, the others none; 1 frame on the air per receiver | 275,000 |
| `retry_timer` | the clock | `Modulus` 11, 2 entries, base timeout 3, 1 retry, rounds of 2, pauses of 3 | 533,000 |
| `message_store` | refinement of `RecentLog`, numbers | ring of 3, window of 2, 7 messages, 3 crashes, a file that cannot be opened, by `append` or at power-up | 174,000 |
| `message_store_faults` | the newest message under every fault | 6 messages, 2 crashes, 1 replaced file system, 1 `clear` | 5.5 million |
| `chat_tasks` | races | 2 tasks, 5 messages, display of 2, store of 3 | 0.94 million |
| `gateway_web` | phones and histories | 2 phones (symmetric), protocol and AsyncTCP task, conversation of 2, queue of 2 frames, 3 messages, 3 connections | 678,000 |
| `cardputer_app` | keys, settings, screen; liveness | texts of 2, queue of 2 events, 3 messages | 8,200 |
| `radio_driver` | the mutex, lost frames, the wire format; liveness | both boards, 2 application tasks and the protocol task, 2 sends of a short text or one too long for the E220, a MESSAGE and a PING coming in | 137,000 |
| `app_lifecycle` | start-up, failures, configuration | both roles, 3 settings, 2 versions, 3 power-ups | 5,700 |
| `pong_shadow`, `no_reack` | two disagreements of the code with its documents (section 6) | small | |

Why the bounds are enough. A text in one direction and two in the other, or PINGs for them, give every
pair of packet kinds in flight at once, with numbers that collide between the directions, and two
tasks in `send` together; one pending entry makes the second text go untracked or overwrites
the first, one retry gives a first copy, a retransmission and a verdict. The duplicate table is larger than what a run
can fill because `AtMostOnce` is stated for a table with a free slot. In `RetryTimer` the clock wraps within the
life of one packet, a round takes several ticks, and `Modulus` is the least that the
assumption allows (a longest timeout, a pause and a round).
Seven messages go twice around a ring of three, so that every position of the
head meets a crash; three crashes let one recovery be interrupted by the next.
In `GatewayWeb` the third message overwrites the first of the ring, a queue of two
overflows, and with three connections one phone meets its own earlier page. In
`CardputerApp` a message can come before, while and after each drawing; more
messages only repeat this.
In `ChatTasks` five messages fill both rings and go on; three tasks were tried
with a display of one, a store of two and four messages (1.9 million states).
In `RadioDriver` two frames are enough for one to be lost behind the other, and
an ACK, a PONG and a text to meet at the lock; a transmission outlasts the wait
for the lock, so that every call has its timeout. Payloads of at most three bytes keep the relation of
the limits (a longest frame is one byte too long for the E220), and every pair
of bits of these frames is flipped. In `AppLifecycle` three power-ups
allow a save cut off twice, each time under another firmware.

What the properties say:

- `AckSound`: an ACK that releases a text means the peer accepted that text.
- `SettledOnce`: a text has one verdict and one entry, and none is registered
  after its verdict, in whichever order the ACK and the second half of `send` come.
- `AtMostOnce`: nothing is passed to the chat twice since power-up.
- `AcceptedReachesChat`: a text that was accepted (and acknowledged) is in the
  queue or the conversation; the instance has a queue that does not overflow.
- `PendingSettles`, `AcceptedIsShown`: a device comes to wait for nothing again and again,
  and to have shown all it accepted, unless it loses power first (checked without restarts).
- `Noticed`: no entry is older than its timeout, one pause of the task and one
  round, at the wrap of the clock too. `SettledInTime`: nor does it live longer than the
  sum of its timeouts and pauses, and one round. `EarlyOnlyIfFresh`: what is repeated too early
  was registered during the running round, and this happens once per packet.
- `StoredIsNewest`, `Implements` of `MessageStore`: section 3. `IdsIncrease`: of what a
  restart would load, a later message has a higher number than an earlier one, and the
  next number is higher still, except across a power-up that could not read the earlier
  one. So numbers fall back over such a power-up only, and the next one that
  reads the file goes on above all that it has read.
- `AloneIsShown`, `AloneIsStored`, `AloneIsNumbered`, `CountBounded`: races do
  lose and double messages (that is what the code does), but only those which
  race. A message handled alone stays shown and stored until as many newer ones
  came as the ring holds, and its number stays below all later ones. `CountBounded`:
  the store never counts more than its capacity, and with two tasks the
  conversation at most one more (a count above the
  capacity repairs itself: `append` takes the branch of a full ring). With three, a
  task that read a count early can write it back over one that is already too high,
  and the count can nearly double; `at(i)` is taken modulo the capacity, so a listing
  then repeats messages but leaves none out that is in the ring.

- `PageComplete`: a connected page that has received all its frames shows the whole
  conversation, except what was told before the listener was set, what found its
  queue full; nothing is promised if messages came while its history was built.
  `PageConsistent`: no page shows a message twice. `PageInOrder`: a page shows
  two messages out of order only if two tasks handled them at the same time or
  a history met the ring half way through an append.
- `ScreenCurrent`: when a poll finds the conversation unchanged and draws
  nothing, the display shows this conversation, although messages arrive while it
  is drawn and the settings wipe it. `MessageShown`, `InputShown`: every message
  and every text in the input line comes to the display.

- `SendVerdict`: what `sendPacket` reported sent is what went over the air, in this
  order, and no call did so twice; what it refused never did. `HeardIsDecoded`: a frame that the radio took in whole
  is decoded, in order and once, unless the device transmitted before it was read (SX1278) or it
  waited behind another (E220). `CallsReturn`: every call of the driver returns and
  gives the mutex back. `DecodesWhatWasEncoded`: a frame decodes to its packet, with
  or without bytes behind it, and cut short or with one or two flipped bits not at all.
- `OneConfig`: whatever save was cut off and whatever was flashed since, a
  device that works has the settings of one version. `ConfigKept`: the first save that
  is complete decides for good. `NoDangling`: no task, loop or callback of the web
  server exists without the objects it uses, initialized; a failed start leaves none.

Fairness in `radio_driver`: weak fairness of what a running task does next, and
strong fairness of `LockTx` (a waiting task is woken when the mutex is given back,
and the protocol task, which has the higher priority, sleeps between its rounds) and
of `Tick` (time passes, in between the polls of other tasks). The channel and the users do what they like.

Fairness in `cardputer_app`: weak fairness of the loop (it blocks for a bounded
time only) and strong fairness of a `Look` that toggles the cursor (`millis()`
passes the next half second). Nothing is assumed of `force`: `m_last_render` is set
by every poll, so the forced drawing "after two seconds" only follows a poll
that was delayed that long. So it is the cursor that brings the input line back after
Fn+S wiped it.

Fairness in `transport`: weak fairness of `RegisterPending` (a caller
of `send` runs on), of `ProcessRetries` (the protocol task never blocks, its
radio calls have timeouts, and `millis()` passes every deadline, which
`RetryTimer` checks), of `Receive` and `ChatPoll` (the loops run until nothing
is left). Nothing is assumed of the channel: frames may be lost for ever.

Deadlock checking is off where the bounds end a run (`Transport`,
`MessageStore`, `ChatTasks`, `GatewayWeb`, `RadioDriver` stop when the messages of the run are
used up, `AppLifecycle` with the last power-up). It is on in `RetryTimer` and `CardputerApp`.

Every property has a mutant, a definition of the module changed as a slip in
the code would change it (the definitions marked "Mutant"), for which the run fails.

## 5. The theorems

TLAPS checks them for every value of the constants that the assumptions named
`...Assumption` allow.

| Theorem | Says | Argument |
|---|---|---|
| `TypeCorrect` | `Spec => []TypeOK` | by action |
| `OneVerdict` | `Spec => []SettledOnce`, any number of devices, sending tasks and restarts | `SettledOnce` alone is not inductive: a device could draw a number that already has a verdict. `OutstandingInv` adds that what is pending, in `send` or settled was drawn (in this boot, below the counter; or in an earlier one), and that texts in `send` at once have different numbers |
| `NoRepetition` | `Spec => []AtMostOnce`, same generality | `DedupInv`: as long as the table has a free slot, all that is in the queue or the conversation is in the table; so a key that is not in it is new |
| `AckedIsAccepted` | `PointToPoint`, `MaxBoots = 1` `=> []AckSound` | `AirInv`: every frame on the air to `n` comes from its peer, an ACK on the air names an accepted message |
| `ImplementsDelivery` | the same devices implement `ReliableDelivery` | each action maps to a step or a stutter, under the three invariants |
| `AcceptedIsKept` | `MaxBoots = 1` `=> (Spec /\ []NeverFull => []AcceptedReachesChat)`, any number of devices | `KeptInv`: an accepted text is in the conversation, or in the queue *as a MESSAGE*: a HELLO there may carry the same number, and `poll` would drop it |
| `AcceptedIsNeverLost` | `PointToPoint`, `MaxBoots = 1`, at most `K` numbers each, `2 * K < SeenSlots`, `K < InboundCap` `=> []AcceptedReachesChat` | `MarkInv`: no number has a second PING, and only a PONG can bring a known number into the duplicate table again. So a key is there at most twice, the table never forgets one, the keys in the queue differ and the queue has room |
| `TimerTypes`, `NothingForgotten` | `Spec => []TypeOK`, `Spec => []Noticed`, any entries, retries, times | `RoundInv`: `now` was read `elapsed` ticks ago, by unsigned subtraction. `OldInv` for what was registered before the round: its time is not after `now`, and once the retries are through it is not due; `FreshInv` for what was registered since |
| `VerdictInTime` | `Spec => []SettledInTime` | `LifeInv`: what an entry lived before the time stored in it fits into the budget of the attempts before; `Budget` is unfolded by induction over the attempts |
| `EarlyIsFresh` | `Spec => EarlyOnlyIfFresh` | a fresh entry that was retried has the time `now`, so the round does not find it due again |
| `StoreTypes` | `Spec => []TypeOK` of `MessageStore`, all faults | head and count stay in the ring at every step of `append`; the numbers a restart loads are finitely many, so there is a highest, which the next one follows |
| `NewestSurvives` | `Spec => []StoredIsNewest`, any capacity and window, all faults | `NewestInv` carries the slot and the index through the steps of `append`; at the end the last slot of the window is the one written |
| `StoreIsRecentLog` | `CrashesOnly => (Spec => Implements)` | `LogInv` says how index and NVS differ at each step; lemma `CommitWindow`: the window after a commit is the old one, shortened, with the new record |
| `NumbersIncrease` | `CrashesOnly => (Spec => []IdsIncrease)` | `IdInv`: the number being appended is below `nextId` and above those of the window, but for what this power-up could not read; lemma `NextIdAbove`: the next number is above the highest of any window, in whatever order its numbers are |
| `ChatTypes` | `Spec => []TypeOK` of `ChatTasks`, any number of tasks | `TypeInv`: every slot or head a task holds is one of its ring |
| `StaysShown`, `StaysStored` | `Spec => []AloneIsShown`, `Spec => []AloneIsStored`, any tasks, messages, capacities | the ring argument below |
| `StaysNumbered` | `Spec => []AloneIsNumbered` | `NumInv`: `nextId`, and what any task is about to write to it, is above the number of each message numbered alone |
| `CountsStayBounded` | `Spec => []CountBounded` | `CountInv`: with two tasks, each that is about to count has read a count that leaves it room |
| `WebTypes` | `Spec => []TypeOK` of `GatewayWeb`, any tasks, phones, messages, capacities | by action |
| `NoPageRepeats` | `Spec => []PageConsistent`, same generality | a page's `seen` is the set of what it shows; the ring and the history being built hold nothing twice |
| `PagesInOrder` | `Spec => []PageInOrder`, same generality | the page argument below |
| `PagesComplete` | `Spec => []PageComplete`, same generality | as long as nothing disturbs it, a history being built equals the beginning of the conversation; what a page will show is its messages and those of its frames from the last history on |
| `AppTypes` | `Spec => []TypeOK` of `CardputerApp` | by action |
| `ScreenIsCurrent` | `Spec => []ScreenCurrent`, any number of messages and keys | `ScreenInv`: what the display is compared by never runs ahead of the conversation, so a new message always makes it out of date |
| `RadioTypes` | `Spec => []TypeOK`, any tasks, texts, packets, limits, times | a task that sends has a call, `handleRx` a frame (`TypeInv`) |
| `VerdictIsTrue` | `Spec => []SendVerdict`, same generality | `MutexInv`: who is at the chip holds the mutex, so the frame in the chip is its own; `CallInv`: a call under way was neither sent nor refused |
| `NothingHeardIsLost` | `Spec => []HeardIsDecoded`, same generality | `OrderInv`: the chip holds later frames than `handleRx`, both later ones than the last decoded, none newer than what has arrived; an undamaged frame is still marked so; the SX1278 holds at most one frame and listens only while it holds none |
| `FrameCarriesPacket` | every packet `encode` accepts makes a frame as long as `wireSize` says, which decodes to that packet, whatever bytes follow it | the codec argument below |
| `CutShortIsRefused` | no part of a frame that ends before it does is decoded | the length is in the frame, or the header is not complete |
| `DamagedByteIsRefused` | no frame with one wrong byte, whichever and whatever it became, is decoded, unless the byte makes it claim to be shorter than it is | the codec argument below |
| `DamagedPairIsRefused` | no frame with two wrong bytes next to each other is decoded, if its length is intact and they are not the last byte the CRC covers and the first of the CRC | two steps of the same argument |
| `FramesAreEven` | a frame that is decoded, whoever made it, has an even number of ones up to the end of its CRC | `CrcParity`: the ones of the register and those it took in differ by an even number |
| `OddDamageIsRefused` | no frame with an odd number of flipped bits, wherever they are, is decoded, if its length is intact | `FramesAreEven`, of the frame and of what it became |
| `LifecycleTypes` | `Spec => []TypeOK`, any settings, versions, power-ups | by action |
| `ConfigIsWhole` | `Spec => []OneConfig` | `FlashInv`: if `configured` is set the flash holds one version's settings, and while it is not, the running save has written a beginning of `config` |
| `FirstConfigStays` | `Spec => ConfigKept` | `FlashInv`: no save runs once `configured` is set |
| `NothingDangles` | `Spec => []NoDangling` | `StartInv`: which objects exist at which step |

*The ring argument* (`ChatTasksProofs`). `AloneIsShown` says nothing about the tasks
that are in the middle of `append`, each holding a count or a head it read some
time ago and may write back at any moment. `ConvInv` and `StoreInv` therefore
say it for all of them at once: a message handled alone is in some slot that no task is about
to write, and whichever of the counts and heads in the variables *or in a task*
comes to hold, the slot is within the window and the entries newer than it
are at most as many as later messages came, less the tasks that are still on the
way (each later message makes at most one newer entry, and has made none before its
last step). `SoloInv` carries the message itself through its own steps, where
nobody else is in `onInbound`. Nothing of this depends on the number of tasks.

*The page argument* (`GatewayWebProofs`). `TellInv`: a message that came while a task was
between `append` and the listener is `crowded`, and so is the one of that task. `RingInv`: the ring
increases from its oldest entry on, but for the first slot while an append to
a full ring is half way (`midway`). So the stream a phone receives, its page followed
by its frames, is in order but for these excuses (`StreamInv`); taking the first frame into
the page keeps that. What a page finally shows is a fold over the frames, which the
community modules define by recursion over sets of positions; `FoldTable` shows that this
recursion has a solution, `ShowSteps` and `FrameSteps` how it goes on by one message and one frame.

*The codec argument* (`RadioDriverProofs`, second half). Where each field stands in a frame is
established piece by piece (`Carries`), and holds in whatever the frame is the beginning of. The CRC
is a register that takes in bits. With the same bit, two registers stay different
(`StepForward`); if two agree in their lowest bits after a step they agreed in all but one of
these before it, even with different bits (`StepBack`). So if one register becomes the same with
two bytes, going back eight steps every pair of bits was the same, and over a message one
different byte leaves the registers different to the end (`OneByteShows`). Going back sixteen
steps, until all bits of the register are known to agree, the same holds of two bytes
(`NeighboursShow`), but not of the last byte of the payload with the first of the
CRC: the CRC is stored low byte first, so these sixteen bits are not in the order in which the
register takes them in. The polynomial has an even number of terms, so a step changes the parity of
the ones in the register by the bit it takes in (`StepParity`), and the CRC completes what it
covers to an even number. XOR with 0x1021 is
arithmetic here: what it adds to or takes from a register (`Xored`). A byte of the length that makes
the frame claim to be shorter moves the CRC to other bytes: there
the claim is false in general, and true of the frames `radio_driver` tries.

Assumptions that are more than the ranges of the constants:

- `CrashesOnly` (power and opening the file may fail, for an append and at a power-up;
  what is written or saved is, and the index can be read) is needed for the refinement: with
  ignored write errors, or an index taken for empty, the code breaks it.
- `PointToPoint` and `MaxBoots = 1` are needed for `AckSound`: section 6 shows a
  third device violating it. For `AcceptedReachesChat`, a restart loses what is in RAM.
- `AcceptedIsNeverLost` bounds what a device sends in a boot (`K`; 15 for the 64 and 16
  entries of the code). Beyond it the table forgets, a late copy is queued a second time, and
  a full queue drops what was acknowledged. `AcceptedIsKept` has no such
  bound, and takes the queue's having room as its hypothesis.
- `TimerAssumption`: a longest timeout, a pause and a round fit into the
  period of `millis()`: half a minute into 49 days.

What the proofs changed in the models. The first bounds of `Noticed` and
`SettledInTime` left out the time of the round that reaches an entry and held only
for rounds of one tick; `CountBounded` claimed less than one extra entry per task for both rings,
which fails with three tasks (the gateway has three) and is too weak for the store;
`CardputerApp` needs a conversation of at least one message.

Only model-checked: the liveness properties (`PendingSettles`, `AcceptedIsShown`,
`MessageShown`, `InputShown`, `CallsReturn`: fairness and ENABLED are out of this
prover's reach) and, of `DecodesWhatWasEncoded`, two flipped bits further apart than
neighbouring bytes (the order of the polynomial) and flips in the length (a matter of the payload:
false in general); the rest of it is `FrameCarriesPacket`, `CutShortIsRefused`,
`DamagedByteIsRefused` and `DamagedPairIsRefused`. Every other property of the passing runs has a theorem. Where a proof needs
an induction over numbers (`Budget`, the fold of the frames, the CRC of a message) it takes the least
number for which the claim fails, since the induction theorems of the library
have an operator as a parameter, which no installed prover instantiates.

## 6. Where the code and its documents disagree

Shown by a run:

- `pong_shadow`: the gateway's PONG makes the Cardputer remember the number of
  its own PING as one of the gateway's; the gateway's own text with that number
  is dropped as a duplicate although it was never received (either direction).
- `no_reack`: a retransmission is dropped as a duplicate before it could be
  acknowledged; if the first ACK was lost, the sender reports "ACK timeout" for a
  text that was delivered. `docs/PHASE6_PROTOCOL.md:32` promises an ACK.

In the models as well, without a run of their own; the instance in brackets
shows each of them:

- `onAck` runs before `isForUs`; with a third device on the channel an overheard
  ACK confirms another text with the same number (`AckSound` with `TrioPeer` and
  `TrioOneD` of `MCTransport`).
- A packet registered while the protocol task is in its round is retransmitted at
  once: the round's `millis()` is older than the packet's, and the unsigned
  difference is huge (`NeverEarly` of `RetryTimer`, `RetryTimer.cfg`).
- After `uploadfs` the index in NVS survives the file, and blank records, which
  carry a valid magic, show up as messages (`LoadedWasSent` of `MessageStore`,
  `MaxReformats = 1`).
- A power-up that cannot open the file of messages, or read their index, is not noticed
  (`chat_service.cpp:20`, `message_store.cpp:93`): nothing is shown, and new messages are numbered from 1,
  below those on flash, until the next restart (`IdsIncrease` without `unread` and `behind`,
  `MessageStore.cfg`). With the index taken for empty, the next append saves it over the one on flash,
  and the older messages are gone (`Implements` with `Faults = {"index"}`).
- A message that arrives while a phone's history is built reaches the phone first;
  the history, which may lack it, then replaces the page (`PageComplete` without
  `disturbed`, `GatewayWeb.cfg`).
- With an empty conversation, Fn+S leaves the middle of the display blank: hash 0
  of the empty conversation is also the mark for "draw".
- Fn+S is handled by the callback inside `KeyboardTask::poll`
  and again as the event of the same key; the settings open and close in
  one pass of the loop and are never drawn, in spite of
  `docs/PHASE8_CARDPUTER_UI.md:22` (`FnTogglesSettings` as a property of `CardputerApp.cfg`).
- The E220 driver sends 200 bytes at most, a text of 180 bytes makes a frame of
  201: such a text is never sent by the Cardputer (`Fits`), whose input line takes it.
- The text typed is cleared when it could not be sent (`EnterEvent`).
- If the protocol task cannot be created, `start()` succeeds all the same and the device
  sends but never receives (`CreateTask`).
- An E220 that cannot be configured works on with other settings than `g_config`
  says, and the settings page shows those of `g_config` (`OneConfig` without the role).
- The HELLO of a start has the literal number 1 (`app_core.cpp:108`): the second
  number a device draws is a duplicate for a peer that heard it
  (`DuplicatesOnly`, Cardputer sends two, no probes).
- After a restart numbers begin at 0 again while the peer remembers the old ones:
  up to 64 new texts are dropped (`DuplicatesOnly`, `MaxBoots = 2`).
- A HELLO is never answered (`handleAutoReply` is called for PINGs only), in
  spite of `docs/PHASE6_PROTOCOL.md:36` (`HandleHello` sends nothing).
- A text that finds the inbound queue full is lost after its ACK was sent
  (`AcceptedReachesChat`, `InboundCap = 1`).
- An ACK that overtakes the second half of `send` is not found; the text is
  retried and reported as timed out although it was acknowledged.
- The CRC of a frame is stored low byte first, against the order in which it is computed: a
  burst of errors within sixteen bits may go unnoticed where payload and CRC meet, as
  0x89 in the last byte and 0xA1 in the next (hypothesis of `DamagedPairIsRefused`).
- Two tasks of the gateway in `addPending` at once may take the same entry; the text
  written first is then neither retried nor given a verdict (`RegisterPending`).

Documents only: `docs/PHASE1_ARCHITECTURE.md` describes a storage task and a
keyboard task of their own; there is one protocol task and the loop.

## 7. Not modelled

- *Statistics, RSSI, logging, layout of the display and of JSON*: output only.
  `link_up` is set by every packet and never reset; a status page may show a link
  that is gone.
- *Fragmentation, routing*: complete, but called by nobody; next in the plan.
- *`sleep`, `wake`, `isChannelFree`, the self-test, `ConfigStore::reset`,
  `WifiManager::stop`, `GatewayWeb::stop`*: called by nobody. Nor are `MessageStore::clear`,
  which is modelled all the same (`Clear`, `ClearBegin`), and `loadAll`, which
  `LoadRecent` includes. `stop()` is called by
  `start()` only, and modelled there.
- *Registers of the radios, serial protocol of the E220*: hardware and libraries.
- *Crypto, `lib/websocket`*: stubs without state.
- *First bridge firmware*: not part of the build.
- A half-filled entry of the `AckManager` or a half-copied message seen by another
  task; two tasks that draw one number at once (`SequenceManager::nextSequence`).

## 8. Running

```
tlc -workers 2 -config Transport.cfg MCTransport.tla     # one run; PROJECT.json lists all
tlapm TransportProofs.tla                                 # one of the eight modules of proofs
```
