----------------------------- MODULE RetryTimer -----------------------------
(***************************************************************************)
(* The clock of the retransmissions: AckManager and RetryPolicy under      *)
(* millis(), a 32-bit counter that wraps (src/lib/transport).              *)
(*                                                                         *)
(* protocolTask reads millis() ONCE per round and passes it to poll; the   *)
(* retries of that round compare and store this value however long the     *)
(* transmissions take, while the application task registers packets with   *)
(* millis() at that moment.  Transport abstracts from time; here nothing   *)
(* but time is left: packets have no content, an ACK just arrives.         *)
(***************************************************************************)
EXTENDS Integers, FiniteSets

CONSTANTS
  Modulus,      \* values of millis() (2^32 in the code)
  Slots,        \* size of m_pending (8 in the code)
  BaseTimeout,  \* RetryPolicy::base_timeout_ms
  MaxRetries,   \* RetryPolicy::max_retries
  PollTime,     \* bound: ticks between reading millis() and the end of a round
  PollGap       \* bound: ticks between two rounds reading millis()

ASSUME TimerAssumption ==
  /\ Slots \in Nat \ {0}
  /\ BaseTimeout \in Nat \ {0}
  /\ MaxRetries \in Nat
  /\ PollTime \in Nat /\ PollGap \in Nat \ {0} /\ PollTime <= PollGap
  /\ Modulus \in Nat
  /\ \A a \in 0..MaxRetries :
       BaseTimeout * 2 ^ (IF a > 3 THEN 3 ELSE a) + PollGap + PollTime <= Modulus

VARIABLES
  clock,    \* millis()
  now,      \* the value the running round works with
  phase,    \* "idle", "retry" (processRetries) or "rx" (receive loop)
  entry,    \* m_pending
  elapsed,  \* history: ticks since the running or last round read millis()
  age,      \* history: ticks since the packet of a slot was last transmitted
  life,     \* history: ticks since it was registered
  fresh     \* history: slots registered since the last reading of millis()

timing == <<elapsed, age, life, fresh>>
vars   == <<clock, now, phase, entry, elapsed, age, life, fresh>>

Slot == 1..Slots

Entry == [active : BOOLEAN, attempts : 0..MaxRetries, sentAt : 0..(Modulus - 1)]

(* The other fields of a released entry are dead: addPending sets them all. *)
FreeEntry == [active |-> FALSE, attempts |-> 0, sentAt |-> 0]

Active == {s \in Slot : entry[s].active}

Least(S) == CHOOSE s \in S : \A t \in S : s <= t

TimeoutForAttempt(attempt) == BaseTimeout * 2 ^ (IF attempt > 3 THEN 3 ELSE attempt)

(* Mutant: one attempt too many. *)
ShouldRetryOnceMore(attempt) == attempt <= MaxRetries

ShouldRetry(attempt) == attempt < MaxRetries

-----------------------------------------------------------------------------
(* Time passes; the protocol task gets its turn before PollGap is over and *)
(* is through with a round after PollTime.                                 *)
Tick ==
  /\ elapsed < (IF phase = "idle" THEN PollGap ELSE PollTime)
  /\ clock' = (clock + 1) % Modulus
  /\ elapsed' = elapsed + 1
  /\ age'  = [s \in Slot |-> IF entry[s].active THEN age[s] + 1 ELSE 0]
  /\ life' = [s \in Slot |-> IF entry[s].active THEN life[s] + 1 ELSE 0]
  /\ UNCHANGED <<now, phase, entry, fresh>>

(* The application task: addPending takes the first free slot; when there  *)
(* is none the packet is not tracked.                                      *)
AddPending ==
  LET s == Least(Slot \ Active) IN
  /\ Active # Slot
  /\ entry' = [entry EXCEPT ![s] = [active |-> TRUE, attempts |-> 0, sentAt |-> clock]]
  /\ age'   = [age EXCEPT ![s] = 0]
  /\ life'  = [life EXCEPT ![s] = 0]
  /\ fresh' = fresh \cup {s}
  /\ UNCHANGED <<clock, now, phase, elapsed>>

-----------------------------------------------------------------------------
(* The protocol task reads the clock and goes through processRetries.      *)
StartRound ==
  /\ phase = "idle"
  /\ phase' = "retry"
  /\ now' = clock
  /\ elapsed' = 0
  /\ fresh' = {}
  /\ UNCHANGED <<clock, entry, age, life>>

(* Mutant: the comparison does not survive the wrap of the clock. *)
ExpiredByDeadline(s) ==
  entry[s].active /\ now >= entry[s].sentAt + TimeoutForAttempt(entry[s].attempts)

(* now_ms - p.sent_at_ms in unsigned arithmetic.                           *)
Expired(s) ==
  /\ entry[s].active
  /\ (now - entry[s].sentAt) % Modulus >= TimeoutForAttempt(entry[s].attempts)

ExpiredSlots == {s \in Slot : Expired(s)}

(* p.active = false; the history of the slot ends with it.                 *)
Release(s) ==
  /\ entry' = [entry EXCEPT ![s] = FreeEntry]
  /\ age'   = [age EXCEPT ![s] = 0]
  /\ life'  = [life EXCEPT ![s] = 0]
  /\ fresh' = fresh \ {s}

(* The entry nextExpired returns in this round.                            *)
Fires(s) == phase = "retry" /\ ExpiredSlots # {} /\ s = Least(ExpiredSlots)

(* Mutants: the attempt is not counted; the time is not renewed. *)
RetryUncounted(s) ==
  /\ Fires(s)
  /\ ShouldRetry(entry[s].attempts)
  /\ entry' = [entry EXCEPT ![s].sentAt = now]
  /\ age' = [age EXCEPT ![s] = 0]
  /\ UNCHANGED <<clock, now, phase, elapsed, life, fresh>>

RetryKeepingTime(s) ==
  /\ Fires(s)
  /\ ShouldRetry(entry[s].attempts)
  /\ entry' = [entry EXCEPT ![s].attempts = @ + 1]
  /\ age' = [age EXCEPT ![s] = 0]
  /\ UNCHANGED <<clock, now, phase, elapsed, life, fresh>>

Retry(s) ==
  /\ Fires(s)
  /\ ShouldRetry(entry[s].attempts)
  /\ entry' = [entry EXCEPT ![s].attempts = @ + 1, ![s].sentAt = now]
  /\ age' = [age EXCEPT ![s] = 0]
  /\ UNCHANGED <<clock, now, phase, elapsed, life, fresh>>

GiveUp(s) ==
  /\ Fires(s)
  /\ ~ShouldRetry(entry[s].attempts)
  /\ Release(s)
  /\ UNCHANGED <<clock, now, phase, elapsed>>

RetriesDone ==
  /\ phase = "retry"
  /\ ExpiredSlots = {}
  /\ phase' = "rx"
  /\ UNCHANGED <<clock, now, entry, timing>>

(* The receive loop: onAck releases an entry.  Then the rest of the round. *)
OnAck(s) ==
  /\ phase = "rx"
  /\ entry[s].active
  /\ Release(s)
  /\ UNCHANGED <<clock, now, phase, elapsed>>

EndRound ==
  /\ phase = "rx"
  /\ phase' = "idle"
  /\ UNCHANGED <<clock, now, entry, timing>>

-----------------------------------------------------------------------------
Init ==
  /\ clock = 0
  /\ now = 0
  /\ phase = "idle"
  /\ entry = [s \in Slot |-> FreeEntry]
  /\ elapsed = 0
  /\ age = [s \in Slot |-> 0]
  /\ life = [s \in Slot |-> 0]
  /\ fresh = {}

Next ==
  \/ Tick
  \/ AddPending
  \/ StartRound
  \/ \E s \in Slot : Retry(s) \/ GiveUp(s) \/ OnAck(s)
  \/ RetriesDone
  \/ EndRound

Spec == Init /\ [][Next]_vars

-----------------------------------------------------------------------------
(* The type of every variable. *)
TypeOK ==
  /\ clock \in 0..(Modulus - 1)
  /\ now \in 0..(Modulus - 1)
  /\ phase \in {"idle", "retry", "rx"}
  /\ entry \in [Slot -> Entry]
  /\ elapsed \in 0..PollGap
  /\ age \in [Slot -> Nat]
  /\ life \in [Slot -> Nat]
  /\ fresh \subseteq Slot

(* No entry is forgotten, the wrap of millis() included: the time since    *)
(* its last transmission stays below the timeout of the attempt, the pause *)
(* until a round notices and the time this round takes to reach it.        *)
Noticed == \A s \in Active :
  age[s] < TimeoutForAttempt(entry[s].attempts) + PollGap + PollTime

(* A text is acknowledged or reported as timed out within a fixed time:    *)
(* the sum of its timeouts, one pause of the protocol task for each, and   *)
(* the round that gives it up.                                             *)
Budget[attempt \in 0..MaxRetries] ==
  TimeoutForAttempt(attempt) + PollGap + (IF attempt = 0 THEN 0 ELSE Budget[attempt - 1])

SettledInTime == \A s \in Active : life[s] < Budget[MaxRetries] + PollTime

(* A retransmission or a verdict comes too early (by more than the round   *)
(* itself takes) only for a packet that was registered while the round was *)
(* already running, and for such a packet at most once.                    *)
TooEarly(s) == age[s] + PollTime < TimeoutForAttempt(entry[s].attempts)

EarlyOnlyIfFresh == [][\A s \in Slot :
  (Retry(s) \/ GiveUp(s)) /\ TooEarly(s) => s \in fresh /\ entry[s].attempts = 0]_vars

(* No retransmission before its timeout has passed: what the timeouts of   *)
(* docs/PHASE1_ARCHITECTURE.md promise and the code does not keep (README, *)
(* section 6); EarlyOnlyIfFresh is what it does keep.                      *)
NeverEarly == [][\A s \in Slot : Retry(s) => ~TooEarly(s)]_vars

=============================================================================
