-------------------------- MODULE RetryTimerProofs ---------------------------
(***************************************************************************)
(* The properties of RetryTimer for any number of entries and retries, any *)
(* timeouts, pauses and rounds that fit into the period of millis().       *)
(***************************************************************************)
EXTENDS RetryTimer, WellFoundedInduction, TLAPS

(* Unsigned subtraction: the ticks from b to a while they are fewer than a *)
(* period of the clock.                                                    *)
Since(a, b) == IF a >= b THEN a - b ELSE a - b + Modulus

(* How long ago the time stored for s was, by the clock. *)
Lag(s) == Since(clock, entry[s].sentAt)

(* The longest that a round which is due can be late. *)
Limit(s) == TimeoutForAttempt(entry[s].attempts) + PollGap

(* The clock and the round: now was read elapsed ticks ago. *)
RoundInv ==
  /\ elapsed = Since(clock, now)
  /\ phase # "idle" => elapsed <= PollTime

(* An entry whose packet was registered before the round began: its time   *)
(* is not after now; once the round is through with the retries nothing is *)
(* due, and what became due since is not older than the pause.             *)
OldInv(s) ==
  /\ elapsed <= Lag(s)
  /\ Lag(s) - elapsed < Limit(s)
  /\ phase # "retry" => Lag(s) - elapsed < TimeoutForAttempt(entry[s].attempts)

(* One registered since: it has waited as long as its time says, or it was *)
(* retried too early and has the time of the round.                        *)
FreshInv(s) ==
  /\ Lag(s) <= elapsed
  /\ entry[s].attempts = 0 => Lag(s) = age[s]
  /\ entry[s].attempts > 0 => Lag(s) = elapsed

(* What an entry has lived before the time stored in it fits into the      *)
(* budget of the attempts before.                                          *)
LifeInv(s) ==
  life[s] <= Lag(s) + (IF entry[s].attempts = 0 THEN 0 ELSE Budget[entry[s].attempts - 1])

(* The packet went out at the time stored or within the round that stored  *)
(* it.                                                                     *)
SlotInv(s) ==
  /\ age[s] <= Lag(s)
  /\ Lag(s) <= age[s] + PollTime
  /\ IF s \in fresh THEN FreshInv(s) ELSE OldInv(s)
  /\ LifeInv(s)

TimerInv ==
  /\ TypeOK
  /\ RoundInv
  /\ fresh \subseteq Active
  /\ \A s \in Active : SlotInv(s)

-----------------------------------------------------------------------------
LEMMA TimeoutIsNat == \A a \in Nat : TimeoutForAttempt(a) \in Nat /\ TimeoutForAttempt(a) > 0
<1>1. 2^0 = 1 /\ 2^1 = 2 /\ 2^2 = 4 /\ 2^3 = 8
  OBVIOUS
<1> SUFFICES ASSUME NEW a \in Nat
             PROVE  TimeoutForAttempt(a) \in Nat /\ TimeoutForAttempt(a) > 0
  OBVIOUS
<1>2. BaseTimeout \in Nat /\ BaseTimeout > 0
  BY TimerAssumption
<1>3. TimeoutForAttempt(a) \in {BaseTimeout * 1, BaseTimeout * 2, BaseTimeout * 4, BaseTimeout * 8}
  <2>1. a = 0 \/ a = 1 \/ a = 2 \/ a = 3 \/ a > 3
    OBVIOUS
  <2> QED
    BY <1>1, <2>1 DEF TimeoutForAttempt
<1> QED
  BY <1>2, <1>3

(* The timeouts, pauses and rounds fit into the period of the clock. *)
LEMMA Sizes ==
  /\ Modulus \in Nat /\ PollGap \in Nat /\ PollTime \in Nat /\ PollTime <= PollGap /\ PollGap > 0
  /\ MaxRetries \in Nat
  /\ \A a \in 0..MaxRetries : TimeoutForAttempt(a) + PollGap + PollTime <= Modulus
  /\ PollGap < Modulus /\ Modulus > 1
<1>1. /\ Modulus \in Nat /\ PollGap \in Nat /\ PollTime \in Nat /\ PollTime <= PollGap
      /\ PollGap > 0 /\ MaxRetries \in Nat
      /\ \A a \in 0..MaxRetries : TimeoutForAttempt(a) + PollGap + PollTime <= Modulus
  BY TimerAssumption DEF TimeoutForAttempt
<1>2. TimeoutForAttempt(0) + PollGap + PollTime <= Modulus /\ TimeoutForAttempt(0) > 0
      /\ TimeoutForAttempt(0) \in Nat
  BY <1>1, TimeoutIsNat
<1> QED
  BY <1>1, <1>2

(* The clock's arithmetic. *)
LEMMA UnsignedDifference ==
  \A a, b \in 0..(Modulus - 1) : (a - b) % Modulus = Since(a, b) /\ Since(a, b) \in 0..(Modulus - 1)
BY Sizes DEF Since

LEMMA NextTick ==
  ASSUME NEW a \in 0..(Modulus - 1)
  PROVE  /\ (a + 1) % Modulus \in 0..(Modulus - 1)
         /\ \A b \in 0..(Modulus - 1) :
              Since(a, b) + 1 < Modulus => Since((a + 1) % Modulus, b) = Since(a, b) + 1
<1>1. (a + 1) % Modulus = IF a + 1 = Modulus THEN 0 ELSE a + 1
  BY Sizes
<1> QED
  BY <1>1, Sizes DEF Since

(* The least number of a set of numbers. *)
LEMMA LeastNumber ==
  ASSUME NEW S \in SUBSET Nat, S # {}
  PROVE  Least(S) \in S /\ \A t \in S : Least(S) <= t
<1>1. PICK n \in S : \A m \in S : ~ (<<m, n>> \in OpToRel(<, Nat))
  BY NatLessThanWellFounded, WFMin
<1>2. \A m \in S : ~ (m < n)
  BY <1>1 DEF OpToRel
<1>3. \A m \in S : n <= m
  BY <1>2
<1> QED
  BY <1>3 DEF Least

(* Budget is what its definition says: the sum in closed form satisfies    *)
(* the recursion.                                                          *)
LEMMA BudgetDef ==
  \A a \in 0..MaxRetries :
    Budget[a] = TimeoutForAttempt(a) + PollGap + (IF a = 0 THEN 0 ELSE Budget[a - 1])
<1> DEFINE Def(g) == g = [a \in 0..MaxRetries |->
                            TimeoutForAttempt(a) + PollGap + (IF a = 0 THEN 0 ELSE g[a - 1])]
           Sum(a) == BaseTimeout * (IF a = 0 THEN 1 ELSE IF a = 1 THEN 3 ELSE IF a = 2 THEN 7
                                    ELSE 8 * a - 9) + (a + 1) * PollGap
           g0 == [a \in 0..MaxRetries |-> Sum(a)]
<1>0. /\ BaseTimeout \in Nat /\ PollGap \in Nat
      /\ 2^0 = 1 /\ 2^1 = 2 /\ 2^2 = 4 /\ 2^3 = 8
  BY TimerAssumption
<1>1. Sum(0) = TimeoutForAttempt(0) + PollGap
  BY <1>0 DEF TimeoutForAttempt
<1>2. ASSUME NEW a \in Nat \ {0}
      PROVE  Sum(a) = TimeoutForAttempt(a) + PollGap + Sum(a - 1)
  <2>1. (a + 1) * PollGap = PollGap + ((a - 1) + 1) * PollGap
    BY <1>0
  <2>2. CASE a \in {1, 2, 3}
    <3>1. CASE a = 1
      BY <1>0, <3>1 DEF TimeoutForAttempt
    <3>2. CASE a = 2
      BY <1>0, <3>2 DEF TimeoutForAttempt
    <3>3. CASE a = 3
      BY <1>0, <3>3 DEF TimeoutForAttempt
    <3> QED
      BY <2>2, <3>1, <3>2, <3>3
  <2>3. CASE a > 3
    <3>1. TimeoutForAttempt(a) = BaseTimeout * 8
      BY <1>0, <2>3 DEF TimeoutForAttempt
    <3>2. BaseTimeout * (8 * a - 9) = BaseTimeout * 8 + BaseTimeout * (8 * (a - 1) - 9)
      BY <1>0
    <3> QED
      BY <1>0, <2>1, <2>3, <3>1, <3>2
  <2> QED
    BY <2>2, <2>3
<1>3. ASSUME NEW a \in 0..MaxRetries
      PROVE  g0[a] = TimeoutForAttempt(a) + PollGap + (IF a = 0 THEN 0 ELSE g0[a - 1])
  <2>1. g0[a] = Sum(a)
    OBVIOUS
  <2>2. CASE a = 0
    <3> HIDE DEF Sum, g0
    <3> QED
      BY <1>0, <1>1, <2>1, <2>2, TimeoutIsNat
  <2>3. CASE a # 0
    <3>1. a \in Nat \ {0} /\ a - 1 \in 0..MaxRetries
      BY <2>3, Sizes
    <3>2. g0[a - 1] = Sum(a - 1)
      BY <3>1
    <3>3. Sum(a) = TimeoutForAttempt(a) + PollGap + Sum(a - 1)
      BY <1>2, <3>1
    <3> HIDE DEF Sum, g0
    <3> QED
      BY <2>1, <2>3, <3>2, <3>3
  <2> QED
    BY <2>2, <2>3
<1>4. Def(g0)
  <2>1. g0 = [a \in 0..MaxRetries |-> g0[a]]
    OBVIOUS
  <2> HIDE DEF g0
  <2> QED
    BY <1>3, <2>1
<1>5. Budget = CHOOSE g : Def(g)
  BY DEF Budget
<1>6. Def(Budget)
  <2> HIDE DEF Def, g0
  <2> QED
    BY <1>4, <1>5
<1> QED
  BY <1>6

(* More attempts have a larger budget: the greatest one that does not      *)
(* would have a predecessor that does not.                                 *)
LEMMA BudgetGrows ==
  \A a \in 0..MaxRetries : Budget[a] \in Nat /\ Budget[a] <= Budget[MaxRetries]
<1> DEFINE bad == {a \in 0..MaxRetries : Budget[a] \notin Nat}
<1>0. MaxRetries \in Nat /\ PollGap \in Nat
  BY Sizes
<1>1. bad = {}
  <2> SUFFICES ASSUME bad # {}
               PROVE  FALSE
    OBVIOUS
  <2>1. bad \in SUBSET Nat
    BY <1>0
  <2>2. PICK a \in bad : \A b \in bad : a <= b
    BY <2>1, LeastNumber
  <2>3. TimeoutForAttempt(a) \in Nat
    BY TimeoutIsNat
  <2>4. CASE a = 0
    BY <1>0, <2>2, <2>3, <2>4, BudgetDef
  <2>5. CASE a # 0
    <3>1. a - 1 \in 0..MaxRetries /\ a - 1 \notin bad
      BY <1>0, <2>2, <2>5
    <3> QED
      BY <1>0, <2>2, <2>3, <2>5, <3>1, BudgetDef
  <2> QED
    BY <2>4, <2>5
<1>2. \A a \in 1..MaxRetries : Budget[a - 1] <= Budget[a]
  BY <1>0, <1>1, BudgetDef, TimeoutIsNat
<1> DEFINE low == {d \in 0..MaxRetries : ~ (Budget[MaxRetries - d] <= Budget[MaxRetries])}
<1>3. low = {}
  <2> SUFFICES ASSUME low # {}
               PROVE  FALSE
    OBVIOUS
  <2>1. low \in SUBSET Nat
    BY <1>0
  <2>2. PICK d \in low : \A e \in low : d <= e
    BY <2>1, LeastNumber
  <2>3. d # 0 /\ d - 1 \in 0..MaxRetries /\ MaxRetries - (d - 1) \in 1..MaxRetries
    BY <1>0, <1>1, <2>2
  <2>4. Budget[MaxRetries - (d - 1)] <= Budget[MaxRetries]
    BY <2>2, <2>3
  <2>5. Budget[(MaxRetries - (d - 1)) - 1] <= Budget[MaxRetries - (d - 1)]
    BY <1>2, <2>3
  <2>6. (MaxRetries - (d - 1)) - 1 = MaxRetries - d
    BY <1>0, <2>3
  <2> QED
    BY <1>0, <1>1, <2>2, <2>3, <2>4, <2>5, <2>6
<1>4. ASSUME NEW a \in 0..MaxRetries
      PROVE  Budget[a] <= Budget[MaxRetries]
  <2>1. MaxRetries - a \in 0..MaxRetries /\ MaxRetries - (MaxRetries - a) = a
    BY <1>0
  <2> QED
    BY <1>3, <2>1
<1> QED
  BY <1>1, <1>4

-----------------------------------------------------------------------------
(* What the steps work with. *)
LEMMA Values ==
  ASSUME TimerInv
  PROVE  /\ clock \in 0..(Modulus - 1) /\ now \in 0..(Modulus - 1)
         /\ elapsed \in Nat /\ elapsed <= PollGap /\ fresh \subseteq Active
         /\ \A s \in Slot :
              /\ entry[s].active \in BOOLEAN /\ entry[s].attempts \in 0..MaxRetries
              /\ entry[s].sentAt \in 0..(Modulus - 1)
              /\ age[s] \in Nat /\ life[s] \in Nat
              /\ Lag(s) \in 0..(Modulus - 1)
              /\ TimeoutForAttempt(entry[s].attempts) \in Nat
              /\ TimeoutForAttempt(entry[s].attempts) > 0
<1>1. /\ clock \in 0..(Modulus - 1) /\ now \in 0..(Modulus - 1)
      /\ elapsed \in Nat /\ elapsed <= PollGap /\ fresh \subseteq Active
  BY Sizes DEF TimerInv, TypeOK
<1>2. ASSUME NEW s \in Slot
      PROVE  /\ entry[s].active \in BOOLEAN /\ entry[s].attempts \in 0..MaxRetries
             /\ entry[s].sentAt \in 0..(Modulus - 1)
             /\ age[s] \in Nat /\ life[s] \in Nat
  BY DEF TimerInv, TypeOK, Entry
<1>3. ASSUME NEW s \in Slot
      PROVE  Lag(s) \in 0..(Modulus - 1)
  BY <1>1, <1>2, UnsignedDifference DEF Lag
<1>4. ASSUME NEW s \in Slot
      PROVE  /\ TimeoutForAttempt(entry[s].attempts) \in Nat
             /\ TimeoutForAttempt(entry[s].attempts) > 0
  BY <1>2, Sizes, TimeoutIsNat
<1> QED
  BY <1>1, <1>2, <1>3, <1>4

(* No entry is older than its timeout, a pause and a round, so its time    *)
(* never lies a whole period of the clock back.                            *)
LEMMA LagBound ==
  ASSUME TimerInv, NEW s \in Active
  PROVE  /\ Lag(s) < Limit(s) + PollTime
         /\ phase # "retry" => Lag(s) - elapsed < TimeoutForAttempt(entry[s].attempts)
         /\ age[s] <= Lag(s) /\ LifeInv(s)
<1>0. s \in Slot
  BY DEF Active
<1>1. /\ age[s] <= Lag(s) /\ LifeInv(s)
      /\ IF s \in fresh THEN FreshInv(s) ELSE OldInv(s)
  BY DEF TimerInv, SlotInv
<1>2. /\ elapsed \in Nat /\ elapsed <= PollGap /\ Lag(s) \in Nat
      /\ TimeoutForAttempt(entry[s].attempts) \in Nat /\ TimeoutForAttempt(entry[s].attempts) > 0
      /\ PollGap \in Nat /\ PollTime \in Nat
  BY <1>0, Values, Sizes
<1>3. CASE s \in fresh
  <2>1. Lag(s) <= elapsed
    BY <1>1, <1>3 DEF FreshInv
  <2> QED
    BY <1>1, <1>2, <2>1 DEF Limit
<1>4. CASE s \notin fresh
  <2>1. /\ Lag(s) - elapsed < Limit(s)
        /\ phase # "retry" => Lag(s) - elapsed < TimeoutForAttempt(entry[s].attempts)
    BY <1>1, <1>4 DEF OldInv
  <2>2. phase = "retry" => elapsed <= PollTime
    BY DEF TimerInv, RoundInv
  <2>3. phase \in {"idle", "retry", "rx"}
    BY DEF TimerInv, TypeOK
  <2> QED
    BY <1>1, <1>2, <2>1, <2>2, <2>3 DEF Limit
<1> QED
  BY <1>3, <1>4

(* A step that leaves a slot, the clock and the phase alone. *)
LEMMA QuietSlot ==
  ASSUME TimerInv, NEW s \in Active,
         UNCHANGED <<clock, elapsed, phase>>, entry'[s] = entry[s],
         age'[s] = age[s], life'[s] = life[s], (s \in fresh)' <=> (s \in fresh)
  PROVE  SlotInv(s)'
<1>1. SlotInv(s)
  BY DEF TimerInv
<1>2. Lag(s)' = Lag(s) /\ Limit(s)' = Limit(s)
  BY DEF Lag, Limit, Since
<1> QED
  BY <1>1, <1>2 DEF SlotInv, FreshInv, OldInv, LifeInv

LEMMA TickStep ==
  ASSUME TimerInv, Tick
  PROVE  TimerInv'
<1>0. /\ clock' = (clock + 1) % Modulus /\ elapsed' = elapsed + 1
      /\ UNCHANGED <<now, phase, entry, fresh>>
      /\ elapsed < (IF phase = "idle" THEN PollGap ELSE PollTime)
  BY DEF Tick
<1>1. Active' = Active
  BY <1>0 DEF Active
<1>2. clock' \in 0..(Modulus - 1) /\ elapsed' \in 0..PollGap
  BY <1>0, Values, Sizes, NextTick
<1>3. TypeOK'
  <2>1. age' \in [Slot -> Nat] /\ life' \in [Slot -> Nat]
    BY Values DEF Tick
  <2> QED
    BY <1>0, <1>2, <2>1 DEF TimerInv, TypeOK
<1>4. RoundInv'
  <2>1. elapsed = Since(clock, now) /\ elapsed + 1 < Modulus
    BY <1>0, Values, Sizes DEF TimerInv, RoundInv
  <2>2. Since(clock', now) = elapsed + 1
    BY <1>0, <2>1, Values, NextTick
  <2> QED
    BY <1>0, <2>2, Values, Sizes DEF RoundInv, Since
<1>5. ASSUME NEW s \in Active
      PROVE  SlotInv(s)'
  <2>0. s \in Slot /\ entry[s].active
    BY DEF Active
  <2>1. age'[s] = age[s] + 1 /\ life'[s] = life[s] + 1
    BY <2>0 DEF Tick
  <2>2. SlotInv(s)
    BY DEF TimerInv
  <2>3. /\ age[s] \in Nat /\ life[s] \in Nat /\ Lag(s) \in Nat /\ elapsed \in Nat
        /\ entry[s].attempts \in 0..MaxRetries
        /\ TimeoutForAttempt(entry[s].attempts) \in Nat
        /\ TimeoutForAttempt(entry[s].attempts) > 0
        /\ PollGap \in Nat /\ PollTime \in Nat /\ Modulus \in Nat /\ PollTime <= PollGap
        /\ TimeoutForAttempt(entry[s].attempts) + PollGap + PollTime <= Modulus
    BY <2>0, Values, Sizes
  <2>4. Lag(s) + 1 < TimeoutForAttempt(entry[s].attempts) + PollGap + PollTime
    <3>1. CASE s \in fresh
      BY <1>0, <2>2, <2>3, <3>1 DEF SlotInv, FreshInv
    <3>2. CASE s \notin fresh
      <4>1. CASE phase = "retry"
        BY <1>0, <2>2, <2>3, <3>2, <4>1 DEF SlotInv, OldInv, Limit
      <4>2. CASE phase # "retry"
        BY <1>0, <2>2, <2>3, <3>2, <4>2 DEF SlotInv, OldInv
      <4> QED
        BY <4>1, <4>2
    <3> QED
      BY <3>1, <3>2
  <2>5. Lag(s)' = Lag(s) + 1
    <3>1. Lag(s) + 1 < Modulus
      BY <2>3, <2>4
    <3>2. Lag(s)' = Since((clock + 1) % Modulus, entry[s].sentAt)
      BY <1>0 DEF Lag, Since
    <3> QED
      BY <2>0, <3>1, <3>2, Values, NextTick DEF Lag
  <2>6. Limit(s)' = Limit(s)
    BY <1>0 DEF Limit
  <2>7. (IF s \in fresh THEN FreshInv(s) ELSE OldInv(s))'
    BY <1>0, <2>1, <2>2, <2>3, <2>5, <2>6 DEF SlotInv, FreshInv, OldInv, Limit
  <2>8. LifeInv(s)'
    <3>1. entry[s].attempts # 0 => Budget[entry[s].attempts - 1] \in Nat
      BY <2>3, Sizes, BudgetGrows
    <3> QED
      BY <1>0, <2>1, <2>2, <2>3, <2>5, <3>1 DEF SlotInv, LifeInv
  <2> QED
    BY <2>1, <2>2, <2>3, <2>5, <2>7, <2>8 DEF SlotInv
<1> QED
  BY <1>0, <1>1, <1>3, <1>4, <1>5 DEF TimerInv

LEMMA AddPendingStep ==
  ASSUME TimerInv, AddPending
  PROVE  TimerInv'
<1>0. Least(Slot \ Active) \in Slot \ Active
  <2>1. Slot \ Active \in SUBSET Nat /\ Slot \ Active # {}
    BY DEF AddPending, Slot, Active
  <2> QED
    BY <2>1, LeastNumber
<1>1. PICK s \in Slot \ Active :
        /\ entry' = [entry EXCEPT ![s] = [active |-> TRUE, attempts |-> 0, sentAt |-> clock]]
        /\ age' = [age EXCEPT ![s] = 0] /\ life' = [life EXCEPT ![s] = 0]
        /\ fresh' = fresh \cup {s}
        /\ UNCHANGED <<clock, now, phase, elapsed>>
  BY <1>0 DEF AddPending
<1>2. /\ entry \in [Slot -> Entry] /\ age \in [Slot -> Nat] /\ life \in [Slot -> Nat]
      /\ clock \in 0..(Modulus - 1) /\ MaxRetries \in Nat /\ fresh \subseteq Active
      /\ elapsed \in Nat
  BY Values, Sizes DEF TimerInv, TypeOK
<1>3. [active |-> TRUE, attempts |-> 0, sentAt |-> clock] \in Entry
  BY <1>2 DEF Entry
<1>4. TypeOK'
  BY <1>1, <1>2, <1>3 DEF TimerInv, TypeOK, Active
<1>5. Active' = Active \cup {s}
  BY <1>1, <1>2 DEF Active
<1>6. ASSUME NEW t \in Active
      PROVE  SlotInv(t)'
  <2>1. t \in Slot /\ t # s
    BY DEF Active
  <2> QED
    BY <1>1, <1>2, <2>1, QuietSlot
<1>7. SlotInv(s)'
  <2>1. entry'[s] = [active |-> TRUE, attempts |-> 0, sentAt |-> clock]
        /\ age'[s] = 0 /\ life'[s] = 0 /\ s \in fresh'
    BY <1>1, <1>2
  <2>2. (Lag(s) = 0)'
    BY <1>1, <1>2, <2>1 DEF Lag, Since
  <2> QED
    BY <1>1, <1>2, <2>1, <2>2, Sizes DEF SlotInv, FreshInv, LifeInv
<1> QED
  BY <1>1, <1>2, <1>4, <1>5, <1>6, <1>7 DEF TimerInv, RoundInv, Since

(* The new round reads the clock, so everything registered so far is old.  *)
LEMMA StartRoundStep ==
  ASSUME TimerInv, StartRound
  PROVE  TimerInv'
<1>0. /\ phase = "idle" /\ phase' = "retry" /\ now' = clock /\ elapsed' = 0 /\ fresh' = {}
      /\ UNCHANGED <<clock, entry, age, life>>
  BY DEF StartRound
<1>1. TypeOK'
  BY <1>0, Sizes DEF TimerInv, TypeOK
<1>2. RoundInv'
  BY <1>0, Values, Sizes DEF RoundInv, Since
<1>3. Active' = Active
  BY <1>0 DEF Active
<1>4. ASSUME NEW s \in Active
      PROVE  SlotInv(s)'
  <2>1. Lag(s)' = Lag(s) /\ Limit(s)' = Limit(s)
    BY <1>0 DEF Lag, Limit, Since
  <2>2. SlotInv(s) /\ s \in Slot
    BY DEF TimerInv, Active
  <2>3. /\ Lag(s) \in Nat /\ elapsed \in Nat /\ elapsed <= PollGap /\ PollGap \in Nat
        /\ TimeoutForAttempt(entry[s].attempts) \in Nat
        /\ TimeoutForAttempt(entry[s].attempts) > 0
    BY <2>2, Values, Sizes
  <2>4. Lag(s) < Limit(s)
    BY <1>0, <2>2, <2>3 DEF SlotInv, FreshInv, OldInv, Limit
  <2>5. OldInv(s)'
    BY <1>0, <2>1, <2>3, <2>4 DEF OldInv
  <2> QED
    BY <1>0, <2>1, <2>2, <2>5 DEF SlotInv, LifeInv
<1> QED
  BY <1>0, <1>1, <1>2, <1>3, <1>4 DEF TimerInv

(* What processRetries computes for an old entry, and for a fresh one that *)
(* it has retried: how long its time lies before now.                      *)
LEMMA WaitedByNow ==
  ASSUME TimerInv, NEW s \in Active, elapsed <= Lag(s)
  PROVE  (now - entry[s].sentAt) % Modulus = Lag(s) - elapsed
<1>1. s \in Slot
  BY DEF Active
<1>2. /\ now \in 0..(Modulus - 1) /\ clock \in 0..(Modulus - 1)
      /\ entry[s].sentAt \in 0..(Modulus - 1) /\ Modulus \in Nat
  BY <1>1, Values, Sizes
<1>3. elapsed = Since(clock, now)
  BY DEF TimerInv, RoundInv
<1>4. (now - entry[s].sentAt) % Modulus = Since(now, entry[s].sentAt)
  BY <1>2, UnsignedDifference
<1> QED
  BY <1>2, <1>3, <1>4 DEF Lag, Since

LEMMA RoundStep ==
  ASSUME TimerInv, RetriesDone \/ EndRound
  PROVE  TimerInv'
<1>0. /\ UNCHANGED <<clock, now, entry, elapsed, age, life, fresh>>
      /\ phase' \in {"idle", "rx"} /\ phase # "idle"
  BY DEF RetriesDone, EndRound, timing
<1>1. TypeOK' /\ RoundInv' /\ Active' = Active
  BY <1>0 DEF TimerInv, TypeOK, RoundInv, Since, Active
<1>2. ASSUME NEW s \in Active
      PROVE  SlotInv(s)'
  <2>1. Lag(s)' = Lag(s) /\ Limit(s)' = Limit(s)
    BY <1>0 DEF Lag, Limit, Since
  <2>2. SlotInv(s) /\ s \in Slot /\ entry[s].active
    BY DEF TimerInv, Active
  <2>3. s \notin fresh => Lag(s) - elapsed < TimeoutForAttempt(entry[s].attempts)
    <3>1. CASE EndRound
      BY <2>2, <3>1 DEF EndRound, SlotInv, OldInv
    <3>2. CASE RetriesDone
      <4>1. ~Expired(s)
        BY <2>2, <3>2 DEF RetriesDone, ExpiredSlots
      <4>2. ~ ((now - entry[s].sentAt) % Modulus >= TimeoutForAttempt(entry[s].attempts))
        BY <2>2, <4>1 DEF Expired
      <4>3. s \notin fresh => elapsed <= Lag(s)
        BY <2>2 DEF SlotInv, OldInv
      <4>4. Lag(s) \in Nat /\ elapsed \in Nat /\ TimeoutForAttempt(entry[s].attempts) \in Nat
        BY <2>2, Values
      <4> QED
        BY <4>2, <4>3, <4>4, WaitedByNow
    <3> QED
      BY <3>1, <3>2
  <2>4. (IF s \in fresh THEN FreshInv(s) ELSE OldInv(s))'
    BY <1>0, <2>1, <2>2, <2>3 DEF SlotInv, FreshInv, OldInv
  <2> QED
    BY <1>0, <2>1, <2>2, <2>4 DEF SlotInv, LifeInv
<1> QED
  BY <1>0, <1>1, <1>2 DEF TimerInv

(* The entry that nextExpired returns was waited for, or it is fresh and   *)
(* not retried yet.                                                        *)
LEMMA FiresLate ==
  ASSUME TimerInv, NEW s \in Slot, Fires(s)
  PROVE  /\ s \in Active /\ phase = "retry"
         /\ s \in fresh => entry[s].attempts = 0
         /\ s \notin fresh => Lag(s) - elapsed >= TimeoutForAttempt(entry[s].attempts)
<1>1. phase = "retry" /\ Expired(s)
  <2>1. ExpiredSlots \in SUBSET Nat /\ ExpiredSlots # {}
    BY DEF Fires, ExpiredSlots, Slot
  <2> QED
    BY <2>1, LeastNumber DEF Fires, ExpiredSlots
<1>2. /\ s \in Active
      /\ (now - entry[s].sentAt) % Modulus >= TimeoutForAttempt(entry[s].attempts)
  BY <1>1 DEF Expired, Active
<1>3. SlotInv(s)
  BY <1>2 DEF TimerInv
<1>4. /\ Lag(s) \in Nat /\ elapsed \in Nat /\ entry[s].attempts \in Nat
      /\ TimeoutForAttempt(entry[s].attempts) \in Nat
      /\ TimeoutForAttempt(entry[s].attempts) > 0
  BY Values, Sizes
<1>5. ASSUME s \in fresh
      PROVE  entry[s].attempts = 0
  <2>1. entry[s].attempts > 0 => Lag(s) = elapsed
    BY <1>3, <1>5 DEF SlotInv, FreshInv
  <2> QED
    BY <1>2, <1>4, <2>1, WaitedByNow
<1>6. ASSUME s \notin fresh
      PROVE  Lag(s) - elapsed >= TimeoutForAttempt(entry[s].attempts)
  <2>1. elapsed <= Lag(s)
    BY <1>3, <1>6 DEF SlotInv, OldInv
  <2> QED
    BY <1>2, <1>4, <2>1, WaitedByNow
<1> QED
  BY <1>1, <1>2, <1>5, <1>6

LEMMA RetryStep ==
  ASSUME TimerInv, NEW s \in Slot, Retry(s)
  PROVE  TimerInv'
<1>0. /\ entry' = [entry EXCEPT ![s].attempts = @ + 1, ![s].sentAt = now]
      /\ age' = [age EXCEPT ![s] = 0]
      /\ UNCHANGED <<clock, now, phase, elapsed, life, fresh>>
      /\ Fires(s) /\ entry[s].attempts < MaxRetries
  BY DEF Retry, ShouldRetry
<1>1. /\ s \in Active /\ phase = "retry"
      /\ s \in fresh => entry[s].attempts = 0
  BY <1>0, FiresLate
<1>2. /\ entry \in [Slot -> Entry] /\ age \in [Slot -> Nat] /\ now \in 0..(Modulus - 1)
      /\ MaxRetries \in Nat /\ SlotInv(s)
  BY <1>1, Sizes DEF TimerInv, TypeOK
<1>3. /\ entry'[s] = [active |-> TRUE, attempts |-> entry[s].attempts + 1, sentAt |-> now]
      /\ age'[s] = 0 /\ \A t \in Slot \ {s} : entry'[t] = entry[t] /\ age'[t] = age[t]
  BY <1>0, <1>1, <1>2 DEF Entry, Active
<1>4. entry[s].attempts + 1 \in 0..MaxRetries /\ entry[s].attempts \in 0..MaxRetries
  BY <1>0, <1>2, Values
<1>5. TypeOK'
  <2>1. entry' \in [Slot -> Entry]
    <3>1. entry'[s] \in Entry
      BY <1>2, <1>3, <1>4 DEF Entry
    <3> QED
      BY <1>0, <1>2, <3>1
  <2>2. age' \in [Slot -> Nat]
    BY <1>0, <1>2
  <2> QED
    BY <1>0, <2>1, <2>2 DEF TimerInv, TypeOK
<1>6. Active' = Active
  BY <1>1, <1>3 DEF Active
<1>7. ASSUME NEW t \in Active \ {s}
      PROVE  SlotInv(t)'
  <2>1. t \in Slot
    BY DEF Active
  <2> QED
    BY <1>0, <1>3, <2>1, QuietSlot
<1>8. SlotInv(s)'
  <2>1. (Lag(s) = elapsed)'
    BY <1>0, <1>3 DEF TimerInv, RoundInv, Lag, Since
  <2>2. /\ elapsed \in Nat /\ elapsed <= PollTime /\ PollTime \in Nat /\ PollGap \in Nat
        /\ Lag(s) \in Nat /\ life[s] \in Nat
        /\ TimeoutForAttempt(entry[s].attempts) \in Nat
    BY <1>1, Values, Sizes DEF TimerInv, RoundInv
  <2>3. TimeoutForAttempt(entry'[s].attempts) \in Nat /\ TimeoutForAttempt(entry'[s].attempts) > 0
    BY <1>3, <1>4, Sizes, TimeoutIsNat
  <2>4. (IF s \in fresh THEN FreshInv(s) ELSE OldInv(s))'
    BY <1>0, <1>1, <1>3, <2>1, <2>2, <2>3 DEF FreshInv, OldInv, Limit
  <2>5. life[s] <= elapsed + Budget[entry[s].attempts]
    <3>1. /\ Budget[entry[s].attempts] \in Nat
          /\ Budget[entry[s].attempts] = TimeoutForAttempt(entry[s].attempts) + PollGap
               + (IF entry[s].attempts = 0 THEN 0 ELSE Budget[entry[s].attempts - 1])
          /\ entry[s].attempts # 0 => Budget[entry[s].attempts - 1] \in Nat
      BY <1>2, <1>4, BudgetDef, BudgetGrows
    <3>2. Lag(s) <= elapsed + TimeoutForAttempt(entry[s].attempts) + PollGap
      BY <1>2, <2>2 DEF SlotInv, FreshInv, OldInv, Limit
    <3>3. life[s] <= Lag(s) + (IF entry[s].attempts = 0 THEN 0 ELSE Budget[entry[s].attempts - 1])
      BY <1>2 DEF SlotInv, LifeInv
    <3> QED
      BY <1>4, <2>2, <3>1, <3>2, <3>3
  <2>6. LifeInv(s)'
    <3>1. entry'[s].attempts # 0 /\ entry'[s].attempts - 1 = entry[s].attempts
      BY <1>2, <1>3, <1>4
    <3> QED
      BY <1>0, <2>1, <2>5, <3>1 DEF LifeInv
  <2> QED
    BY <1>0, <1>3, <2>1, <2>2, <2>4, <2>6 DEF SlotInv
<1> QED
  BY <1>0, <1>5, <1>6, <1>7, <1>8 DEF TimerInv, RoundInv, Since

LEMMA ReleaseStep ==
  ASSUME TimerInv, NEW s \in Slot, Release(s), UNCHANGED <<clock, now, phase, elapsed>>
  PROVE  TimerInv'
<1>0. /\ entry' = [entry EXCEPT ![s] = FreeEntry]
      /\ age' = [age EXCEPT ![s] = 0] /\ life' = [life EXCEPT ![s] = 0]
      /\ fresh' = fresh \ {s}
  BY DEF Release
<1>1. /\ entry \in [Slot -> Entry] /\ age \in [Slot -> Nat] /\ life \in [Slot -> Nat]
      /\ fresh \subseteq Active
  BY DEF TimerInv, TypeOK
<1>2. FreeEntry \in Entry
  BY Sizes DEF FreeEntry, Entry
<1>3. TypeOK'
  BY <1>0, <1>1, <1>2 DEF TimerInv, TypeOK
<1>4. Active' = Active \ {s}
  BY <1>0, <1>1 DEF Active, FreeEntry
<1>5. ASSUME NEW t \in Active \ {s}
      PROVE  SlotInv(t)'
  <2>1. t \in Slot
    BY DEF Active
  <2> QED
    BY <1>0, <1>1, <2>1, QuietSlot
<1> QED
  BY <1>0, <1>1, <1>3, <1>4, <1>5 DEF TimerInv, RoundInv, Since

-----------------------------------------------------------------------------
LEMMA InitTimer == Init => TimerInv
<1> SUFFICES ASSUME Init
             PROVE  TimerInv
  OBVIOUS
<1>1. FreeEntry \in Entry
  BY Sizes DEF FreeEntry, Entry
<1>2. TypeOK
  BY <1>1, Sizes DEF Init, TypeOK
<1>3. Active = {}
  BY DEF Init, Active, FreeEntry
<1> QED
  BY <1>2, <1>3, Sizes DEF Init, TimerInv, RoundInv, Since

LEMMA TimerStep ==
  ASSUME TimerInv, [Next]_vars
  PROVE  TimerInv'
<1>1. ASSUME NEW s \in Slot, GiveUp(s) \/ OnAck(s)
      PROVE  TimerInv'
  <2>1. Release(s) /\ UNCHANGED <<clock, now, phase, elapsed>>
    BY <1>1 DEF GiveUp, OnAck
  <2> QED
    BY <2>1, ReleaseStep
<1>2. CASE UNCHANGED vars
  <2>1. Active' = Active /\ \A s \in Slot : Lag(s)' = Lag(s) /\ Limit(s)' = Limit(s)
    BY <1>2 DEF vars, Active, Lag, Limit, Since
  <2>2. \A s \in Active : s \in Slot
    BY DEF Active
  <2>3. ASSUME NEW s \in Active
        PROVE  SlotInv(s)'
    BY <1>2, QuietSlot DEF vars
  <2> QED
    BY <1>2, <2>1, <2>3 DEF vars, TimerInv, TypeOK, RoundInv, Since
<1> QED
  BY <1>1, <1>2, TickStep, AddPendingStep, StartRoundStep, RoundStep, RetryStep DEF Next

(* TypeOK. *)
THEOREM TimerTypes == Spec => []TypeOK
<1>1. TimerInv => TypeOK
  BY DEF TimerInv
<1> QED
  BY <1>1, InitTimer, TimerStep, PTL DEF Spec

(* processRetries overlooks no entry, whatever the clock does meanwhile:   *)
(* none is older than its timeout, a pause and a round.                    *)
THEOREM NothingForgotten == Spec => []Noticed
<1>1. TimerInv => Noticed
  <2> SUFFICES ASSUME TimerInv, NEW s \in Active
               PROVE  age[s] < TimeoutForAttempt(entry[s].attempts) + PollGap + PollTime
    BY DEF Noticed
  <2>1. s \in Slot
    BY DEF Active
  <2>2. /\ age[s] \in Nat /\ Lag(s) \in Nat /\ TimeoutForAttempt(entry[s].attempts) \in Nat
        /\ PollGap \in Nat /\ PollTime \in Nat
    BY <2>1, Values, Sizes
  <2> QED
    BY <2>2, LagBound DEF Limit
<1> QED
  BY <1>1, InitTimer, TimerStep, PTL DEF Spec

(* Every text has its acknowledgement or its verdict when its timeouts, a  *)
(* pause for each and one round have passed.                               *)
THEOREM VerdictInTime == Spec => []SettledInTime
<1>1. TimerInv => SettledInTime
  <2> SUFFICES ASSUME TimerInv, NEW s \in Active
               PROVE  life[s] < Budget[MaxRetries] + PollTime
    BY DEF SettledInTime
  <2> DEFINE a == entry[s].attempts
  <2>1. s \in Slot
    BY DEF Active
  <2>2. /\ life[s] \in Nat /\ Lag(s) \in Nat /\ TimeoutForAttempt(a) \in Nat
        /\ PollGap \in Nat /\ PollTime \in Nat /\ a \in 0..MaxRetries /\ MaxRetries \in Nat
    BY <2>1, Values, Sizes
  <2>3. Lag(s) < TimeoutForAttempt(a) + PollGap + PollTime
        /\ life[s] <= Lag(s) + (IF a = 0 THEN 0 ELSE Budget[a - 1])
    BY LagBound DEF Limit, LifeInv
  <2> HIDE DEF a
  <2>4. /\ Budget[a] = TimeoutForAttempt(a) + PollGap + (IF a = 0 THEN 0 ELSE Budget[a - 1])
        /\ Budget[a] \in Nat /\ Budget[a] <= Budget[MaxRetries] /\ Budget[MaxRetries] \in Nat
        /\ a # 0 => Budget[a - 1] \in Nat
    BY <2>2, BudgetDef, BudgetGrows
  <2> QED
    BY <2>2, <2>3, <2>4
<1> QED
  BY <1>1, InitTimer, TimerStep, PTL DEF Spec

(* A retransmission or verdict before its time concerns a packet that was  *)
(* registered while the round was running, at its first attempt.           *)
THEOREM EarlyIsFresh == Spec => EarlyOnlyIfFresh
<1> DEFINE Early == \A s \in Slot :
             (Retry(s) \/ GiveUp(s)) /\ TooEarly(s) => s \in fresh /\ entry[s].attempts = 0
<1>1. TimerInv => Early
  <2> SUFFICES ASSUME TimerInv, NEW s \in Slot, Fires(s), TooEarly(s)
               PROVE  s \in fresh /\ entry[s].attempts = 0
    BY DEF Retry, GiveUp
  <2>1. /\ s \in Active
        /\ s \in fresh => entry[s].attempts = 0
        /\ s \notin fresh => Lag(s) - elapsed >= TimeoutForAttempt(entry[s].attempts)
    BY FiresLate
  <2>2. Lag(s) <= age[s] + PollTime
    BY <2>1 DEF TimerInv, SlotInv
  <2>3. /\ Lag(s) \in Nat /\ age[s] \in Nat /\ elapsed \in Nat /\ PollTime \in Nat
        /\ TimeoutForAttempt(entry[s].attempts) \in Nat
    BY Values, Sizes
  <2> QED
    BY <2>1, <2>2, <2>3 DEF TooEarly
<1>2. TimerInv /\ [Next]_vars => [Early]_vars
  BY <1>1
<1>3. Spec => [][Early]_vars
  <2> HIDE DEF Early
  <2> QED
    BY <1>2, InitTimer, TimerStep, PTL DEF Spec
<1> QED
  BY <1>3 DEF EarlyOnlyIfFresh

==============================================================================
