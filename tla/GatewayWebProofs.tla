-------------------------- MODULE GatewayWebProofs --------------------------
(***************************************************************************)
(* The properties of GatewayWeb for any number of tasks, phones, messages  *)
(* and connections, and any capacity of conversation and queues.           *)
(***************************************************************************)
EXTENDS GatewayWeb, SequenceTheorems, WellFoundedInduction, TLAPS

(* Induction over the numbers up to n, as a fact about sets. *)
LEMMA UpTo ==
  ASSUME NEW n \in Nat, NEW T, 0 \in T, \A i \in 1..n : i - 1 \in T => i \in T
  PROVE  0..n \subseteq T
<1> DEFINE left == {i \in 0..n : i \notin T}
<1> SUFFICES ASSUME left # {}
             PROVE  FALSE
  OBVIOUS
<1>1. left \in SUBSET Nat
  OBVIOUS
<1>2. PICK k \in left : \A m \in left : ~ (<<m, k>> \in OpToRel(<, Nat))
  BY <1>1, NatLessThanWellFounded, WFMin
<1>3. \A m \in left : ~ (m < k)
  BY <1>1, <1>2 DEF OpToRel
<1>4. k # 0 /\ k \in 0..n /\ k \notin T
  OBVIOUS
<1>5. k \in 1..n /\ k - 1 \in 0..n /\ k - 1 < k
  BY <1>4
<1> QED
  BY <1>3, <1>4, <1>5

-----------------------------------------------------------------------------
(* FoldLeft step by step: it is chosen as a table over the sets of places  *)
(* of the sequence, which takes the last place of a set first.             *)

LEMMA LastPlace ==
  ASSUME NEW k \in Nat \ {0}, NEW S \in SUBSET (1..k), k \in S
  PROVE  Max(S) = k /\ S \ {Max(S)} \in SUBSET (1..(k - 1))
<1>1. k \in Nat /\ \A x \in S : x \in Nat /\ x <= k
  OBVIOUS
<1>2. PICK m : m = Max(S)
  OBVIOUS
<1>3. m \in S /\ \A y \in S : m >= y
  BY <1>1, <1>2 DEF Max
<1>4. m = k
  BY <1>1, <1>3
<1>5. S \ {k} \in SUBSET (1..(k - 1))
  BY <1>1
<1> QED
  BY <1>2, <1>4, <1>5

(* f holds what folding F from p over the places S of s gives.             *)
IsTable(f, F, p, n, s) == \A S \in SUBSET (1..n) :
  /\ S # {} => Max(S) \in S
  /\ f[S] = IF S = {} THEN p ELSE F[f[S \ {Max(S)}]][s[Max(S)]]

(* There is such a table for every step F and every sequence. *)
LEMMA FoldTable ==
  ASSUME NEW A, NEW B, NEW F \in [A -> [B -> A]], NEW p \in A,
         NEW n \in Nat, NEW s \in [1..n -> B]
  PROVE  \E f \in [SUBSET (1..n) -> A] : IsTable(f, F, p, n, s)
<1> DEFINE Entry(f, S) == /\ S # {} => Max(S) \in S
                          /\ f[S] = IF S = {} THEN p ELSE F[f[S \ {Max(S)}]][s[Max(S)]]
           Table(k) == \E f \in [SUBSET (1..k) -> A] : \A S \in SUBSET (1..k) : Entry(f, S)
           good == {k \in 0..n : Table(k)}
<1>1. Table(0)
  <2>1. SUBSET (1..0) = {{}}
    OBVIOUS
  <2>2. [S \in SUBSET (1..0) |-> p] \in [SUBSET (1..0) -> A]
    OBVIOUS
  <2>3. \A S \in SUBSET (1..0) : Entry([T \in SUBSET (1..0) |-> p], S)
    BY <2>1
  <2> QED
    BY <2>2, <2>3
<1>2. ASSUME NEW k \in 1..n, Table(k - 1)
      PROVE  Table(k)
  <2>0. k \in Nat \ {0} /\ k \in 1..k
    OBVIOUS
  <2>1. PICK f \in [SUBSET (1..(k - 1)) -> A] : \A S \in SUBSET (1..(k - 1)) : Entry(f, S)
    BY <1>2
  <2> DEFINE h == [S \in SUBSET (1..k) |->
                     IF k \in S THEN F[f[S \ {k}]][s[k]] ELSE f[S]]
  <2>2. ASSUME NEW S \in SUBSET (1..k), k \notin S
        PROVE  S \in SUBSET (1..(k - 1))
    <3>1. ASSUME NEW x \in S
          PROVE  x \in 1..(k - 1)
      <4>1. x \in 1..k /\ x # k
        BY <2>2
      <4> QED
        BY <2>0, <4>1
    <3> QED
      BY <3>1
  <2>3. ASSUME NEW S \in SUBSET (1..k), k \in S
        PROVE  Entry(h, S) /\ h[S] \in A
    <3>1. Max(S) = k /\ S \ {k} \in SUBSET (1..(k - 1)) /\ S # {}
      BY <2>0, <2>3, LastPlace
    <3>2. h[S \ {k}] = f[S \ {k}] /\ f[S \ {k}] \in A /\ s[k] \in B
      BY <3>1
    <3>3. h[S] = F[f[S \ {k}]][s[k]]
      BY <2>3
    <3> HIDE DEF h
    <3> QED
      BY <2>3, <3>1, <3>2, <3>3
  <2>4. ASSUME NEW S \in SUBSET (1..k), k \notin S
        PROVE  Entry(h, S) /\ h[S] \in A
    <3>1. S \in SUBSET (1..(k - 1)) /\ S \ {Max(S)} \in SUBSET (1..k) /\ k \notin S \ {Max(S)}
      BY <2>2, <2>4
    <3>2. h[S] = f[S] /\ h[S \ {Max(S)}] = f[S \ {Max(S)}] /\ f[S] \in A
      BY <2>4, <3>1
    <3>3. Entry(f, S)
      BY <2>1, <3>1
    <3> HIDE DEF h
    <3> QED
      BY <3>2, <3>3
  <2>5. DOMAIN h = SUBSET (1..k) /\ h = [S \in SUBSET (1..k) |-> h[S]]
    OBVIOUS
  <2> HIDE DEF h, Entry
  <2>6. h \in [SUBSET (1..k) -> A]
    BY <2>3, <2>4, <2>5
  <2>7. \A S \in SUBSET (1..k) : Entry(h, S)
    BY <2>3, <2>4
  <2> QED
    BY <2>6, <2>7
<1>3. 0..n \subseteq good
  <2> HIDE DEF Table
  <2>1. 0 \in good
    BY <1>1
  <2>2. ASSUME NEW i \in 1..n, i - 1 \in good
        PROVE  i \in good
    <3>1. i \in 0..n
      OBVIOUS
    <3> QED
      BY <1>2, <2>2, <3>1
  <2> HIDE DEF good
  <2> QED
    BY <2>1, <2>2, UpTo
<1>4. n \in good
  <2>1. n \in 0..n
    OBVIOUS
  <2> HIDE DEF good
  <2> QED
    BY <1>3, <2>1
<1> QED
  BY <1>4 DEF IsTable

(* The places before place i are what is left of the first i places. *)
LEMMA FirstPlaces ==
  ASSUME NEW n \in Nat, NEW i \in 1..n
  PROVE  /\ 1..i \in SUBSET (1..n) /\ 1..i # {}
         /\ Max(1..i) = i /\ (1..i) \ {i} = 1..(i - 1)
         /\ i \in 0..n /\ i - 1 \in 0..n
<1>1. i \in Nat \ {0} /\ i \in 0..n /\ i - 1 \in 0..n
  OBVIOUS
<1>2. 1..i \subseteq 1..n /\ i \in 1..i
  BY <1>1
<1>3. (1..i) \ {i} = 1..(i - 1)
  BY <1>1
<1> QED
  BY <1>1, <1>2, <1>3, LastPlace

(* The pages that the messages of a frame make of a page, one by one. *)
LEMMA ShowSteps ==
  ASSUME NEW p \in Page, NEW n \in Nat, NEW s \in [1..n -> Message]
  PROVE  \E g : /\ g[0] = p
                /\ \A i \in 1..n : g[i] = Show(g[i - 1], s[i])
                /\ FoldLeft(Show, p, s) = g[n]
<1> DEFINE Def(f) == f = [S \in SUBSET (1..n) |->
                            IF S = {} THEN p ELSE Show(f[S \ {Max(S)}], s[Max(S)])]
           F == [q \in Page |-> [m \in Message |-> Show(q, m)]]
<1>1. F \in [Page -> [Message -> Page]]
  <2>1. ASSUME NEW q \in Page, NEW m \in Message
        PROVE  Show(q, m) \in Page
    BY DEF Show, Page
  <2> QED
    BY <2>1
<1>2. \E f : Def(f)
  <2>1. PICK f \in [SUBSET (1..n) -> Page] : IsTable(f, F, p, n, s)
    <3> HIDE DEF F
    <3> QED
      BY <1>1, FoldTable
  <2>2. \A S \in SUBSET (1..n) :
          /\ S # {} => Max(S) \in S
          /\ f[S] = IF S = {} THEN p ELSE F[f[S \ {Max(S)}]][s[Max(S)]]
    <3> HIDE DEF F
    <3> QED
      BY <2>1 DEF IsTable
  <2>3. ASSUME NEW S \in SUBSET (1..n), S # {}
        PROVE  F[f[S \ {Max(S)}]][s[Max(S)]] = Show(f[S \ {Max(S)}], s[Max(S)])
    <3>1. Max(S) \in 1..n /\ S \ {Max(S)} \in SUBSET (1..n)
      BY <2>2, <2>3
    <3>2. f[S \ {Max(S)}] \in Page /\ s[Max(S)] \in Message
      BY <3>1
    <3> QED
      BY <3>2
  <2>4. \A S \in SUBSET (1..n) :
          f[S] = IF S = {} THEN p ELSE Show(f[S \ {Max(S)}], s[Max(S)])
    <3> HIDE DEF F
    <3> QED
      BY <2>2, <2>3
  <2>5. f = [S \in SUBSET (1..n) |-> f[S]]
    OBVIOUS
  <2>6. Def(f)
    BY <2>4, <2>5
  <2> QED
    BY <2>6
<1>3. PICK it : Def(it) /\ FoldLeft(Show, p, s) = it[1..n]
  <2>1. Def(CHOOSE f : Def(f))
    <3> HIDE DEF Def
    <3> QED
      BY <1>2
  <2>2. FoldLeft(Show, p, s) =
          (CHOOSE f : f = [S \in SUBSET (1..n) |->
             IF S = {} THEN p ELSE Show(f[S \ {Max(S)}], s[Max(S)])])[1..n]
    BY Zenon DEF FoldLeft, MapThenFoldSet
  <2> QED
    BY <2>1, <2>2
<1> DEFINE g == [i \in 0..n |-> it[1..i]]
<1>4. g[0] = p /\ g[n] = it[1..n]
  <2>1. 1..0 = {} /\ 0 \in 0..n /\ n \in 0..n /\ {} \in SUBSET (1..n)
    OBVIOUS
  <2>2. it[{}] = p
    BY <1>3, <2>1
  <2> QED
    BY <2>1, <2>2
<1>5. ASSUME NEW i \in 1..n
      PROVE  g[i] = Show(g[i - 1], s[i])
  <2>1. it[1..i] = Show(it[(1..i) \ {Max(1..i)}], s[Max(1..i)])
    BY <1>3, FirstPlaces
  <2> QED
    BY <2>1, FirstPlaces
<1> QED
  BY <1>3, <1>4, <1>5

(* What a page shows is what it has seen, once each. *)
Consistent(p) == IsInjective(p.shown) /\ p.seen = ToSet(p.shown)

(* s is in the order of the messages but for the pairs X, the later first. *)
InOrder(s, X) == \A i, j \in DOMAIN s : i < j /\ s[j] < s[i] => <<s[i], s[j]>> \in X

(* Nothing of s but for the pairs X belongs before what is in seen.        *)
Follows(s, seen, X) == \A m \in seen : \A i \in DOMAIN s : s[i] < m => <<m, s[i]>> \in X

LEMMA ShowOne ==
  ASSUME NEW p \in Page, NEW m \in Message
  PROVE  /\ Show(p, m) \in Page
         /\ Show(p, m).seen = p.seen \cup {m}
         /\ Consistent(p) => Consistent(Show(p, m))
         /\ \A X : /\ Consistent(p) /\ InOrder(p.shown, X)
                  /\ (\A x \in p.seen : m < x => <<x, m>> \in X)
                  => InOrder(Show(p, m).shown, X)
<1>1. CASE m \in p.seen
  <2>1. Show(p, m) = p
    BY <1>1 DEF Show
  <2> QED
    BY <1>1, <2>1
<1>2. CASE m \notin p.seen
  <2>1. PICK s \in Seq(Message) : s = p.shown
    BY DEF Page
  <2>2. PICK n \in Nat : n = Len(s) /\ DOMAIN s = 1..n
    BY <2>1
  <2>3. PICK a : a = Append(s, m) /\ a \in Seq(Message)
    <3>1. Append(s, m) \in Seq(Message)
      BY <2>1
    <3> QED
      BY <3>1
  <2>4. /\ DOMAIN a = 1..(n + 1) /\ a[n + 1] = m
        /\ \A i \in 1..n : a[i] = s[i]
        /\ \A i \in 1..(n + 1) : i = n + 1 \/ i \in 1..n
    BY <2>2, <2>3
  <2>5. Show(p, m) = [shown |-> a, seen |-> p.seen \cup {m}]
    BY <1>2, <2>1, <2>3 DEF Show
  <2>6. Show(p, m) \in Page
    BY <2>3, <2>5 DEF Page
  <2>7. ASSUME Consistent(p)
        PROVE  Consistent(Show(p, m))
    <3>1. ToSet(a) = ToSet(s) \cup {m}
      BY <2>2, <2>4 DEF ToSet
    <3>2. m \notin ToSet(s) /\ \A i, j \in 1..n : s[i] = s[j] => i = j
      BY <1>2, <2>1, <2>2, <2>7 DEF Consistent, IsInjective
    <3>3. IsInjective(a)
      BY <2>2, <2>4, <3>2 DEF IsInjective, ToSet
    <3> QED
      BY <2>1, <2>5, <2>7, <3>1, <3>3 DEF Consistent
  <2>8. ASSUME NEW X, Consistent(p), InOrder(p.shown, X), \A x \in p.seen : m < x => <<x, m>> \in X
        PROVE  InOrder(Show(p, m).shown, X)
    <3>1. \A i \in 1..n : s[i] \in p.seen
      BY <2>1, <2>2, <2>8 DEF Consistent, ToSet
    <3>2. ASSUME NEW i \in 1..(n + 1), NEW j \in 1..(n + 1), i < j, a[j] < a[i]
          PROVE  <<a[i], a[j]>> \in X
      <4>1. i \in 1..n
        BY <3>2
      <4>2. CASE j = n + 1
        BY <2>4, <2>8, <3>1, <3>2, <4>1, <4>2
      <4>3. CASE j # n + 1
        BY <2>1, <2>2, <2>4, <2>8, <3>2, <4>1, <4>3 DEF InOrder
      <4> QED
        BY <4>2, <4>3
    <3>3. InOrder(a, X)
      BY <2>4, <3>2 DEF InOrder
    <3> QED
      BY <2>5, <3>3
  <2> QED
    BY <2>5, <2>6, <2>7, <2>8
<1> QED
  BY <1>1, <1>2

(* What a page is after the messages of a frame. *)
LEMMA ShowAll ==
  ASSUME NEW p \in Page, NEW s \in Seq(Message)
  PROVE  /\ FoldLeft(Show, p, s) \in Page
         /\ FoldLeft(Show, p, s).seen = p.seen \cup ToSet(s)
         /\ Consistent(p) => Consistent(FoldLeft(Show, p, s))
         /\ \A X : /\ Consistent(p) /\ InOrder(p.shown, X)
                  /\ InOrder(s, X) /\ Follows(s, p.seen, X)
                  => InOrder(FoldLeft(Show, p, s).shown, X)
<1>1. PICK n \in Nat : n = Len(s) /\ s \in [1..n -> Message]
  OBVIOUS
<1>2. PICK g : /\ g[0] = p
               /\ \A i \in 1..n : g[i] = Show(g[i - 1], s[i])
               /\ FoldLeft(Show, p, s) = g[n]
  BY <1>1, ShowSteps
<1> DEFINE Order(X) == Consistent(p) /\ InOrder(p.shown, X) /\ InOrder(s, X) /\ Follows(s, p.seen, X)
           Good(i) == /\ g[i] \in Page
                      /\ g[i].seen = p.seen \cup {s[j] : j \in 1..i}
                      /\ Consistent(p) => Consistent(g[i])
                      /\ \A X : Order(X) => InOrder(g[i].shown, X)
           good == {i \in 0..n : Good(i)}
<1>3. Good(0)
  <2>1. {s[j] : j \in 1..0} = {}
    OBVIOUS
  <2> QED
    BY <1>2, <2>1
<1>4. ASSUME NEW i \in 1..n, Good(i - 1)
      PROVE  Good(i)
  <2>1. g[i] = Show(g[i - 1], s[i]) /\ s[i] \in Message /\ g[i - 1] \in Page
    BY <1>1, <1>2, <1>4
  <2>2. {s[j] : j \in 1..i} = {s[j] : j \in 1..(i - 1)} \cup {s[i]}
    <3>1. \A j : j \in 1..i <=> j \in 1..(i - 1) \/ j = i
      OBVIOUS
    <3> QED
      BY <3>1
  <2>3. ASSUME NEW X, Order(X), NEW x \in g[i - 1].seen, s[i] < x
        PROVE  <<x, s[i]>> \in X
    <3>1. i \in DOMAIN s
      BY <1>1
    <3>2. CASE x \in p.seen
      BY <2>3, <3>1, <3>2 DEF Follows
    <3>3. CASE x \notin p.seen
      <4>1. PICK j \in 1..(i - 1) : x = s[j]
        BY <1>4, <3>3
      <4>2. j \in DOMAIN s /\ j < i
        BY <1>1
      <4> QED
        BY <2>3, <3>1, <4>1, <4>2 DEF InOrder
    <3> QED
      BY <3>2, <3>3
  <2>4. \A X : Order(X) => InOrder(g[i].shown, X)
    BY <1>4, <2>1, <2>3, ShowOne
  <2>5. g[i] \in Page /\ (Consistent(p) => Consistent(g[i]))
    BY <1>4, <2>1, ShowOne
  <2>6. g[i].seen = p.seen \cup {s[j] : j \in 1..i}
    <3>1. g[i].seen = g[i - 1].seen \cup {s[i]}
      BY <2>1, ShowOne
    <3> QED
      BY <1>4, <2>2, <3>1
  <2> QED
    BY <2>4, <2>5, <2>6
<1>5. n \in good
  <2> HIDE DEF Good
  <2>1. 0 \in good /\ \A i \in 1..n : i - 1 \in good => i \in good
    BY <1>3, <1>4
  <2>2. n \in 0..n
    OBVIOUS
  <2> HIDE DEF good
  <2>3. 0..n \subseteq good
    BY <2>1, UpTo
  <2> QED
    BY <2>2, <2>3
<1>6. ToSet(s) = {s[j] : j \in 1..n}
  BY <1>1 DEF ToSet
<1> QED
  BY <1>2, <1>5, <1>6

(* What a page is after a frame. *)
LEMMA OnMessageOne ==
  ASSUME NEW p \in Page, NEW f \in Frame
  PROVE  /\ OnMessage(p, f) \in Page
         /\ OnMessage(p, f).seen =
              (IF f.kind = "history" THEN {} ELSE p.seen) \cup ToSet(f.body)
         /\ Consistent(p) => Consistent(OnMessage(p, f))
         /\ \A X : /\ Consistent(p) /\ InOrder(p.shown, X) /\ InOrder(f.body, X)
                  /\ (f.kind # "history" => Follows(f.body, p.seen, X))
                  => InOrder(OnMessage(p, f).shown, X)
<1>0. f.body \in Seq(Message)
  BY DEF Frame
<1>1. /\ EmptyPage \in Page /\ Consistent(EmptyPage)
      /\ \A X : InOrder(EmptyPage.shown, X)
  BY DEF EmptyPage, Page, Consistent, IsInjective, InOrder, ToSet
<1>2. EmptyPage.seen = {} /\ \A X : Follows(f.body, EmptyPage.seen, X)
  BY DEF EmptyPage, Follows
<1>3. CASE f.kind = "history"
  <2>1. OnMessage(p, f) = FoldLeft(Show, EmptyPage, f.body)
    BY <1>3 DEF OnMessage
  <2>2. /\ OnMessage(p, f) \in Page
        /\ OnMessage(p, f).seen = ToSet(f.body)
        /\ Consistent(OnMessage(p, f))
    <3>1. OnMessage(p, f) \in Page /\ Consistent(OnMessage(p, f))
      BY <1>0, <1>1, <2>1, ShowAll
    <3>2. OnMessage(p, f).seen = EmptyPage.seen \cup ToSet(f.body)
      BY <1>0, <1>1, <2>1, ShowAll
    <3> QED
      BY <1>2, <3>1, <3>2
  <2>3. \A X : InOrder(f.body, X) => InOrder(OnMessage(p, f).shown, X)
    BY <1>0, <1>1, <1>2, <2>1, ShowAll
  <2> QED
    BY <1>3, <2>2, <2>3
<1>4. CASE f.kind # "history"
  <2>1. OnMessage(p, f) = FoldLeft(Show, p, f.body)
    BY <1>4 DEF OnMessage
  <2> QED
    BY <1>0, <1>4, <2>1, ShowAll
<1> QED
  BY <1>3, <1>4

(* The pages that a sequence of frames makes of a page, one by one. *)
LEMMA FrameSteps ==
  ASSUME NEW p \in Page, NEW n \in Nat, NEW s \in [1..n -> Frame]
  PROVE  \E g : /\ g[0] = p
                /\ \A i \in 1..n : g[i] = OnMessage(g[i - 1], s[i])
                /\ FoldLeft(OnMessage, p, s) = g[n]
<1> DEFINE Def(f) == f = [S \in SUBSET (1..n) |->
                            IF S = {} THEN p ELSE OnMessage(f[S \ {Max(S)}], s[Max(S)])]
           F == [q \in Page |-> [m \in Frame |-> OnMessage(q, m)]]
<1>1. F \in [Page -> [Frame -> Page]]
  BY OnMessageOne
<1>2. \E f : Def(f)
  <2>1. PICK f \in [SUBSET (1..n) -> Page] : IsTable(f, F, p, n, s)
    <3> HIDE DEF F
    <3> QED
      BY <1>1, FoldTable
  <2>2. \A S \in SUBSET (1..n) :
          /\ S # {} => Max(S) \in S
          /\ f[S] = IF S = {} THEN p ELSE F[f[S \ {Max(S)}]][s[Max(S)]]
    <3> HIDE DEF F
    <3> QED
      BY <2>1 DEF IsTable
  <2>3. ASSUME NEW S \in SUBSET (1..n), S # {}
        PROVE  F[f[S \ {Max(S)}]][s[Max(S)]] = OnMessage(f[S \ {Max(S)}], s[Max(S)])
    <3>1. Max(S) \in 1..n /\ S \ {Max(S)} \in SUBSET (1..n)
      BY <2>2, <2>3
    <3>2. f[S \ {Max(S)}] \in Page /\ s[Max(S)] \in Frame
      BY <3>1
    <3> QED
      BY <3>2
  <2>4. \A S \in SUBSET (1..n) :
          f[S] = IF S = {} THEN p ELSE OnMessage(f[S \ {Max(S)}], s[Max(S)])
    <3> HIDE DEF F
    <3> QED
      BY <2>2, <2>3
  <2>5. f = [S \in SUBSET (1..n) |-> f[S]]
    OBVIOUS
  <2>6. Def(f)
    BY <2>4, <2>5
  <2> QED
    BY <2>6
<1>3. PICK it : Def(it) /\ FoldLeft(OnMessage, p, s) = it[1..n]
  <2>1. Def(CHOOSE f : Def(f))
    <3> HIDE DEF Def
    <3> QED
      BY <1>2
  <2>2. FoldLeft(OnMessage, p, s) =
          (CHOOSE f : f = [S \in SUBSET (1..n) |->
             IF S = {} THEN p ELSE OnMessage(f[S \ {Max(S)}], s[Max(S)])])[1..n]
    BY Zenon DEF FoldLeft, MapThenFoldSet
  <2> QED
    BY <2>1, <2>2
<1> DEFINE g == [i \in 0..n |-> it[1..i]]
<1>4. g[0] = p /\ g[n] = it[1..n]
  <2>1. 1..0 = {} /\ 0 \in 0..n /\ n \in 0..n /\ {} \in SUBSET (1..n)
    OBVIOUS
  <2>2. it[{}] = p
    BY <1>3, <2>1
  <2> QED
    BY <2>1, <2>2
<1>5. ASSUME NEW i \in 1..n
      PROVE  g[i] = OnMessage(g[i - 1], s[i])
  <2>1. it[1..i] = OnMessage(it[(1..i) \ {Max(1..i)}], s[Max(1..i)])
    BY <1>3, FirstPlaces
  <2> QED
    BY <2>1, FirstPlaces
<1> QED
  BY <1>3, <1>4, <1>5

(* What a page that shows p comes to show after the frames s: what it has  *)
(* seen and what they bring, from the last history of them on.             *)
NoHistoryAfter(s, k) == \A l \in DOMAIN s : l > k => s[l].kind # "history"

Coming(p, s) ==
  {m \in p.seen : NoHistoryAfter(s, 0)} \cup
  UNION {IF NoHistoryAfter(s, k) THEN ToSet(s[k].body) ELSE {} : k \in DOMAIN s}

LEMMA FinalPage ==
  ASSUME NEW p \in Page, NEW s \in Seq(Frame), Consistent(p)
  PROVE  /\ FoldLeft(OnMessage, p, s) \in Page
         /\ Consistent(FoldLeft(OnMessage, p, s))
         /\ FoldLeft(OnMessage, p, s).seen = Coming(p, s)
<1>1. PICK n \in Nat : n = Len(s) /\ s \in [1..n -> Frame]
  OBVIOUS
<1>2. PICK g : /\ g[0] = p
               /\ \A i \in 1..n : g[i] = OnMessage(g[i - 1], s[i])
               /\ FoldLeft(OnMessage, p, s) = g[n]
  BY <1>1, FrameSteps
<1> DEFINE Keeps(k, i) == \A l \in 1..i : l > k => s[l].kind # "history"
           Seen(i, m) == \/ m \in p.seen /\ Keeps(0, i)
                         \/ \E k \in 1..i : m \in ToSet(s[k].body) /\ Keeps(k, i)
           Good(i) == /\ g[i] \in Page /\ Consistent(g[i])
                      /\ \A m : m \in g[i].seen <=> Seen(i, m)
           good == {i \in 0..n : Good(i)}
<1>3. Good(0)
  BY <1>2
<1>4. ASSUME NEW i \in 1..n, Good(i - 1)
      PROVE  Good(i)
  <2>1. g[i] = OnMessage(g[i - 1], s[i]) /\ s[i] \in Frame /\ g[i - 1] \in Page
    BY <1>1, <1>2, <1>4
  <2>2. /\ g[i] \in Page /\ Consistent(g[i])
        /\ g[i].seen = (IF s[i].kind = "history" THEN {} ELSE g[i - 1].seen) \cup ToSet(s[i].body)
    BY <1>4, <2>1, OnMessageOne
  <2>3. /\ i \in 1..i /\ i \in Nat
        /\ \A k \in 1..i : k = i \/ k \in 1..(i - 1)
        /\ \A k \in 1..(i - 1) : k \in 1..i /\ k < i
    OBVIOUS
  <2>4. Keeps(i, i)
    BY <2>3
  <2>5. CASE s[i].kind = "history"
    <3>1. ASSUME NEW k \in 0..(i - 1)
          PROVE  ~ Keeps(k, i)
      BY <2>3, <2>5
    <3>2. \A m : Seen(i, m) <=> m \in ToSet(s[i].body)
      BY <2>3, <2>4, <3>1
    <3> QED
      BY <2>2, <2>5, <3>2
  <2>6. CASE s[i].kind # "history"
    <3>1. ASSUME NEW k \in 0..(i - 1)
          PROVE  Keeps(k, i) <=> Keeps(k, i - 1)
      BY <2>3, <2>6
    <3>2. \A k \in 1..(i - 1) : k \in 0..(i - 1)
      OBVIOUS
    <3>3. \A m : Seen(i, m) <=> Seen(i - 1, m) \/ m \in ToSet(s[i].body)
      <4> HIDE DEF Keeps
      <4> QED
        BY <2>3, <2>4, <3>1, <3>2
    <3> QED
      BY <1>4, <2>2, <2>6, <3>3
  <2> QED
    BY <2>5, <2>6
<1>5. n \in good
  <2> HIDE DEF Good
  <2>1. 0 \in good /\ \A i \in 1..n : i - 1 \in good => i \in good
    BY <1>3, <1>4
  <2>2. n \in 0..n
    OBVIOUS
  <2> HIDE DEF good
  <2>3. 0..n \subseteq good
    BY <2>1, UpTo
  <2> QED
    BY <2>2, <2>3
<1>6. \A m : m \in Coming(p, s) <=> Seen(n, m)
  <2>1. DOMAIN s = 1..n
    BY <1>1
  <2> QED
    BY <2>1 DEF Coming, NoHistoryAfter
<1> QED
  BY <1>2, <1>5, <1>6

-----------------------------------------------------------------------------
(* The inductive invariant.                                                *)

(* The pairs of messages, the later first, that may be shown so. *)
Excuses == {x \in Message \X Message : {x[1], x[2]} \subseteq crowded \/ x[1] \in midway}

(* A message that is still to be told: what was appended since was handled *)
(* at the same time.                                                       *)
TellInv == \A t \in Task :
  /\ telling[t] <= last
  /\ telling[t] # Nothing =>
       \A m \in Message : telling[t] < m /\ m <= last => {telling[t], m} \subseteq crowded

(* The conversation is in order, but for the first slot while the oldest   *)
(* message is replaced.                                                    *)
RingInv ==
  /\ \A i \in DOMAIN conv : conv[i] <= last
  /\ \A i, j \in DOMAIN conv : i < j /\ (i > 1 \/ halfway = {}) => conv[i] < conv[j]
  /\ halfway # {} =>
       /\ \E t \in Task : halfway = {t} /\ telling[t] = last
       /\ conv # <<>> /\ conv[1] = last
       /\ \A j \in DOMAIN conv : j > 1 => conv[j] < last

(* What a history holds so far is in order, before what it still has to    *)
(* read, and what is there already unless the conversation moved meanwhile.*)
HistoryInv ==
  /\ Len(history) <= Len(conv)
  /\ building # Nobody => building \in clients
  /\ \A i \in DOMAIN history : history[i] <= last
  /\ \A i \in DOMAIN history : history[i] \notin midway =>
       /\ \A j \in DOMAIN history : i < j => history[i] < history[j]
       /\ \A j \in DOMAIN conv : i < j => history[i] < conv[j]
       /\ halfway # {} => history[i] # last
  /\ building # Nobody /\ building \notin disturbed =>
       out[building] = <<>> /\ \A i \in DOMAIN history : history[i] = conv[i]

(* A page and the frames on their way to it, as they will be shown: no     *)
(* live message comes too late but for the pairs X.                        *)
PageInv(p, X, n) == Consistent(p) /\ InOrder(p.shown, X) /\ \A m \in p.seen : m <= n

FramesInv(p, s, X, n) == \A k \in DOMAIN s :
  /\ \A i \in DOMAIN s[k].body : s[k].body[i] <= n
  /\ InOrder(s[k].body, X)
  /\ s[k].kind # "history" =>
       /\ Follows(s[k].body, p.seen, X)
       /\ \A l \in 1..(k - 1) : Follows(s[k].body, ToSet(s[l].body), X)

StreamInv(c) ==
  /\ c \notin clients => out[c] = <<>>
  /\ PageInv(page[c], Excuses, last)
  /\ FramesInv(page[c], out[c], Excuses, last)

(* What a page that was not disturbed may miss. *)
Owed(c) == {telling[t] : t \in Task} \cup untold \cup dropped[c]

CompleteInv == \A c \in clients \ (disturbed \cup {building}) : \A i \in DOMAIN conv :
  conv[i] \in Coming(page[c], out[c]) \cup Owed(c)

WebInv ==
  /\ TypeOK /\ TellInv /\ RingInv /\ HistoryInv /\ CompleteInv
  /\ \A c \in Client : StreamInv(c)

LEMMA WebInit == Init => WebInv
<1> SUFFICES ASSUME Init
             PROVE  WebInv
  OBVIOUS
<1>1. /\ <<>> \in Seq(Message) /\ <<>> \in Seq(Frame) /\ Len(<<>>) = 0 /\ DOMAIN <<>> = {}
      /\ Capacity \in Nat
  BY WebAssumption
<1>2. EmptyPage \in Page /\ Consistent(EmptyPage) /\ InOrder(EmptyPage.shown, Excuses)
  BY DEF EmptyPage, Page, Consistent, IsInjective, InOrder, ToSet
<1>3. TypeOK
  <2>1. listening \in BOOLEAN
    BY Zenon DEF Init
  <2>2. /\ conv \in Seq(Message) /\ Len(conv) <= Capacity
        /\ history \in Seq(Message) /\ Len(history) <= Capacity
        /\ out \in [Client -> Seq(Frame)] /\ page \in [Client -> Page]
    BY <1>1, <1>2 DEF Init
  <2> QED
    BY <2>1, <2>2 DEF Init, TypeOK
<1>4. TellInv /\ RingInv /\ HistoryInv /\ CompleteInv
  BY <1>1 DEF Init, TellInv, RingInv, HistoryInv, CompleteInv, Nothing
<1>5. \A c \in Client : StreamInv(c)
  BY <1>1, <1>2 DEF Init, StreamInv, PageInv, FramesInv, EmptyPage
<1> QED
  BY <1>3, <1>4, <1>5 DEF WebInv

(* What a sequence is with one more at its end. *)
LEMMA Longer ==
  ASSUME NEW T, NEW s \in Seq(T), NEW x \in T
  PROVE  /\ Append(s, x) \in Seq(T) /\ Len(s) \in Nat
         /\ Len(Append(s, x)) = Len(s) + 1 /\ Append(s, x)[Len(s) + 1] = x
         /\ DOMAIN s = 1..Len(s) /\ DOMAIN Append(s, x) = 1..(Len(s) + 1)
         /\ \A i \in 1..Len(s) : Append(s, x)[i] = s[i]
  OBVIOUS

(* The conversation with a message at the end, or in the oldest slot. *)
LEMMA PlacedIs ==
  ASSUME conv \in Seq(Message), Len(conv) <= Capacity, NEW m \in Message
  PROVE  /\ Placed(m) \in Seq(Message) /\ Len(Placed(m)) <= Capacity
         /\ DOMAIN conv = 1..Len(conv) /\ DOMAIN Placed(m) = 1..Len(Placed(m))
         /\ Len(conv) < Capacity =>
              /\ Len(Placed(m)) = Len(conv) + 1 /\ Placed(m)[Len(conv) + 1] = m
              /\ \A i \in 1..Len(conv) : Placed(m)[i] = conv[i]
         /\ ~(Len(conv) < Capacity) =>
              /\ Len(Placed(m)) = Len(conv) /\ Len(conv) > 0 /\ Placed(m)[1] = m
              /\ \A i \in 1..Len(conv) : i > 1 => Placed(m)[i] = conv[i]
<1>1. PICK n \in Nat : n = Len(conv) /\ DOMAIN conv = 1..n
  OBVIOUS
<1>2. Capacity \in Nat \ {0}
  BY WebAssumption
<1>3. CASE n < Capacity
  <2>1. Placed(m) = Append(conv, m)
    BY <1>1, <1>3 DEF Placed
  <2> QED
    BY <1>1, <1>2, <1>3, <2>1, Longer
<1>4. CASE ~(n < Capacity)
  <2>1. Placed(m) = [conv EXCEPT ![1] = m]
    BY <1>1, <1>4 DEF Placed
  <2>2. n = Capacity /\ 1 \in 1..n
    BY <1>1, <1>2, <1>4
  <2>3. /\ [conv EXCEPT ![1] = m] \in Seq(Message)
        /\ Len([conv EXCEPT ![1] = m]) = n
    BY <1>1, <2>2, ExceptSeq
  <2>4. DOMAIN [conv EXCEPT ![1] = m] = 1..n
    BY <1>1
  <2> QED
    BY <1>1, <1>2, <1>4, <2>1, <2>2, <2>3, <2>4
<1> QED
  BY <1>3, <1>4

(* The conversation with its first message moved to the end. *)
LEMMA RotatedIs ==
  ASSUME NEW T, NEW s \in Seq(T), s # <<>>
  PROVE  /\ Append(Tail(s), Head(s)) \in Seq(T)
         /\ Len(Append(Tail(s), Head(s))) = Len(s) /\ Len(s) \in Nat \ {0}
         /\ DOMAIN s = 1..Len(s) /\ DOMAIN Append(Tail(s), Head(s)) = 1..Len(s)
         /\ \A i \in 1..(Len(s) - 1) : Append(Tail(s), Head(s))[i] = s[i + 1]
         /\ Append(Tail(s), Head(s))[Len(s)] = s[1]
<1>1. /\ Tail(s) \in Seq(T) /\ Head(s) \in T /\ Head(s) = s[1] /\ Len(Tail(s)) = Len(s) - 1
      /\ Len(s) \in Nat \ {0} /\ DOMAIN s = 1..Len(s)
      /\ \A i \in 1..(Len(s) - 1) : Tail(s)[i] = s[i + 1]
  OBVIOUS
<1>2. Len(s) - 1 + 1 = Len(s)
  BY <1>1
<1> QED
  BY <1>1, <1>2, Longer

(* What is on the way to the clients once a message was told. *)
LEMMA TextAllIs ==
  ASSUME out \in [Client -> Seq(Frame)], NEW f \in Frame, TextAll(f), NEW c \in Client
  PROVE  /\ out'[c] \in Seq(Frame)
         /\ HasRoom(c) => out'[c] = Append(out[c], f)
         /\ ~ HasRoom(c) => out'[c] = out[c]
<1>1. out'[c] = IF HasRoom(c) THEN Append(out[c], f) ELSE out[c]
  BY DEF TextAll
<1> QED
  BY <1>1, Longer

LEMMA TypeStep ==
  ASSUME WebInv, [Next]_vars
  PROVE  TypeOK'
<1> USE DEF chat, web
<1>0. TypeOK /\ Capacity \in Nat \ {0}
  BY WebAssumption DEF WebInv
<1>1. ASSUME NEW t \in Task, AppendMessage(t)
      PROVE  TypeOK'
  <2>1. PICK m \in Message : m = last + 1
    BY <1>1 DEF AppendMessage
  <2>2. conv' \in Seq(Message) /\ Len(conv') <= Capacity
    BY <1>0, <1>1, <2>1, PlacedIs DEF AppendMessage, TypeOK
  <2>3. crowded' \subseteq Message
    <3>1. \A u \in Busy : telling[u] \in Message
      BY <1>0 DEF TypeOK, Busy
    <3> QED
      BY <1>0, <1>1, <2>1, <3>1 DEF AppendMessage, TypeOK
  <2>4. halfway' \subseteq Task /\ disturbed' \subseteq Client
    BY <1>0, <1>1 DEF AppendMessage, Disturb, TypeOK
  <2>5. telling' \in [Task -> Message \cup {Nothing}] /\ last' \in Nat
    BY <1>0, <1>1, <2>1 DEF AppendMessage, TypeOK
  <2> QED
    BY <1>0, <1>1, <2>2, <2>3, <2>4, <2>5 DEF AppendMessage, TypeOK
<1>2. ASSUME NEW t \in Task, MoveHead(t)
      PROVE  TypeOK'
  <2>1. conv # <<>>
    BY <1>2 DEF MoveHead, WebInv, RingInv
  <2>2. conv' \in Seq(Message) /\ Len(conv') <= Capacity
    BY <1>0, <1>2, <2>1, RotatedIs DEF MoveHead, TypeOK
  <2>3. halfway' \subseteq Task /\ disturbed' \subseteq Client
    BY <1>0, <1>2 DEF MoveHead, Disturb, TypeOK
  <2> QED
    BY <1>0, <1>2, <2>2, <2>3 DEF MoveHead, TypeOK
<1>3. ASSUME NEW t \in Task, Tell(t)
      PROVE  TypeOK'
  <2>1. PICK m \in Message : m = telling[t]
    BY <1>0, <1>3 DEF Tell, TypeOK
  <2>2. [kind |-> "message", body |-> <<m>>] \in Frame
    BY DEF Frame
  <2>3. out' \in [Client -> Seq(Frame)]
    <3>1. \A c \in Client : out'[c] \in Seq(Frame)
      BY <1>0, <1>3, <2>1, <2>2, TextAllIs DEF Tell, TypeOK
    <3>2. out' = [c \in Client |-> out'[c]]
      BY <1>3 DEF Tell, TextAll
    <3> QED
      BY <3>1, <3>2
  <2>4. dropped' \in [Client -> SUBSET Message]
    BY <1>0, <1>3, <2>1 DEF Tell, TypeOK
  <2>5. telling' \in [Task -> Message \cup {Nothing}] /\ disturbed' \subseteq Client
    BY <1>0, <1>3 DEF Tell, Disturb, TypeOK
  <2> QED
    BY <1>0, <1>3, <2>3, <2>4, <2>5 DEF Tell, TypeOK
<1>4. ASSUME NEW t \in Task, TellNobody(t)
      PROVE  TypeOK'
  BY <1>0, <1>4 DEF TellNobody, TypeOK
<1>5. CASE SetMessageListener
  <2>1. listening' \in BOOLEAN
    BY <1>5, Zenon DEF SetMessageListener
  <2> QED
    BY <1>0, <1>5, <2>1 DEF SetMessageListener, TypeOK
<1>6. ASSUME NEW c \in Client, Connect(c)
      PROVE  TypeOK'
  <2>1. history' \in Seq(Message) /\ Len(history') <= Capacity
    BY <1>0, <1>6 DEF Connect
  <2> QED
    BY <1>0, <1>6, <2>1 DEF Connect, TypeOK
<1>7. CASE ReadHistory
  <2>1. PICK n \in Nat : n = Len(history) /\ n < Len(conv) /\ Len(conv) \in Nat
    BY <1>0, <1>7 DEF ReadHistory, TypeOK
  <2>2. conv[n + 1] \in Message
    BY <1>0, <2>1 DEF TypeOK
  <2>3. history' \in Seq(Message) /\ Len(history') <= Capacity
    BY <1>0, <1>7, <2>1, <2>2, Longer DEF ReadHistory, TypeOK
  <2>4. midway' \subseteq Message
    <3>1. \A t \in halfway : telling[t] \in Message
      <4>1. \A t \in halfway : telling[t] = conv[1] /\ conv # <<>>
        BY DEF WebInv, RingInv
      <4>2. conv # <<>> => conv[1] \in Message
        BY <1>0 DEF TypeOK
      <4> QED
        BY <4>1, <4>2
    <3> QED
      BY <1>0, <1>7, <3>1 DEF ReadHistory, TypeOK
  <2> QED
    BY <1>0, <1>7, <2>3, <2>4 DEF ReadHistory, TypeOK
<1>8. CASE SendHistory
  <2>1. [kind |-> "history", body |-> history] \in Frame
    BY <1>0 DEF Frame, TypeOK
  <2>2. building \in Client
    BY <1>0, <1>8 DEF SendHistory, TypeOK
  <2>3. out' \in [Client -> Seq(Frame)]
    <3>1. Append(out[building], [kind |-> "history", body |-> history]) \in Seq(Frame)
      BY <1>0, <2>1, <2>2, Longer DEF TypeOK
    <3> QED
      BY <1>0, <1>8, <2>2, <3>1 DEF SendHistory, TypeOK
  <2>4. history' \in Seq(Message) /\ Len(history') <= Capacity
    BY <1>0, <1>8 DEF SendHistory
  <2> QED
    BY <1>0, <1>8, <2>3, <2>4 DEF SendHistory, TypeOK
<1>9. ASSUME NEW c \in Client, Deliver(c)
      PROVE  TypeOK'
  <2>1. Head(out[c]) \in Frame /\ Tail(out[c]) \in Seq(Frame)
    BY <1>0, <1>9 DEF Deliver, TypeOK
  <2>2. OnMessage(page[c], Head(out[c])) \in Page
    BY <1>0, <2>1, OnMessageOne DEF TypeOK
  <2> QED
    BY <1>0, <1>9, <2>1, <2>2 DEF Deliver, TypeOK
<1>10. ASSUME NEW c \in Client, Disconnect(c)
       PROVE  TypeOK'
  BY <1>0, <1>10 DEF Disconnect, TypeOK
<1>11. CASE UNCHANGED vars
  BY <1>0, <1>11 DEF vars, TypeOK
<1> QED
  BY <1>1, <1>2, <1>3, <1>4, <1>5, <1>6, <1>7, <1>8, <1>9, <1>10, <1>11
  DEF Next, OnInbound

LEMMA TellStep ==
  ASSUME WebInv, [Next]_vars
  PROVE  TellInv'
<1> USE DEF chat, web
<1>0. /\ TellInv /\ last \in Nat /\ telling \in [Task -> Message \cup {Nothing}]
      /\ Message \subseteq Nat /\ Nothing \in Nat
  BY DEF WebInv, TypeOK, Message, Nothing
<1>1. ASSUME NEW t \in Task, AppendMessage(t)
      PROVE  TellInv'
  <2>1. PICK m \in Message : m = last + 1
    BY <1>1 DEF AppendMessage
  <2>2. /\ last' = m /\ telling'[t] = m
        /\ \A u \in Task : u # t => telling'[u] = telling[u]
    BY <1>0, <1>1, <2>1 DEF AppendMessage
  <2>3. crowded \subseteq crowded'
    BY <1>1 DEF AppendMessage
  <2>4. ASSUME NEW u \in Task, telling[u] # Nothing
        PROVE  {telling[u], m} \subseteq crowded'
    <3>1. u \in Busy
      BY <2>4 DEF Busy
    <3> QED
      BY <1>1, <2>1, <3>1 DEF AppendMessage
  <2>5. ASSUME NEW u \in Task
        PROVE  /\ telling'[u] <= last'
               /\ telling'[u] # Nothing =>
                    \A x \in Message :
                      telling'[u] < x /\ x <= last' => {telling'[u], x} \subseteq crowded'
    <3>1. CASE u = t
      BY <1>0, <2>2, <3>1
    <3>2. CASE u # t
      <4>1. telling'[u] = telling[u] /\ telling[u] <= last /\ telling[u] \in Nat
        BY <1>0, <2>2, <3>2 DEF TellInv
      <4>2. ASSUME telling[u] # Nothing, NEW x \in Message, telling[u] < x, x <= last'
            PROVE  {telling[u], x} \subseteq crowded'
        <5>1. CASE x = m
          BY <2>4, <4>2, <5>1
        <5>2. CASE x # m
          <6>1. x <= last
            BY <1>0, <2>1, <2>2, <4>2, <5>2
          <6> QED
            BY <1>0, <2>3, <4>2, <6>1 DEF TellInv
        <5> QED
          BY <5>1, <5>2
      <4> QED
        BY <1>0, <2>1, <2>2, <4>1, <4>2
    <3> QED
      BY <3>1, <3>2
  <2> QED
    BY <2>5 DEF TellInv
<1>2. ASSUME NEW t \in Task, Tell(t) \/ TellNobody(t)
      PROVE  TellInv'
  <2>1. last' = last /\ crowded' = crowded /\ telling' = [telling EXCEPT ![t] = Nothing]
    BY <1>2 DEF Tell, TellNobody
  <2>2. \A u \in Task : telling'[u] = telling[u] \/ telling'[u] = Nothing
    BY <1>0, <2>1
  <2>3. Nothing <= last
    BY <1>0 DEF Nothing
  <2> QED
    BY <1>0, <2>1, <2>2, <2>3 DEF TellInv
<1>3. CASE UNCHANGED <<telling, last, crowded>>
  BY <1>0, <1>3 DEF TellInv
<1>4. ASSUME ~ UNCHANGED <<telling, last, crowded>>
      PROVE  \E t \in Task : AppendMessage(t) \/ Tell(t) \/ TellNobody(t)
  BY <1>4 DEF Next, OnInbound, MoveHead, SetMessageListener, Connect, ReadHistory,
    SendHistory, Deliver, Disconnect, vars
<1> QED
  BY <1>1, <1>2, <1>3, <1>4

LEMMA RingStep ==
  ASSUME WebInv, [Next]_vars
  PROVE  RingInv'
<1> USE DEF chat, web
<1>0. /\ RingInv /\ last \in Nat /\ telling \in [Task -> Message \cup {Nothing}]
      /\ conv \in Seq(Message) /\ Len(conv) <= Capacity /\ Message \subseteq Nat
      /\ Capacity \in Nat
  BY WebAssumption DEF WebInv, TypeOK, Message
<1>1. PICK n \in Nat : n = Len(conv) /\ DOMAIN conv = 1..n
  BY <1>0
<1>2. \A i \in 1..n : conv[i] \in Nat /\ conv[i] <= last
  <2>1. \A i \in 1..n : conv[i] \in Message
    BY <1>0, <1>1
  <2> QED
    BY <1>0, <1>1, <2>1 DEF RingInv
<1>3. ASSUME NEW t \in Task, AppendMessage(t)
      PROVE  RingInv'
  <2>1. PICK m \in Message : m = last + 1 /\ last' = m
    BY <1>3 DEF AppendMessage
  <2>2. halfway = {} /\ telling'[t] = m
    BY <1>0, <1>3, <2>1 DEF AppendMessage
  <2>3. \A i \in 1..n : conv[i] < m
    BY <1>0, <1>2, <2>1
  <2>4. \A i, j \in 1..n : i < j => conv[i] < conv[j]
    BY <1>0, <1>1, <2>2 DEF RingInv
  <2>5. CASE n < Capacity
    <3>1. halfway' = {}
      BY <1>1, <1>3, <2>5 DEF AppendMessage
    <3>2. /\ DOMAIN conv' = 1..(n + 1) /\ conv'[n + 1] = m
          /\ \A i \in 1..n : conv'[i] = conv[i]
      BY <1>0, <1>1, <1>3, <2>1, <2>5, PlacedIs DEF AppendMessage
    <3>3. \A i \in 1..(n + 1) : i = n + 1 \/ i \in 1..n
      OBVIOUS
    <3>4. \A i \in 1..(n + 1) : conv'[i] <= last'
      BY <1>0, <2>1, <2>3, <1>2, <3>2, <3>3
    <3>5. ASSUME NEW i \in 1..(n + 1), NEW j \in 1..(n + 1), i < j
          PROVE  conv'[i] < conv'[j]
      <4>1. i \in 1..n
        BY <3>5
      <4> QED
        BY <2>3, <2>4, <3>2, <3>3, <3>5, <4>1
    <3> QED
      BY <3>1, <3>2, <3>4, <3>5 DEF RingInv
  <2>6. CASE ~(n < Capacity)
    <3>1. halfway' = {t}
      BY <1>1, <1>3, <2>6 DEF AppendMessage
    <3>2. /\ DOMAIN conv' = 1..n /\ n > 0 /\ conv'[1] = m
          /\ \A i \in 1..n : i > 1 => conv'[i] = conv[i]
      BY <1>0, <1>1, <1>3, <2>1, <2>6, PlacedIs DEF AppendMessage
    <3>3. \A i \in 1..n : conv'[i] <= last'
      <4>1. \A i \in 1..n : i = 1 \/ i > 1
        OBVIOUS
      <4>2. m <= last'
        BY <1>0, <2>1
      <4> QED
        BY <1>0, <1>2, <2>1, <2>3, <3>2, <4>1, <4>2
    <3>4. \A i, j \in 1..n : i < j /\ i > 1 => conv'[i] < conv'[j]
      BY <2>4, <3>2
    <3>5. conv' # <<>>
      BY <3>2
    <3> QED
      BY <2>1, <2>2, <2>3, <3>1, <3>2, <3>3, <3>4, <3>5 DEF RingInv
  <2> QED
    BY <2>5, <2>6
<1>4. ASSUME NEW t \in Task, MoveHead(t)
      PROVE  RingInv'
  <2>1. halfway # {} /\ halfway' = {} /\ last' = last
    BY <1>4 DEF MoveHead
  <2>2. conv # <<>> /\ conv[1] = last /\ \A j \in 1..n : j > 1 => conv[j] < last
    BY <1>0, <1>1, <2>1 DEF RingInv
  <2>3. /\ DOMAIN conv' = 1..n /\ n > 0 /\ conv'[n] = last
        /\ \A i \in 1..(n - 1) : conv'[i] = conv[i + 1]
    BY <1>0, <1>1, <1>4, <2>2, RotatedIs DEF MoveHead
  <2>4. /\ \A i \in 1..n : i = n \/ i \in 1..(n - 1)
        /\ \A i \in 1..(n - 1) : i + 1 \in 1..n /\ i + 1 > 1
    OBVIOUS
  <2>5. \A i \in 1..n : conv'[i] <= last'
    BY <1>0, <1>2, <2>1, <2>3, <2>4
  <2>6. ASSUME NEW i \in 1..n, NEW j \in 1..n, i < j
        PROVE  conv'[i] < conv'[j]
    <3>1. i \in 1..(n - 1)
      BY <2>6
    <3>2. CASE j = n
      BY <2>2, <2>3, <2>4, <3>1, <3>2
    <3>3. CASE j # n
      <4>1. j \in 1..(n - 1) /\ i + 1 < j + 1
        BY <2>4, <2>6, <3>3
      <4>2. conv[i + 1] < conv[j + 1]
        BY <1>0, <1>1, <2>4, <3>1, <4>1 DEF RingInv
      <4> QED
        BY <2>3, <3>1, <4>1, <4>2
    <3> QED
      BY <3>2, <3>3
  <2> QED
    BY <2>1, <2>3, <2>5, <2>6 DEF RingInv
<1>5. ASSUME NEW t \in Task, Tell(t) \/ TellNobody(t)
      PROVE  RingInv'
  <2>1. /\ last' = last /\ conv' = conv /\ halfway' = halfway /\ t \notin halfway
        /\ telling' = [telling EXCEPT ![t] = Nothing]
    BY <1>5 DEF Tell, TellNobody
  <2>2. \A u \in Task : u # t => telling'[u] = telling[u]
    BY <1>0, <2>1
  <2>3. ASSUME NEW u \in Task, halfway = {u}, telling[u] = last
        PROVE  telling'[u] = last'
    <3>1. u # t
      BY <2>1, <2>3
    <3> QED
      BY <2>1, <2>2, <2>3, <3>1
  <2> QED
    BY <1>0, <2>1, <2>3 DEF RingInv
<1>6. CASE UNCHANGED <<conv, halfway, telling, last>>
  BY <1>0, <1>6 DEF RingInv
<1>7. ASSUME ~ UNCHANGED <<conv, halfway, telling, last>>
      PROVE  \E t \in Task : AppendMessage(t) \/ MoveHead(t) \/ Tell(t) \/ TellNobody(t)
  BY <1>7 DEF Next, OnInbound, SetMessageListener, Connect, ReadHistory,
    SendHistory, Deliver, Disconnect, vars
<1> QED
  BY <1>3, <1>4, <1>5, <1>6, <1>7

(* How long the conversation is and what its places hold after a step. *)
LEMMA ConvStep ==
  ASSUME WebInv, [Next]_vars
  PROVE  /\ Len(conv) \in Nat /\ Len(conv') \in Nat /\ Len(conv) <= Len(conv')
         /\ DOMAIN conv = 1..Len(conv) /\ DOMAIN conv' = 1..Len(conv')
         /\ last \in Nat /\ last' \in Nat /\ last <= last'
         /\ crowded \subseteq crowded' /\ midway \subseteq midway'
<1> USE DEF chat, web
<1>0. conv \in Seq(Message) /\ Len(conv) <= Capacity /\ last \in Nat
  BY DEF WebInv, TypeOK
<1>1. conv' \in Seq(Message) /\ last' \in Nat
  BY TypeStep DEF TypeOK
<1>2. ASSUME NEW t \in Task, AppendMessage(t)
      PROVE  Len(conv) <= Len(conv') /\ last <= last' /\ crowded \subseteq crowded'
  <2>1. PICK m \in Message : m = last + 1 /\ last' = m /\ conv' = Placed(m)
    BY <1>2 DEF AppendMessage
  <2>2. Len(conv) \in Nat
    BY <1>0
  <2>3. Len(conv) <= Len(conv')
    BY <1>0, <2>1, <2>2, PlacedIs
  <2> QED
    BY <1>0, <1>2, <2>1, <2>3 DEF AppendMessage
<1>3. ASSUME NEW t \in Task, MoveHead(t)
      PROVE  Len(conv) <= Len(conv')
  <2>1. conv # <<>> /\ conv' = Append(Tail(conv), Head(conv))
    BY <1>3 DEF MoveHead, WebInv, RingInv
  <2>2. Len(conv') = Len(conv)
    BY <1>0, <2>1, RotatedIs
  <2> QED
    BY <1>0, <2>2
<1>4. ASSUME ~ UNCHANGED <<conv, last, crowded>>
      PROVE  \E t \in Task : \/ AppendMessage(t)
                             \/ MoveHead(t) /\ UNCHANGED <<last, crowded>>
  BY <1>4 DEF Next, OnInbound, MoveHead, Tell, TellNobody, SetMessageListener, Connect,
    ReadHistory, SendHistory, Deliver, Disconnect, vars
<1>5. midway \subseteq midway'
  BY DEF Next, OnInbound, AppendMessage, MoveHead, Tell, TellNobody, SetMessageListener,
    Connect, ReadHistory, SendHistory, Deliver, Disconnect, vars
<1>6. Len(conv) <= Len(conv') /\ last <= last' /\ crowded \subseteq crowded'
  <2>1. CASE UNCHANGED <<conv, last, crowded>>
    BY <1>0, <2>1
  <2>2. CASE ~ UNCHANGED <<conv, last, crowded>>
    BY <1>0, <1>2, <1>3, <1>4, <2>2
  <2> QED
    BY <2>1, <2>2
<1> QED
  BY <1>0, <1>1, <1>5, <1>6

LEMMA HistoryStep ==
  ASSUME WebInv, [Next]_vars
  PROVE  HistoryInv'
<1> USE DEF chat, web
<1>0. /\ HistoryInv /\ RingInv /\ last \in Nat /\ last' \in Nat /\ last <= last'
      /\ conv \in Seq(Message) /\ Len(conv) <= Capacity /\ history \in Seq(Message)
      /\ Message \subseteq Nat /\ Capacity \in Nat /\ Nobody \notin Client
      /\ building \in Client \cup {Nobody}
  BY WebAssumption, ConvStep DEF WebInv, TypeOK, Message
<1>1. PICK n \in Nat : n = Len(conv) /\ DOMAIN conv = 1..n
  BY <1>0
<1>2. PICK h \in Nat : h = Len(history) /\ DOMAIN history = 1..h /\ h <= n
  BY <1>0, <1>1 DEF HistoryInv
<1>3. \A i \in 1..n : conv[i] \in Nat /\ conv[i] <= last
  <2>1. \A i \in 1..n : conv[i] \in Message
    BY <1>0, <1>1
  <2> QED
    BY <1>0, <1>1, <2>1 DEF RingInv
<1>4. \A i \in 1..h : history[i] \in Nat /\ history[i] <= last /\ history[i] <= last'
  <2>1. \A i \in 1..h : history[i] \in Message
    BY <1>0, <1>2
  <2>2. \A i \in 1..h : history[i] <= last
    BY <1>0, <1>2 DEF HistoryInv
  <2>3. last \in Nat /\ last' \in Nat /\ last <= last' /\ Message \subseteq Nat
    BY <1>0
  <2>4. ASSUME NEW i \in 1..h
        PROVE  history[i] \in Nat /\ history[i] <= last /\ history[i] <= last'
    <3>1. history[i] \in Nat /\ history[i] <= last
      BY <2>1, <2>2, <2>3
    <3> QED
      BY <2>3, <3>1
  <2> QED
    BY <2>4
<1>5. ASSUME NEW t \in Task, AppendMessage(t)
      PROVE  HistoryInv'
  <2>1. PICK m \in Message : m = last + 1 /\ last' = m /\ conv' = Placed(m)
    BY <1>5 DEF AppendMessage
  <2>2. UNCHANGED <<history, building, clients, midway>> /\ (building # Nobody => building \in disturbed')
    BY <1>5 DEF AppendMessage, Disturb
  <2>3. \A i \in 1..h : history[i] < m
    BY <1>0, <1>4, <2>1
  <2>4. ASSUME NEW i \in 1..h, history[i] \notin midway, NEW j \in DOMAIN conv', i < j
        PROVE  history[i] < conv'[j]
    <3>1. CASE n < Capacity
      <4>1. /\ DOMAIN conv' = 1..(n + 1) /\ conv'[n + 1] = m
            /\ \A k \in 1..n : conv'[k] = conv[k]
        BY <1>0, <1>1, <2>1, <3>1, PlacedIs
      <4>2. j = n + 1 \/ j \in 1..n
        BY <4>1
      <4>3. CASE j = n + 1
        BY <2>3, <4>1, <4>3
      <4>4. CASE j \in 1..n
        BY <1>0, <1>1, <1>2, <2>4, <4>1, <4>4 DEF HistoryInv
      <4> QED
        BY <4>2, <4>3, <4>4
    <3>2. CASE ~(n < Capacity)
      <4>1. DOMAIN conv' = 1..n /\ \A k \in 1..n : k > 1 => conv'[k] = conv[k]
        BY <1>0, <1>1, <2>1, <3>2, PlacedIs
      <4>2. j \in 1..n /\ j > 1
        BY <2>4, <4>1
      <4> QED
        BY <1>0, <1>1, <1>2, <2>4, <4>1, <4>2 DEF HistoryInv
    <3> QED
      BY <3>1, <3>2
  <2>5. Len(history) <= Len(conv')
    BY <1>0, <1>1, <1>2, ConvStep
  <2>6. \A i \in 1..h : history[i] # last'
    BY <1>4, <2>1, <2>3
  <2> QED
    BY <1>0, <1>2, <1>4, <2>2, <2>4, <2>5, <2>6 DEF HistoryInv
<1>6. ASSUME NEW t \in Task, MoveHead(t)
      PROVE  HistoryInv'
  <2>1. /\ UNCHANGED <<history, building, clients, midway, last>>
        /\ halfway # {} /\ halfway' = {} /\ (building # Nobody => building \in disturbed')
    BY <1>6 DEF MoveHead, Disturb
  <2>2. conv # <<>> /\ conv[1] = last
    BY <1>0, <2>1 DEF RingInv
  <2>3. /\ DOMAIN conv' = 1..n /\ n > 0 /\ conv'[n] = last /\ Len(conv') = n
        /\ \A i \in 1..(n - 1) : conv'[i] = conv[i + 1]
    BY <1>0, <1>1, <1>6, <2>2, RotatedIs DEF MoveHead
  <2>4. ASSUME NEW i \in 1..h, history[i] \notin midway, NEW j \in 1..n, i < j
        PROVE  history[i] < conv'[j]
    <3>1. CASE j = n
      <4>1. history[i] # last
        BY <1>0, <1>2, <2>1, <2>4 DEF HistoryInv
      <4> QED
        BY <1>0, <1>4, <2>3, <3>1, <4>1
    <3>2. CASE j # n
      <4>1. j \in 1..(n - 1) /\ j + 1 \in 1..n /\ i < j + 1
        BY <2>4, <3>2
      <4> QED
        BY <1>0, <1>1, <1>2, <2>3, <2>4, <4>1 DEF HistoryInv
    <3> QED
      BY <3>1, <3>2
  <2> QED
    BY <1>0, <1>1, <1>2, <1>4, <2>1, <2>3, <2>4 DEF HistoryInv
<1>7. ASSUME NEW t \in Task, Tell(t)
      PROVE  HistoryInv'
  <2>1. /\ UNCHANGED <<conv, halfway, last, history, building, clients, midway>>
        /\ building # Nobody => building \in disturbed'
    BY <1>7 DEF Tell, Disturb
  <2> QED
    BY <1>0, <2>1 DEF HistoryInv
<1>8. ASSUME NEW c \in Client, Connect(c)
      PROVE  HistoryInv'
  <2>1. /\ UNCHANGED <<conv, last, midway, out>>
        /\ history' = <<>> /\ building' = c /\ c \in clients'
        /\ c \notin clients
    BY <1>8 DEF Connect
  <2>2. out[c] = <<>>
    BY <2>1 DEF WebInv, StreamInv
  <2>3. Len(<<>>) = 0 /\ DOMAIN <<>> = {}
    OBVIOUS
  <2> QED
    BY <1>1, <2>1, <2>2, <2>3 DEF HistoryInv
<1>9. CASE ReadHistory
  <2>1. /\ UNCHANGED <<conv, last, halfway, building, clients, disturbed, out>>
        /\ h < n /\ history' = Append(history, conv[h + 1])
        /\ midway' = midway \cup {telling[t] : t \in halfway}
    BY <1>1, <1>2, <1>9 DEF ReadHistory
  <2>2. conv[h + 1] \in Message /\ h + 1 \in 1..n
    BY <1>0, <1>1, <2>1
  <2>3. /\ DOMAIN history' = 1..(h + 1) /\ history'[h + 1] = conv[h + 1]
        /\ Len(history') = h + 1
        /\ \A i \in 1..h : history'[i] = history[i]
    BY <1>0, <1>2, <2>1, <2>2, Longer
  <2>4. \A i \in 1..(h + 1) : i = h + 1 \/ i \in 1..h
    OBVIOUS
  <2>5. halfway # {} => last \in midway' /\ conv[1] = last
    BY <1>0, <2>1 DEF RingInv
  <2>6. midway \subseteq midway'
    BY <2>1
  <2>7. ASSUME NEW i \in 1..(h + 1), history'[i] \notin midway'
        PROVE  /\ \A j \in 1..(h + 1) : i < j => history'[i] < history'[j]
               /\ \A j \in 1..n : i < j => history'[i] < conv[j]
               /\ halfway # {} => history'[i] # last
    <3>1. CASE i = h + 1
      <4>1. halfway = {} \/ i > 1
        BY <2>3, <2>5, <2>7, <3>1
      <4>2. \A j \in 1..n : i < j => conv[i] < conv[j]
        BY <1>0, <1>1, <2>2, <3>1, <4>1 DEF RingInv
      <4> QED
        BY <2>3, <2>5, <2>7, <3>1, <4>2
    <3>2. CASE i \in 1..h
      <4>1. history'[i] = history[i] /\ history[i] \notin midway
        BY <2>3, <2>6, <2>7, <3>2
      <4>2. /\ \A j \in 1..h : i < j => history[i] < history[j]
            /\ \A j \in 1..n : i < j => history[i] < conv[j]
            /\ halfway # {} => history[i] # last
        BY <1>0, <1>1, <1>2, <3>2, <4>1 DEF HistoryInv
      <4>3. history[i] < conv[h + 1]
        BY <2>2, <3>2, <4>2
      <4> QED
        BY <2>3, <2>4, <4>1, <4>2, <4>3
    <3> QED
      BY <2>4, <3>1, <3>2
  <2>8. \A i \in 1..(h + 1) : history'[i] <= last
    BY <1>3, <1>4, <2>2, <2>3, <2>4
  <2>9. building # Nobody /\ building \notin disturbed =>
          out[building] = <<>> /\ \A i \in 1..(h + 1) : history'[i] = conv[i]
    BY <1>0, <1>2, <2>3, <2>4 DEF HistoryInv
  <2>10. /\ Len(history') <= Len(conv')
         /\ building' # Nobody => building' \in clients'
    BY <1>0, <1>1, <2>1, <2>3 DEF HistoryInv
  <2> QED
    BY <1>1, <2>1, <2>3, <2>7, <2>8, <2>9, <2>10 DEF HistoryInv
<1>10. CASE SendHistory
  <2>1. history' = <<>> /\ building' = Nobody /\ conv' = conv
    BY <1>10 DEF SendHistory
  <2>2. Len(<<>>) = 0 /\ DOMAIN <<>> = {}
    OBVIOUS
  <2> QED
    BY <1>1, <2>1, <2>2 DEF HistoryInv
<1>11. ASSUME NEW c \in Client, Deliver(c)
       PROVE  HistoryInv'
  <2>1. /\ UNCHANGED <<conv, last, halfway, history, building, clients, midway, disturbed>>
        /\ out[c] # <<>> /\ out' = [out EXCEPT ![c] = Tail(@)]
    BY <1>11 DEF Deliver
  <2>2. out \in [Client -> Seq(Frame)]
    BY DEF WebInv, TypeOK
  <2>3. building # Nobody /\ building \notin disturbed => out'[building] = out[building]
    BY <1>0, <2>1, <2>2 DEF HistoryInv
  <2> QED
    BY <1>0, <2>1, <2>3 DEF HistoryInv
<1>12. ASSUME NEW c \in Client, Disconnect(c)
       PROVE  HistoryInv'
  <2>1. /\ UNCHANGED <<conv, last, halfway, history, building, midway, disturbed>>
        /\ building = Nobody
    BY <1>12 DEF Disconnect, Free
  <2> QED
    BY <1>0, <2>1 DEF HistoryInv
<1>13. CASE UNCHANGED <<conv, last, halfway, history, building, clients, midway, disturbed, out>>
  BY <1>0, <1>13 DEF HistoryInv
<1>14. CASE SetMessageListener \/ (\E t \in Task : TellNobody(t)) \/ UNCHANGED vars
  BY <1>13, <1>14 DEF SetMessageListener, TellNobody, vars
<1> QED
  BY <1>5, <1>6, <1>7, <1>8, <1>9, <1>10, <1>11, <1>12, <1>14 DEF Next, OnInbound

-----------------------------------------------------------------------------
(* The frames on the way to a page.                                        *)

(* What comes to be shown is the same before and after a frame arrives. *)
LEMMA ComingDelivered ==
  ASSUME NEW p \in Page, NEW s \in Seq(Frame), s # <<>>
  PROVE  Coming(OnMessage(p, Head(s)), Tail(s)) = Coming(p, s)
<1>1. PICK n \in Nat \ {0} : n = Len(s) /\ DOMAIN s = 1..n
  OBVIOUS
<1>2. PICK t : t = Tail(s)
  OBVIOUS
<1>3. DOMAIN t = 1..(n - 1) /\ \A k \in 1..(n - 1) : t[k] = s[k + 1]
  BY <1>1, <1>2
<1>4. Head(s) = s[1] /\ s[1] \in Frame /\ 1 \in 1..n
  BY <1>1
<1>5. PICK q \in Page : q = OnMessage(p, Head(s))
  BY <1>4, OnMessageOne
<1>6. q.seen = (IF s[1].kind = "history" THEN {} ELSE p.seen) \cup ToSet(s[1].body)
  BY <1>4, <1>5, OnMessageOne
<1>7. ASSUME NEW k \in 0..(n - 1)
      PROVE  NoHistoryAfter(t, k) <=> NoHistoryAfter(s, k + 1)
  <2>1. ASSUME NoHistoryAfter(t, k), NEW l \in 1..n, l > k + 1
        PROVE  s[l].kind # "history"
    <3>1. l - 1 \in 1..(n - 1) /\ l - 1 > k /\ (l - 1) + 1 = l
      BY <2>1
    <3>2. t[l - 1] = s[l]
      BY <1>3, <3>1
    <3> QED
      BY <1>3, <2>1, <3>1, <3>2 DEF NoHistoryAfter
  <2>2. ASSUME NoHistoryAfter(s, k + 1), NEW l \in 1..(n - 1), l > k
        PROVE  t[l].kind # "history"
    <3>1. l + 1 \in 1..n /\ l + 1 > k + 1
      BY <2>2
    <3> QED
      BY <1>1, <1>3, <2>2, <3>1 DEF NoHistoryAfter
  <2> QED
    BY <1>1, <1>3, <2>1, <2>2 DEF NoHistoryAfter
<1>8. NoHistoryAfter(s, 0) <=> s[1].kind # "history" /\ NoHistoryAfter(s, 1)
  <2>1. \A l \in 1..n : l > 0 /\ (l = 1 \/ l > 1)
    OBVIOUS
  <2> QED
    BY <1>1, <1>4, <2>1 DEF NoHistoryAfter
<1>9. NoHistoryAfter(t, 0) <=> NoHistoryAfter(s, 1)
  <2>1. 0 \in 0..(n - 1) /\ 0 + 1 = 1
    BY <1>1
  <2> QED
    BY <1>7, <2>1
<1>10. ASSUME NEW m
       PROVE  m \in Coming(q, t) <=> m \in Coming(p, s)
  <2> DEFINE InT(k) == m \in ToSet(t[k].body) /\ NoHistoryAfter(t, k)
             InS(k) == m \in ToSet(s[k].body) /\ NoHistoryAfter(s, k)
  <2>1. m \in Coming(q, t) <=>
          \/ m \in q.seen /\ NoHistoryAfter(t, 0)
          \/ \E k \in 1..(n - 1) : InT(k)
    BY <1>3 DEF Coming
  <2>2. m \in Coming(p, s) <=>
          \/ m \in p.seen /\ NoHistoryAfter(s, 0)
          \/ \E k \in 1..n : InS(k)
    BY <1>1 DEF Coming
  <2>3. (\E k \in 1..n : InS(k)) <=> InS(1) \/ \E k \in 1..(n - 1) : InS(k + 1)
    <3> HIDE DEF InS
    <3>1. ASSUME NEW k \in 1..n
          PROVE  k = 1 \/ (k - 1 \in 1..(n - 1) /\ (k - 1) + 1 = k)
      OBVIOUS
    <3>2. 1 \in 1..n /\ \A k \in 1..(n - 1) : k + 1 \in 1..n
      BY <1>1
    <3>3. ASSUME NEW k \in 1..n, InS(k)
          PROVE  InS(1) \/ \E j \in 1..(n - 1) : InS(j + 1)
      BY <3>1, <3>3
    <3> QED
      BY <3>2, <3>3
  <2>4. \A k \in 1..(n - 1) : InS(k + 1) <=> InT(k)
    <3>1. \A k \in 1..(n - 1) : k \in 0..(n - 1)
      OBVIOUS
    <3> QED
      BY <1>3, <1>7, <3>1
  <2>5. m \in q.seen /\ NoHistoryAfter(t, 0) <=>
          (m \in p.seen /\ NoHistoryAfter(s, 0)) \/ InS(1)
    BY <1>6, <1>8, <1>9
  <2> HIDE DEF InS, InT
  <2> QED
    BY <2>1, <2>2, <2>3, <2>4, <2>5
<1> QED
  BY <1>2, <1>5, <1>10

(* A frame at the end adds its messages; a history is all there is. *)
LEMMA ComingSent ==
  ASSUME NEW p \in Page, NEW s \in Seq(Frame), NEW f \in Frame
  PROVE  Coming(p, Append(s, f)) =
           (IF f.kind = "history" THEN {} ELSE Coming(p, s)) \cup ToSet(f.body)
<1>1. PICK n \in Nat : n = Len(s) /\ DOMAIN s = 1..n
  OBVIOUS
<1>2. PICK t : t = Append(s, f)
  OBVIOUS
<1>3. DOMAIN t = 1..(n + 1) /\ t[n + 1] = f /\ \A k \in 1..n : t[k] = s[k]
  BY <1>1, <1>2, Longer
<1>4. /\ n + 1 \in 1..(n + 1)
      /\ \A k \in 1..(n + 1) : k = n + 1 \/ k \in 1..n
      /\ \A k \in 1..n : k \in 1..(n + 1) /\ k \in 0..n
      /\ \A k \in 0..n : n + 1 > k
  OBVIOUS
<1>5. NoHistoryAfter(t, n + 1)
  BY <1>3 DEF NoHistoryAfter
<1>6. ASSUME NEW k \in 0..n
      PROVE  NoHistoryAfter(t, k) <=> f.kind # "history" /\ NoHistoryAfter(s, k)
  BY <1>1, <1>3, <1>4 DEF NoHistoryAfter
<1>7. ASSUME NEW m
      PROVE  m \in Coming(p, t) <=>
               \/ m \in ToSet(f.body)
               \/ f.kind # "history" /\ m \in Coming(p, s)
  <2>1. m \in Coming(p, t) <=>
          \/ m \in p.seen /\ NoHistoryAfter(t, 0)
          \/ \E k \in 1..(n + 1) : m \in ToSet(t[k].body) /\ NoHistoryAfter(t, k)
    BY <1>3 DEF Coming
  <2>2. m \in Coming(p, s) <=>
          \/ m \in p.seen /\ NoHistoryAfter(s, 0)
          \/ \E k \in 1..n : m \in ToSet(s[k].body) /\ NoHistoryAfter(s, k)
    BY <1>1 DEF Coming
  <2>3. (\E k \in 1..(n + 1) : m \in ToSet(t[k].body) /\ NoHistoryAfter(t, k)) <=>
          \/ m \in ToSet(f.body)
          \/ \E k \in 1..n : m \in ToSet(s[k].body) /\ NoHistoryAfter(t, k)
    BY <1>3, <1>4, <1>5
  <2>4. 0 \in 0..n
    OBVIOUS
  <2> QED
    BY <1>4, <1>6, <2>1, <2>2, <2>3, <2>4
<1> QED
  BY <1>2, <1>7

LEMMA CompleteStep ==
  ASSUME WebInv, [Next]_vars
  PROVE  CompleteInv'
<1> USE DEF chat, web
<1>0. /\ CompleteInv /\ RingInv /\ HistoryInv
      /\ conv \in Seq(Message) /\ Len(conv) <= Capacity
      /\ telling \in [Task -> Message \cup {Nothing}]
      /\ out \in [Client -> Seq(Frame)] /\ page \in [Client -> Page]
      /\ dropped \in [Client -> SUBSET Message]
      /\ clients \subseteq Client
      /\ building \in Client \cup {Nobody} /\ Nobody \notin Client
      /\ QueueCap \in Nat \ {0}
  BY WebAssumption DEF WebInv, TypeOK
<1>1. PICK n \in Nat : n = Len(conv) /\ DOMAIN conv = 1..n
  BY <1>0
<1>2. ASSUME NEW t \in Task, AppendMessage(t) \/ MoveHead(t)
      PROVE  CompleteInv'
  <2>1. /\ UNCHANGED <<clients, building, out, page, untold, dropped>>
        /\ disturbed' = disturbed \cup ({building} \ {Nobody})
    BY <1>2 DEF AppendMessage, MoveHead, Disturb
  <2>2. \A u \in Task : telling[u] = Nothing \/ telling'[u] = telling[u]
    BY <1>0, <1>2 DEF AppendMessage, MoveHead, Free
  <2>3. ASSUME NEW i \in DOMAIN conv'
        PROVE  (\E j \in 1..n : conv'[i] = conv[j]) \/ (\E u \in Task : telling'[u] = conv'[i])
    <3>1. CASE AppendMessage(t)
      <4>1. PICK m \in Message : m = last + 1 /\ conv' = Placed(m) /\ telling'[t] = m
        BY <1>0, <3>1 DEF AppendMessage
      <4>2. i \in 1..Len(Placed(m))
        BY <1>0, <4>1, PlacedIs
      <4>3. Placed(m)[i] = m \/ (i \in 1..n /\ Placed(m)[i] = conv[i])
        <5>1. CASE n < Capacity
          <6>1. i = n + 1 \/ i \in 1..n
            BY <1>0, <1>1, <4>2, <5>1, PlacedIs
          <6> QED
            BY <1>0, <1>1, <5>1, <6>1, PlacedIs
        <5>2. CASE ~(n < Capacity)
          <6>1. i \in 1..n /\ (i = 1 \/ i > 1)
            BY <1>0, <1>1, <4>2, <5>2, PlacedIs
          <6> QED
            BY <1>0, <1>1, <5>2, <6>1, PlacedIs
        <5> QED
          BY <5>1, <5>2
      <4> QED
        BY <4>1, <4>3
    <3>2. CASE MoveHead(t)
      <4>1. conv # <<>> /\ conv' = Append(Tail(conv), Head(conv))
        BY <1>0, <3>2 DEF MoveHead, RingInv
      <4>2. i \in 1..n /\ n > 0
        BY <1>0, <1>1, <4>1, RotatedIs
      <4>3. CASE i = n
        <5>1. conv'[i] = conv[1] /\ 1 \in 1..n
          BY <1>0, <1>1, <4>1, <4>2, <4>3, RotatedIs
        <5> QED
          BY <5>1
      <4>4. CASE i # n
        <5>1. i \in 1..(n - 1) /\ i + 1 \in 1..n
          BY <4>2, <4>4
        <5>2. conv'[i] = conv[i + 1]
          BY <1>0, <1>1, <4>1, <5>1, RotatedIs
        <5> QED
          BY <5>1, <5>2
      <4> QED
        BY <4>3, <4>4
    <3> QED
      BY <1>2, <3>1, <3>2
  <2>4. ASSUME NEW c \in clients \ (disturbed' \cup {building}), NEW i \in DOMAIN conv'
        PROVE  conv'[i] \in Coming(page[c], out[c]) \cup
                 {telling'[u] : u \in Task} \cup untold \cup dropped[c]
    <3>1. CASE \E u \in Task : telling'[u] = conv'[i]
      BY <3>1
    <3>2. CASE \E j \in 1..n : conv'[i] = conv[j]
      <4>1. PICK j \in 1..n : conv'[i] = conv[j]
        BY <3>2
      <4>2. c \in clients \ (disturbed \cup {building}) /\ c \in Client
        BY <1>0, <2>1
      <4>3. conv[j] \in Coming(page[c], out[c]) \cup Owed(c)
        BY <1>0, <1>1, <4>2 DEF CompleteInv
      <4>4. conv[j] # Nothing
        <5>1. conv[j] \in Message
          BY <1>0, <1>1
        <5> QED
          BY <5>1 DEF Message, Nothing
      <4> QED
        BY <2>2, <4>1, <4>3, <4>4 DEF Owed
    <3> QED
      BY <2>3, <3>1, <3>2
  <2> QED
    BY <2>1, <2>4 DEF CompleteInv, Owed
<1>3. ASSUME NEW t \in Task, Tell(t)
      PROVE  CompleteInv'
  <2>1. PICK m \in Message : m = telling[t]
    BY <1>0, <1>3 DEF Tell
  <2>2. PICK f \in Frame : f = [kind |-> "message", body |-> <<m>>]
    <3>1. [kind |-> "message", body |-> <<m>>] \in Frame
      BY DEF Frame
    <3> QED
      BY <3>1
  <2>3. ToSet(f.body) = {m} /\ f.kind # "history"
    BY <2>2 DEF ToSet
  <2>4. /\ UNCHANGED <<conv, clients, building, page, untold>>
        /\ TextAll(f) /\ telling' = [telling EXCEPT ![t] = Nothing]
        /\ disturbed' = disturbed \cup ({building} \ {Nobody})
        /\ dropped' = [c \in Client |->
             IF c \in clients /\ ~HasRoom(c) THEN dropped[c] \cup {m} ELSE dropped[c]]
    BY <1>3, <2>1, <2>2 DEF Tell, Disturb
  <2>5. ASSUME NEW c \in clients \ (disturbed' \cup {building}), NEW i \in DOMAIN conv
        PROVE  conv[i] \in Coming(page[c], out'[c]) \cup
                 {telling'[u] : u \in Task} \cup untold \cup dropped'[c]
    <3>1. c \in clients \ (disturbed \cup {building}) /\ c \in Client
      BY <1>0, <2>4
    <3>2. \/ conv[i] \in Coming(page[c], out[c]) \cup untold \cup dropped[c]
          \/ \E u \in Task : conv[i] = telling[u]
      BY <1>0, <3>1 DEF CompleteInv, Owed
    <3>3. Coming(page[c], out[c]) \subseteq Coming(page[c], out'[c])
      <4>1. page[c] \in Page /\ out[c] \in Seq(Frame)
        BY <1>0, <3>1
      <4>2. Coming(page[c], Append(out[c], f)) = Coming(page[c], out[c]) \cup {m}
        BY <2>3, <4>1, ComingSent
      <4> QED
        BY <1>0, <2>4, <3>1, <4>2, TextAllIs
    <3>4. m \in Coming(page[c], out'[c]) \cup dropped'[c]
      <4>1. CASE HasRoom(c)
        <5>1. page[c] \in Page /\ out[c] \in Seq(Frame) /\ out'[c] = Append(out[c], f)
          BY <1>0, <2>4, <3>1, <4>1, TextAllIs
        <5> QED
          BY <2>3, <5>1, ComingSent
      <4>2. CASE ~HasRoom(c)
        BY <2>4, <3>1, <4>2
      <4> QED
        BY <4>1, <4>2
    <3>5. dropped[c] \subseteq dropped'[c]
      BY <2>4, <3>1
    <3>6. \A u \in Task : u = t \/ telling'[u] = telling[u]
      BY <1>0, <2>4
    <3> QED
      BY <2>1, <3>2, <3>3, <3>4, <3>5, <3>6
  <2> QED
    BY <2>4, <2>5 DEF CompleteInv, Owed
<1>4. ASSUME NEW t \in Task, TellNobody(t)
      PROVE  CompleteInv'
  <2>1. /\ UNCHANGED <<conv, clients, building, page, out, disturbed, dropped>>
        /\ untold' = untold \cup {telling[t]}
        /\ telling' = [telling EXCEPT ![t] = Nothing]
    BY <1>4 DEF TellNobody
  <2>2. \A u \in Task : u = t \/ telling'[u] = telling[u]
    BY <1>0, <2>1
  <2>3. \A c : Owed(c) \subseteq {telling'[u] : u \in Task} \cup untold' \cup dropped'[c]
    BY <2>1, <2>2 DEF Owed
  <2> QED
    BY <1>0, <2>1, <2>3 DEF CompleteInv, Owed
<1>5. ASSUME NEW c \in Client, Connect(c)
      PROVE  CompleteInv'
  <2>1. /\ UNCHANGED <<conv, telling, out, page, untold>>
        /\ clients' = clients \cup {c} /\ building = Nobody /\ building' = c
        /\ disturbed' = disturbed \ {c} /\ dropped' = [dropped EXCEPT ![c] = {}]
    BY <1>5 DEF Connect, Free
  <2>2. ASSUME NEW d \in clients' \ (disturbed' \cup {building'})
        PROVE  d \in clients \ (disturbed \cup {building}) /\ dropped'[d] = dropped[d]
    <3>1. d # c /\ d \in Client /\ d \in clients
      BY <1>0, <2>1
    <3> QED
      BY <1>0, <2>1, <3>1
  <2> QED
    BY <1>0, <2>1, <2>2 DEF CompleteInv, Owed
<1>6. CASE SendHistory
  <2>1. /\ UNCHANGED <<conv, telling, clients, disturbed, page, untold, dropped>>
        /\ building # Nobody /\ building' = Nobody /\ Len(history) = n
        /\ out' = IF HasRoom(building)
                    THEN [out EXCEPT ![building] =
                            Append(@, [kind |-> "history", body |-> history])]
                    ELSE out
    BY <1>1, <1>6 DEF SendHistory
  <2>2. \A c \in Client : c # building => out'[c] = out[c]
    BY <1>0, <2>1
  <2>3. ASSUME NEW c \in clients \ disturbed, c # building, NEW i \in DOMAIN conv
        PROVE  conv[i] \in Coming(page[c], out'[c]) \cup Owed(c)
    BY <1>0, <2>2, <2>3 DEF CompleteInv
  <2>4. ASSUME building \in clients \ disturbed, NEW i \in DOMAIN conv
        PROVE  conv[i] \in Coming(page[building], out'[building])
    <3>1. PICK f \in Frame : f = [kind |-> "history", body |-> history]
      <4>1. [kind |-> "history", body |-> history] \in Frame
        BY DEF Frame, WebInv, TypeOK
      <4> QED
        BY <4>1
    <3>2. building \in Client /\ out[building] = <<>> /\ \A j \in DOMAIN history : history[j] = conv[j]
      BY <1>0, <2>1, <2>4 DEF HistoryInv
    <3>3. HasRoom(building)
      <4>1. Len(<<>>) < QueueCap
        BY <1>0
      <4> QED
        BY <2>4, <3>2, <4>1 DEF HasRoom
    <3>4. /\ out'[building] = Append(out[building], f) /\ out[building] \in Seq(Frame)
          /\ page[building] \in Page
      BY <1>0, <2>1, <3>1, <3>2, <3>3
    <3>5. conv[i] \in ToSet(f.body)
      <4>1. history \in Seq(Message)
        BY DEF WebInv, TypeOK
      <4>2. i \in DOMAIN history
        BY <1>1, <2>1, <4>1
      <4> QED
        BY <3>1, <3>2, <4>2 DEF ToSet
    <3> QED
      BY <3>4, <3>5, ComingSent
  <2>5. \A c : Owed(c) = {telling'[u] : u \in Task} \cup untold' \cup dropped'[c]
    BY <2>1 DEF Owed
  <2> QED
    BY <2>1, <2>3, <2>4, <2>5 DEF CompleteInv, Owed
<1>7. ASSUME NEW c \in Client, Deliver(c)
      PROVE  CompleteInv'
  <2>1. /\ UNCHANGED <<conv, telling, clients, building, disturbed, untold, dropped>>
        /\ out[c] # <<>> /\ page' = [page EXCEPT ![c] = OnMessage(@, Head(out[c]))]
        /\ out' = [out EXCEPT ![c] = Tail(@)]
    BY <1>7 DEF Deliver
  <2>2. page[c] \in Page /\ out[c] \in Seq(Frame)
    BY <1>0
  <2>3. Coming(OnMessage(page[c], Head(out[c])), Tail(out[c])) = Coming(page[c], out[c])
    BY <2>1, <2>2, ComingDelivered
  <2>4. ASSUME NEW d \in Client
        PROVE  Coming(page'[d], out'[d]) = Coming(page[d], out[d])
    <3>1. CASE d = c
      BY <1>0, <2>1, <2>3, <3>1
    <3>2. CASE d # c
      <4>1. page'[d] = page[d] /\ out'[d] = out[d]
        BY <1>0, <2>1, <3>2
      <4> QED
        BY <4>1
    <3> QED
      BY <3>1, <3>2
  <2>5. \A d : Owed(d) = {telling'[u] : u \in Task} \cup untold' \cup dropped'[d]
    BY <2>1 DEF Owed
  <2>6. ASSUME NEW d \in clients \ (disturbed \cup {building}), NEW i \in DOMAIN conv
        PROVE  conv[i] \in Coming(page'[d], out'[d]) \cup Owed(d)
    <3>1. d \in Client
      BY <1>0
    <3> QED
      BY <1>0, <2>4, <3>1 DEF CompleteInv
  <2> QED
    BY <2>1, <2>5, <2>6 DEF CompleteInv, Owed
<1>8. ASSUME NEW c \in Client, Disconnect(c)
      PROVE  CompleteInv'
  <2>1. /\ UNCHANGED <<conv, telling, building, disturbed, page, untold, dropped>>
        /\ clients' = clients \ {c} /\ out' = [out EXCEPT ![c] = <<>>]
    BY <1>8 DEF Disconnect
  <2>2. \A d \in clients' : d \in clients /\ d \in Client /\ out'[d] = out[d]
    BY <1>0, <2>1
  <2> QED
    BY <1>0, <2>1, <2>2 DEF CompleteInv, Owed
<1>9. CASE UNCHANGED <<conv, telling, clients, building, disturbed, page, out, untold, dropped>>
  BY <1>0, <1>9 DEF CompleteInv, Owed
<1>10. CASE SetMessageListener \/ ReadHistory \/ UNCHANGED vars
  BY <1>9, <1>10 DEF SetMessageListener, ReadHistory, vars
<1> QED
  BY <1>2, <1>3, <1>4, <1>5, <1>6, <1>7, <1>8, <1>10 DEF Next, OnInbound

LEMMA MorePairs ==
  ASSUME NEW X, NEW Y, X \subseteq Y, NEW m \in Nat, NEW n \in Nat, m <= n,
         NEW p \in Page, NEW s \in Seq(Frame)
  PROVE  /\ PageInv(p, X, m) => PageInv(p, Y, n)
         /\ FramesInv(p, s, X, m) => FramesInv(p, s, Y, n)
<1>1. ASSUME PageInv(p, X, m)
      PROVE  PageInv(p, Y, n)
  <2>1. \A x \in p.seen : x \in Nat
    BY DEF Page, Message
  <2> QED
    BY <1>1, <2>1 DEF PageInv, InOrder
<1>2. ASSUME FramesInv(p, s, X, m)
      PROVE  FramesInv(p, s, Y, n)
  <2>1. ASSUME NEW k \in DOMAIN s, NEW i \in DOMAIN s[k].body
        PROVE  s[k].body[i] <= n
    <3>0. s[k] \in Frame
      OBVIOUS
    <3>1. PICK b \in Seq(Message) : b = s[k].body
      BY <3>0 DEF Frame
    <3>2. s[k].body[i] \in Nat
      <4>1. b[i] \in Message
        BY <3>1
      <4> QED
        BY <3>1, <4>1 DEF Message
    <3> QED
      BY <1>2, <3>2 DEF FramesInv
  <2>2. \A q : InOrder(q, X) => InOrder(q, Y)
    BY DEF InOrder
  <2>3. \A q, r : Follows(q, r, X) => Follows(q, r, Y)
    BY DEF Follows
  <2> QED
    BY <1>2, <2>1, <2>2, <2>3 DEF FramesInv
<1> QED
  BY <1>1, <1>2

(* A frame at the end of those on the way. *)
LEMMA FrameSent ==
  ASSUME NEW p, NEW s \in Seq(Frame), NEW f \in Frame, NEW X, NEW n,
         FramesInv(p, s, X, n),
         \A i \in DOMAIN f.body : f.body[i] <= n,
         InOrder(f.body, X),
         f.kind # "history" =>
           /\ Follows(f.body, p.seen, X)
           /\ \A l \in DOMAIN s : Follows(f.body, ToSet(s[l].body), X)
  PROVE  FramesInv(p, Append(s, f), X, n)
<1>1. PICK h \in Nat : h = Len(s) /\ DOMAIN s = 1..h
  OBVIOUS
<1>2. PICK t : t = Append(s, f)
  OBVIOUS
<1>3. DOMAIN t = 1..(h + 1) /\ t[h + 1] = f /\ \A k \in 1..h : t[k] = s[k]
  BY <1>1, <1>2, Longer
<1>4. ASSUME NEW k \in 1..(h + 1)
      PROVE  /\ \A i \in DOMAIN t[k].body : t[k].body[i] <= n
             /\ InOrder(t[k].body, X)
             /\ t[k].kind # "history" =>
                  /\ Follows(t[k].body, p.seen, X)
                  /\ \A l \in 1..(k - 1) : Follows(t[k].body, ToSet(t[l].body), X)
  <2>1. CASE k = h + 1
    <3>1. \A l \in 1..(k - 1) : l \in 1..h
      BY <2>1
    <3> QED
      BY <1>1, <1>3, <2>1, <3>1
  <2>2. CASE k # h + 1
    <3>1. k \in 1..h /\ \A l \in 1..(k - 1) : l \in 1..h
      BY <2>2
    <3> QED
      BY <1>1, <1>3, <3>1 DEF FramesInv
  <2> QED
    BY <2>1, <2>2
<1> QED
  BY <1>2, <1>3, <1>4 DEF FramesInv

(* The first frame of those on the way arrives. *)
LEMMA FrameDelivered ==
  ASSUME NEW p \in Page, NEW s \in Seq(Frame), s # <<>>, NEW X, NEW n,
         PageInv(p, X, n), FramesInv(p, s, X, n)
  PROVE  /\ PageInv(OnMessage(p, Head(s)), X, n)
         /\ FramesInv(OnMessage(p, Head(s)), Tail(s), X, n)
<1>1. PICK h \in Nat \ {0} : h = Len(s) /\ DOMAIN s = 1..h
  OBVIOUS
<1>2. PICK t : t = Tail(s)
  OBVIOUS
<1>3. DOMAIN t = 1..(h - 1) /\ \A k \in 1..(h - 1) : t[k] = s[k + 1]
  BY <1>1, <1>2
<1>4. Head(s) = s[1] /\ s[1] \in Frame /\ 1 \in 1..h
  BY <1>1
<1>5. PICK q \in Page : q = OnMessage(p, Head(s))
  BY <1>4, OnMessageOne
<1>6. q.seen = (IF s[1].kind = "history" THEN {} ELSE p.seen) \cup ToSet(s[1].body)
  BY <1>4, <1>5, OnMessageOne
<1>7. Consistent(p) /\ InOrder(p.shown, X) /\ \A m \in p.seen : m <= n
  BY DEF PageInv
<1>8. /\ \A i \in DOMAIN s[1].body : s[1].body[i] <= n
      /\ InOrder(s[1].body, X)
      /\ s[1].kind # "history" => Follows(s[1].body, p.seen, X)
  BY <1>1, <1>4 DEF FramesInv
<1>9. Consistent(q) /\ InOrder(q.shown, X)
  <2>1. Consistent(q)
    BY <1>4, <1>5, <1>7, OnMessageOne
  <2>2. InOrder(q.shown, X)
    BY <1>4, <1>5, <1>7, <1>8, OnMessageOne
  <2> QED
    BY <2>1, <2>2
<1>10. \A m \in q.seen : m <= n
  BY <1>6, <1>7, <1>8 DEF ToSet
<1>11. ASSUME NEW k \in 1..(h - 1)
       PROVE  /\ \A i \in DOMAIN t[k].body : t[k].body[i] <= n
              /\ InOrder(t[k].body, X)
              /\ t[k].kind # "history" =>
                   /\ Follows(t[k].body, q.seen, X)
                   /\ \A l \in 1..(k - 1) : Follows(t[k].body, ToSet(t[l].body), X)
  <2>1. t[k] = s[k + 1] /\ k + 1 \in 1..h /\ (k + 1) - 1 = k /\ 1 \in 1..k
    BY <1>3
  <2>2. /\ \A i \in DOMAIN t[k].body : t[k].body[i] <= n
        /\ InOrder(t[k].body, X)
        /\ t[k].kind # "history" =>
             /\ Follows(t[k].body, p.seen, X)
             /\ \A l \in 1..k : Follows(t[k].body, ToSet(s[l].body), X)
    BY <1>1, <2>1 DEF FramesInv
  <2>3. ASSUME t[k].kind # "history"
        PROVE  Follows(t[k].body, q.seen, X)
    <3>1. Follows(t[k].body, p.seen, X) /\ Follows(t[k].body, ToSet(s[1].body), X)
      BY <2>1, <2>2, <2>3
    <3> QED
      BY <1>6, <3>1 DEF Follows
  <2>4. ASSUME t[k].kind # "history", NEW l \in 1..(k - 1)
        PROVE  Follows(t[k].body, ToSet(t[l].body), X)
    <3>1. l + 1 \in 1..k /\ l \in 1..(h - 1)
      OBVIOUS
    <3> QED
      BY <1>3, <2>2, <2>4, <3>1
  <2> QED
    BY <2>2, <2>3, <2>4
<1> QED
  BY <1>2, <1>3, <1>5, <1>9, <1>10, <1>11 DEF PageInv, FramesInv

LEMMA StreamStep ==
  ASSUME WebInv, [Next]_vars
  PROVE  \A c \in Client : StreamInv(c)'
<1> USE DEF chat, web
<1>0. /\ \A c \in Client : StreamInv(c)
      /\ last \in Nat /\ last' \in Nat /\ last <= last'
      /\ out \in [Client -> Seq(Frame)] /\ page \in [Client -> Page]
      /\ clients \subseteq Client
  BY ConvStep DEF WebInv, TypeOK
<1>1. Excuses \subseteq Excuses'
  BY ConvStep DEF Excuses
<1>2. ASSUME NEW c \in Client, page'[c] = page[c], out'[c] = out[c], c \in clients => c \in clients'
      PROVE  StreamInv(c)'
  <2>1. PageInv(page[c], Excuses, last) /\ FramesInv(page[c], out[c], Excuses, last)
    BY <1>0 DEF StreamInv
  <2>2. page[c] \in Page /\ out[c] \in Seq(Frame)
    BY <1>0
  <2>3. PageInv(page[c], Excuses', last') /\ FramesInv(page[c], out[c], Excuses', last')
    BY <1>0, <1>1, <2>1, <2>2, MorePairs
  <2>4. c \notin clients' => out'[c] = <<>>
    BY <1>0, <1>2 DEF StreamInv
  <2> QED
    BY <1>2, <2>3, <2>4 DEF StreamInv
<1>3. ASSUME NEW c \in Client, NEW f \in Frame, page'[c] = page[c],
             out'[c] = Append(out[c], f), c \in clients', last' = last,
             \A i \in DOMAIN f.body : f.body[i] <= last,
             InOrder(f.body, Excuses),
             f.kind # "history" =>
               /\ Follows(f.body, page[c].seen, Excuses)
               /\ \A l \in DOMAIN out[c] : Follows(f.body, ToSet(out[c][l].body), Excuses)
      PROVE  StreamInv(c)'
  <2>1. PageInv(page[c], Excuses, last) /\ FramesInv(page[c], out[c], Excuses, last)
    BY <1>0 DEF StreamInv
  <2>2. page[c] \in Page /\ out[c] \in Seq(Frame) /\ Append(out[c], f) \in Seq(Frame)
    BY <1>0, Longer
  <2>3. FramesInv(page[c], Append(out[c], f), Excuses, last)
    BY <1>3, <2>1, <2>2, FrameSent
  <2>4. PageInv(page[c], Excuses', last') /\ FramesInv(page[c], Append(out[c], f), Excuses', last')
    BY <1>0, <1>1, <2>1, <2>2, <2>3, MorePairs
  <2> QED
    BY <1>3, <2>4 DEF StreamInv
<1>4. ASSUME NEW t \in Task, Tell(t), NEW c \in Client
      PROVE  StreamInv(c)'
  <2>1. PICK m \in Message : m = telling[t] /\ m # Nothing
    BY <1>4 DEF Tell, WebInv, TypeOK
  <2>2. PICK f \in Frame : f = [kind |-> "message", body |-> <<m>>]
    <3>1. [kind |-> "message", body |-> <<m>>] \in Frame
      BY DEF Frame
    <3> QED
      BY <3>1
  <2>3. UNCHANGED <<page, clients, last>> /\ TextAll(f)
    BY <1>4, <2>1, <2>2 DEF Tell
  <2>4. CASE ~HasRoom(c)
    BY <1>0, <1>2, <2>3, <2>4, TextAllIs
  <2>5. CASE HasRoom(c)
    <3>1. out'[c] = Append(out[c], f) /\ c \in clients
      BY <1>0, <2>3, <2>5, TextAllIs DEF HasRoom
    <3>2. f.body = <<m>> /\ DOMAIN f.body = {1} /\ f.body[1] = m
      BY <2>2
    <3>3. m <= last /\ \A x \in Message : m < x /\ x <= last => <<x, m>> \in Excuses
      <4>1. TellInv
        BY DEF WebInv
      <4> QED
        BY <2>1, <4>1 DEF TellInv, Excuses
    <3>4. InOrder(f.body, Excuses) /\ \A i \in DOMAIN f.body : f.body[i] <= last
      BY <3>2, <3>3 DEF InOrder
    <3>5. ASSUME NEW x \in page[c].seen
          PROVE  x \in Message /\ x <= last
      <4>1. page[c] \in Page /\ PageInv(page[c], Excuses, last)
        BY <1>0 DEF StreamInv
      <4> QED
        BY <4>1 DEF Page, PageInv
    <3>6. ASSUME NEW l \in DOMAIN out[c], NEW x \in ToSet(out[c][l].body)
          PROVE  x \in Message /\ x <= last
      <4>1. out[c] \in Seq(Frame) /\ FramesInv(page[c], out[c], Excuses, last)
        BY <1>0 DEF StreamInv
      <4>2. out[c][l].body \in Seq(Message)
        <5>1. out[c][l] \in Frame
          BY <4>1
        <5> QED
          BY <5>1 DEF Frame
      <4>3. PICK i \in DOMAIN out[c][l].body : x = out[c][l].body[i]
        BY DEF ToSet
      <4> QED
        BY <4>1, <4>2, <4>3 DEF FramesInv
    <3>7. Follows(f.body, page[c].seen, Excuses)
      BY <3>2, <3>3, <3>5 DEF Follows
    <3>8. \A l \in DOMAIN out[c] : Follows(f.body, ToSet(out[c][l].body), Excuses)
      BY <3>2, <3>3, <3>6 DEF Follows
    <3> QED
      BY <1>3, <2>3, <3>1, <3>4, <3>7, <3>8
  <2> QED
    BY <2>4, <2>5
<1>5. ASSUME SendHistory, NEW c \in Client
      PROVE  StreamInv(c)'
  <2>1. /\ UNCHANGED <<page, clients, last>> /\ building # Nobody
        /\ out' = IF HasRoom(building)
                    THEN [out EXCEPT ![building] =
                            Append(@, [kind |-> "history", body |-> history])]
                    ELSE out
    BY <1>5 DEF SendHistory
  <2>2. PICK f \in Frame : f = [kind |-> "history", body |-> history]
    <3>1. [kind |-> "history", body |-> history] \in Frame
      BY DEF Frame, WebInv, TypeOK
    <3> QED
      BY <3>1
  <2>3. CASE c # building \/ ~HasRoom(building)
    <3>1. out'[c] = out[c]
      BY <1>0, <2>1, <2>3
    <3> QED
      BY <1>2, <2>1, <3>1
  <2>4. CASE c = building /\ HasRoom(building)
    <3>1. out'[c] = Append(out[c], f) /\ c \in clients
      BY <1>0, <2>1, <2>2, <2>4 DEF HasRoom
    <3>2. \A i \in DOMAIN f.body : f.body[i] <= last
      BY <2>2 DEF WebInv, HistoryInv
    <3>3. ASSUME NEW i \in DOMAIN history, NEW j \in DOMAIN history, i < j,
                 history[j] < history[i]
          PROVE  <<history[i], history[j]>> \in Excuses
      <4>1. history[i] \in Message /\ history[j] \in Message
        BY DEF WebInv, TypeOK
      <4>2. history[i] \in Nat /\ history[j] \in Nat
        BY <4>1 DEF Message
      <4>3. history[i] \in midway
        BY <3>3, <4>2 DEF WebInv, HistoryInv
      <4> QED
        BY <4>1, <4>3 DEF Excuses
    <3>4. InOrder(f.body, Excuses)
      BY <2>2, <3>3 DEF InOrder
    <3>5. f.kind = "history"
      BY <2>2
    <3> QED
      BY <1>3, <2>1, <3>1, <3>2, <3>4, <3>5
  <2> QED
    BY <2>3, <2>4
<1>6. ASSUME NEW d \in Client, Deliver(d), NEW c \in Client
      PROVE  StreamInv(c)'
  <2>1. /\ UNCHANGED <<clients, last, crowded, midway>> /\ out[d] # <<>>
        /\ page' = [page EXCEPT ![d] = OnMessage(@, Head(out[d]))]
        /\ out' = [out EXCEPT ![d] = Tail(@)]
    BY <1>6 DEF Deliver
  <2>2. CASE c # d
    <3>1. page'[c] = page[c] /\ out'[c] = out[c]
      BY <1>0, <2>1, <2>2
    <3> QED
      BY <1>2, <2>1, <3>1
  <2>3. CASE c = d
    <3>1. page'[c] = OnMessage(page[c], Head(out[c])) /\ out'[c] = Tail(out[c])
      BY <1>0, <2>1, <2>3
    <3>2. /\ page[c] \in Page /\ out[c] \in Seq(Frame) /\ out[c] # <<>>
          /\ PageInv(page[c], Excuses, last) /\ FramesInv(page[c], out[c], Excuses, last)
      BY <1>0, <2>1, <2>3 DEF StreamInv
    <3>3. PageInv(page'[c], Excuses, last) /\ FramesInv(page'[c], out'[c], Excuses, last)
      BY <3>1, <3>2, FrameDelivered
    <3>4. c \in clients' /\ Excuses' = Excuses
      BY <1>0, <2>1, <3>2 DEF StreamInv, Excuses
    <3> QED
      BY <2>1, <3>3, <3>4 DEF StreamInv
  <2> QED
    BY <2>2, <2>3
<1>7. ASSUME NEW d \in Client, Disconnect(d), NEW c \in Client
      PROVE  StreamInv(c)'
  <2>1. /\ UNCHANGED <<page, last, crowded, midway>>
        /\ clients' = clients \ {d} /\ out' = [out EXCEPT ![d] = <<>>]
    BY <1>7 DEF Disconnect
  <2>2. CASE c # d
    <3>1. page'[c] = page[c] /\ out'[c] = out[c] /\ (c \in clients => c \in clients')
      BY <1>0, <2>1, <2>2
    <3> QED
      BY <1>2, <3>1
  <2>3. CASE c = d
    <3>1. out'[c] = <<>> /\ DOMAIN <<>> = {}
      BY <1>0, <2>1, <2>3
    <3>2. PageInv(page[c], Excuses, last) /\ Excuses' = Excuses
      BY <1>0, <2>1 DEF StreamInv, Excuses
    <3>3. FramesInv(page[c], <<>>, Excuses, last)
      BY <3>1 DEF FramesInv
    <3> QED
      BY <2>1, <3>1, <3>2, <3>3 DEF StreamInv
  <2> QED
    BY <2>2, <2>3
<1>8. ASSUME UNCHANGED <<page, out>>, clients \subseteq clients', NEW c \in Client
      PROVE  StreamInv(c)'
  BY <1>2, <1>8
<1>9. CASE ~ ((\E t \in Task : Tell(t)) \/ SendHistory
              \/ \E d \in Client : Deliver(d) \/ Disconnect(d))
  <2>1. UNCHANGED <<page, out>> /\ clients \subseteq clients'
    BY <1>9 DEF Next, OnInbound, AppendMessage, MoveHead, TellNobody, SetMessageListener,
      Connect, ReadHistory, vars
  <2> QED
    BY <1>8, <2>1
<1> QED
  BY <1>4, <1>5, <1>6, <1>7, <1>9

(* WebInv holds for any number of tasks, phones, messages and connections. *)
THEOREM WebInvariant == Spec => []WebInv
<1>1. WebInv /\ [Next]_vars => WebInv'
  <2> SUFFICES ASSUME WebInv, [Next]_vars
               PROVE  WebInv'
    OBVIOUS
  <2> QED
    BY TypeStep, TellStep, RingStep, HistoryStep, CompleteStep, StreamStep DEF WebInv
<1> QED
  BY <1>1, WebInit, PTL DEF Spec

(* TypeOK: neither the conversation nor a history outgrows the capacity.   *)
THEOREM WebTypes == Spec => []TypeOK
<1>1. WebInv => TypeOK
  BY DEF WebInv
<1> QED
  BY <1>1, WebInvariant, PTL

(* PageConsistent: no page shows a message twice, across live messages,    *)
(* histories that hold them too and new connections, and what it counts as *)
(* seen is what it shows.                                                  *)
THEOREM NoPageRepeats == Spec => []PageConsistent
<1>1. WebInv => PageConsistent
  BY DEF WebInv, StreamInv, PageInv, Consistent, PageConsistent
<1> QED
  BY <1>1, WebInvariant, PTL

(* PageInOrder: a page shows a message before an older one only if two     *)
(* tasks handled them at the same time or a history met the later one half *)
(* way into the ring.                                                      *)
THEOREM PagesInOrder == Spec => []PageInOrder
<1>1. ASSUME WebInv, NEW c \in Client, NEW i \in DOMAIN page[c].shown,
             NEW j \in DOMAIN page[c].shown, i < j, page[c].shown[j] < page[c].shown[i]
      PROVE  {page[c].shown[i], page[c].shown[j]} \subseteq crowded \/ page[c].shown[i] \in midway
  <2>1. InOrder(page[c].shown, Excuses)
    BY <1>1 DEF WebInv, StreamInv, PageInv
  <2>2. <<page[c].shown[i], page[c].shown[j]>> \in Excuses
    BY <1>1, <2>1 DEF InOrder
  <2> QED
    BY <2>2 DEF Excuses
<1>2. WebInv => PageInOrder
  BY <1>1 DEF PageInOrder
<1> QED
  BY <1>2, WebInvariant, PTL

(* PageComplete: a page that connected while nothing came, and that found  *)
(* room for its frames, comes to show the whole conversation.              *)
THEOREM PagesComplete == Spec => []PageComplete
<1>1. ASSUME WebInv, NEW c \in clients \ (disturbed \cup {building})
      PROVE  ToSet(conv) \subseteq
               ToSet(Final(c).shown) \cup {telling[t] : t \in Task} \cup untold \cup dropped[c]
  <2>1. page[c] \in Page /\ out[c] \in Seq(Frame) /\ Consistent(page[c])
    BY <1>1 DEF WebInv, TypeOK, StreamInv, PageInv
  <2>2. ToSet(Final(c).shown) = Coming(page[c], out[c])
    BY <2>1, FinalPage DEF Final, Consistent
  <2>3. \A i \in DOMAIN conv : conv[i] \in Coming(page[c], out[c]) \cup Owed(c)
    BY <1>1 DEF WebInv, CompleteInv
  <2> QED
    BY <2>2, <2>3 DEF Owed, ToSet
<1>2. WebInv => PageComplete
  BY <1>1 DEF PageComplete
<1> QED
  BY <1>2, WebInvariant, PTL

=============================================================================
