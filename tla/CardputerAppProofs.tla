------------------------- MODULE CardputerAppProofs -------------------------
(***************************************************************************)
(* The types and ScreenCurrent of CardputerApp, for texts, queues and      *)
(* conversations of any length.                                            *)
(***************************************************************************)
EXTENDS CardputerApp, TLAPS

(* The numbers the screen is compared by never run ahead of the            *)
(* conversation, so that no new message can make an old drawing current.   *)
ScreenInv ==
  /\ messages \in Nat /\ lastHash \in Nat /\ looked \in Nat
  /\ settings \in BOOLEAN
  /\ lastHash <= messages
  /\ looked <= messages
  /\ ScreenCurrent

-----------------------------------------------------------------------------
(* Opening and closing the settings marks the middle as changed: whatever  *)
(* the number of messages, the screen is not taken for current.            *)
LEMMA ShowSettingsScreen ==
  ASSUME ScreenInv, NEW on, ShowSettings(on), on = ~settings,
         UNCHANGED <<messages, looked>>
  PROVE  ScreenInv'
<1>1. settings # on
  BY DEF ScreenInv
<1>2. lastHash' = 0 /\ settings' \in BOOLEAN
  BY <1>1 DEF ScreenInv, ShowSettings
<1>3. ScreenCurrent'
  BY <1>2 DEF ScreenCurrent
<1> QED
  BY <1>2, <1>3 DEF ScreenInv

(* A message more makes the screen out of date, whatever it shows.         *)
LEMMA MessageScreen ==
  ASSUME ScreenInv, messages' \in {messages, messages + 1},
         UNCHANGED <<lastHash, looked, settings, chatArea>>
  PROVE  ScreenInv'
<1>1. CASE messages' = messages
  BY <1>1 DEF ScreenInv, ScreenCurrent, Overlay, Shows
<1>2. CASE messages' = messages + 1
  <2>1. lastHash' # messages' /\ lastHash' <= messages' /\ looked' <= messages'
    BY <1>2 DEF ScreenInv
  <2>2. ScreenCurrent'
    BY <2>1 DEF ScreenCurrent
  <2> QED
    BY <1>2, <2>1, <2>2 DEF ScreenInv
<1> QED
  BY <1>1, <1>2

(* Drawing shows the conversation of now and remembers that of Look: if    *)
(* they differ, the next poll draws again.                                 *)
LEMMA DrawScreen ==
  ASSUME ScreenInv, NEW force \in BOOLEAN, Draw(force)
  PROVE  ScreenInv'
<1> USE DEF ScreenInv
<1>0. UNCHANGED <<messages, looked, settings>>
  BY DEF Draw, texts, mode
<1>1. CASE UNCHANGED <<lastHash, chatArea>>
  BY <1>0, <1>1 DEF ScreenCurrent, Overlay, Shows
<1>2. CASE settings /\ ~UNCHANGED <<lastHash, chatArea>>
  <2>1. lastHash' = looked /\ chatArea' = Overlay
    BY <1>2 DEF Draw, DrawSettings
  <2> QED
    BY <1>0, <1>2, <2>1 DEF ScreenCurrent, Overlay
<1>3. CASE ~settings /\ ~UNCHANGED <<lastHash, chatArea>>
  <2>1. lastHash' = looked /\ chatArea' = Shows(messages)
    BY <1>3 DEF Draw, DrawChat
  <2> QED
    BY <1>0, <1>3, <2>1 DEF ScreenCurrent, Shows
<1> QED
  BY <1>1, <1>2, <1>3

(* ScreenInv is inductive. *)
LEMMA ScreenInvInductive ==
  ASSUME ScreenInv, [Next]_vars
  PROVE  ScreenInv'
<1>1. CASE FnKey
  <2>1. ShowSettings(~settings) /\ UNCHANGED <<messages, looked>>
    BY <1>1 DEF FnKey, PollKey
  <2> QED
    BY <2>1, ShowSettingsScreen
<1>2. CASE OtherKey
  <2>1. UNCHANGED <<messages, lastHash, looked, settings, chatArea>>
    BY <1>2 DEF OtherKey, PollKey, mode
  <2> QED
    BY <2>1, MessageScreen
<1>3. CASE HandleKeyEvent
  <2>1. CASE FnEvent
    <3>1. ShowSettings(~settings) /\ UNCHANGED <<messages, looked>>
      BY <2>1 DEF FnEvent
    <3> QED
      BY <3>1, ShowSettingsScreen
  <2>2. CASE EnterEvent \/ TabEvent \/ OtherEvent
    <3>1. /\ messages' \in {messages, messages + 1}
          /\ UNCHANGED <<lastHash, looked, settings, chatArea>>
      BY <2>2 DEF EnterEvent, TabEvent, OtherEvent, SendText, mode, drawn
    <3> QED
      BY <3>1, MessageScreen
  <2> QED
    BY <1>3, <2>1, <2>2 DEF HandleKeyEvent
<1>4. CASE EventsDone
  <2>1. UNCHANGED <<messages, lastHash, looked, settings, chatArea>>
    BY <1>4 DEF EventsDone, texts, mode, drawn
  <2> QED
    BY <2>1, MessageScreen
<1>5. CASE Poll
  <2>1. ASSUME NEW blink \in BOOLEAN, Look(blink)
        PROVE  ScreenInv'
    <3>1. looked' = messages /\ UNCHANGED <<messages, lastHash, settings, chatArea>>
      BY <2>1 DEF Look, texts, mode, drawn
    <3> QED
      BY <3>1 DEF ScreenInv, ScreenCurrent, Overlay, Shows
  <2> QED
    BY <1>5, <2>1, DrawScreen DEF Poll
<1>6. CASE SerialLine
  <2>1. /\ messages' \in {messages, messages + 1}
        /\ UNCHANGED <<lastHash, looked, settings, chatArea>>
    BY <1>6 DEF SerialLine, SendText, mode, drawn
  <2> QED
    BY <2>1, MessageScreen
<1>7. CASE Inbound
  <2>1. /\ messages' \in {messages, messages + 1}
        /\ UNCHANGED <<lastHash, looked, settings, chatArea>>
    BY <1>7 DEF Inbound, mode, drawn
  <2> QED
    BY <2>1, MessageScreen
<1>8. CASE UNCHANGED vars
  <2>1. UNCHANGED <<messages, lastHash, looked, settings, chatArea>>
    BY <1>8 DEF vars, texts, mode, drawn
  <2> QED
    BY <2>1, MessageScreen
<1> QED
  BY <1>1, <1>2, <1>3, <1>4, <1>5, <1>6, <1>7, <1>8 DEF Next, Loop

(* What poll() leaves undrawn on the display is the conversation itself,   *)
(* for any number of messages, keys and settings opened over it.           *)
THEOREM ScreenIsCurrent == Spec => []ScreenCurrent
<1>1. Init => ScreenInv
  <2> SUFFICES ASSUME Init PROVE ScreenInv
    OBVIOUS
  <2>1. messages \in 0..1 /\ lastHash = 0 /\ looked = 0 /\ settings = FALSE
    BY DEF Init
  <2>2. messages \in Nat /\ 0 <= messages
    BY <2>1
  <2>3. ScreenCurrent
    BY <2>1 DEF ScreenCurrent
  <2> QED
    BY <2>1, <2>2, <2>3 DEF ScreenInv
<1>2. ScreenInv /\ [Next]_vars => ScreenInv'
  BY ScreenInvInductive
<1>3. ScreenInv => ScreenCurrent
  BY DEF ScreenInv
<1> QED
  BY <1>1, <1>2, <1>3, PTL DEF Spec

-----------------------------------------------------------------------------
(* Texts and events keep within their buffers.                             *)

LEMMA MinOfTwo ==
  ASSUME NEW a \in Nat, NEW b \in Nat
  PROVE  Min({a, b}) \in {a, b} /\ Min({a, b}) <= a /\ Min({a, b}) <= b
<1>1. \E x \in {a, b} : \A y \in {a, b} : x <= y
  <2>1. CASE a <= b
    BY <2>1
  <2>2. CASE b <= a
    BY <2>2
  <2> QED
    BY <2>1, <2>2
<1> QED
  BY <1>1 DEF Min

LEMMA MaxOfTwo ==
  ASSUME NEW a \in Int, NEW b \in Int
  PROVE  Max({a, b}) \in {a, b} /\ Max({a, b}) >= a /\ Max({a, b}) >= b
<1>1. \E x \in {a, b} : \A y \in {a, b} : x >= y
  <2>1. CASE a <= b
    BY <2>1
  <2>2. CASE b <= a
    BY <2>2
  <2> QED
    BY <2>1, <2>2
<1> QED
  BY <1>1 DEF Max

(* The first n events are events, and the queue is not longer than it is.  *)
LEMMA FirstEvents ==
  ASSUME NEW some \in Seq(EventType)
  PROVE  LET kept == SubSeq(some, 1, Min({Len(some), QueueCap})) IN
         kept \in Seq(EventType) /\ Len(kept) <= QueueCap
<1> DEFINE n == Min({Len(some), QueueCap})
<1>1. Len(some) \in Nat /\ QueueCap \in Nat
  BY AppAssumption
<1>2. n \in Nat /\ n <= Len(some) /\ n <= QueueCap
  BY <1>1, MinOfTwo
<1> HIDE DEF n
<1>3. SubSeq(some, 1, n) \in Seq(EventType) /\ Len(SubSeq(some, 1, n)) = n
  BY <1>1, <1>2
<1> QED
  BY <1>2, <1>3 DEF n

LEMMA PushType ==
  ASSUME TypeOK, NEW type \in EventType, NEW number \in Nat, Push(type, number)
  PROVE  events' \in Seq(EventType) /\ Len(events') <= QueueCap
<1> DEFINE new == [i \in 1..number |-> type]
<1>1. new \in Seq(EventType)
  OBVIOUS
<1>2. events \in Seq(EventType)
  BY DEF TypeOK
<1> HIDE DEF new
<1>3. events \o new \in Seq(EventType)
  BY <1>1, <1>2
<1> QED
  BY <1>3, FirstEvents DEF Push, new

LEMMA BufferTypes ==
  ASSUME TypeOK
  PROVE  /\ Erased \in 0..MaxText /\ 0 \in 0..MaxText /\ buffer \in 0..MaxText
         /\ \A number \in Nat : Appended(number) \in 0..MaxText
<1>1. buffer \in 0..MaxText /\ MaxText \in Nat
  BY AppAssumption DEF TypeOK
<1>2. Erased \in 0..MaxText
  <2>1. buffer - 1 \in Int /\ buffer - 1 <= MaxText
    BY <1>1
  <2>2. Erased \in {buffer - 1, 0} /\ Erased >= 0
    BY <2>1, MaxOfTwo DEF Erased
  <2> QED
    BY <1>1, <2>1, <2>2
<1>3. ASSUME NEW number \in Nat
      PROVE  Appended(number) \in 0..MaxText
  <2>1. buffer + number \in Nat
    BY <1>1
  <2>2. Appended(number) \in {buffer + number, MaxText} /\ Appended(number) <= MaxText
    BY <1>1, <2>1, MinOfTwo DEF Appended
  <2> QED
    BY <1>1, <2>1, <2>2
<1> QED
  BY <1>1, <1>2, <1>3

LEMMA AreaTypes ==
  Blank \in Area /\ Overlay \in Area /\ \A n \in Nat : Shows(n) \in Area
  BY DEF Blank, Overlay, Shows, Area

LEMMA ShowSettingsType ==
  ASSUME TypeOK, NEW on \in BOOLEAN, ShowSettings(on)
  PROVE  /\ settings' \in BOOLEAN /\ lastHash' \in 0..MaxMessages
         /\ chatArea' \in Area /\ inputArea' \in Area
  BY AreaTypes, AppAssumption DEF TypeOK, ShowSettings

LEMMA SendTextType ==
  ASSUME TypeOK, SendText
  PROVE  messages' \in 0..MaxMessages
  BY AppAssumption DEF TypeOK, SendText

LEMMA PollKeyType ==
  ASSUME TypeOK, NEW type \in EventType, NEW number \in Nat, NEW newBuffer \in 0..MaxText,
         PollKey(type, number, newBuffer)
  PROVE  /\ pc' = "events" /\ events' \in Seq(EventType) /\ Len(events') <= QueueCap
         /\ buffer' \in 0..MaxText
         /\ UNCHANGED <<messages, input, lastInput, cursor, looked>>
  BY PushType DEF PollKey

LEMMA TailType ==
  ASSUME TypeOK, events # <<>>, Handled
  PROVE  events' \in Seq(EventType) /\ Len(events') <= QueueCap
<1>1. events \in Seq(EventType) /\ Len(events) <= QueueCap /\ QueueCap \in Nat
  BY AppAssumption DEF TypeOK
<1>2. Tail(events) \in Seq(EventType) /\ Len(Tail(events)) = Len(events) - 1 /\ Len(events) \in Nat
  BY <1>1
<1> QED
  BY <1>1, <1>2 DEF Handled

LEMMA TypeStep ==
  ASSUME TypeOK, [Next]_vars
  PROVE  TypeOK'
<1> USE AppAssumption
<1>1. CASE FnKey
  <2>1. "fnS" \in EventType /\ settings \in BOOLEAN
    BY DEF EventType, TypeOK
  <2>2. PollKey("fnS", 1, buffer) /\ ShowSettings(~settings) /\ wanted' = ~wanted
    BY <1>1 DEF FnKey
  <2>3. /\ pc' = "events" /\ events' \in Seq(EventType) /\ Len(events') <= QueueCap
        /\ buffer' \in 0..MaxText
        /\ UNCHANGED <<messages, input, lastInput, cursor, looked>>
    BY <2>1, <2>2, PollKeyType, BufferTypes
  <2>4. /\ settings' \in BOOLEAN /\ lastHash' \in 0..MaxMessages
        /\ chatArea' \in Area /\ inputArea' \in Area
    BY <2>1, <2>2, ShowSettingsType
  <2> QED
    BY <2>2, <2>3, <2>4 DEF TypeOK
<1>2. CASE OtherKey
  <2>1. PICK type \in EventType, number \in Nat, newBuffer \in 0..MaxText :
          PollKey(type, number, newBuffer)
    <3>1. {"fnW", "tab", "enter", "del", "char"} \subseteq EventType
      BY DEF EventType
    <3>2. CASE \E number \in 0..MaxText + 1 : PollKey("char", number, Appended(number))
      BY <3>1, <3>2, BufferTypes
    <3> QED
      BY <1>2, <3>1, <3>2, BufferTypes DEF OtherKey
  <2>2. UNCHANGED <<mode, lastHash, chatArea, inputArea>>
    BY <1>2 DEF OtherKey
  <2> QED
    BY <2>1, <2>2, PollKeyType DEF TypeOK, mode
<1>3. CASE FnEvent
  <2>1. settings \in BOOLEAN /\ ShowSettings(~settings)
    BY <1>3 DEF FnEvent, TypeOK
  <2>2. events' \in Seq(EventType) /\ Len(events') <= QueueCap
    BY <1>3, TailType DEF FnEvent, Handling
  <2>3. /\ settings' \in BOOLEAN /\ lastHash' \in 0..MaxMessages
        /\ chatArea' \in Area /\ inputArea' \in Area
    BY <2>1, ShowSettingsType
  <2> QED
    BY <1>3, <2>2, <2>3 DEF FnEvent, TypeOK
<1>4. CASE EnterEvent \/ TabEvent \/ OtherEvent
  <2>1. events' \in Seq(EventType) /\ Len(events') <= QueueCap
    BY <1>4, TailType DEF EnterEvent, TabEvent, OtherEvent, Handling
  <2>2. messages' \in 0..MaxMessages
    BY <1>4, SendTextType DEF EnterEvent, TabEvent, OtherEvent, TypeOK
  <2>3. buffer' \in 0..MaxText
    BY <1>4, BufferTypes DEF EnterEvent, TabEvent, OtherEvent
  <2>4. UNCHANGED <<pc, mode, input, drawn, cursor, looked>>
    BY <1>4 DEF EnterEvent, TabEvent, OtherEvent
  <2> QED
    BY <2>1, <2>2, <2>3, <2>4 DEF TypeOK, mode, drawn
<1>5. CASE EventsDone
  BY <1>5 DEF EventsDone, TypeOK, texts, mode, drawn
<1>6. ASSUME NEW blink \in BOOLEAN, Look(blink)
      PROVE  TypeOK'
  BY <1>6 DEF Look, TypeOK, texts, mode, drawn
<1>7. ASSUME NEW force \in BOOLEAN, Draw(force)
      PROVE  TypeOK'
  <2>1. looked \in 0..MaxMessages /\ input \in 0..MaxText /\ messages \in Nat /\ input \in Nat
    BY DEF TypeOK
  <2>2. lastHash' \in 0..MaxMessages /\ lastInput' \in 0..MaxText
    BY <1>7, <2>1 DEF Draw, DrawSettings, DrawChat, DrawInput, TypeOK
  <2>3. chatArea' \in Area /\ inputArea' \in Area
    BY <1>7, <2>1, AreaTypes DEF Draw, DrawSettings, DrawChat, DrawInput, TypeOK
  <2>4. pc' = "serial" /\ UNCHANGED <<texts, mode, input, cursor, looked>>
    BY <1>7 DEF Draw
  <2> QED
    BY <2>2, <2>3, <2>4 DEF TypeOK, texts, mode
<1>8. CASE SerialLine
  <2>1. messages' \in 0..MaxMessages
    BY <1>8, SendTextType DEF SerialLine, TypeOK
  <2> QED
    BY <1>8, <2>1 DEF SerialLine, TypeOK, mode, drawn
<1>9. CASE Inbound
  BY <1>9 DEF Inbound, TypeOK, mode, drawn
<1>10. CASE UNCHANGED vars
  BY <1>10 DEF vars, TypeOK, texts, mode, drawn
<1> QED
  BY <1>1, <1>2, <1>3, <1>4, <1>5, <1>6, <1>7, <1>8, <1>9, <1>10 DEF Next, Loop, HandleKeyEvent, Poll

(* Typed text and events never leave the input buffer and the *)
(* queue of keys, however long either is.                                  *)
THEOREM AppTypes == Spec => []TypeOK
<1>1. Init => TypeOK
  <2> SUFFICES ASSUME Init PROVE TypeOK
    OBVIOUS
  <2>1. events \in Seq(EventType) /\ Len(events) = 0
    BY DEF Init
  <2>2. Len(events) <= QueueCap
    BY <2>1, AppAssumption
  <2>3. messages \in 0..MaxMessages /\ 0 \in 0..MaxText /\ 0 \in 0..MaxMessages
    BY AppAssumption DEF Init
  <2> QED
    BY <2>1, <2>2, <2>3, AreaTypes DEF Init, TypeOK
<1>2. TypeOK /\ [Next]_vars => TypeOK'
  BY TypeStep
<1> QED
  BY <1>1, <1>2, PTL DEF Spec

=============================================================================
