---------------------------- MODULE CardputerApp ----------------------------
(***************************************************************************)
(* The terminal: keyboard, input line, settings and the screen             *)
(* (src/src/app/cardputer_app.cpp, lib/keyboard, lib/display).             *)
(*                                                                         *)
(* The Arduino loop polls the keys, handles the key events, draws what has *)
(* changed and reads the serial line; meanwhile the protocol task appends  *)
(* messages to the conversation.  The screen is drawn over, never cleared  *)
(* as a whole: what is on it depends on every earlier drawing.             *)
(*                                                                         *)
(* The conversation is the number of messages so far: its hash and count   *)
(* are taken to tell any two states of it apart, as long as it is not      *)
(* empty; the hash of an empty one is 0, which also stands for "draw".  A  *)
(* text is its length.                                                     *)
(***************************************************************************)
EXTENDS Naturals, Sequences, SequencesExt

CONSTANTS
  MaxText,     \* kMaxChatText - 1, the longest text of an InputBuffer
  QueueCap,    \* length of the key queue (8 in the code)
  MaxMessages  \* bound: messages of the run

ASSUME AppAssumption ==
  /\ MaxText \in Nat \ {0} /\ QueueCap \in Nat \ {0} /\ MaxMessages \in Nat \ {0}

VARIABLES
  pc,         \* where the loop is
  messages,   \* the conversation
  buffer,     \* InputBuffer::m_buf
  events,     \* s_key_queue
  settings,   \* m_settings
  wanted,     \* history: settings, had every Fn+S toggled it once
  input,      \* m_input
  lastInput,  \* m_last_input
  lastHash,   \* m_last_chat_hash and m_last_msg_count
  cursor,     \* m_cursor_on
  looked,     \* chat_hash and msg_count of the running poll()
  chatArea,   \* history: what the middle of the screen shows
  inputArea   \* history: what the input line shows

texts == <<messages, buffer, events>>
mode  == <<settings, wanted>>
drawn == <<lastInput, lastHash, chatArea, inputArea>>
vars  == <<pc, texts, mode, input, drawn, cursor, looked>>

EventType == {"fnS", "fnW", "tab", "enter", "del", "char"}

(* What an area of the screen may show: nothing, the settings, or (the     *)
(* messages up to) a number.                                               *)
Blank    == [what |-> "blank", number |-> 0]
Overlay  == [what |-> "settings", number |-> 0]
Shows(n) == [what |-> "text", number |-> n]
Area     == [what : {"blank", "settings", "text"}, number : Nat]

(* pushEvent, number times; trySend drops what finds the queue full.       *)
Push(type, number) ==
  LET some == events \o [i \in 1..number |-> type] IN
  events' = SubSeq(some, 1, Min({Len(some), QueueCap}))

-----------------------------------------------------------------------------
(* CardputerUi::showSettings.                                              *)
(* Mutant: the middle is cleared, and is not marked as changed. *)
ShowSettingsKeepingHash(on) ==
  /\ settings' = on
  /\ UNCHANGED lastHash
  /\ IF settings # on THEN chatArea' = Blank /\ inputArea' = Blank
                      ELSE UNCHANGED <<chatArea, inputArea>>

ShowSettings(on) ==
  /\ settings' = on
  /\ IF settings # on
       THEN lastHash' = 0 /\ chatArea' = Blank /\ inputArea' = Blank
       ELSE UNCHANGED <<lastHash, chatArea, inputArea>>

-----------------------------------------------------------------------------
(* InputBuffer.                                                            *)
(* Mutant: room for the final zero is forgotten. *)
AppendedPast(number) == Min({buffer + number, MaxText + 1})

Appended(number) == Min({buffer + number, MaxText})

Erased == Max({buffer - 1, 0})

(* KeyboardTask::poll: nothing changed, or the first that applies of Fn,   *)
(* Tab, Enter, Del, and the characters held down.                          *)
PollKey(type, number, newBuffer) ==
  /\ pc = "keys"
  /\ pc' = "events"
  /\ Push(type, number)
  /\ buffer' = newBuffer
  /\ UNCHANGED <<messages, input, lastInput, cursor, looked>>

FnKey ==
  /\ PollKey("fnS", 1, buffer)
  /\ ShowSettings(~settings)                                \* m_fn_handler
  /\ wanted' = ~wanted

OtherKey ==
  /\ \/ PollKey("fnW", 1, buffer)
     \/ PollKey("tab", 1, 0)
     \/ PollKey("enter", 1, buffer)
     \/ PollKey("del", 1, Erased)
     \/ \E number \in 0..MaxText + 1 : PollKey("char", number, Appended(number))
  /\ UNCHANGED <<mode, lastHash, chatArea, inputArea>>

(* ChatService::sendText appends the text, or the radio refused it.        *)
SendText ==
  \/ messages < MaxMessages /\ messages' = messages + 1
  \/ UNCHANGED messages

(* cardputerLoop takes the next event to handleKeyEvent, which ignores     *)
(* Fn+W, characters and Backspace.                                         *)
Handling(type) == pc = "events" /\ events # <<>> /\ Head(events) = type

Handled == events' = Tail(events)

FnEvent ==
  /\ Handling("fnS")
  /\ Handled
  /\ ShowSettings(~settings)
  /\ UNCHANGED <<pc, messages, buffer, wanted, input, lastInput, cursor, looked>>

EnterEvent ==
  /\ Handling("enter")
  /\ Handled
  /\ IF ~settings /\ buffer # 0
       THEN SendText /\ buffer' = 0
       ELSE UNCHANGED <<messages, buffer>>
  /\ UNCHANGED <<pc, mode, input, drawn, cursor, looked>>

TabEvent ==
  /\ Handling("tab")
  /\ Handled
  /\ buffer' = IF settings THEN buffer ELSE 0
  /\ UNCHANGED <<pc, messages, mode, input, drawn, cursor, looked>>

OtherEvent ==
  /\ \E type \in {"fnW", "del", "char"} : Handling(type)
  /\ Handled
  /\ UNCHANGED <<pc, messages, buffer, mode, input, drawn, cursor, looked>>

EventsDone ==
  /\ pc = "events"
  /\ events = <<>>
  /\ pc' = "look"
  /\ input' = buffer
  /\ UNCHANGED <<texts, mode, drawn, cursor, looked>>

-----------------------------------------------------------------------------
(* CardputerUi::poll looks at the conversation first ...                   *)
Look(blink) ==
  /\ pc = "look"
  /\ pc' = "draw"
  /\ looked' = messages
  /\ cursor' = IF blink THEN ~cursor ELSE cursor
  /\ UNCHANGED <<texts, mode, input, drawn>>

ChatChanged == looked # lastHash

(* Mutant: what was drawn is taken for what was looked at. *)
DrawChatCounting(force) ==
  IF ChatChanged \/ force
    THEN chatArea' = Shows(looked) /\ lastHash' = messages
    ELSE UNCHANGED <<chatArea, lastHash>>

(* ... and draws it as it is by then.                                      *)
DrawChat(force) ==
  IF ChatChanged \/ force
    THEN chatArea' = Shows(messages) /\ lastHash' = looked
    ELSE UNCHANGED <<chatArea, lastHash>>

(* Mutant: the input line is drawn when it changed, not with the cursor. *)
DrawInputChanged(force) ==
  IF input # lastInput \/ force
    THEN inputArea' = Shows(input) /\ lastInput' = input
    ELSE UNCHANGED <<inputArea, lastInput>>

DrawInput(force) ==
  IF input # lastInput \/ cursor \/ force
    THEN inputArea' = Shows(input) /\ lastInput' = input
    ELSE UNCHANGED <<inputArea, lastInput>>

(* The settings cover the input line as well.                              *)
DrawSettings(force) ==
  IF ChatChanged \/ force
    THEN chatArea' = Overlay /\ inputArea' = Blank /\ lastHash' = looked
    ELSE UNCHANGED <<chatArea, inputArea, lastHash>>

(* force: the last drawing is more than two seconds ago.                   *)
Draw(force) ==
  /\ pc = "draw"
  /\ pc' = "serial"
  /\ IF settings THEN DrawSettings(force) /\ UNCHANGED lastInput
                 ELSE DrawChat(force) /\ DrawInput(force)
  /\ UNCHANGED <<texts, mode, input, cursor, looked>>

-----------------------------------------------------------------------------
(* A line from the serial console is sent like a typed one.                *)
SerialLine ==
  /\ pc = "serial"
  /\ pc' = "keys"
  /\ IF settings THEN UNCHANGED messages ELSE SendText
  /\ UNCHANGED <<buffer, events, mode, input, drawn, cursor, looked>>

(* The protocol task: ChatService::onInbound.                              *)
Inbound ==
  /\ messages < MaxMessages
  /\ messages' = messages + 1
  /\ UNCHANGED <<pc, buffer, events, mode, input, drawn, cursor, looked>>

(* startCardputer: messages may have been loaded from the store.  The      *)
(* screen is cleared by begin().                                           *)
Init ==
  /\ pc = "keys"
  /\ messages \in 0..1
  /\ buffer = 0
  /\ events = <<>>
  /\ settings = FALSE /\ wanted = FALSE
  /\ input = 0 /\ lastInput = 0
  /\ lastHash = 0
  /\ cursor = TRUE
  /\ looked = 0
  /\ chatArea = Blank /\ inputArea = Blank

HandleKeyEvent == FnEvent \/ EnterEvent \/ TabEvent \/ OtherEvent

Poll == (\E blink \in BOOLEAN : Look(blink)) \/ (\E force \in BOOLEAN : Draw(force))

Loop ==
  \/ FnKey
  \/ OtherKey
  \/ HandleKeyEvent
  \/ EventsDone
  \/ Poll
  \/ SerialLine

Next == Loop \/ Inbound

Spec == Init /\ [][Next]_vars

(* The loop never blocks for good, and the cursor changes twice a second.  *)
Fairness ==
  /\ WF_vars(Loop)
  /\ SF_vars(Look(TRUE))

FairSpec == Spec /\ Fairness

-----------------------------------------------------------------------------
(* The type of every variable; texts and events keep within their buffers. *)
TypeOK ==
  /\ pc \in {"keys", "events", "look", "draw", "serial"}
  /\ messages \in 0..MaxMessages
  /\ buffer \in 0..MaxText
  /\ events \in Seq(EventType) /\ Len(events) <= QueueCap
  /\ settings \in BOOLEAN /\ wanted \in BOOLEAN
  /\ input \in 0..MaxText /\ lastInput \in 0..MaxText
  /\ lastHash \in 0..MaxMessages
  /\ cursor \in BOOLEAN
  /\ looked \in 0..MaxMessages
  /\ chatArea \in Area /\ inputArea \in Area

(* A poll that finds the conversation unchanged may leave the screen as it *)
(* is: it shows this very conversation (or the settings), though messages  *)
(* come while it is drawn and the settings open and close over it.         *)
ScreenCurrent ==
  lastHash = messages /\ messages # 0 =>
    chatArea = IF settings THEN Overlay ELSE Shows(messages)

(* Every message comes to the screen, newer ones with it.                  *)
MessageShown == \A m \in 1..MaxMessages :
  messages >= m ~> chatArea.what = "text" /\ chatArea.number >= m

(* Fn+S blanks the input line, which counts as unchanged: what is in the   *)
(* buffer still shows again, unless it is typed on or sent.                *)
InputShown == \A n \in 0..MaxText : []<>(buffer # n \/ inputArea = Shows(n))

(* Once its events are handled, every Fn+S has toggled the settings        *)
(* (docs/PHASE8_CARDPUTER_UI.md:22).                                       *)
FnTogglesSettings == pc \in {"look", "draw", "serial"} => settings = wanted

=============================================================================
