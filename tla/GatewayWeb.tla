----------------------------- MODULE GatewayWeb -----------------------------
(***************************************************************************)
(* The gateway's web chat: GatewayWeb between the conversation and the     *)
(* pages on the phones (src/lib/webserver/gateway_web.cpp, data/app.js).   *)
(*                                                                         *)
(* A message is appended to the conversation and then told to the          *)
(* listener, which writes it to every client of the WebSocket; any of      *)
(* several tasks may be between the two.  A client that connects is in the *)
(* list of clients first; then its handler reads the conversation message  *)
(* by message into a history and writes that to the client.                *)
(*                                                                         *)
(* A reader may see an append half done; that two tasks append at once is  *)
(* left to ChatTasks.  Status frames are left out.                         *)
(***************************************************************************)
EXTENDS Naturals, SequencesExt

CONSTANTS
  Writer,       \* the tasks that handle messages, beside the AsyncTCP task
  Tcp,          \* the AsyncTCP task: connections, and texts from the phones
  Client,       \* the phones
  Nobody,       \* no client
  Capacity,     \* ConversationModel::kDisplayCapacity (50 in the code)
  QueueCap,     \* frames AsyncWebSocket holds for a client (32 on the ESP32)
  MaxMessages,  \* bound: messages of the run
  MaxConnects   \* bound: connections of the run

ASSUME WebAssumption ==
  /\ Tcp \notin Writer /\ Nobody \notin Client
  /\ Capacity \in Nat \ {0} /\ QueueCap \in Nat \ {0}
  /\ MaxMessages \in Nat /\ MaxConnects \in Nat

VARIABLES
  conv,       \* the conversation as at(0) .. at(count - 1) return it
  halfway,    \* the task that has replaced the oldest message and not moved m_head
  telling,    \* telling[t]: the message t appended and has not told yet
  listening,  \* the listener is set
  clients,    \* the clients of the WebSocket
  building,   \* the client whose connection the AsyncTCP task handles
  history,    \* what it has read of the conversation so far
  out,        \* out[c]: frames on their way to c
  page,       \* page[c]: what the page of c shows, and its set of seen messages
  last,       \* history: messages so far
  connects,   \* history: connections so far
  crowded,    \* history: messages handled while another was
  midway,     \* history: messages appended while a history was read half way
  untold,     \* history: messages told while no listener was set
  disturbed,  \* history: clients whose history was built while messages came
  dropped     \* dropped[c]: history: messages that found the frames of c full

chat  == <<conv, halfway, telling, last, crowded>>
web   == <<clients, building, history, connects>>
vars  == <<conv, halfway, telling, listening, clients, building, history, out, page,
           last, connects, crowded, midway, untold, disturbed, dropped>>

Task    == Writer \cup {Tcp}
Message == 1..MaxMessages
Nothing == 0

Frame == [kind : {"message", "history"}, body : Seq(Message)]
Page  == [shown : Seq(Message), seen : SUBSET Message]

EmptyPage == [shown |-> <<>>, seen |-> {}]

-----------------------------------------------------------------------------
(* The page (app.js).                                                      *)
Show(p, m) ==
  IF m \in p.seen THEN p
                  ELSE [shown |-> Append(p.shown, m), seen |-> p.seen \cup {m}]

(* Mutant: the set of seen messages outlives the history. *)
OnMessageKeepingSeen(p, f) ==
  FoldLeft(Show, IF f.kind = "history" THEN [p EXCEPT !.shown = <<>>] ELSE p, f.body)

(* A history replaces what is shown, a message is added to it.             *)
OnMessage(p, f) ==
  FoldLeft(Show, IF f.kind = "history" THEN EmptyPage ELSE p, f.body)

-----------------------------------------------------------------------------
(* ChatService::onInbound in task t: append, then tell the listener.       *)
Busy == {t \in Task : telling[t] # Nothing}

(* The AsyncTCP task runs one handler after the other.                     *)
Free(t) == telling[t] = Nothing /\ (t = Tcp => building = Nobody)

(* Mutant: the ring has no end. *)
PlacedUnbounded(m) == Append(conv, m)

(* Once the ring is full, the slot of the oldest message is taken first... *)
Placed(m) ==
  IF Len(conv) < Capacity THEN Append(conv, m) ELSE [conv EXCEPT ![1] = m]

Disturb == disturbed' = disturbed \cup ({building} \ {Nobody})

AppendMessage(t) ==
  LET m == last + 1 IN
  /\ Free(t)
  /\ halfway = {}
  /\ m \in Message
  /\ conv' = Placed(m)
  /\ halfway' = IF Len(conv) < Capacity THEN {} ELSE {t}
  /\ telling' = [telling EXCEPT ![t] = m]
  /\ last' = m
  /\ crowded' = IF Busy = {} THEN crowded
                             ELSE crowded \cup {m} \cup {telling[u] : u \in Busy}
  /\ Disturb
  /\ UNCHANGED <<listening, web, out, page, midway, untold, dropped>>

(* ... and then m_head moves, which makes it the last.                     *)
MoveHead(t) ==
  /\ t \in halfway
  /\ halfway' = {}
  /\ conv' = Append(Tail(conv), Head(conv))
  /\ Disturb
  /\ UNCHANGED <<telling, last, crowded, listening, web, out, page, midway,
                 untold, dropped>>

HasRoom(c) == c \in clients /\ Len(out[c]) < QueueCap

(* Mutant: only the clients that wait for nothing are told. *)
TextAllIdle(f) ==
  out' = [c \in Client |-> IF HasRoom(c) /\ out[c] = <<>> THEN Append(out[c], f) ELSE out[c]]

TextAll(f) ==
  out' = [c \in Client |-> IF HasRoom(c) THEN Append(out[c], f) ELSE out[c]]

(* onChatMessage: a frame for every client that has room for it.           *)
Tell(t) ==
  LET m == telling[t] IN
  /\ m # Nothing
  /\ t \notin halfway
  /\ listening
  /\ TextAll([kind |-> "message", body |-> <<m>>])
  /\ dropped' = [c \in Client |->
       IF c \in clients /\ ~HasRoom(c) THEN dropped[c] \cup {m} ELSE dropped[c]]
  /\ telling' = [telling EXCEPT ![t] = Nothing]
  /\ Disturb
  /\ UNCHANGED <<conv, halfway, last, crowded, listening, web, page, midway, untold>>

TellNobody(t) ==
  /\ telling[t] # Nothing
  /\ t \notin halfway
  /\ ~listening
  /\ untold' = untold \cup {telling[t]}
  /\ telling' = [telling EXCEPT ![t] = Nothing]
  /\ UNCHANGED <<conv, halfway, last, crowded, listening, web, out, page, midway,
                 disturbed, dropped>>

-----------------------------------------------------------------------------
(* begin() sets the listener when the server accepts connections already.  *)
SetMessageListener ==
  /\ ~listening
  /\ listening' = TRUE
  /\ UNCHANGED <<chat, web, out, page, midway, untold, disturbed, dropped>>

(* WS_EVT_CONNECT: the library lists the client before the handler runs.   *)
Connect(c) ==
  /\ Free(Tcp)
  /\ c \notin clients
  /\ connects < MaxConnects
  /\ connects' = connects + 1
  /\ clients' = clients \cup {c}
  /\ building' = c
  /\ history' = <<>>
  /\ disturbed' = disturbed \ {c}
  /\ dropped' = [dropped EXCEPT ![c] = {}]
  /\ UNCHANGED <<chat, listening, out, page, midway, untold>>

(* Mutant: the newest message first. *)
ReadNewestFirst ==
  /\ building # Nobody
  /\ Len(history) < Len(conv)
  /\ history' = Append(history, conv[Len(conv) - Len(history)])
  /\ midway' = midway \cup {telling[t] : t \in halfway}
  /\ UNCHANGED <<chat, listening, clients, building, connects, out, page,
                 untold, disturbed, dropped>>

(* buildHistoryEnvelope: count() and at(i) are read anew for each message. *)
ReadHistory ==
  /\ building # Nobody
  /\ Len(history) < Len(conv)
  /\ history' = Append(history, conv[Len(history) + 1])
  /\ midway' = midway \cup {telling[t] : t \in halfway}
  /\ UNCHANGED <<chat, listening, clients, building, connects, out, page,
                 untold, disturbed, dropped>>

(* client->text(history).                                                  *)
SendHistory ==
  /\ building # Nobody
  /\ Len(history) = Len(conv)
  /\ out' = IF HasRoom(building)
              THEN [out EXCEPT ![building] =
                      Append(@, [kind |-> "history", body |-> history])]
              ELSE out
  /\ building' = Nobody
  /\ history' = <<>>
  /\ UNCHANGED <<chat, listening, clients, connects, page, midway,
                 untold, disturbed, dropped>>

(* The page receives the next frame.                                       *)
Deliver(c) ==
  /\ out[c] # <<>>
  /\ page' = [page EXCEPT ![c] = OnMessage(@, Head(out[c]))]
  /\ out' = [out EXCEPT ![c] = Tail(@)]
  /\ UNCHANGED <<chat, listening, web, midway, untold, disturbed, dropped>>

(* The connection breaks with the frames on it; the page stays as it is,   *)
(* and connects again.                                                     *)
Disconnect(c) ==
  /\ Free(Tcp)
  /\ c \in clients
  /\ clients' = clients \ {c}
  /\ out' = [out EXCEPT ![c] = <<>>]
  /\ UNCHANGED <<chat, listening, building, history, connects, page,
                 midway, untold, disturbed, dropped>>

-----------------------------------------------------------------------------
Init ==
  /\ conv = <<>>
  /\ halfway = {}
  /\ telling = [t \in Task |-> Nothing]
  /\ listening = FALSE
  /\ clients = {}
  /\ building = Nobody
  /\ history = <<>>
  /\ out = [c \in Client |-> <<>>]
  /\ page = [c \in Client |-> EmptyPage]
  /\ last = 0
  /\ connects = 0
  /\ crowded = {}
  /\ midway = {}
  /\ untold = {}
  /\ disturbed = {}
  /\ dropped = [c \in Client |-> {}]

OnInbound(t) == AppendMessage(t) \/ MoveHead(t) \/ Tell(t) \/ TellNobody(t)

Next ==
  \/ \E t \in Task : OnInbound(t)
  \/ SetMessageListener
  \/ \E c \in Client : Connect(c) \/ Deliver(c) \/ Disconnect(c)
  \/ ReadHistory \/ SendHistory

Spec == Init /\ [][Next]_vars

-----------------------------------------------------------------------------
(* The type of every variable; the conversation keeps its capacity. *)
TypeOK ==
  /\ conv \in Seq(Message) /\ Len(conv) <= Capacity
  /\ halfway \subseteq Task
  /\ telling \in [Task -> Message \cup {Nothing}]
  /\ listening \in BOOLEAN
  /\ clients \subseteq Client
  /\ building \in Client \cup {Nobody}
  /\ history \in Seq(Message) /\ Len(history) <= Capacity
  /\ out \in [Client -> Seq(Frame)]
  /\ page \in [Client -> Page]
  /\ last \in Nat /\ connects \in Nat
  /\ crowded \subseteq Message /\ midway \subseteq Message /\ untold \subseteq Message
  /\ disturbed \subseteq Client
  /\ dropped \in [Client -> SUBSET Message]

(* What the page of c shows when it has received all that is underway.     *)
Final(c) == FoldLeft(OnMessage, page[c], out[c])

(* A connected page comes to show all of the conversation, but for what is *)
(* still to be told, what was told before there was a listener and what    *)
(* found the frames full - unless messages came while its history was      *)
(* built.                                                                  *)
PageComplete == \A c \in clients \ (disturbed \cup {building}) :
  ToSet(conv) \subseteq
    ToSet(Final(c).shown) \cup {telling[t] : t \in Task} \cup untold \cup dropped[c]

(* No page shows a message twice, and it has seen what it shows, across    *)
(* live messages, histories that hold them too and new connections.        *)
PageConsistent == \A c \in Client :
  IsInjective(page[c].shown) /\ page[c].seen = ToSet(page[c].shown)

(* A page shows messages in the order of the conversation, but for those   *)
(* which two tasks handled at the same time and those which a history met  *)
(* half way into the ring.                                                 *)
PageInOrder == \A c \in Client : \A i, j \in DOMAIN page[c].shown :
  LET m == page[c].shown[i]
      n == page[c].shown[j]
  IN  i < j /\ n < m => {m, n} \subseteq crowded \/ m \in midway

=============================================================================
