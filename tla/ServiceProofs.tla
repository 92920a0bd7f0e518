--------------------------- MODULE ServiceProofs ---------------------------
(***************************************************************************)
(* Theorems about Service, for every value of its constants: the server    *)
(* sees no frames but those StompServer lets arrive, every client sees a   *)
(* server that StompClient assumes, a report is forwarded only in the name *)
(* of a user whose login is bound to the connection it came by, and what a *)
(* careful user was told of the games he is in is so.                      *)
(*                                                                         *)
(* The two refinements need each other: what the server is asked is what   *)
(* the clients have typed (CP!Inv), and that is preserved because the      *)
(* server answers as StompClient assumes.  So one invariant, ServiceInv,   *)
(* is carried through both.                                                *)
(***************************************************************************)
EXTENDS Service, SerialProofs

\* StompClient with its theorems; Client is the same without them.
CP == INSTANCE StompClientProofs WITH
    Clients <- Conns, Users <- Logins, Passwords <- Passcodes, Games <- Channels,
    MaxInFlight <- Null

----------------------------------------------------------------------------
(* The invariant.                                                          *)

\* The frame the thread of c is processing is the first of its stream, and the
\* local variables are the headers of its text.  A DISCONNECT never gets here.
InProcess(c) ==
    LET text == Input(c) IN
    /\ status[c] = "open" /\ CP!HasFrame(c) /\ CP!JavaParses(text)
    /\ frame[c].command = CP!JavaCommand(text)
    /\ frame[c].receipt = CP!JavaGet(text, "receipt")
    /\ \/ /\ pc[c] \in {"put", "rebind", "bind", "passcode"}
          /\ frame[c].command = "CONNECT"
          /\ frame[c].login = CP!JavaGet(text, "login")
       \/ /\ pc[c] \in {"check", "stamp", "open", "next", "recipient", "write"}
          /\ frame[c].command = "SEND"
       \/ pc[c] \in {"create", "add", "index"} /\ frame[c].command = "SUBSCRIBE"
       \/ pc[c] \in {"scan", "pick", "remove"} /\ frame[c].command = "UNSUBSCRIBE"
    /\ pc[c] \in {"open", "next", "recipient", "write"} =>
          topicToChannelId[c][frame[c].channel] # Null

\* The two ends of a connection agree on whether it is there.
Linked(c) ==
    /\ status[c] = "open" => serverOpen[c]
    /\ serverOpen[c] => status[c] \in {"new", "open"}
    /\ proc[c] = "new" =>
          status[c] = "new" /\ ~serverOpen[c] /\ toServer[c] = << >> /\ ~login[c]

Bridged(c) == Linked(c) /\ (pc[c] # "idle" => InProcess(c))

ServiceInv == Inv /\ CP!Inv /\ \A c \in Conns : Bridged(c)

\* u is registered, and bound to c.
Bound(u, c) == loginConnectionId[u] = c /\ loginPasscode[u] # Null

\* Before the k-th frame of c's stream is processed, u will be bound to c.
Earlier(c, u, k) ==
    \/ Bound(u, c)
    \/ \E j \in 1 .. Len(toServer[c]) :
          j < k /\ \E p \in Passcodes : toServer[c][j].text = CP!ConnectFrame(u, p)

Next1(c) == Len(toServer[c]) + 1

\* No report is behind or ahead of the CONNECT of its user.
Reporters(c) ==
    serverOpen[c] =>
        /\ \A k \in 1 .. Len(toServer[c]), u \in Logins, g \in Channels :
              toServer[c][k].text = CP!SendFrame(u, g) => Earlier(c, u, k)
        /\ \A u \in Logins, g \in Channels :
              keyboard[c] \in {"insert", "text"} /\ draft[c].text = CP!SendFrame(u, g) =>
                  Earlier(c, u, Next1(c))
        /\ login[c] =>
              \/ keyboard[c] = "text" /\ \E p \in Passcodes :
                    draft[c].text = CP!ConnectFrame(username[c], p)
              \/ Earlier(c, username[c], Next1(c))

----------------------------------------------------------------------------
(* The two instances are one, and its assumption holds.                    *)

LEMMA Bounds == CP!ClientAssumption
  BY ServiceAssumption, NullAssumption
     DEF ServiceAssumption, NullAssumption, CP!ClientAssumption

LEMMA Same ==
    /\ Client!Init <=> CP!Init
    /\ Client!vars = CP!vars
    /\ Client!Next <=> CP!Next
    /\ \A c :
          /\ Client!Start(c) <=> CP!Start(c)
          /\ Client!Command(c) <=> CP!Command(c)
          /\ Client!KeyboardStep(c) <=> CP!KeyboardStep(c)
          /\ Client!SocketStep(c) <=> CP!SocketStep(c)
          /\ Client!HasFrame(c) <=> CP!HasFrame(c)
<1> SUFFICES ASSUME NEW c
             PROVE  /\ Client!Init <=> CP!Init
                    /\ Client!vars = CP!vars
                    /\ Client!Next <=> CP!Next
                    /\ Client!Start(c) <=> CP!Start(c)
                    /\ Client!Command(c) <=> CP!Command(c)
                    /\ Client!KeyboardStep(c) <=> CP!KeyboardStep(c)
                    /\ Client!SocketStep(c) <=> CP!SocketStep(c)
                    /\ Client!HasFrame(c) <=> CP!HasFrame(c)
  OBVIOUS
<1> QED BY DEF Client!Header, CP!Header, Client!Plain, CP!Plain, Client!Blank, CP!Blank,
     Client!IsBlank, CP!IsBlank, Client!HasColon, CP!HasColon, Client!Text, CP!Text,
     Client!EmptyFrame, CP!EmptyFrame, Client!HeadersEndAt, CP!HeadersEndAt,
     Client!HeadersBefore, CP!HeadersBefore, Client!JavaParses, CP!JavaParses,
     Client!JavaEnd, CP!JavaEnd, Client!JavaCommand, CP!JavaCommand, Client!JavaGet,
     CP!JavaGet, Client!CppParses, CP!CppParses, Client!CppEnd, CP!CppEnd,
     Client!CppCommand, CP!CppCommand, Client!CppGet, CP!CppGet, Client!DropLast,
     CP!DropLast, Client!ClientText, CP!ClientText, Client!ConnectFrame, CP!ConnectFrame,
     Client!SubscribeFrame, CP!SubscribeFrame, Client!UnsubscribeFrame, CP!UnsubscribeFrame,
     Client!SendFrame, CP!SendFrame, Client!LogoutFrame, CP!LogoutFrame, Client!Reporter,
     CP!Reporter, Client!ServerText, CP!ServerText, Client!ConnectedFrame,
     CP!ConnectedFrame, Client!ReceiptFrame, CP!ReceiptFrame, Client!MessageFrame,
     CP!MessageFrame, Client!maps, CP!maps, Client!session, CP!session, Client!network,
     CP!network, Client!vars, CP!vars, Client!Request, CP!Request, Client!NoRequest,
     CP!NoRequest, Client!NoDraft, CP!NoDraft, Client!NoReport, CP!NoReport, Client!NoMap,
     CP!NoMap, Client!Init, CP!Init, Client!Insert, CP!Insert, Client!Running, CP!Running,
     Client!End, CP!End, Client!KeyboardTo, CP!KeyboardTo, Client!Start, CP!Start,
     Client!Refused, CP!Refused, Client!Terminate, CP!Terminate, Client!Type, CP!Type,
     Client!Draft, CP!Draft, Client!Ask, CP!Ask, Client!TypeLogin, CP!TypeLogin,
     Client!TypeJoin, CP!TypeJoin, Client!IdOf, CP!IdOf, Client!TypeExit, CP!TypeExit,
     Client!TypeLogout, CP!TypeLogout, Client!TypeOther, CP!TypeOther, Client!Files,
     CP!Files, Client!TypeReport, CP!TypeReport, Client!TypeIgnored, CP!TypeIgnored,
     Client!TypeBroken, CP!TypeBroken, Client!NextReceipt, CP!NextReceipt,
     Client!InsertRequest, CP!InsertRequest, Client!SaveEvent, CP!SaveEvent,
     Client!NextEvent, CP!NextEvent, Client!EndReport, CP!EndReport, Client!InReport,
     CP!InReport, Client!WriteFails, CP!WriteFails, Client!WriteText, CP!WriteText,
     Client!Ended, CP!Ended, Client!WriteDelimiter, CP!WriteDelimiter, Client!Acknowledged,
     CP!Acknowledged, Client!Receive, CP!Receive, Client!LookupRaces, CP!LookupRaces,
     Client!LeaveLoop, CP!LeaveLoop, Client!ConnectionLost, CP!ConnectionLost,
     Client!HasFrame, CP!HasFrame, Client!Reply, CP!Reply, Client!Acknowledge,
     CP!Acknowledge, Client!PeerMessage, CP!PeerMessage, Client!PeerClose, CP!PeerClose,
     Client!Command, CP!Command, Client!KeyboardStep, CP!KeyboardStep, Client!SocketStep,
     CP!SocketStep, Client!ProcessStep, CP!ProcessStep, Client!PeerStep, CP!PeerStep,
     Client!Next, CP!Next, Client!Front, CP!Front, Client!Last, CP!Last

LEMMA SameTexts ==
    /\ \A text : Client!JavaParses(text) <=> CP!JavaParses(text)
    /\ \A text : Client!JavaCommand(text) = CP!JavaCommand(text)
    /\ \A text, key : Client!JavaGet(text, key) = CP!JavaGet(text, key)
    /\ \A text : Client!Reporter(text) = CP!Reporter(text)
    /\ Client!ConnectedFrame = CP!ConnectedFrame
    /\ \A r : Client!ReceiptFrame(r) = CP!ReceiptFrame(r)
    /\ \A i, g : Client!MessageFrame(i, g) = CP!MessageFrame(i, g)
<1> SUFFICES ASSUME NEW text, NEW key, NEW r, NEW i, NEW g
    PROVE
    /\ Client!JavaParses(text) <=> CP!JavaParses(text)
    /\ Client!JavaCommand(text) = CP!JavaCommand(text)
    /\ Client!JavaGet(text, key) = CP!JavaGet(text, key)
    /\ Client!Reporter(text) = CP!Reporter(text)
    /\ Client!ConnectedFrame = CP!ConnectedFrame
    /\ Client!ReceiptFrame(r) = CP!ReceiptFrame(r)
    /\ Client!MessageFrame(i, g) = CP!MessageFrame(i, g)
  OBVIOUS
<1> QED BY DEF Client!Header, CP!Header, Client!Plain, CP!Plain, Client!Blank, CP!Blank,
     Client!IsBlank, CP!IsBlank, Client!HasColon, CP!HasColon, Client!Text, CP!Text,
     Client!HeadersEndAt, CP!HeadersEndAt, Client!HeadersBefore, CP!HeadersBefore,
     Client!JavaParses, CP!JavaParses, Client!JavaEnd, CP!JavaEnd, Client!JavaCommand,
     CP!JavaCommand, Client!JavaGet, CP!JavaGet, Client!Reporter, CP!Reporter,
     Client!ServerText, CP!ServerText, Client!ConnectedFrame, CP!ConnectedFrame,
     Client!ReceiptFrame, CP!ReceiptFrame, Client!MessageFrame, CP!MessageFrame

----------------------------------------------------------------------------
(* What the server reads is what a client has written.                     *)

LEMMA NumbersAreIds ==
    /\ Ids = CP!LineNumbers /\ CP!LineNumbers \subseteq Receipts
    /\ CP!LineNumbers \subseteq Nat /\ Ids \subseteq 0 .. MaxLines
    /\ Null \notin Nat /\ Word # Null /\ ~UniqueIds
    /\ MaxMessageId = Null /\ MaxSubscriptions = Null
<1>1. /\ Ids = 0 .. MaxLines - 1 /\ MaxLines \in Nat /\ Ids \subseteq Receipts
      /\ Null \notin Nat /\ Word # Null /\ ~UniqueIds
      /\ MaxMessageId = Null /\ MaxSubscriptions = Null
  BY ServiceAssumption DEF ServiceAssumption
<1>2. Ids \subseteq 0 .. MaxLines /\ Ids \subseteq Nat
  BY <1>1
<1> QED BY <1>1, <1>2 DEF CP!LineNumbers

LEMMA TextsOfClients ==
    ASSUME CP!Inv, NEW c \in Conns
    PROVE  /\ toServer[c] \in Seq(CP!Written) /\ Len(toServer[c]) \in Nat
           /\ \A k \in 1 .. Len(toServer[c]) : toServer[c][k].text \in CP!ClientTexts
           /\ CP!HasFrame(c) => /\ Input(c) \in CP!ClientTexts
                                /\ 1 \in 1 .. Len(toServer[c])
                                /\ Input(c) = toServer[c][1].text
<1>1. toServer[c] \in Seq(CP!Written)
  BY DEF CP!Inv, CP!Types
<1>2. \A k \in 1 .. Len(toServer[c]) : toServer[c][k] \in CP!Written
  BY <1>1, ElementOfSeq
<1>3. Len(toServer[c]) \in Nat
  BY <1>1, LenProperties
<1>4. toServer[c] # << >> =>
          1 \in 1 .. Len(toServer[c]) /\ Head(toServer[c]) = toServer[c][1]
  BY <1>1, <1>3, EmptySeq
<1> QED BY <1>1, <1>2, <1>3, <1>4 DEF CP!Written, CP!HasFrame, Input

LEMMA ConnectText ==
    ASSUME NEW u \in Logins, NEW p \in Passcodes
    PROVE  LET t == CP!ConnectFrame(u, p) IN
           /\ CP!JavaParses(t) /\ CP!JavaCommand(t) = "CONNECT"
           /\ CP!JavaGet(t, "login") = u /\ CP!JavaGet(t, "passcode") = p
           /\ CP!JavaGet(t, "receipt") = Null
<1>1. u # Null /\ p # Null /\ Word # Null
  BY NumbersAreIds, NullAssumption DEF NullAssumption
<1> QED BY <1>1, Bounds, CP!ConnectRead

LEMMA SubscribeText ==
    ASSUME NEW g \in Channels, NEW i \in CP!LineNumbers, NEW r \in CP!LineNumbers
    PROVE  LET t == CP!SubscribeFrame(g, i, r) IN
           /\ CP!JavaParses(t) /\ CP!JavaCommand(t) = "SUBSCRIBE"
           /\ CP!JavaGet(t, "destination") = g /\ CP!JavaGet(t, "id") = i
           /\ CP!JavaGet(t, "receipt") = r
<1>1. g # Null /\ i # Null /\ r # Null
  BY NumbersAreIds, NullAssumption DEF NullAssumption
<1> QED BY <1>1, Bounds, CP!SubscribeRead

LEMMA UnsubscribeText ==
    ASSUME NEW i \in CP!LineNumbers, NEW r \in CP!LineNumbers
    PROVE  LET t == CP!UnsubscribeFrame(i, r) IN
           /\ CP!JavaParses(t) /\ CP!JavaCommand(t) = "UNSUBSCRIBE"
           /\ CP!JavaGet(t, "id") = i /\ CP!JavaGet(t, "receipt") = r
<1>1. i # Null /\ r # Null
  BY NumbersAreIds
<1> QED BY <1>1, Bounds, CP!UnsubscribeRead

LEMMA SendText ==
    ASSUME NEW u, NEW g \in Channels
    PROVE  LET t == CP!SendFrame(u, g) IN
           /\ CP!JavaParses(t) /\ CP!JavaCommand(t) = "SEND"
           /\ CP!JavaGet(t, "destination") = g /\ CP!JavaGet(t, "receipt") = Null
           /\ CP!Reporter(t) = u
<1> DEFINE t == CP!SendFrame(u, g)
<1>1. g # Null
  BY NullAssumption DEF NullAssumption
<1>2. /\ CP!JavaParses(t) /\ CP!JavaCommand(t) = "SEND"
      /\ CP!JavaGet(t, "destination") = g /\ CP!JavaGet(t, "receipt") = Null
  BY <1>1, Bounds, CP!SendRead
<1>3. /\ Len(t.lines) \in Nat /\ 3 \in 2 .. Len(t.lines)
      /\ t.lines[2].value = g /\ t.lines[3] = CP!Blank /\ t.lines[4].value = u
  BY DEF CP!SendFrame, CP!ClientText, CP!Text, CP!Plain, CP!Header, CP!Blank
<1> HIDE DEF t
<1>4. CP!HeadersEndAt(t, 3)
  BY <1>1, <1>3 DEF CP!HeadersEndAt, CP!IsBlank, CP!HasColon
<1>5. CP!JavaEnd(t) = 3
  BY <1>3, <1>4, Bounds, CP!EndIs
<1>6. CP!Reporter(t) = u
  BY <1>3, <1>5 DEF CP!Reporter
<1> QED BY <1>2, <1>6 DEF t

\* process() is called for the text.
Asked(c, text) ==
    \/ \E l \in Logins, p \in Passcodes :
          text = CP!ConnectFrame(l, p) /\ ProcessConnect(c, l, p)
    \/ \E l \in Logins, g \in Channels :
          text = CP!SendFrame(l, g) /\ ProcessSend(c, g, Null)
    \/ \E g \in Channels, i \in Ids, r \in Ids :
          text = CP!SubscribeFrame(g, i, r) /\ ProcessSubscribe(c, g, i, r)
    \/ \E i \in Ids, r \in Ids :
          text = CP!UnsubscribeFrame(i, r) /\ ProcessUnsubscribe(c, i, r)

LEMMA ReadIs ==
    ASSUME CP!Inv, NEW c \in Conns, Read(c)
    PROVE  /\ CP!HasFrame(c) /\ Input(c) \in CP!ClientTexts /\ Ready(c)
           /\ \/ ~CP!JavaParses(Input(c)) /\ Malformed(c)
              \/ CP!JavaParses(Input(c)) /\ Asked(c, Input(c))
<1> DEFINE text == Input(c)
<1>1. CP!HasFrame(c) /\ text \in CP!ClientTexts
  BY Same, TextsOfClients DEF Read
<1>2. CASE ~CP!JavaParses(text)
  <2>1. Malformed(c)
    BY <1>2, SameTexts DEF Read
  <2> QED BY <1>1, <1>2, <2>1 DEF Malformed
<1>3. CASE CP!JavaParses(text)
  <2>1. Process(c, text)
    BY <1>3, SameTexts DEF Read
  <2> HIDE DEF text
  <2>2. ASSUME NEW u \in Logins, NEW p \in Passcodes, text = CP!ConnectFrame(u, p)
        PROVE  Asked(c, text) /\ Ready(c)
    <3>1. ProcessConnect(c, u, p)
      BY <2>1, <2>2, SameTexts, ConnectText DEF Process
    <3> QED BY <2>2, <3>1 DEF Asked, ProcessConnect
  <2>3. ASSUME NEW u \in Logins, NEW g \in Channels, text = CP!SendFrame(u, g)
        PROVE  Asked(c, text) /\ Ready(c)
    <3>1. ProcessSend(c, g, Null)
      BY <2>1, <2>3, SameTexts, SendText DEF Process
    <3> QED BY <2>3, <3>1 DEF Asked, ProcessSend
  <2>4. ASSUME NEW g \in Channels, NEW i \in CP!LineNumbers, NEW r \in CP!LineNumbers,
               text = CP!SubscribeFrame(g, i, r)
        PROVE  Asked(c, text) /\ Ready(c)
    <3>0. /\ CP!JavaCommand(text) = "SUBSCRIBE" /\ CP!JavaGet(text, "destination") = g
          /\ CP!JavaGet(text, "id") = i /\ CP!JavaGet(text, "receipt") = r
      BY <2>4, SubscribeText
    <3>1. ProcessSubscribe(c, g, i, r)
      BY <2>1, <3>0, SameTexts DEF Process
    <3> QED BY <2>4, <3>1, NumbersAreIds DEF Asked, ProcessSubscribe
  <2>5. ASSUME NEW i \in CP!LineNumbers, NEW r \in CP!LineNumbers,
               text = CP!UnsubscribeFrame(i, r)
        PROVE  Asked(c, text) /\ Ready(c)
    <3>1. ProcessUnsubscribe(c, i, r)
      BY <2>1, <2>5, SameTexts, UnsubscribeText DEF Process
    <3> QED BY <2>5, <3>1, NumbersAreIds DEF Asked, ProcessUnsubscribe
  <2>6. text # CP!EmptyFrame /\ \A r : text # CP!LogoutFrame(r)
    BY <1>3, Bounds, CP!EmptyNeverParses, CP!LogoutNeverParses DEF text
  <2>7. Asked(c, text) /\ Ready(c)
    BY <1>1, <2>2, <2>3, <2>4, <2>5, <2>6 DEF CP!ClientTexts, text
  <2> QED BY <1>1, <1>3, <2>7 DEF text
<1> QED BY <1>2, <1>3 DEF text

\* So the steps of the service are steps of StompServer.
LEMMA ServerStepIs ==
    ASSUME CP!Inv, [ServiceNext]_serviceVars
    PROVE  [Next]_vars
<1>1. ASSUME NEW c \in Conns, Read(c) PROVE Next
  <2>1. CASE Malformed(c)
    BY <2>1 DEF Next
  <2>2. CASE Asked(c, Input(c))
    <3>1. /\ \A r \in Ids : r \in Nullable(Receipts)
          /\ Null \in Nullable(Receipts)
          /\ \A n : Below(n, MaxMessageId) /\ Below(n, MaxSubscriptions)
          /\ \A i, g : UnusedFor(c, i, g)
      BY NumbersAreIds DEF Nullable, Below, UnusedFor
    <3>2. Request(c)
      BY <2>2, <3>1 DEF Asked, Request, Connect, Send, Subscribe, Unsubscribe
    <3> QED BY <3>2 DEF Next
  <2> QED BY <1>1, <2>1, <2>2, ReadIs
<1>2. ASSUME NEW c \in Conns, ClientStep(c) PROVE UNCHANGED vars
  BY <1>2 DEF ClientStep, Arrive, Command, KeyboardStep, SocketStep
<1>3. CASE AcceptClient
  BY <1>3 DEF AcceptClient, Next
<1>4. ASSUME NEW c \in Conns, ServerStep(c) \/ EndOfFile(c) PROVE Next
  BY <1>1, <1>4 DEF ServerStep, EndOfFile, Next
<1>5. CASE UNCHANGED serviceVars
  BY <1>5 DEF serviceVars
<1> QED BY <1>2, <1>3, <1>4, <1>5 DEF ServiceNext

----------------------------------------------------------------------------
(* What a step of the server's thread comes to.                            *)

\* The reply StompClient expects: a receipt if one was asked for, CONNECTED to
\* a CONNECT, else nothing.
Answers(c) ==
    \/ frame[c].receipt # Null /\ Answer(c, "RECEIPT")
    \/ frame[c].receipt = Null /\ frame[c].command = "CONNECT" /\ Answer(c, "CONNECTED")
    \/ frame[c].receipt = Null /\ frame[c].command # "CONNECT" /\ Silent

\* A MESSAGE is written to an open connection, under an id of its sender.
Forwards(c) ==
    /\ wire' # Null /\ wire'.command = "MESSAGE" /\ wire'.id \in Ids
    /\ wire'.to \in Conns /\ status[wire'.to] = "open"
    /\ frame[c].channel \in Channels

\* The connection is closed, the frame is done with and answered, or its thread
\* goes on.
Outcome(c) ==
    \/ status'[c] # "open" /\ pc'[c] = "idle" /\ Silent
    \/ status'[c] = "open" /\ pc'[c] = "idle" /\ InProcess(c) /\ pc[c] # "idle" /\ Answers(c)
    \/ status'[c] = "open" /\ pc'[c] # "idle" /\ (Silent \/ Forwards(c))

LEMMA ThrowIs ==
    ASSUME TypeOK, NEW c \in Conns, Throw(c)
    PROVE  status'[c] # "open" /\ pc'[c] = "idle"
  BY DEF TypeOK, ThreadTypes, Throw, Leave, Goto

\* The text of a CONNECT, and that no other text is one of its kind.
LEMMA ConnectFrameIs ==
    ASSUME CP!Inv, NEW c \in Conns, InProcess(c), frame[c].command = "CONNECT"
    PROVE  /\ frame[c].receipt = Null /\ frame[c].login \in Logins
           /\ \E p \in Passcodes : Input(c) = CP!ConnectFrame(frame[c].login, p)
<1> DEFINE text == Input(c)
<1>1. text \in CP!ClientTexts /\ CP!JavaParses(text) /\ CP!JavaCommand(text) = "CONNECT"
  BY TextsOfClients DEF InProcess
<1>2. /\ pc[c] \in {"put", "rebind", "bind", "passcode"}
      /\ frame[c].login = CP!JavaGet(text, "login")
  BY DEF InProcess
<1>3. frame[c].receipt = CP!JavaGet(text, "receipt")
  BY DEF InProcess
<1> HIDE DEF text
<1>4. text # CP!EmptyFrame /\ \A r : text # CP!LogoutFrame(r)
  BY <1>1, Bounds, CP!EmptyNeverParses, CP!LogoutNeverParses
<1>5. \A u \in Logins, g \in Channels : text # CP!SendFrame(u, g)
  BY <1>1, SendText
<1>6. \A g \in Channels, i, r \in CP!LineNumbers : text # CP!SubscribeFrame(g, i, r)
  BY <1>1, SubscribeText
<1>7. \A i, r \in CP!LineNumbers : text # CP!UnsubscribeFrame(i, r)
  BY <1>1, UnsubscribeText
<1>8. PICK u \in Logins, p \in Passcodes : text = CP!ConnectFrame(u, p)
  BY <1>1, <1>4, <1>5, <1>6, <1>7 DEF CP!ClientTexts
<1> QED BY <1>2, <1>3, <1>8, ConnectText DEF text

LEMMA HandleOutcome ==
    ASSUME Inv, CP!Inv, NEW c \in Conns, pc[c] # "idle" => InProcess(c), Handle(c)
    PROVE  Outcome(c) /\ status[c] = "open"
<1>0. /\ TypeOK /\ ThreadConsistent(c) /\ pc \in [Conns -> Steps]
      /\ pc[c] # "idle" /\ InProcess(c) /\ status[c] = "open"
      /\ status \in [Conns -> {"new", "open", "eof", "logout", "failed"}]
  <2>1. pc[c] # "idle"
    BY DEF Handle, PutHandler, Rebind, Bind, PutPasscode, Check, Stamp, Open,
       NextRecipient, Write, EndSend, CreateList, AddSubscriber, IndexSubscription,
       RemoveHandler, RemoveLogin, LeaveChannel, GoOn, Pick, RemoveFound, EndScan
  <2> QED BY <2>1 DEF Inv, Consistent, TypeOK, ThreadTypes, InProcess
<1>1. Throw(c) /\ Silent => Outcome(c)
  BY <1>0, ThrowIs DEF Outcome
<1>2. Return(c) /\ Answers(c) => Outcome(c)
  BY <1>0 DEF Outcome, Return, Leave, Goto
<1>3. \A step : step # "idle" /\ Goto(c, step) /\ status' = status /\ (Silent \/ Forwards(c))
          => Outcome(c)
  BY <1>0 DEF Outcome, Goto
<1>4. frame[c].command = "CONNECT" => frame[c].receipt = Null
  BY <1>0, ConnectFrameIs
<1> SUFFICES Outcome(c)
  BY <1>0
<1>5. CASE PutHandler(c) \/ Rebind(c) \/ Bind(c) \/ PutPasscode(c)
  <2>1. frame[c].command = "CONNECT"
    BY <1>0, <1>5 DEF PutHandler, Rebind, Bind, PutPasscode, InProcess
  <2>2. CASE Return(c) /\ Answer(c, "CONNECTED")
    BY <1>2, <1>4, <2>1, <2>2 DEF Answers
  <2>3. CASE PutHandler(c) \/ Bind(c)
    BY <1>3, <2>3 DEF PutHandler, Bind
  <2> QED BY <1>5, <2>2, <2>3 DEF Rebind, PutPasscode
<1>14. CASE GoOn(c)
  BY <1>3, <1>14 DEF GoOn
<1>6. CASE Check(c) \/ Stamp(c) \/ Open(c) \/ NextRecipient(c)
  BY <1>1, <1>3, <1>6 DEF Check, Stamp, Open, NextRecipient
<1>7. CASE Write(c)
  <2>1. CASE Throw(c) /\ Silent
    BY <1>1, <2>1
  <2>2. CASE ~(Throw(c) /\ Silent)
    <3> DEFINE r == delivery[c].peer
               i == topicToChannelId[c][frame[c].channel]
               message == [command |-> "MESSAGE", to |-> r, mid |-> delivery[c].mid,
                           id |-> i, receipt |-> Null]
    <3>1. /\ r # Null /\ Goto(c, "next") /\ status' = status
          /\ wire' = IF status[r] # "open" THEN Null ELSE message
      BY <1>7, <2>2 DEF Write
    <3>2. frame[c].channel \in Channels /\ pc[c] = "write"
      BY <1>0, <1>7 DEF Write, ThreadConsistent
    <3>3. i \in Ids /\ r \in Conns /\ delivery[c].mid \in Nat
      BY <1>0, <3>1, <3>2
         DEF InProcess, TypeOK, TopicTypes, ThreadTypes, Deliveries, Nullable
    <3>4. message \in FramesOnWire
      BY <3>3 DEF FramesOnWire, Nullable
    <3>5. message # Null
      BY <3>4, ServiceAssumption DEF ServiceAssumption
    <3>6. message.command = "MESSAGE" /\ message.id = i /\ message.to = r
      OBVIOUS
    <3> HIDE DEF message, i, r
    <3>7. Silent \/ Forwards(c)
      BY <3>1, <3>2, <3>3, <3>5, <3>6 DEF Silent, Forwards
    <3> QED BY <1>3, <3>1, <3>7
  <2> QED BY <2>1, <2>2
<1>8. CASE EndSend(c)
  <2>1. frame[c].command = "SEND"
    BY <1>0, <1>8 DEF EndSend, InProcess
  <2> QED BY <1>1, <1>2, <1>8, <2>1 DEF EndSend, Answers
<1>9. CASE CreateList(c) \/ AddSubscriber(c)
  BY <1>3, <1>9 DEF CreateList, AddSubscriber, locals
<1>10. CASE IndexSubscription(c)
  <2>1. frame[c].command = "SUBSCRIBE"
    BY <1>0, <1>10 DEF IndexSubscription, InProcess
  <2>2. Return(c) /\ AnswerReceipt(c) => Outcome(c)
    BY <1>2, <2>1 DEF Answers, AnswerReceipt
  <2> QED BY <1>1, <1>10, <2>2 DEF IndexSubscription
<1>11. CASE RemoveHandler(c) \/ RemoveLogin(c) \/ LeaveChannel(c)
  BY <1>0, <1>11 DEF RemoveHandler, RemoveLogin, LeaveChannel, InProcess
<1>12. CASE Pick(c) \/ RemoveFound(c)
  BY <1>1, <1>3, <1>12 DEF Pick, RemoveFound
<1>13. CASE EndScan(c)
  <2>1. frame[c].command = "UNSUBSCRIBE"
    BY <1>0, <1>13 DEF EndScan, InProcess
  <2>2. Return(c) /\ AnswerReceipt(c) => Outcome(c)
    BY <1>2, <2>1 DEF Answers, AnswerReceipt
  <2> QED BY <1>13, <2>1, <2>2 DEF EndScan
<1> QED BY <1>0, <1>5, <1>6, <1>7, <1>8, <1>9, <1>10, <1>11, <1>12, <1>13, <1>14
        DEF Handle

LEMMA ReadOutcome ==
    ASSUME Inv, CP!Inv, NEW c \in Conns, Read(c)
    PROVE  Outcome(c) /\ status[c] = "open"
<1>0. /\ TypeOK /\ pc \in [Conns -> Steps] /\ status[c] = "open"
      /\ status \in [Conns -> {"new", "open", "eof", "logout", "failed"}]
  BY ReadIs DEF Inv, TypeOK, ThreadTypes, Ready
<1>1. Throw(c) /\ Silent => Outcome(c)
  BY <1>0, ThrowIs DEF Outcome
<1>2. \A step : step # "idle" /\ Goto(c, step) /\ status' = status /\ Silent => Outcome(c)
  BY <1>0 DEF Outcome, Goto
<1> SUFFICES Outcome(c)
  BY <1>0
<1>3. CASE Malformed(c)
  BY <1>1, <1>3 DEF Malformed
<1>4. CASE Asked(c, Input(c))
  BY <1>1, <1>2, <1>4 DEF Asked, ProcessConnect, ProcessSend, ProcessSubscribe,
     ProcessUnsubscribe
<1> QED BY <1>0, <1>3, <1>4, ReadIs

----------------------------------------------------------------------------
(* What StompClient sees of it.                                            *)

LEMMA WrittenIs ==
    ASSUME NEW c
    PROVE  /\ wire'.command = "CONNECTED" => Written(c) = CP!ConnectedFrame
           /\ wire'.command = "RECEIPT" => Written(c) = CP!ReceiptFrame(wire'.receipt)
           /\ wire'.command = "MESSAGE" =>
                  Written(c) = CP!MessageFrame(wire'.id, frame[c].channel)
  BY SameTexts DEF Written

LEMMA AnswerIs ==
    ASSUME TypeOK, NEW c \in Conns, NEW command \in {"CONNECTED", "RECEIPT"},
           Answer(c, command)
    PROVE  /\ wire' # Null /\ wire'.command = command /\ wire'.to = c
           /\ wire'.receipt = frame[c].receipt
<1>1. frame[c].receipt \in Nullable(Receipts)
  BY DEF TypeOK, ThreadTypes, Frames
<1> DEFINE answer == [command |-> command, to |-> c, id |-> Null, mid |-> Null,
                      receipt |-> frame[c].receipt]
<1>2. answer \in FramesOnWire
  BY <1>1 DEF FramesOnWire, Nullable
<1>3. answer # Null
  BY <1>2, ServiceAssumption DEF ServiceAssumption
<1> QED BY <1>3 DEF Answer

LEMMA StreamsAre ==
    ASSUME CP!Inv, NEW c \in Conns
    PROVE  /\ [serverOpen EXCEPT ![c] = serverOpen[c]] = serverOpen
           /\ [toServer EXCEPT ![c] = toServer[c]] = toServer
           /\ toClient[c] \in Seq(CP!ServerTexts)
           /\ serverOpen[c] \in BOOLEAN
  BY DEF CP!Inv, CP!Types

LEMMA ServerStepIsPeer ==
    ASSUME ServiceInv, NEW c \in Conns, ServerStep(c)
    PROVE  (\E d \in Conns : CP!PeerStep(d)) \/ UNCHANGED CP!vars
<1>0. /\ Inv /\ CP!Inv /\ TypeOK /\ Linked(c) /\ (pc[c] # "idle" => InProcess(c))
      /\ Transfer(c)
  BY DEF ServiceInv, Bridged, Inv, ServerStep
<1>1. Outcome(c) /\ status[c] = "open"
  BY <1>0, HandleOutcome, ReadOutcome DEF ServerStep
<1>2. serverOpen[c] /\ UNCHANGED clientVars
  BY <1>0, <1>1 DEF Linked, Transfer
<1>3. CASE status'[c] # "open" /\ Silent
  <2>1. /\ toServer' = [toServer EXCEPT ![c] = << >>] /\ toClient' = toClient
        /\ serverOpen' = [serverOpen EXCEPT ![c] = FALSE]
    BY <1>0, <1>3 DEF Transfer, Silent
  <2>2. CP!PeerClose(c)
    BY <1>2, <2>1 DEF CP!PeerClose, CP!session, CP!maps, clientVars
  <2> QED BY <2>2 DEF CP!PeerStep
<1>4. CASE /\ status'[c] = "open" /\ pc'[c] = "idle" /\ pc[c] # "idle"
           /\ InProcess(c) /\ Answers(c)
  <2> DEFINE text == Input(c)
             reply == CP!Reply(text)
  <2>1. /\ toServer' = [toServer EXCEPT ![c] = Tail(@)]
        /\ serverOpen' = serverOpen
    <3>1. serverOpen' = [serverOpen EXCEPT ![c] = serverOpen[c]]
      BY <1>0, <1>2, <1>4, StreamsAre DEF Transfer
    <3> QED BY <1>0, <1>4, <3>1, StreamsAre DEF Transfer
  <2>2. /\ CP!HasFrame(c) /\ CP!JavaParses(text)
        /\ frame[c].command = CP!JavaCommand(text)
        /\ frame[c].receipt = CP!JavaGet(text, "receipt")
    BY <1>4 DEF InProcess
  <2>3. toClient' = [toClient EXCEPT ![c] = @ \o reply]
    <3>1. CASE frame[c].receipt # Null /\ Answer(c, "RECEIPT")
      <4>1. wire' # Null /\ wire'.to = c /\ Written(c) = CP!ReceiptFrame(frame[c].receipt)
        BY <1>0, <3>1, AnswerIs, WrittenIs
      <4>2. toClient' = [toClient EXCEPT ![c] = Append(@, Written(c))]
        BY <1>0, <4>1 DEF Transfer
      <4>3. reply = <<Written(c)>>
        BY <2>2, <3>1, <4>1 DEF CP!Reply
      <4>4. Append(toClient[c], Written(c)) = toClient[c] \o reply
        BY <1>0, <4>3, StreamsAre, AppendIsConcat
      <4> QED BY <4>2, <4>4
    <3>2. CASE /\ frame[c].receipt = Null /\ frame[c].command = "CONNECT"
               /\ Answer(c, "CONNECTED")
      <4>1. wire' # Null /\ wire'.to = c /\ Written(c) = CP!ConnectedFrame
        BY <1>0, <3>2, AnswerIs, WrittenIs
      <4>2. toClient' = [toClient EXCEPT ![c] = Append(@, Written(c))]
        BY <1>0, <4>1 DEF Transfer
      <4>3. reply = <<Written(c)>>
        BY <2>2, <3>2, <4>1 DEF CP!Reply
      <4>4. Append(toClient[c], Written(c)) = toClient[c] \o reply
        BY <1>0, <4>3, StreamsAre, AppendIsConcat
      <4> QED BY <4>2, <4>4
    <3>3. CASE frame[c].receipt = Null /\ frame[c].command # "CONNECT" /\ Silent
      <4>1. reply = << >> /\ toClient' = toClient
        BY <1>0, <2>2, <3>3 DEF CP!Reply, Transfer, Silent
      <4>2. toClient[c] \o reply = toClient[c]
        BY <1>0, <4>1, StreamsAre, ConcatEmptySeq
      <4>3. [toClient EXCEPT ![c] = toClient[c]] = toClient
        BY <1>0 DEF CP!Inv, CP!Types
      <4> QED BY <4>1, <4>2, <4>3
    <3> QED BY <1>4, <3>1, <3>2, <3>3 DEF Answers
  <2>4. CP!Acknowledge(c)
    BY <1>2, <2>1, <2>2, <2>3 DEF CP!Acknowledge, CP!session, CP!maps, clientVars, Input
  <2> QED BY <2>4 DEF CP!PeerStep
<1>5. CASE status'[c] = "open" /\ pc'[c] # "idle" /\ (Silent \/ Forwards(c))
  <2>1. toServer' = toServer /\ serverOpen' = serverOpen
    BY <1>0, <1>2, <1>5, StreamsAre DEF Transfer
  <2>2. CASE Silent
    <3>1. toClient' = toClient
      BY <1>0, <2>2 DEF Transfer, Silent
    <3> QED BY <1>2, <2>1, <3>1 DEF CP!vars, CP!session, CP!maps, CP!network, clientVars
  <2>3. CASE Forwards(c)
    <3> DEFINE d == wire'.to
    <3>1. /\ d \in Conns /\ serverOpen[d]
          /\ wire'.id \in 0 .. MaxLines /\ frame[c].channel \in Channels
      BY <2>3, NumbersAreIds DEF Forwards, ServiceInv, Bridged, Linked
    <3>2. toClient' = [toClient EXCEPT ![d] =
                          Append(@, CP!MessageFrame(wire'.id, frame[c].channel))]
      BY <1>0, <2>3, WrittenIs DEF Forwards, Transfer
    <3>3. CP!PeerMessage(d)
      BY <1>2, <2>1, <3>1, <3>2
         DEF CP!PeerMessage, CP!session, CP!maps, clientVars
    <3> QED BY <3>1, <3>3 DEF CP!PeerStep
  <2> QED BY <1>5, <2>2, <2>3
<1> QED BY <1>1, <1>3, <1>4, <1>5 DEF Outcome

\* So the steps of the service are steps of StompClient.
LEMMA ClientStepIs ==
    ASSUME ServiceInv, [ServiceNext]_serviceVars
    PROVE  [CP!Next]_CP!vars
<1>1. ASSUME NEW c \in Conns, ClientStep(c) PROVE CP!Next
  <2>1. CP!ProcessStep(c)
    BY <1>1, Same DEF ClientStep, Arrive, Command, KeyboardStep, SocketStep, CP!ProcessStep
  <2> QED BY <2>1 DEF CP!Next
<1>2. CASE AcceptClient \/ UNCHANGED serviceVars
  BY <1>2 DEF AcceptClient, serviceVars, clientVars, streams, CP!vars, CP!session,
     CP!maps, CP!network
<1>3. ASSUME NEW c \in Conns, ServerStep(c) PROVE [CP!Next]_CP!vars
  BY <1>3, ServerStepIsPeer DEF CP!Next
<1>4. ASSUME NEW c \in Conns, EndOfFile(c) PROVE CP!Next
  <2>1. serverOpen[c]
    BY <1>4 DEF EndOfFile, Eof, Ready, ServiceInv, Bridged, Linked
  <2>2. CP!PeerClose(c)
    BY <1>4, <2>1 DEF EndOfFile, CP!PeerClose, CP!session, CP!maps, clientVars
  <2> QED BY <2>2 DEF CP!Next, CP!PeerStep
<1> QED BY <1>1, <1>2, <1>3, <1>4 DEF ServiceNext

----------------------------------------------------------------------------
(* The two programs keep in step.                                          *)

LEMMA FirstIs ==
    ASSUME NEW q \in Seq(CP!Written), q # << >>
    PROVE  /\ Len(q) \in Nat /\ 1 \in 1 .. Len(q) /\ Head(q) = q[1]
           /\ q[1] \in CP!Written
  BY EmptySeq, LenProperties, ElementOfSeq

\* A step of the client's process.
OfClient(c) == CP!Start(c) \/ CP!Command(c) \/ CP!KeyboardStep(c) \/ CP!SocketStep(c)

LEMMA ClientsOwn ==
    ASSUME NEW c \in Conns, ClientStep(c)
    PROVE  OfClient(c) /\ UNCHANGED vars
  BY Same DEF OfClient, ClientStep, Arrive, Command, KeyboardStep, SocketStep

\* What a client has written stays as it is, but for the delimiter.
LEMMA StreamGrows ==
    ASSUME CP!Inv, NEW c \in Conns, OfClient(c)
    PROVE  /\ \/ CP!Start(c)
              \/ CP!Running(c) /\ proc'[c] # "new" /\ serverOpen'[c] = serverOpen[c]
           /\ \/ toServer'[c] = toServer[c]
              \/ /\ CP!WriteText(c) /\ serverOpen[c]
                 /\ toServer'[c] =
                       Append(toServer[c], [text |-> draft[c].text, ended |-> FALSE])
              \/ CP!WriteDelimiter(c) /\ toServer'[c] = CP!Ended(toServer[c])
<1> USE DEF CP!Inv, CP!Types, CP!End, CP!session, CP!maps, CP!network
<1>1. CASE CP!Start(c)
  BY <1>1 DEF CP!Start
<1>2. CASE CP!Command(c)
  BY <1>2 DEF CP!Command, CP!TypeLogin, CP!TypeJoin, CP!TypeExit, CP!TypeLogout,
     CP!TypeOther, CP!TypeReport, CP!TypeIgnored, CP!TypeBroken, CP!Type, CP!Running,
     CP!vars
<1>3. CASE CP!InsertRequest(c) \/ CP!NextEvent(c) \/ CP!EndReport(c) \/ CP!WriteFails(c)
  BY <1>3 DEF CP!InsertRequest, CP!NextEvent, CP!EndReport, CP!WriteFails, CP!Running
<1>4. CASE CP!WriteText(c)
  BY <1>4 DEF CP!WriteText, CP!Running
<1>5. CASE CP!WriteDelimiter(c)
  BY <1>5 DEF CP!WriteDelimiter, CP!Running
<1>6. CASE CP!SocketStep(c)
  BY <1>6 DEF CP!SocketStep, CP!Receive, CP!Acknowledged, CP!LookupRaces,
     CP!ConnectionLost, CP!Terminate, CP!Running
<1> QED BY <1>1, <1>2, <1>3, <1>4, <1>5, <1>6 DEF OfClient, CP!KeyboardStep

LEMMA StreamKept ==
    ASSUME CP!Inv, NEW c \in Conns, OfClient(c)
    PROVE  /\ Len(toServer'[c]) \in Nat /\ Len(toServer[c]) \in Nat
           /\ Len(toServer[c]) <= Len(toServer'[c])
           /\ \A k \in 1 .. Len(toServer[c]) : toServer'[c][k].text = toServer[c][k].text
           /\ toServer'[c] \in Seq(CP!Written)
           /\ toServer[c] # << >> /\ toServer[c][1].ended => toServer'[c][1].ended
<1> DEFINE q == toServer[c]
           text == [text |-> draft[c].text, ended |-> FALSE]
<1>1. /\ q \in Seq(CP!Written) /\ Len(q) \in Nat /\ text \in CP!Written
      /\ q # << >> => 1 \in 1 .. Len(q) /\ q[1] \in CP!Written
      /\ \A k \in 1 .. Len(q) : q[k] \in CP!Written
  BY FirstIs, LenProperties, ElementOfSeq DEF CP!Inv, CP!Types, CP!Drafts, CP!Written
<1> HIDE DEF text
<1>2. CASE toServer'[c] = q
  BY <1>1, <1>2
<1>3. CASE toServer'[c] = Append(q, text)
  <2>1. /\ Append(q, text) \in Seq(CP!Written) /\ Len(Append(q, text)) = Len(q) + 1
        /\ \A k \in 1 .. Len(q) : Append(q, text)[k] = q[k]
    BY <1>1, AppendProperties
  <2> QED BY <1>1, <1>3, <2>1
<1>4. CASE toServer'[c] = CP!Ended(q)
  <2>1. /\ CP!Ended(q) \in Seq(CP!Written) /\ Len(CP!Ended(q)) = Len(q)
        /\ \A k \in 1 .. Len(q) : CP!Ended(q)[k].text = q[k].text
    BY <1>1, Bounds, CP!EndedIs
  <2>2. q # << >> /\ q[1].ended => CP!Ended(q)[1].ended
    <3> SUFFICES ASSUME q # << >>, q[1].ended
                 PROVE  CP!Ended(q)[1].ended
      OBVIOUS
    <3>1. q \in [1 .. Len(q) -> CP!Written]
      BY <1>1, LenProperties
    <3>2. CASE Len(q) = 1
      BY <1>1, <3>1, <3>2 DEF CP!Ended, CP!Written
    <3>3. CASE Len(q) # 1
      BY <1>1, <3>1, <3>3 DEF CP!Ended, CP!Written
    <3> QED BY <3>2, <3>3
  <2> QED BY <1>1, <1>4, <2>1, <2>2
<1> QED BY <1>2, <1>3, <1>4, StreamGrows DEF text

\* What another connection's step leaves alone.
LEMMA BridgedSame ==
    ASSUME NEW d \in Conns, Bridged(d), pc'[d] = pc[d], frame'[d] = frame[d],
           status'[d] = status[d], topicToChannelId'[d] = topicToChannelId[d],
           proc'[d] = proc[d], login'[d] = login[d], toServer'[d] = toServer[d],
           serverOpen'[d] = serverOpen[d]
    PROVE  Bridged(d)'
<1>1. Input(d)' = Input(d) /\ (CP!HasFrame(d) => CP!HasFrame(d)')
  BY DEF Input, CP!HasFrame
<1>2. Linked(d)'
  BY DEF Bridged, Linked
<1>3. InProcess(d) => InProcess(d)'
  BY <1>1 DEF InProcess
<1> QED BY <1>2, <1>3 DEF Bridged

LEMMA ClientKeepsBridge ==
    ASSUME ServiceInv, NEW c \in Conns, ClientStep(c), NEW d \in Conns
    PROVE  Bridged(d)'
<1>1. OfClient(c) /\ UNCHANGED vars /\ CP!Inv /\ Bridged(d) /\ Inv
  BY ClientsOwn DEF ServiceInv
<1>2. UNCHANGED <<pc, frame, status, topicToChannelId>>
  BY <1>1 DEF vars, locals, indexes
<1>3. CASE d # c
  <2>1. CP!View(d)' = CP!View(d)
    BY <1>1, <1>3, Bounds, CP!OthersSame DEF CP!Inv, OfClient, CP!ProcessStep
  <2>2. /\ proc'[d] = proc[d] /\ login'[d] = login[d] /\ toServer'[d] = toServer[d]
        /\ serverOpen'[d] = serverOpen[d]
    BY <2>1 DEF CP!View
  <2> QED BY <1>1, <1>2, <2>2, BridgedSame
<1>4. CASE d = c
  <2>1. CASE CP!Start(c)
    <3>1. /\ proc'[c] = "running" /\ serverOpen'[c] /\ status[c] = "new"
      BY <1>1, <1>4, <2>1 DEF Bridged, Linked, CP!Start, CP!End, CP!Inv, CP!Types
    <3>2. pc[c] = "idle"
      BY <1>1, <3>1 DEF Inv, Consistent, ThreadConsistent
    <3> QED BY <1>2, <1>4, <3>1, <3>2 DEF Bridged, Linked
  <2>2. CASE CP!Running(c) /\ proc'[c] # "new" /\ serverOpen'[c] = serverOpen[c]
    <3>1. Linked(c)'
      BY <1>1, <1>2, <1>4, <2>2 DEF Bridged, Linked
    <3>2. ASSUME CP!HasFrame(c) PROVE CP!HasFrame(c)' /\ Input(c)' = Input(c)
      <4>1. /\ toServer[c] # << >> /\ toServer[c] \in Seq(CP!Written)
            /\ 1 \in 1 .. Len(toServer[c]) /\ toServer[c][1].ended /\ serverOpen[c]
        BY <1>1, <3>2, FirstIs DEF CP!HasFrame, CP!Inv, CP!Types
      <4>2. /\ toServer'[c] \in Seq(CP!Written) /\ toServer'[c] # << >>
            /\ toServer'[c][1].ended /\ toServer'[c][1].text = toServer[c][1].text
        BY <1>1, <4>1, StreamKept, EmptySeq
      <4>3. Head(toServer[c]) = toServer[c][1] /\ Head(toServer'[c]) = toServer'[c][1]
        BY <4>1, <4>2, FirstIs
      <4> QED BY <2>2, <4>1, <4>2, <4>3 DEF CP!HasFrame, Input
    <3>3. InProcess(c) => InProcess(c)'
      BY <1>2, <3>2 DEF InProcess
    <3> QED BY <1>1, <1>2, <1>4, <3>1, <3>3 DEF Bridged
  <2> QED BY <1>1, <2>1, <2>2, StreamGrows
<1> QED BY <1>3, <1>4

\* A step of the server's thread is one that StompServer lets it take.
LEMMA ServerThread ==
    ASSUME CP!Inv, NEW c \in Conns, Read(c) \/ Handle(c)
    PROVE  Malformed(c) \/ Request(c) \/ Handle(c)
<1>1. CASE Handle(c)
  BY <1>1
<1>2. CASE Read(c) /\ Malformed(c)
  BY <1>2
<1>3. CASE Read(c) /\ Asked(c, Input(c))
  <2>1. /\ \A r \in Ids : r \in Nullable(Receipts)
        /\ Null \in Nullable(Receipts)
        /\ \A n : Below(n, MaxMessageId) /\ Below(n, MaxSubscriptions)
        /\ \A i, g : UnusedFor(c, i, g)
    BY NumbersAreIds DEF Nullable, Below, UnusedFor
  <2>2. Request(c)
    BY <1>3, <2>1 DEF Asked, Request, Connect, Send, Subscribe, Unsubscribe
  <2> QED BY <2>2
<1> QED BY <1>1, <1>2, <1>3, ReadIs

\* A thread that goes on inside process() has the frame it had, and is at
\* another step of the same case.
LEMMA GoesOn ==
    ASSUME TypeOK, NEW c \in Conns, InProcess(c), Handle(c), pc'[c] # "idle"
    PROVE  /\ frame'[c] = frame[c]
           /\ \/ /\ pc[c] \in {"put", "rebind", "bind", "passcode"}
                 /\ pc'[c] \in {"put", "rebind", "bind", "passcode"}
              \/ /\ pc[c] \in {"check", "stamp", "open", "next", "recipient", "write"}
                 /\ pc'[c] \in {"check", "stamp", "open", "next", "recipient", "write"}
              \/ /\ pc[c] \in {"create", "add", "index"}
                 /\ pc'[c] \in {"create", "add", "index"}
              \/ /\ pc[c] \in {"scan", "pick", "remove"}
                 /\ pc'[c] \in {"scan", "pick", "remove"}
           /\ pc'[c] \in {"open", "next", "recipient", "write"} =>
                  topicToChannelId'[c][frame[c].channel] # Null
<1>0. /\ pc \in [Conns -> Steps] /\ frame \in [Conns -> Frames]
      /\ Leave(c) => pc'[c] = "idle"
      /\ \A step : Goto(c, step) => pc'[c] = step
      /\ Throw(c) => Leave(c)
      /\ Return(c) => Leave(c)
  BY DEF TypeOK, ThreadTypes, Leave, Goto, Throw, Return
<1>1. ~Throw(c) /\ ~Return(c)
  BY <1>0
<1>2. pc[c] \in {"open", "next", "recipient", "write"} =>
         topicToChannelId[c][frame[c].channel] # Null
  BY DEF InProcess
<1> USE DEF indexes, locals
<1>3. CASE PutHandler(c) \/ Rebind(c) \/ Bind(c) \/ PutPasscode(c)
  BY <1>0, <1>1, <1>3 DEF PutHandler, Rebind, Bind, PutPasscode
<1>4. CASE Check(c)
  BY <1>0, <1>1, <1>4 DEF Check
<1>5. CASE Stamp(c)
  BY <1>0, <1>1, <1>5 DEF Stamp
<1>6. CASE Open(c)
  BY <1>0, <1>1, <1>2, <1>6 DEF Open
<1>7. CASE NextRecipient(c)
  BY <1>0, <1>1, <1>2, <1>7 DEF NextRecipient
<1>8. CASE Write(c)
  BY <1>0, <1>1, <1>2, <1>8 DEF Write
<1>9. CASE EndSend(c) \/ IndexSubscription(c)
  BY <1>0, <1>1, <1>9 DEF EndSend, IndexSubscription
<1>10. CASE CreateList(c) \/ AddSubscriber(c)
  BY <1>0, <1>10 DEF CreateList, AddSubscriber
<1>11. CASE RemoveHandler(c) \/ RemoveLogin(c) \/ LeaveChannel(c)
  BY <1>11 DEF RemoveHandler, RemoveLogin, LeaveChannel, InProcess
<1>12. CASE Pick(c)
  BY <1>0, <1>1, <1>12 DEF Pick
<1>15. CASE GoOn(c)
  BY <1>0, <1>2, <1>15 DEF GoOn, InProcess
<1>13. CASE RemoveFound(c)
  BY <1>0, <1>1, <1>13 DEF RemoveFound
<1>14. CASE EndScan(c)
  BY <1>1, <1>14 DEF EndScan, InProcess
<1> QED BY <1>3, <1>4, <1>5, <1>6, <1>7, <1>8, <1>9, <1>10, <1>11, <1>12, <1>13, <1>14,
        <1>15 DEF Handle

\* What process() begins with is the text it was called for.
LEMMA Begins ==
    ASSUME CP!Inv, TypeOK, NEW c \in Conns, Read(c), pc'[c] # "idle"
    PROVE  LET text == Input(c) IN
           /\ CP!HasFrame(c) /\ CP!JavaParses(text)
           /\ frame'[c].command = CP!JavaCommand(text)
           /\ frame'[c].receipt = CP!JavaGet(text, "receipt")
           /\ \/ /\ pc'[c] = "put" /\ frame'[c].command = "CONNECT"
                 /\ frame'[c].login = CP!JavaGet(text, "login")
              \/ pc'[c] \in {"check", "stamp"} /\ frame'[c].command = "SEND"
              \/ pc'[c] \in {"create", "add"} /\ frame'[c].command = "SUBSCRIBE"
              \/ pc'[c] = "scan" /\ frame'[c].command = "UNSUBSCRIBE"
<1> DEFINE text == Input(c)
<1>0. /\ pc \in [Conns -> Steps] /\ frame \in [Conns -> Frames]
      /\ ~Throw(c)
      /\ \A step : Goto(c, step) => pc'[c] = step
  BY DEF TypeOK, ThreadTypes, Leave, Goto, Throw
<1>1. CP!HasFrame(c) /\ CP!JavaParses(text) /\ Asked(c, text)
  BY <1>0, ReadIs DEF Malformed
<1> HIDE DEF text
<1>2. ASSUME NEW l \in Logins, NEW p \in Passcodes, text = CP!ConnectFrame(l, p),
             ProcessConnect(c, l, p)
      PROVE  /\ pc'[c] = "put" /\ frame'[c].command = "CONNECT"
             /\ frame'[c].login = l /\ frame'[c].receipt = Null
  BY <1>0, <1>2 DEF ProcessConnect, NoFrame
<1>3. ASSUME NEW l \in Logins, NEW g \in Channels, text = CP!SendFrame(l, g),
             ProcessSend(c, g, Null)
      PROVE  /\ pc'[c] \in {"check", "stamp"} /\ frame'[c].command = "SEND"
             /\ frame'[c].receipt = Null
  BY <1>0, <1>3 DEF ProcessSend, NoFrame
<1>4. ASSUME NEW g \in Channels, NEW i \in Ids, NEW r \in Ids,
             ProcessSubscribe(c, g, i, r)
      PROVE  /\ pc'[c] \in {"create", "add"} /\ frame'[c].command = "SUBSCRIBE"
             /\ frame'[c].receipt = r
  BY <1>0, <1>4 DEF ProcessSubscribe, NoFrame
<1>5. ASSUME NEW i \in Ids, NEW r \in Ids, ProcessUnsubscribe(c, i, r)
      PROVE  /\ pc'[c] = "scan" /\ frame'[c].command = "UNSUBSCRIBE"
             /\ frame'[c].receipt = r
  BY <1>0, <1>5 DEF ProcessUnsubscribe, NoFrame
<1>6. CASE \E l \in Logins, p \in Passcodes :
              text = CP!ConnectFrame(l, p) /\ ProcessConnect(c, l, p)
  BY <1>1, <1>2, <1>6, ConnectText DEF text
<1>7. CASE \E l \in Logins, g \in Channels :
              text = CP!SendFrame(l, g) /\ ProcessSend(c, g, Null)
  BY <1>1, <1>3, <1>7, SendText DEF text
<1>8. CASE \E g \in Channels, i \in Ids, r \in Ids :
              text = CP!SubscribeFrame(g, i, r) /\ ProcessSubscribe(c, g, i, r)
  BY <1>1, <1>4, <1>8, SubscribeText, NumbersAreIds DEF text
<1>9. CASE \E i \in Ids, r \in Ids :
              text = CP!UnsubscribeFrame(i, r) /\ ProcessUnsubscribe(c, i, r)
  BY <1>1, <1>5, <1>9, UnsubscribeText, NumbersAreIds DEF text
<1> QED BY <1>1, <1>6, <1>7, <1>8, <1>9 DEF Asked

LEMMA ServerKeepsBridge ==
    ASSUME ServiceInv, NEW c \in Conns, ServerStep(c), NEW d \in Conns
    PROVE  Bridged(d)'
<1>1. /\ Inv /\ CP!Inv /\ TypeOK /\ Bridged(c) /\ Bridged(d) /\ Transfer(c)
      /\ Read(c) \/ Handle(c)
  BY DEF ServiceInv, Inv, ServerStep
<1>2. /\ serverOpen \in [Conns -> BOOLEAN] /\ toServer \in [Conns -> Seq(CP!Written)]
      /\ UNCHANGED <<proc, login>>
  BY <1>1 DEF CP!Inv, CP!Types, Transfer, clientVars
<1>3. CASE d # c
  <2>1. /\ pc'[d] = pc[d] /\ frame'[d] = frame[d] /\ status'[d] = status[d]
        /\ topicToChannelId'[d] = topicToChannelId[d]
    BY <1>1, <1>3, ServerThread, OtherThreads
  <2>2. toServer'[d] = toServer[d] /\ serverOpen'[d] = serverOpen[d]
    BY <1>1, <1>2, <1>3 DEF Transfer
  <2> QED BY <1>1, <1>2, <2>1, <2>2, BridgedSame
<1>4. CASE d = c
  <2>1. Outcome(c) /\ status[c] = "open"
    BY <1>1, HandleOutcome, ReadOutcome DEF Bridged
  <2>2. serverOpen'[c] = (status'[c] = "open") /\ proc[c] # "new"
    BY <1>1, <1>2, <2>1 DEF Transfer, Bridged, Linked
  <2>3. Linked(c)'
    BY <1>2, <2>2 DEF Linked
  <2>4. ASSUME pc'[c] # "idle" PROVE InProcess(c)'
    <3>1. status'[c] = "open" /\ serverOpen'[c]
      BY <2>1, <2>2, <2>4 DEF Outcome
    <3>2. toServer'[c] = toServer[c]
      BY <1>1, <1>2, <2>4, <3>1 DEF Transfer
    <3>3. Input(c)' = Input(c) /\ (CP!HasFrame(c) => CP!HasFrame(c)')
      BY <3>1, <3>2 DEF Input, CP!HasFrame
    <3>4. CASE Read(c)
      <4>1. pc'[c] \notin {"open", "next", "recipient", "write"}
        BY <1>1, <2>4, <3>4, Begins
      <4> QED BY <1>1, <2>4, <3>1, <3>3, <3>4, <4>1, Begins DEF InProcess
    <3>5. CASE Handle(c)
      <4>1. InProcess(c)
        BY <1>1, <3>5 DEF Bridged, Handle, PutHandler, Rebind, Bind, PutPasscode, Check,
           Stamp, Open, NextRecipient, Write, EndSend, CreateList, AddSubscriber,
           IndexSubscription, RemoveHandler, RemoveLogin, LeaveChannel, GoOn, Pick,
           RemoveFound, EndScan
      <4> QED BY <1>1, <2>4, <3>1, <3>3, <3>5, <4>1, GoesOn DEF InProcess
    <3> QED BY <1>1, <3>4, <3>5
  <2> QED BY <1>4, <2>3, <2>4 DEF Bridged
<1> QED BY <1>3, <1>4

LEMMA AcceptKeepsBridge ==
    ASSUME ServiceInv, AcceptClient, NEW d \in Conns
    PROVE  Bridged(d)'
<1>1. /\ Inv /\ Bridged(d) /\ status \in [Conns -> {"new", "open", "eof", "logout", "failed"}]
      /\ Accept /\ serverOpen[connectionId] /\ UNCHANGED <<clientVars, streams>>
      /\ Bridged(connectionId)
  BY DEF ServiceInv, Inv, TypeOK, ThreadTypes, AcceptClient
<1>2. UNCHANGED <<pc, frame, topicToChannelId, proc, login, toServer, serverOpen>>
  BY <1>1 DEF Accept, locals, indexes, clientVars, streams
<1>3. CASE d # connectionId
  <2>1. status'[d] = status[d]
    BY <1>1, <1>3 DEF Accept
  <2> QED BY <1>1, <1>2, <2>1, BridgedSame
<1>4. CASE d = connectionId
  <2>1. status[d] = "new" /\ status'[d] = "open" /\ proc[d] # "new"
    BY <1>1, <1>4 DEF Accept, Inv, Consistent, FreshIds, TypeOK, Bridged, Linked, Conns
  <2>2. pc[d] = "idle"
    BY <1>1, <2>1 DEF Inv, Consistent, ThreadConsistent
  <2> QED BY <1>1, <1>2, <1>4, <2>1, <2>2 DEF Bridged, Linked
<1> QED BY <1>3, <1>4

LEMMA EndKeepsBridge ==
    ASSUME ServiceInv, NEW c \in Conns, EndOfFile(c), NEW d \in Conns
    PROVE  Bridged(d)'
<1>1. /\ Inv /\ CP!Inv /\ Bridged(d) /\ Eof(c) /\ pc[c] = "idle"
      /\ proc[c] \in {"crashed", "aborted"}
      /\ status \in [Conns -> {"new", "open", "eof", "logout", "failed"}]
      /\ serverOpen \in [Conns -> BOOLEAN] /\ toServer \in [Conns -> Seq(CP!Written)]
  BY DEF ServiceInv, Inv, TypeOK, ThreadTypes, CP!Inv, CP!Types, EndOfFile, Eof, Ready
<1>2. /\ UNCHANGED <<pc, frame, topicToChannelId, proc, login>>
      /\ toServer' = [toServer EXCEPT ![c] = << >>]
      /\ serverOpen' = [serverOpen EXCEPT ![c] = FALSE]
      /\ status' = [status EXCEPT ![c] = "eof"]
  BY <1>1 DEF EndOfFile, Eof, locals, indexes, clientVars
<1>3. CASE d # c
  BY <1>1, <1>2, <1>3, BridgedSame
<1>4. CASE d = c
  BY <1>1, <1>2, <1>4 DEF Bridged, Linked
<1> QED BY <1>3, <1>4

LEMMA ServiceInvInit == ServiceInit => ServiceInv
<1> SUFFICES ASSUME ServiceInit PROVE ServiceInv
  OBVIOUS
<1>1. Inv
  BY InitInv DEF ServiceInit
<1>2. CP!Init
  BY Same DEF ServiceInit
<1>3. CP!Inv
  BY <1>2, Bounds, CP!InvInit
<1>4. \A c \in Conns : Bridged(c)
  BY <1>2 DEF ServiceInit, Init, CP!Init, Bridged, Linked
<1> QED BY <1>1, <1>3, <1>4 DEF ServiceInv

LEMMA ServiceInvStep == ServiceInv /\ [ServiceNext]_serviceVars => ServiceInv'
<1> SUFFICES ASSUME ServiceInv, [ServiceNext]_serviceVars PROVE ServiceInv'
  OBVIOUS
<1>1. Inv'
  BY ServerStepIs, InvStep DEF ServiceInv
<1>2. CP!Inv'
  BY ClientStepIs, Bounds, CP!InvStep DEF ServiceInv
<1>3. CASE ServiceNext
  <2>1. \A d \in Conns : Bridged(d)'
    BY <1>3, AcceptKeepsBridge, ClientKeepsBridge, ServerKeepsBridge, EndKeepsBridge
       DEF ServiceNext
  <2> QED BY <1>1, <1>2, <2>1 DEF ServiceInv
<1>4. CASE UNCHANGED serviceVars
  <2>1. \A d \in Conns : Bridged(d)'
    BY <1>4, BridgedSame
       DEF ServiceInv, serviceVars, vars, locals, indexes, clientVars, streams
  <2> QED BY <1>1, <1>2, <2>1 DEF ServiceInv
<1> QED BY <1>3, <1>4

LEMMA ServiceAlways == ServiceSpec => []ServiceInv
<1>1. ServiceInit => ServiceInv
  BY ServiceInvInit
<1>2. ServiceInv /\ [ServiceNext]_serviceVars => ServiceInv'
  BY ServiceInvStep
<1> QED BY <1>1, <1>2, PTL DEF ServiceSpec

----------------------------------------------------------------------------
(* Both sides keep to what the other assumes.                              *)

\* The server of the service is StompServer: what the clients make of their
\* users' lines never asks it for anything but what that module lets arrive.
THEOREM ServiceIsServer == ServiceSpec => IsServerSpec
<1>1. ServiceInit => Init
  BY DEF ServiceInit
<1>2. ServiceInv /\ [ServiceNext]_serviceVars => [Next]_vars
  BY ServerStepIs DEF ServiceInv
<1> QED BY <1>1, <1>2, ServiceAlways, PTL DEF ServiceSpec, IsServerSpec, Spec

\* And to its client the server is the peer of StompClient: it answers the
\* frames in order, each once and with its own receipt, or closes.
THEOREM ServiceIsClient == ServiceSpec => IsClientSpec
<1>1. ServiceInit => Client!Init
  BY DEF ServiceInit
<1>2. ServiceInv /\ [ServiceNext]_serviceVars => [Client!Next]_Client!vars
  <2>1. UNCHANGED CP!vars => UNCHANGED Client!vars
    BY DEF CP!vars, CP!session, CP!maps, CP!network, Client!vars, Client!session,
       Client!maps, Client!network
  <2> QED BY <2>1, ClientStepIs, Same
<1> QED BY <1>1, <1>2, ServiceAlways, PTL DEF ServiceSpec, IsClientSpec, Client!Spec

----------------------------------------------------------------------------
(* A report is in the name of the user.                                    *)

LEMMA BoundKept ==
    ASSUME ServiceInv, Inv, CP!Inv, SerialInv, [ServiceNext]_serviceVars,
           NEW u \in Logins, NEW c \in Conns, Bound(u, c)
    PROVE  Bound(u, c)'
<1> USE DEF Bound
<1>0. /\ loginPasscode \in [Logins -> Nullable(Passcodes)]
      /\ loginConnectionId \in [Logins -> Nullable(Conns)]
      /\ u \in Logins /\ Null \notin Passcodes
  BY NullAssumption DEF Inv, TypeOK, SessionTypes, NullAssumption
<1>1. ASSUME NEW e \in Conns, Read(e) PROVE Bound(u, c)'
  <2>1. UNCHANGED <<loginPasscode, loginConnectionId>>
    BY <1>1, ReadIs DEF Asked, Malformed, ProcessConnect, ProcessSend, ProcessSubscribe,
       ProcessUnsubscribe, sessions
  <2> QED BY <2>1
<1>2. ASSUME NEW e \in Conns, Handle(e) PROVE Bound(u, c)'
  <2>0. LoginFree(e)
    BY <1>2 DEF SerialInv, Undisturbed
  <2>1. CASE Bind(e)
    <3>1. frame[e].login # u
      BY <2>0, <2>1 DEF Bind, LoginFree
    <3>2. loginConnectionId'[u] = loginConnectionId[u] /\ loginPasscode' = loginPasscode
      BY <1>0, <2>1, <3>1 DEF Bind, BindLogin
    <3> QED BY <3>2
  <2>2. CASE PutPasscode(e)
    BY <1>0, <2>0, <2>2 DEF PutPasscode, LoginFree
  <2>3. CASE UNCHANGED <<loginPasscode, loginConnectionId>>
    BY <2>3
  <2>4. ~Rebind(e) /\ ~RemoveLogin(e)
    <3>1. pc[e] # "idle" => InProcess(e)
      BY DEF ServiceInv, Bridged
    <3> QED BY <2>0, <3>1 DEF Rebind, RemoveLogin, LoginFree, InProcess
  <2> QED BY <1>2, <2>1, <2>2, <2>3, <2>4 DEF sessions, Handle, PutHandler, Check,
     Stamp, Open, NextRecipient, Write, EndSend, CreateList, AddSubscriber,
     IndexSubscription, RemoveHandler, LeaveChannel, GoOn, Pick, RemoveFound, EndScan
<1>3. ASSUME NEW e \in Conns, ClientStep(e) PROVE Bound(u, c)'
  BY <1>3, ClientsOwn DEF vars, sessions
<1>4. CASE AcceptClient \/ UNCHANGED serviceVars
  BY <1>4 DEF AcceptClient, Accept, serviceVars, vars, sessions
<1>5. ASSUME NEW e \in Conns, EndOfFile(e) PROVE Bound(u, c)'
  BY <1>5 DEF EndOfFile, Eof, sessions
<1> QED BY <1>1, <1>2, <1>3, <1>4, <1>5 DEF ServiceNext, ServerStep

\* A CONNECT that is answered has bound its login.
LEMMA ConnectBinds ==
    ASSUME Inv, SerialInv, NEW c \in Conns, InProcess(c), Handle(c), pc'[c] = "idle",
           frame[c].command = "CONNECT", NEW u, u = frame[c].login
    PROVE  Bound(u, c)'
<1>1. pc[c] \in {"put", "rebind", "bind", "passcode"} /\ LoginFree(c) /\ LoginHalfBound(c)
  BY DEF InProcess, SerialInv, Undisturbed
<1>2. PutHandler(c) \/ Bind(c) \/ PutPasscode(c)
  BY <1>1 DEF Rebind, LoginFree, Handle, Check, Stamp, Open, NextRecipient, Write, EndSend,
     CreateList, AddSubscriber, IndexSubscription, RemoveHandler, RemoveLogin, LeaveChannel,
     GoOn, Pick, RemoveFound, EndScan
<1>3. ~PutHandler(c) /\ ~Bind(c)
  BY DEF PutHandler, Bind, Goto, Inv, TypeOK, ThreadTypes
<1>4. PutPasscode(c) /\ pc[c] = "passcode"
  BY <1>2, <1>3 DEF PutPasscode
<1>5. /\ u \in Logins /\ frame[c].passcode \in Passcodes
      /\ loginConnectionId'[u] = c
  BY <1>1, <1>4 DEF PutPasscode, LoginFree, LoginHalfBound
<1>6. loginPasscode'[u] = frame[c].passcode
  BY <1>4, <1>5 DEF PutPasscode, Inv, TypeOK, SessionTypes
<1>7. frame[c].passcode # Null
  BY <1>5, NullAssumption DEF NullAssumption
<1> QED BY <1>5, <1>6, <1>7 DEF Bound

\* Nothing is lost of what precedes a frame as long as the stream only grows.
LEMMA EarlierKept ==
    ASSUME NEW c \in Conns, NEW u \in Logins, NEW k, Earlier(c, u, k),
           Bound(u, c) => Bound(u, c)',
           Len(toServer[c]) \in Nat, Len(toServer'[c]) \in Nat,
           Len(toServer[c]) <= Len(toServer'[c]),
           \A j \in 1 .. Len(toServer[c]) : toServer'[c][j].text = toServer[c][j].text
    PROVE  Earlier(c, u, k)'
<1>1. \A j \in 1 .. Len(toServer[c]) : j \in 1 .. Len(toServer'[c])
  OBVIOUS
<1> QED BY <1>1 DEF Earlier

\* And when its first frame has been processed, that one is bound.
LEMMA EarlierShifted ==
    ASSUME Inv, CP!Inv, SerialInv, NEW c \in Conns, NEW u \in Logins, NEW k \in Nat,
           Earlier(c, u, k + 1), Bound(u, c) => Bound(u, c)',
           InProcess(c), Handle(c), pc'[c] = "idle", toServer'[c] = Tail(toServer[c])
    PROVE  Earlier(c, u, k)'
<1> DEFINE q == toServer[c]
<1>1. /\ q \in Seq(CP!Written) /\ q # << >> /\ Len(q) \in Nat /\ Input(c) = q[1].text
  BY FirstIs DEF CP!Inv, CP!Types, InProcess, CP!HasFrame, Input
<1>2. Len(Tail(q)) = Len(q) - 1 /\ \A j \in 1 .. Len(Tail(q)) : Tail(q)[j] = q[j + 1]
  BY <1>1, HeadTailProperties
<1>3. CASE Bound(u, c)
  BY <1>3 DEF Earlier
<1>4. CASE ~Bound(u, c)
  <2>1. PICK j \in 1 .. Len(q), p \in Passcodes :
            j < k + 1 /\ q[j].text = CP!ConnectFrame(u, p)
    BY <1>4 DEF Earlier
  <2>2. CASE j = 1
    <3>1. frame[c].command = "CONNECT" /\ frame[c].login = u
      BY <1>1, <2>1, <2>2, ConnectText DEF InProcess
    <3> QED BY <3>1, ConnectBinds DEF Earlier
  <2>3. CASE j # 1
    <3>1. /\ j - 1 \in 1 .. Len(Tail(q)) /\ j - 1 < k
          /\ Tail(q)[j - 1].text = CP!ConnectFrame(u, p)
      BY <1>1, <1>2, <2>1, <2>3
    <3> QED BY <3>1 DEF Earlier
  <2> QED BY <2>2, <2>3
<1> QED BY <1>3, <1>4

LEMMA ReportersServer ==
    ASSUME ServiceInv, SerialInv, NEW c \in Conns, ServerStep(c), Reporters(c)
    PROVE  Reporters(c)'
<1>1. /\ Inv /\ CP!Inv /\ TypeOK /\ Bridged(c) /\ Transfer(c)
      /\ Read(c) \/ Handle(c)
  BY DEF ServiceInv, Inv, ServerStep
<1>2. /\ serverOpen \in [Conns -> BOOLEAN] /\ toServer \in [Conns -> Seq(CP!Written)]
      /\ Len(toServer[c]) \in Nat
      /\ UNCHANGED <<keyboard, draft, login, username>>
  BY <1>1, LenProperties DEF CP!Inv, CP!Types, Transfer, clientVars
<1>3. \A u \in Logins : Bound(u, c) => Bound(u, c)'
  BY <1>1, BoundKept DEF ServiceNext
<1>4. Outcome(c) /\ status[c] = "open" /\ serverOpen[c]
  BY <1>1, HandleOutcome, ReadOutcome DEF Bridged, Linked
<1>5. CASE status'[c] # "open"
  BY <1>1, <1>2, <1>5 DEF Transfer, Reporters
<1>6. CASE status'[c] = "open" /\ pc'[c] = "idle"
  <2>1. InProcess(c) /\ pc[c] # "idle"
    BY <1>4, <1>6 DEF Outcome
  <2>2. Handle(c)
    BY <1>1, <2>1, ReadIs DEF Ready
  <2>3. /\ toServer'[c] = Tail(toServer[c]) /\ toServer[c] # << >>
        /\ toServer[c] \in Seq(CP!Written)
    BY <1>1, <1>2, <1>6, <2>1 DEF Transfer, InProcess, CP!HasFrame
  <2>4. /\ Len(toServer'[c]) \in Nat /\ Len(toServer[c]) = Len(toServer'[c]) + 1
        /\ \A k \in 1 .. Len(toServer'[c]) : toServer'[c][k] = toServer[c][k + 1]
    BY <2>3, HeadTailProperties, LenProperties
  <2>5. \A u \in Logins, k \in Nat : Earlier(c, u, k + 1) => Earlier(c, u, k)'
    BY <1>1, <1>3, <1>6, <2>1, <2>2, <2>3, EarlierShifted
  <2>6. ASSUME NEW k \in 1 .. Len(toServer'[c]), NEW u \in Logins, NEW g \in Channels,
               toServer'[c][k].text = CP!SendFrame(u, g)
        PROVE  Earlier(c, u, k)'
    <3>1. k + 1 \in 1 .. Len(toServer[c]) /\ toServer[c][k + 1].text = CP!SendFrame(u, g)
      BY <2>4, <2>6
    <3>2. Earlier(c, u, k + 1)
      BY <1>4, <3>1 DEF Reporters
    <3> QED BY <2>5, <3>2
  <2>7. \A u \in Logins : Earlier(c, u, Next1(c)) => Earlier(c, u, Next1(c))'
    <3> SUFFICES ASSUME NEW u \in Logins, Earlier(c, u, Next1(c))
                 PROVE  Earlier(c, u, Next1(c))'
      OBVIOUS
    <3>1. PICK n \in Nat : n = Len(toServer[c]) /\ Earlier(c, u, n + 1)
      BY <1>2 DEF Next1
    <3>2. Earlier(c, u, n)'
      BY <2>5, <3>1
    <3>3. n = Len(toServer'[c]) + 1
      BY <2>4, <3>1
    <3>4. (Earlier(c, u, n) => Earlier(c, u, Next1(c)))'
      BY <3>3 DEF Next1
    <3> QED BY <3>2, <3>4
  <2>8. login[c] => username[c] \in Logins
    BY <1>1 DEF CP!Inv, CP!Named
  <2> QED BY <1>2, <1>4, <2>6, <2>7, <2>8 DEF Reporters
<1>7. CASE status'[c] = "open" /\ pc'[c] # "idle"
  <2>1. toServer'[c] = toServer[c]
    BY <1>1, <1>2, <1>7 DEF Transfer
  <2>2. \A u \in Logins : \A k : Earlier(c, u, k) => Earlier(c, u, k)'
    <3>1. \A j \in 1 .. Len(toServer[c]) : toServer'[c][j].text = toServer[c][j].text
      BY <2>1
    <3> QED BY <1>2, <1>3, <2>1, <3>1, EarlierKept
  <2>3. login[c] => username[c] \in Logins
    BY <1>1 DEF CP!Inv, CP!Named
  <2> QED BY <1>2, <1>4, <2>1, <2>2, <2>3 DEF Reporters, Next1
<1> QED BY <1>5, <1>6, <1>7

\* The texts that are not reports, and a report names one user.
LEMMA ReportText ==
    ASSUME NEW u, NEW g \in Channels
    PROVE  /\ \A v, p : CP!ConnectFrame(v, p) # CP!SendFrame(u, g)
           /\ \A h, i, r : CP!SubscribeFrame(h, i, r) # CP!SendFrame(u, g)
           /\ \A i, r : CP!UnsubscribeFrame(i, r) # CP!SendFrame(u, g)
           /\ \A r : CP!LogoutFrame(r) # CP!SendFrame(u, g)
           /\ CP!EmptyFrame # CP!SendFrame(u, g)
           /\ \A v : \A h \in Channels :
                 CP!SendFrame(v, h) = CP!SendFrame(u, g) => v = u
<1>1. \A v : \A h \in Channels : CP!SendFrame(v, h) = CP!SendFrame(u, g) => v = u
  BY SendText
<1>2. CP!JavaParses(CP!SendFrame(u, g)) /\ CP!JavaCommand(CP!SendFrame(u, g)) = "SEND"
  BY SendText
<1>3. /\ \A v, p : CP!JavaCommand(CP!ConnectFrame(v, p)) = "CONNECT"
      /\ \A h, i, r : CP!JavaCommand(CP!SubscribeFrame(h, i, r)) = "SUBSCRIBE"
      /\ \A i, r : CP!JavaCommand(CP!UnsubscribeFrame(i, r)) = "UNSUBSCRIBE"
  BY DEF CP!JavaCommand, CP!ConnectFrame, CP!SubscribeFrame, CP!UnsubscribeFrame,
     CP!ClientText, CP!Text, CP!Plain, CP!Header
<1>4. CP!EmptyFrame # CP!SendFrame(u, g) /\ \A r : CP!LogoutFrame(r) # CP!SendFrame(u, g)
  BY <1>2, Bounds, CP!EmptyNeverParses, CP!LogoutNeverParses
<1> QED BY <1>1, <1>2, <1>3, <1>4

LEMMA ReportersSame ==
    ASSUME CP!Inv, NEW d \in Conns, Reporters(d), keyboard'[d] = keyboard[d],
           draft'[d] = draft[d], login'[d] = login[d], username'[d] = username[d],
           toServer'[d] = toServer[d], serverOpen'[d] => serverOpen[d],
           \A u \in Logins : Bound(u, d) => Bound(u, d)'
    PROVE  Reporters(d)'
<1>1. \A u \in Logins : \A k : Earlier(d, u, k) => Earlier(d, u, k)'
  BY DEF Earlier
<1>2. login[d] => username[d] \in Logins
  BY DEF CP!Inv, CP!Named
<1> QED BY <1>1, <1>2 DEF Reporters, Next1

\* A step of the client at its keyboard or socket that writes nothing.
LEMMA ReportersUnwritten ==
    ASSUME CP!Inv, NEW c \in Conns, Reporters(c), UNCHANGED vars,
           serverOpen'[c] => serverOpen[c] /\ toServer'[c] = toServer[c],
           login'[c] = login[c], username'[c] = username[c], keyboard[c] # "text",
           \A u \in Logins, g \in Channels :
              serverOpen[c] /\ keyboard'[c] \in {"insert", "text"}
              /\ draft'[c].text = CP!SendFrame(u, g) => Earlier(c, u, Next1(c))
    PROVE  Reporters(c)'
<1>1. \A u \in Logins : Bound(u, c)' = Bound(u, c)
  BY DEF Bound, vars, sessions
<1> SUFFICES ASSUME serverOpen'[c] PROVE Reporters(c)'
  BY DEF Reporters
<1>2. \A u \in Logins : \A k : Earlier(c, u, k) => Earlier(c, u, k)'
  BY <1>1 DEF Earlier
<1>3. login[c] => username[c] \in Logins
  BY DEF CP!Inv, CP!Named
<1> QED BY <1>2, <1>3 DEF Reporters, Next1

LEMMA ReportersStart ==
    ASSUME CP!Inv, NEW c \in Conns, Bridged(c), CP!Start(c)
    PROVE  Reporters(c)'
<1>1. keyboard[c] = "line" /\ toServer[c] = << >> /\ ~login[c]
  BY DEF CP!Inv, CP!Sound, CP!Drafted, CP!Start, Bridged, Linked
<1>2. keyboard'[c] = "line" /\ toServer'[c] = << >> /\ ~login'[c]
  BY <1>1 DEF CP!Start, CP!session
<1> QED BY <1>2 DEF Reporters

LEMMA ReportersLogin ==
    ASSUME CP!Inv, NEW c \in Conns, Reporters(c), UNCHANGED vars, CP!TypeLogin(c)
    PROVE  Reporters(c)'
<1>0. /\ serverOpen' = serverOpen /\ toServer' = toServer
  BY DEF CP!TypeLogin, CP!network
<1>1. PICK u \in Logins, p \in Passcodes :
          username'[c] = u /\ draft'[c].text = CP!ConnectFrame(u, p)
  BY DEF CP!TypeLogin, CP!Draft, CP!Inv, CP!Types
<1>2. keyboard'[c] = "text"
  BY DEF CP!TypeLogin, CP!KeyboardTo, CP!Inv, CP!Types
<1>3. \A v \in Logins : \A k : Earlier(c, v, k) => Earlier(c, v, k)'
  BY <1>0 DEF Earlier, Bound, vars, sessions
<1>4. \A v \in Logins, g \in Channels : draft'[c].text # CP!SendFrame(v, g)
  BY <1>1, ReportText
<1> QED BY <1>0, <1>1, <1>2, <1>3, <1>4 DEF Reporters

LEMMA ReportersAsk ==
    ASSUME CP!Inv, NEW c \in Conns, Reporters(c), UNCHANGED vars,
           \/ CP!TypeJoin(c) \/ CP!TypeExit(c) \/ CP!TypeLogout(c) \/ CP!TypeOther(c)
    PROVE  Reporters(c)'
<1> USE DEF CP!Inv, CP!Types, CP!Ask, CP!Draft, CP!KeyboardTo
<1>1. \A v \in Logins, g \in Channels : draft'[c].text # CP!SendFrame(v, g)
  <2>1. CASE CP!TypeJoin(c)
    BY <2>1, ReportText DEF CP!TypeJoin
  <2>2. CASE CP!TypeExit(c)
    BY <2>2, ReportText DEF CP!TypeExit
  <2>3. CASE CP!TypeLogout(c)
    BY <2>3, ReportText DEF CP!TypeLogout
  <2>4. CASE CP!TypeOther(c)
    BY <2>4, ReportText DEF CP!TypeOther
  <2> QED BY <2>1, <2>2, <2>3, <2>4
<1>2. /\ serverOpen' = serverOpen /\ toServer' = toServer /\ keyboard[c] = "line"
      /\ login' = login /\ username' = username
  BY DEF CP!TypeJoin, CP!TypeExit, CP!TypeLogout, CP!TypeOther, CP!Type, CP!session,
     CP!network
<1> QED BY <1>1, <1>2, ReportersUnwritten

LEMMA ReportersEvent ==
    ASSUME CP!Inv, NEW c \in Conns, Reporters(c), UNCHANGED vars, CP!NextEvent(c)
    PROVE  Reporters(c)'
<1>1. /\ serverOpen' = serverOpen /\ toServer' = toServer /\ keyboard[c] = "report"
      /\ login' = login /\ username' = username /\ report[c].left > 0
  BY DEF CP!NextEvent, CP!session, CP!network
<1>2. login[c] /\ username[c] \in Logins /\ report[c].game \in Channels
  <2>1. report[c] # CP!NoReport
    BY <1>1 DEF CP!NoReport
  <2> QED BY <2>1 DEF CP!Inv, CP!Named, CP!InReport
<1>3. draft'[c].text = CP!SendFrame(username[c], report[c].game)
  BY DEF CP!NextEvent, CP!Draft, CP!Inv, CP!Types
<1>4. \A v \in Logins, g \in Channels :
          draft'[c].text = CP!SendFrame(v, g) => v = username[c]
  BY <1>2, <1>3, ReportText
<1>5. serverOpen[c] => Earlier(c, username[c], Next1(c))
  BY <1>1, <1>2 DEF Reporters
<1> QED BY <1>1, <1>4, <1>5, ReportersUnwritten

LEMMA ReportersWrite ==
    ASSUME CP!Inv, NEW c \in Conns, Reporters(c), UNCHANGED vars, CP!WriteText(c)
    PROVE  Reporters(c)'
<1> DEFINE q == toServer[c]
           text == [text |-> draft[c].text, ended |-> FALSE]
<1>0. /\ keyboard[c] = "text" /\ keyboard'[c] = "delimiter" /\ serverOpen' = serverOpen
      /\ login' = login /\ username' = username
      /\ serverOpen[c] => toServer'[c] = Append(q, text)
  BY DEF CP!WriteText, CP!KeyboardTo, CP!session, CP!Inv, CP!Types
<1> SUFFICES ASSUME serverOpen[c] PROVE Reporters(c)'
  BY <1>0 DEF Reporters
<1>1. /\ q \in Seq(CP!Written) /\ text \in CP!Written /\ Len(q) \in Nat
  BY LenProperties DEF CP!Inv, CP!Types, CP!Drafts, CP!Written
<1>2. /\ Len(toServer'[c]) = Len(q) + 1 /\ toServer'[c][Len(q) + 1] = text
      /\ \A k \in 1 .. Len(q) : toServer'[c][k] = q[k]
  BY <1>0, <1>1, AppendProperties
<1>3. \A u \in Logins : \A k : Earlier(c, u, k) => Earlier(c, u, k)'
  <2>1. \A u \in Logins : Bound(u, c) => Bound(u, c)'
    BY DEF Bound, vars, sessions
  <2> QED BY <1>1, <1>2, <2>1, EarlierKept
<1>4. ASSUME NEW k \in 1 .. Len(toServer'[c]), NEW u \in Logins, NEW g \in Channels,
             toServer'[c][k].text = CP!SendFrame(u, g)
      PROVE  Earlier(c, u, k)'
  <2>1. CASE k \in 1 .. Len(q)
    BY <1>2, <1>3, <1>4, <2>1 DEF Reporters
  <2>2. CASE k = Len(q) + 1
    <3>1. draft[c].text = CP!SendFrame(u, g)
      BY <1>2, <1>4, <2>2
    <3>2. Earlier(c, u, Next1(c))
      BY <1>0, <3>1 DEF Reporters
    <3>3. Earlier(c, u, k)
      BY <2>2, <3>2 DEF Next1
    <3> QED BY <1>3, <3>3
  <2> QED BY <1>1, <1>2, <2>1, <2>2
<1>5. ASSUME NEW u \in Logins,
             \/ \E p \in Passcodes : draft[c].text = CP!ConnectFrame(u, p)
             \/ Earlier(c, u, Next1(c))
      PROVE  Earlier(c, u, Next1(c))'
  <2>1. CASE \E p \in Passcodes : draft[c].text = CP!ConnectFrame(u, p)
    <3>1. /\ Len(q) + 1 \in 1 .. Len(toServer'[c]) /\ Len(q) + 1 < Len(toServer'[c]) + 1
          /\ \E p \in Passcodes : toServer'[c][Len(q) + 1].text = CP!ConnectFrame(u, p)
      BY <1>1, <1>2, <2>1
    <3> QED BY <3>1 DEF Earlier, Next1
  <2>2. CASE Earlier(c, u, Next1(c))
    <3>1. PICK n \in Nat : n = Len(q) /\ Earlier(c, u, n + 1)
      BY <1>1, <2>2 DEF Next1
    <3>2. Earlier(c, u, n + 1)'
      BY <1>3, <3>1
    <3> QED BY <1>2, <3>1, <3>2 DEF Next1, Earlier
  <2> QED BY <1>5, <2>1, <2>2
<1>6. login[c] => username[c] \in Logins
  BY DEF CP!Inv, CP!Named
<1> QED BY <1>0, <1>4, <1>5, <1>6 DEF Reporters

LEMMA ReportersDelimiter ==
    ASSUME CP!Inv, NEW c \in Conns, Reporters(c), UNCHANGED vars, CP!WriteDelimiter(c)
    PROVE  Reporters(c)'
<1> DEFINE q == toServer[c]
<1>0. /\ keyboard[c] = "delimiter" /\ keyboard'[c] \notin {"insert", "text"}
      /\ serverOpen' = serverOpen /\ login' = login /\ username' = username
      /\ serverOpen[c] => toServer'[c] = CP!Ended(q)
  BY DEF CP!WriteDelimiter, CP!KeyboardTo, CP!session, CP!Inv, CP!Types
<1> SUFFICES ASSUME serverOpen[c] PROVE Reporters(c)'
  BY <1>0 DEF Reporters
<1>1. /\ q \in Seq(CP!Written) /\ Len(q) \in Nat
  BY LenProperties DEF CP!Inv, CP!Types
<1>2. /\ Len(toServer'[c]) = Len(q)
      /\ \A k \in 1 .. Len(q) : toServer'[c][k].text = q[k].text
  BY <1>0, <1>1, Bounds, CP!EndedIs
<1>3. \A u \in Logins : \A k : Earlier(c, u, k) => Earlier(c, u, k)'
  <2>1. \A u \in Logins : Bound(u, c) => Bound(u, c)'
    BY DEF Bound, vars, sessions
  <2> QED BY <1>1, <1>2, <2>1, EarlierKept
<1>4. login[c] => username[c] \in Logins
  BY DEF CP!Inv, CP!Named
<1> QED BY <1>0, <1>2, <1>3, <1>4 DEF Reporters, Next1

LEMMA ReportersClient ==
    ASSUME CP!Inv, NEW c \in Conns, Bridged(c), Reporters(c), UNCHANGED vars, OfClient(c)
    PROVE  Reporters(c)'
<1> USE DEF CP!session, CP!network, CP!maps
<1>1. CASE CP!Start(c)
  BY <1>1, ReportersStart
<1>2. CASE CP!TypeLogin(c)
  BY <1>2, ReportersLogin
<1>3. CASE CP!TypeJoin(c) \/ CP!TypeExit(c) \/ CP!TypeLogout(c) \/ CP!TypeOther(c)
  BY <1>3, ReportersAsk
<1>4. CASE CP!TypeReport(c) \/ CP!EndReport(c)
  <2>1. /\ keyboard[c] \in {"line", "report"} /\ keyboard'[c] \in {"line", "report"}
        /\ UNCHANGED <<serverOpen, toServer, login, username>>
    BY <1>4 DEF CP!TypeReport, CP!EndReport, CP!Type, CP!KeyboardTo, CP!Inv, CP!Types
  <2> QED BY <2>1, ReportersUnwritten
<1>5. CASE CP!TypeIgnored(c) \/ CP!TypeBroken(c) \/ CP!SocketStep(c)
  <2>1. UNCHANGED <<keyboard, draft, login, username, toServer, serverOpen>>
    BY <1>5 DEF CP!TypeIgnored, CP!TypeBroken, CP!SocketStep, CP!Receive, CP!LookupRaces,
       CP!ConnectionLost, CP!Terminate, CP!vars
  <2>2. \A u \in Logins : Bound(u, c) => Bound(u, c)'
    BY DEF Bound, vars, sessions
  <2> QED BY <2>1, <2>2, ReportersSame
<1>6. CASE CP!InsertRequest(c)
  <2>1. /\ keyboard[c] = "insert"
        /\ UNCHANGED <<serverOpen, toServer, login, username, draft>>
    BY <1>6 DEF CP!InsertRequest
  <2> QED BY <2>1, ReportersUnwritten DEF Reporters
<1>7. CASE CP!NextEvent(c)
  BY <1>7, ReportersEvent
<1>8. CASE CP!WriteFails(c)
  BY <1>8 DEF CP!WriteFails, Reporters
<1>9. CASE CP!WriteText(c)
  BY <1>9, ReportersWrite
<1>10. CASE CP!WriteDelimiter(c)
  BY <1>10, ReportersDelimiter
<1> QED BY <1>1, <1>2, <1>3, <1>4, <1>5, <1>6, <1>7, <1>8, <1>9, <1>10
        DEF OfClient, CP!Command, CP!KeyboardStep

LEMMA ReportersStep ==
    ASSUME ServiceInv, SerialInv, \A c \in Conns : Reporters(c), [ServiceNext]_serviceVars,
           NEW d \in Conns
    PROVE  Reporters(d)'
<1>1. /\ Inv /\ CP!Inv /\ Reporters(d) /\ \A c \in Conns : Bridged(c)
      /\ \A u \in Logins : Bound(u, d) => Bound(u, d)'
  BY BoundKept DEF ServiceInv
<1>2. ASSUME NEW c \in Conns, ClientStep(c) PROVE Reporters(d)'
  <2>1. OfClient(c) /\ UNCHANGED vars
    BY <1>2, ClientsOwn
  <2>2. CASE d = c
    BY <1>1, <2>1, <2>2, ReportersClient
  <2>3. CASE d # c
    <3>1. CP!View(d)' = CP!View(d)
      BY <1>1, <2>1, <2>3, Bounds, CP!OthersSame DEF CP!Inv, OfClient, CP!ProcessStep
    <3> QED BY <1>1, <3>1, ReportersSame DEF CP!View
  <2> QED BY <2>2, <2>3
<1>3. ASSUME NEW c \in Conns, ServerStep(c) PROVE Reporters(d)'
  <2>1. CASE d = c
    BY <1>1, <1>3, <2>1, ReportersServer
  <2>2. CASE d # c
    <3>1. /\ UNCHANGED clientVars
          /\ toServer'[d] = toServer[d] /\ serverOpen'[d] = serverOpen[d]
      BY <1>1, <1>3, <2>2 DEF ServerStep, Transfer, CP!Inv, CP!Types
    <3> QED BY <1>1, <3>1, ReportersSame DEF clientVars
  <2> QED BY <2>1, <2>2
<1>4. ASSUME NEW c \in Conns, EndOfFile(c) PROVE Reporters(d)'
  <2>1. CASE d = c
    BY <1>1, <1>4, <2>1 DEF EndOfFile, Reporters, CP!Inv, CP!Types
  <2>2. CASE d # c
    <3>1. /\ UNCHANGED clientVars
          /\ toServer'[d] = toServer[d] /\ serverOpen'[d] = serverOpen[d]
      BY <1>1, <1>4, <2>2 DEF EndOfFile, CP!Inv, CP!Types
    <3> QED BY <1>1, <3>1, ReportersSame DEF clientVars
  <2> QED BY <2>1, <2>2
<1>5. CASE AcceptClient \/ UNCHANGED serviceVars
  <2>1. UNCHANGED <<clientVars, streams>>
    BY <1>5 DEF AcceptClient, serviceVars
  <2> QED BY <1>1, <2>1, ReportersSame DEF clientVars, streams
<1> QED BY <1>2, <1>3, <1>4, <1>5 DEF ServiceNext

LEMMA ReportersInit == ServiceInit => \A c \in Conns : Reporters(c)
<1>1. CP!Init => \A c \in Conns : ~serverOpen[c]
  BY DEF CP!Init
<1> QED BY <1>1, Same DEF ServiceInit, Reporters

LEMMA ReportersLoggedIn ==
    ASSUME ServiceInv, \A c \in Conns : Reporters(c)
    PROVE  ReporterLoggedIn
<1> SUFFICES ASSUME NEW c \in Conns, pc[c] \in {"open", "next", "recipient", "write"}
             PROVE  loginConnectionId[Client!Reporter(Input(c))] = c
  BY DEF ReporterLoggedIn
<1> DEFINE text == Input(c)
<1>1. /\ CP!Inv /\ InProcess(c) /\ serverOpen[c] /\ frame[c].command = "SEND"
      /\ CP!HasFrame(c)
  BY DEF ServiceInv, Bridged, Linked, InProcess
<1>2. /\ text \in CP!ClientTexts /\ 1 \in 1 .. Len(toServer[c]) /\ text = toServer[c][1].text
      /\ CP!JavaParses(text) /\ CP!JavaCommand(text) = "SEND"
  BY <1>1, TextsOfClients DEF InProcess
<1> HIDE DEF text
<1>3. text # CP!EmptyFrame /\ \A r : text # CP!LogoutFrame(r)
  BY <1>2, Bounds, CP!EmptyNeverParses, CP!LogoutNeverParses
<1>4. /\ \A v \in Logins, p \in Passcodes : text # CP!ConnectFrame(v, p)
      /\ \A h \in Channels, i, r \in CP!LineNumbers : text # CP!SubscribeFrame(h, i, r)
      /\ \A i, r \in CP!LineNumbers : text # CP!UnsubscribeFrame(i, r)
  BY <1>2, ConnectText, SubscribeText, UnsubscribeText
<1>5. PICK u \in Logins, g \in Channels : text = CP!SendFrame(u, g)
  BY <1>2, <1>3, <1>4 DEF CP!ClientTexts
<1>6. Earlier(c, u, 1)
  BY <1>1, <1>2, <1>5 DEF Reporters
<1>7. Bound(u, c)
  BY <1>6 DEF Earlier
<1>8. Client!Reporter(text) = u
  BY <1>5, SameTexts, SendText
<1> QED BY <1>7, <1>8 DEF Bound, text

\* When the server processes one frame at a time, it forwards a report only in
\* the name of a user whose login is bound to the connection the report came by:
\* a client that was refused has no connection left to report on.
THEOREM ReportersAreLoggedIn ==
    ASSUME Overlap = FALSE
    PROVE  ServiceSpec => []ReporterLoggedIn
<1> DEFINE Reported == ServiceInv /\ SerialInv /\ \A c \in Conns : Reporters(c)
<1>1. ServiceInit => Reported
  BY ServiceInvInit, SerialInit, ReportersInit DEF ServiceInit
<1>2. Reported /\ [ServiceNext]_serviceVars => Reported'
  <2> SUFFICES ASSUME Reported, [ServiceNext]_serviceVars PROVE Reported'
    OBVIOUS
  <2>1. SerialInv'
    BY ServerStepIs, SerialStep DEF ServiceInv
  <2>2. ServiceInv'
    BY ServiceInvStep
  <2>3. \A c \in Conns : Reporters(c)'
    BY ReportersStep
  <2> QED BY <2>1, <2>2, <2>3
<1>3. Reported => ReporterLoggedIn
  BY ReportersLoggedIn
<1> HIDE DEF Reported
<1> QED BY <1>1, <1>2, <1>3, PTL DEF ServiceSpec

----------------------------------------------------------------------------
(* What a user was told about a game is so.                                *)

\* The thread's locals are the headers of the text, and what an UNSUBSCRIBE
\* found under its id is still there.
Reads(c) ==
    /\ pc[c] \in {"create", "add", "index", "scan", "pick", "remove"} =>
          frame[c].channel \in Channels /\ frame[c].id \in Ids /\ frame[c].receipt \in Ids
    /\ pc[c] \in {"create", "add", "index"} =>
          Input(c) = CP!SubscribeFrame(frame[c].channel, frame[c].id, frame[c].receipt)
    /\ pc[c] \in {"scan", "pick", "remove"} =>
          /\ Input(c) = CP!UnsubscribeFrame(frame[c].id, frame[c].receipt)
          /\ clientidToIdTopicMap[c][frame[c].id] = frame[c].channel

\* The list of g is already as it will be when the request has been processed.
Mid(c, g) ==
    /\ frame[c].channel = g
    /\ pc[c] = "index" \/ (pc[c] \in {"scan", "pick"} /\ iter[c].stale)

\* The server's maps are as the first m requests left them: the ids name their
\* games, and a list names c once if the last of them about its game joined it.
Listed(c, m) ==
    /\ \A k \in 1 .. m :
          asked[c][k].command = "SUBSCRIBE" =>
              clientidToIdTopicMap[c][channeltoUniqueID[c][asked[c][k].game]]
                 = asked[c][k].game
    /\ \A g \in Channels :
          Count(Subscribers(g), c) = One(CP!Joined(asked[c], m, g) <=> ~Mid(c, g))

Belief(c) ==
    CP!Alive(c) /\ CP!Careful(c) =>
        \E m \in 0 .. CP!Due(c) : CP!Through(c, m) /\ Listed(c, m)

BeliefInv ==
    \A c \in Conns :
        CP!Worded(c) /\ CP!Distinct(c) /\ Scanning(c) /\ Reads(c) /\ Belief(c)

----------------------------------------------------------------------------
(* What the thread has read.                                               *)

\* As long as a frame is in process, its text stays.
LEMMA InputKept ==
    ASSUME ServiceInv, NEW c \in Conns, ClientStep(c), NEW d \in Conns, pc[d] # "idle"
    PROVE  Input(d)' = Input(d)
<1>1. OfClient(c) /\ CP!Inv /\ CP!HasFrame(d) /\ toServer[d] \in Seq(CP!Written)
  BY ClientsOwn DEF ServiceInv, Bridged, InProcess, CP!Inv, CP!Types
<1>2. CASE d # c
  <2>1. CP!View(d)' = CP!View(d)
    BY <1>1, <1>2, Bounds, CP!OthersSame DEF CP!Inv, OfClient, CP!ProcessStep
  <2> QED BY <2>1 DEF CP!View, Input
<1>3. CASE d = c
  <2>1. /\ toServer[c] # << >> /\ 1 \in 1 .. Len(toServer[c]) /\ toServer[c][1].ended
        /\ Head(toServer[c]) = toServer[c][1]
    BY <1>1, <1>3, FirstIs DEF CP!HasFrame
  <2>2. /\ toServer'[c] \in Seq(CP!Written) /\ toServer'[c] # << >>
        /\ toServer'[c][1].text = toServer[c][1].text
    BY <1>1, <2>1, StreamKept, EmptySeq
  <2>3. Head(toServer'[c]) = toServer'[c][1]
    BY <2>2, FirstIs
  <2> QED BY <1>3, <2>1, <2>2, <2>3 DEF Input
<1> QED BY <1>2, <1>3

LEMMA ReadsSame ==
    ASSUME NEW d \in Conns, Reads(d), pc'[d] = pc[d], frame'[d] = frame[d],
           clientidToIdTopicMap'[d] = clientidToIdTopicMap[d],
           pc[d] # "idle" => Input(d)' = Input(d)
    PROVE  Reads(d)'
  BY DEF Reads

LEMMA ReadsBegin ==
    ASSUME Inv, CP!Inv, NEW c \in Conns, Read(c), pc'[c] # "idle", Input(c)' = Input(c)
    PROVE  Reads(c)'
<1> DEFINE text == Input(c)
<1>0. /\ pc \in [Conns -> Steps] /\ frame \in [Conns -> Frames] /\ ~Throw(c)
      /\ \A step : Goto(c, step) => pc'[c] = step
      /\ clientidToIdTopicMap \in [Conns -> [Ids -> Nullable(Channels)]]
  BY DEF Inv, TypeOK, ThreadTypes, TopicTypes, Leave, Goto, Throw
<1>1. Asked(c, text)
  BY <1>0, ReadIs DEF Malformed
<1>2. ASSUME NEW l, NEW p, ProcessConnect(c, l, p) PROVE Reads(c)'
  <2>1. pc'[c] = "put"
    BY <1>0, <1>2 DEF ProcessConnect
  <2> QED BY <2>1 DEF Reads
<1>3. ASSUME NEW g, ProcessSend(c, g, Null) PROVE Reads(c)'
  <2>1. pc'[c] \in {"check", "stamp"}
    BY <1>0, <1>3 DEF ProcessSend
  <2> QED BY <2>1 DEF Reads
<1>4. ASSUME NEW g \in Channels, NEW i \in Ids, NEW r \in Ids,
             text = CP!SubscribeFrame(g, i, r), ProcessSubscribe(c, g, i, r)
      PROVE  Reads(c)'
  <2>1. pc'[c] \in {"create", "add"}
    BY <1>0, <1>4 DEF ProcessSubscribe
  <2>2. frame'[c].channel = g /\ frame'[c].id = i /\ frame'[c].receipt = r
    BY <1>0, <1>4 DEF ProcessSubscribe, NoFrame
  <2> QED BY <1>4, <2>1, <2>2 DEF Reads
<1>5. ASSUME NEW i \in Ids, NEW r \in Ids,
             text = CP!UnsubscribeFrame(i, r), ProcessUnsubscribe(c, i, r)
      PROVE  Reads(c)'
  <2> DEFINE ch == clientidToIdTopicMap[c][i]
  <2>1. ch # Null /\ pc'[c] = "scan" /\ clientidToIdTopicMap' = clientidToIdTopicMap
    BY <1>0, <1>5 DEF ProcessUnsubscribe, indexes
  <2>2. ch \in Channels
    BY <1>0, <2>1 DEF Nullable
  <2>3. frame' = [frame EXCEPT ![c] = [NoFrame EXCEPT !.command = "UNSUBSCRIBE",
                     !.channel = ch, !.id = i, !.receipt = r]]
    BY <1>0, <1>5 DEF ProcessUnsubscribe
  <2> HIDE DEF ch
  <2>4. frame'[c].channel = ch /\ frame'[c].id = i /\ frame'[c].receipt = r
    BY <1>0, <2>3 DEF NoFrame
  <2>5. clientidToIdTopicMap'[c][i] = ch
    BY <2>1 DEF ch
  <2> QED BY <1>5, <2>1, <2>2, <2>4, <2>5 DEF Reads
<1> QED BY <1>1, <1>2, <1>3, <1>4, <1>5 DEF Asked

LEMMA ReadsGoOn ==
    ASSUME TypeOK, NEW c \in Conns, InProcess(c), Reads(c), Handle(c), pc'[c] # "idle",
           Input(c)' = Input(c)
    PROVE  Reads(c)'
<1>1. clientidToIdTopicMap' = clientidToIdTopicMap
  <2>1. pc \in [Conns -> Steps]
    BY DEF TypeOK, ThreadTypes
  <2>2. ~IndexSubscription(c)
    BY <2>1 DEF IndexSubscription, Throw, Return, Leave, Goto
  <2>3. pc[c] # "unbind"
    BY DEF InProcess
  <2> QED BY <2>2, <2>3 DEF Handle, PutHandler, Rebind, Bind, PutPasscode, Check, Stamp,
     Open, NextRecipient, Write, EndSend, CreateList, AddSubscriber, RemoveHandler,
     RemoveLogin, LeaveChannel, GoOn, Pick, RemoveFound, EndScan, indexes
<1>2. /\ frame'[c] = frame[c]
      /\ pc'[c] \in {"create", "add", "index"} => pc[c] \in {"create", "add", "index"}
      /\ pc'[c] \in {"scan", "pick", "remove"} => pc[c] \in {"scan", "pick", "remove"}
  BY GoesOn
<1> QED BY <1>1, <1>2 DEF Reads

\* Of two threads only one is inside process(), and the stream of that one
\* keeps its first frame until it is done.
LEMMA FirstStays ==
    ASSUME ServiceInv, NEW c \in Conns, ServerStep(c), NEW d \in Conns,
           d # c \/ pc'[d] # "idle"
    PROVE  toServer'[d] = toServer[d] /\ serverOpen'[d] = serverOpen[d]
<1>1. /\ Inv /\ CP!Inv /\ Transfer(c) /\ Bridged(c) /\ (Read(c) \/ Handle(c))
  BY DEF ServiceInv, ServerStep
<1>2. serverOpen \in [Conns -> BOOLEAN] /\ toServer \in [Conns -> Seq(CP!Written)]
  BY <1>1 DEF CP!Inv, CP!Types
<1>3. /\ toServer' = [toServer EXCEPT ![c] = IF status'[c] # "open" THEN << >>
                        ELSE IF pc'[c] = "idle" THEN Tail(@) ELSE @]
      /\ serverOpen' = [serverOpen EXCEPT ![c] = status'[c] = "open"]
  BY <1>1 DEF Transfer
<1>4. CASE d # c
  BY <1>2, <1>3, <1>4
<1>5. CASE d = c /\ pc'[d] # "idle"
  <2>1. Outcome(c) /\ status[c] = "open"
    BY <1>1, HandleOutcome, ReadOutcome DEF Bridged
  <2>2. status'[c] = "open" /\ serverOpen[c]
    BY <1>1, <1>5, <2>1 DEF Outcome, Bridged, Linked
  <2>3. serverOpen[c] = TRUE
    BY <1>2, <2>2
  <2> QED BY <1>2, <1>3, <1>5, <2>2, <2>3
<1> QED BY <1>4, <1>5

LEMMA ReadsStep ==
    ASSUME ServiceInv, [ServiceNext]_serviceVars, NEW d \in Conns, Reads(d)
    PROVE  Reads(d)'
<1>1. /\ Inv /\ CP!Inv /\ TypeOK /\ \A c \in Conns : Bridged(c)
  BY DEF ServiceInv, Inv
<1>2. ASSUME NEW c \in Conns, ClientStep(c) PROVE Reads(d)'
  <2>1. UNCHANGED <<pc, frame, clientidToIdTopicMap>>
    BY <1>2, ClientsOwn DEF vars, locals, indexes
  <2> QED BY <1>2, <2>1, InputKept, ReadsSame
<1>3. ASSUME NEW c \in Conns, ServerStep(c) PROVE Reads(d)'
  <2>1. CASE pc'[d] = "idle"
    BY <2>1 DEF Reads
  <2>2. CASE pc'[d] # "idle"
    <3>1. Input(d)' = Input(d)
      BY <1>3, <2>2, FirstStays DEF Input
    <3>2. CASE d # c
      <4>1. /\ pc'[d] = pc[d] /\ frame'[d] = frame[d]
            /\ clientidToIdTopicMap'[d] = clientidToIdTopicMap[d]
        BY <1>1, <1>3, <3>2, ServerThread, OtherThreads DEF ServerStep
      <4> QED BY <3>1, <4>1, ReadsSame
    <3>3. CASE d = c /\ Read(c)
      BY <1>1, <2>2, <3>1, <3>3, ReadsBegin
    <3>4. CASE d = c /\ Handle(c)
      <4>1. InProcess(c)
        BY <1>1, <3>4 DEF Bridged, Handle, PutHandler, Rebind, Bind, PutPasscode, Check,
           Stamp, Open, NextRecipient, Write, EndSend, CreateList, AddSubscriber,
           IndexSubscription, RemoveHandler, RemoveLogin, LeaveChannel, GoOn, Pick,
           RemoveFound, EndScan
      <4> QED BY <1>1, <2>2, <3>1, <3>4, <4>1, ReadsGoOn
    <3> QED BY <1>3, <3>2, <3>3, <3>4 DEF ServerStep
  <2> QED BY <2>1, <2>2
<1>4. CASE AcceptClient \/ UNCHANGED serviceVars
  <2>1. UNCHANGED <<pc, frame, clientidToIdTopicMap, toServer>>
    BY <1>4 DEF AcceptClient, Accept, serviceVars, vars, locals, indexes, streams
  <2> QED BY <2>1, ReadsSame DEF Input
<1>5. ASSUME NEW c \in Conns, EndOfFile(c) PROVE Reads(d)'
  <2>1. /\ UNCHANGED <<pc, frame, clientidToIdTopicMap>> /\ pc[c] = "idle"
        /\ toServer' = [toServer EXCEPT ![c] = << >>]
        /\ toServer \in [Conns -> Seq(CP!Written)]
    BY <1>1, <1>5 DEF EndOfFile, Eof, Ready, locals, indexes, CP!Inv, CP!Types
  <2>2. pc[d] # "idle" => toServer'[d] = toServer[d]
    BY <2>1
  <2> QED BY <2>1, <2>2, ReadsSame DEF Input
<1> QED BY <1>2, <1>3, <1>4, <1>5 DEF ServiceNext

----------------------------------------------------------------------------
(* What leaves Belief as it is.                                            *)

LEMMA ListedKept ==
    ASSUME NEW c \in Conns, NEW m \in Nat, Listed(c, m),
           \A k \in 1 .. m : asked'[c][k] = asked[c][k],
           \A k \in 1 .. m : asked[c][k].command = "SUBSCRIBE" =>
              channeltoUniqueID'[c][asked[c][k].game] = channeltoUniqueID[c][asked[c][k].game],
           clientidToIdTopicMap'[c] = clientidToIdTopicMap[c],
           \A g \in Channels : Count(Subscribers(g)', c) = Count(Subscribers(g), c),
           \A g \in Channels : Mid(c, g)' <=> Mid(c, g)
    PROVE  Listed(c, m)'
<1>1. \A g : CP!Joined(asked'[c], m, g) <=> CP!Joined(asked[c], m, g)
  BY Bounds, CP!JoinedSame
<1>2. \A g \in Channels : Count(Subscribers(g)', c) =
                             One(CP!Joined(asked'[c], m, g) <=> ~(Mid(c, g)'))
  BY <1>1 DEF Listed, One
<1>3. \A k \in 1 .. m :
          asked'[c][k].command = "SUBSCRIBE" =>
              clientidToIdTopicMap'[c][channeltoUniqueID'[c][asked'[c][k].game]]
                 = asked'[c][k].game
  BY DEF Listed
<1> QED BY <1>2, <1>3 DEF Listed

LEMMA BeliefKept ==
    ASSUME CP!Inv, NEW c \in Conns, Belief(c), CP!Alive(c)' => CP!Alive(c),
           asked'[c] = asked[c], channeltoUniqueID'[c] = channeltoUniqueID[c],
           toServer'[c] = toServer[c], keyboard'[c] = keyboard[c], draft'[c] = draft[c],
           recipt'[c] = recipt[c], clientidToIdTopicMap'[c] = clientidToIdTopicMap[c],
           \A g \in Channels : Count(Subscribers(g)', c) = Count(Subscribers(g), c),
           \A g \in Channels : Mid(c, g)' <=> Mid(c, g)
    PROVE  Belief(c)'
<1>1. CP!Due(c)' = CP!Due(c) /\ (CP!Careful(c)' => CP!Careful(c))
  BY DEF CP!Due, CP!Pending, CP!Careful, CP!Sensible
<1>2. \A m : CP!Through(c, m) => CP!Through(c, m)'
  BY <1>1 DEF CP!Through
<1>3. \A m \in Nat : Listed(c, m) => Listed(c, m)'
  BY ListedKept
<1>4. \A m \in 0 .. CP!Due(c) : m \in Nat
  OBVIOUS
<1> QED BY <1>1, <1>2, <1>3, <1>4 DEF Belief

\* Requests about no game are passed over.
LEMMA ListedOn ==
    ASSUME NEW c \in Conns, NEW m \in Nat, NEW n \in Nat, m <= n, Listed(c, m),
           \A k \in m .. n - 1 : asked[c][k + 1].game = Null,
           \A k \in 1 .. n : asked[c][k].command = "SUBSCRIBE" => asked[c][k].game \in Channels
    PROVE  Listed(c, n)
<1>1. \A k \in m + 1 .. n : asked[c][k].game = Null
  <2> SUFFICES ASSUME NEW k \in m + 1 .. n PROVE asked[c][k].game = Null
    OBVIOUS
  <2>1. k - 1 \in m .. n - 1 /\ (k - 1) + 1 = k
    OBVIOUS
  <2> QED BY <2>1
<1>2. \A g \in Channels : CP!Joined(asked[c], n, g) <=> CP!Joined(asked[c], m, g)
  <2> SUFFICES ASSUME NEW g \in Channels
               PROVE  CP!Joined(asked[c], n, g) <=> CP!Joined(asked[c], m, g)
    OBVIOUS
  <2>1. \A k \in m + 1 .. n : asked[c][k].game # g
    BY <1>1, NullAssumption DEF NullAssumption
  <2> QED BY <2>1, Bounds, CP!JoinedSkip
<1>3. \A k \in 1 .. n : asked[c][k].command = "SUBSCRIBE" => k \in 1 .. m
  <2> SUFFICES ASSUME NEW k \in 1 .. n, asked[c][k].command = "SUBSCRIBE", k \notin 1 .. m
               PROVE  FALSE
    OBVIOUS
  <2>1. k \in m + 1 .. n
    OBVIOUS
  <2> QED BY <2>1, <1>1, NullAssumption DEF NullAssumption
<1> QED BY <1>2, <1>3 DEF Listed, One

LEMMA BeliefClient ==
    ASSUME ServiceInv, NEW c \in Conns, ClientStep(c), CP!Worded(c), CP!Distinct(c), Belief(c)
    PROVE  Belief(c)'
<1>1. /\ CP!ProcessStep(c) /\ UNCHANGED vars /\ CP!Inv /\ CP!Types /\ CP!Counted /\ CP!Sound(c)
  BY ClientsOwn DEF ServiceInv, OfClient, CP!ProcessStep, CP!Inv
<1> SUFFICES ASSUME CP!Alive(c)', CP!Careful(c)'
             PROVE  \E m \in 0 .. CP!Due(c)' : CP!Through(c, m)' /\ Listed(c, m)'
  BY DEF Belief
<1>2. CP!Alive(c)
  BY <1>1, Bounds, CP!AliveBefore
<1>3. /\ Len(asked[c]) \in Nat /\ CP!Careful(c)
      /\ \A k \in 1 .. Len(asked[c]) : asked'[c][k] = asked[c][k]
      /\ \A g \in DOMAIN channeltoUniqueID[c] :
            channeltoUniqueID'[c][g] = channeltoUniqueID[c][g]
  BY <1>1, Bounds, CP!AskedGrows
<1>4. PICK m \in 0 .. CP!Due(c) : CP!Through(c, m) /\ Listed(c, m)
  BY <1>2, <1>3 DEF Belief
<1>5. m \in 0 .. CP!Due(c)' /\ CP!Through(c, m)'
  BY <1>1, <1>2, <1>4, Bounds, CP!ThroughStep
<1>6. m \in Nat /\ \A k \in 1 .. m : k \in 1 .. Len(asked[c])
  <2>1. CP!Due(c) \in Nat /\ CP!Due(c) <= Len(asked[c])
    <3>1. /\ CP!Due(c) \in Nat /\ CP!Due(c) <= recipt[c] /\ recipt[c] \in Nat
          /\ recipt[c] <= Len(asked[c])
      BY <1>1, Bounds, CP!DueIs
    <3> QED BY <3>1, <1>3
  <2> QED BY <2>1, <1>3
<1>7. \A k \in 1 .. m : asked[c][k].command = "SUBSCRIBE" =>
          channeltoUniqueID'[c][asked[c][k].game] = channeltoUniqueID[c][asked[c][k].game]
  BY <1>3, <1>6 DEF CP!Distinct
<1>8. /\ clientidToIdTopicMap'[c] = clientidToIdTopicMap[c]
      /\ \A g \in Channels : Count(Subscribers(g)', c) = Count(Subscribers(g), c)
      /\ \A g \in Channels : Mid(c, g)' <=> Mid(c, g)
  BY <1>1 DEF vars, rosters, indexes, locals, Subscribers, Mid
<1>9. Listed(c, m)'
  BY <1>3, <1>4, <1>6, <1>7, <1>8, ListedKept
<1> QED BY <1>5, <1>9

----------------------------------------------------------------------------
(* The frame in process is that of a request.                              *)

LEMMA HeadNumber ==
    ASSUME CP!Inv, NEW c \in Conns, InProcess(c)
    PROVE  LET s == CP!Out(toServer[c]) IN
           /\ s \in Seq(Int) /\ s # << >> /\ CP!Out(Tail(toServer[c])) = Tail(s)
           /\ s[1] = IF frame[c].receipt = Null THEN CP!NoNumber ELSE frame[c].receipt
<1>1. toServer[c] \in Seq(CP!Written) /\ toServer[c] # << >>
  BY DEF CP!Inv, CP!Types, InProcess, CP!HasFrame
<1>2. /\ CP!Out(toServer[c]) \in Seq(Int) /\ CP!Out(toServer[c]) # << >>
      /\ CP!Out(Tail(toServer[c])) = Tail(CP!Out(toServer[c]))
      /\ CP!Out(toServer[c])[1] = CP!Number(Input(c))
  BY <1>1, Bounds, CP!OutIs, CP!OutTail DEF Input
<1>3. CP!JavaParses(Input(c)) /\ frame[c].receipt = CP!JavaGet(Input(c), "receipt")
  BY DEF InProcess
<1> QED BY <1>2, <1>3 DEF CP!Number

LEMMA JoinedGames ==
    ASSUME CP!Types, NEW c \in Conns, CP!Distinct(c), CP!Careful(c)
    PROVE  \A k \in 1 .. Len(asked[c]) :
              asked[c][k].command = "SUBSCRIBE" =>
                  asked[c][k].game \in Channels
                  /\ asked[c][k] = CP!Request("SUBSCRIBE", asked[c][k].game)
<1> SUFFICES ASSUME NEW k \in 1 .. Len(asked[c]), asked[c][k].command = "SUBSCRIBE"
             PROVE  asked[c][k].game \in Channels
                    /\ asked[c][k] = CP!Request("SUBSCRIBE", asked[c][k].game)
  OBVIOUS
<1>1. /\ channeltoUniqueID[c] \in CP!Maps(Channels, CP!LineNumbers)
      /\ asked[c] \in Seq(CP!Requests)
  BY DEF CP!Types
<1>2. DOMAIN channeltoUniqueID[c] \subseteq Channels
  BY <1>1, Bounds, CP!MapsElements
<1>3. asked[c][k] \in CP!Requests
  BY <1>1, ElementOfSeq
<1> QED BY <1>2, <1>3 DEF CP!Distinct, CP!Requests, CP!Request

\* Where the server is when it processes the request with number x.
At(c, x) ==
    LET s == CP!Out(toServer[c])
        a == asked[c] IN
    /\ x \in Nat /\ x < CP!Due(c) /\ x + 1 \in 1 .. Len(a)
    /\ CP!Phrased(a, channeltoUniqueID[c], Input(c)) /\ CP!Number(Input(c)) = x
    /\ CP!Rest(s, a, x, CP!Due(c)) /\ CP!Rest(Tail(s), a, x + 1, CP!Due(c))
    /\ Listed(c, x)

LEMMA AtIs ==
    ASSUME ServiceInv, NEW c \in Conns, CP!Worded(c), CP!Distinct(c), CP!Careful(c),
           InProcess(c), frame[c].receipt \in Nat,
           NEW m \in 0 .. CP!Due(c), CP!Through(c, m), Listed(c, m)
    PROVE  At(c, frame[c].receipt)
<1> DEFINE s == CP!Out(toServer[c])
           a == asked[c]
           d == CP!Due(c)
           x == frame[c].receipt
<1>1. /\ CP!Inv /\ CP!Types /\ CP!Sound(c)
  BY DEF ServiceInv, CP!Inv
<1>2. /\ s \in Seq(Int) /\ s # << >> /\ s[1] = x /\ x # Null
      /\ CP!Number(Input(c)) = x
  <2>1. x # Null
    BY NumbersAreIds
  <2>2. CP!Number(Input(c)) = x
    BY <2>1 DEF InProcess, CP!Number
  <2> QED BY <1>1, <2>1, <2>2, HeadNumber
<1>3. /\ d \in Nat /\ d <= Len(a) /\ Len(a) \in Nat
  <2>1. /\ d \in Nat /\ d <= recipt[c] /\ recipt[c] \in Nat
        /\ Len(a) \in Nat /\ recipt[c] <= Len(a)
    BY <1>1, Bounds, CP!DueIs
  <2> QED BY <2>1
<1>4. /\ \A k \in 1 .. Len(s) : s[k] >= 0 => s[k] < d
      /\ \A j, k \in 1 .. Len(s) : j < k /\ s[j] >= 0 /\ s[k] >= 0 => s[j] < s[k]
  BY <1>1 DEF CP!Sound, CP!Flying, CP!InFlight, CP!Bounded, CP!Increasing
<1>5. CP!Rest(s, a, m, d)
  BY DEF CP!Through
<1>6. CP!Phrased(a, channeltoUniqueID[c], Input(c))
  <2>1. 1 \in 1 .. Len(toServer[c]) /\ Input(c) = toServer[c][1].text
    BY <1>1, TextsOfClients DEF InProcess
  <2> QED BY <2>1 DEF CP!Worded
<1>7. \A k \in 1 .. Len(a) : a[k].command = "SUBSCRIBE" => a[k].game \in Channels
  BY <1>1, JoinedGames
<1> HIDE DEF s, a, d, x
<1>8. x \in Nat
  BY DEF x
<1>9. x < d
  <2>1. 1 \in 1 .. Len(s)
    BY <1>2, EmptySeq, LenProperties
  <2> QED BY <2>1, <1>2, <1>4, <1>8
<1>10. /\ m <= x /\ \A n \in m .. x - 1 : a[n + 1].game = Null
       /\ CP!Rest(s, a, x, d) /\ CP!Rest(Tail(s), a, x + 1, d)
  <2>1. m \in 0 .. d /\ s[1] >= 0 /\ s[1] < d
    BY <1>2, <1>8, <1>9 DEF d
  <2>2. /\ m <= s[1] /\ \A n \in m .. s[1] - 1 : a[n + 1].game = Null
        /\ CP!Rest(s, a, s[1], d) /\ CP!Rest(Tail(s), a, s[1] + 1, d)
    BY <2>1, <1>2, <1>3, <1>4, <1>5, Bounds, CP!RestHead
  <2> QED BY <2>2, <1>2
<1>11. Listed(c, x)
  <2>1. m \in Nat /\ \A k \in 1 .. x : k \in 1 .. Len(a)
    BY <1>3, <1>8, <1>9
  <2>2. \A k \in 1 .. x : asked[c][k].command = "SUBSCRIBE" => asked[c][k].game \in Channels
    BY <2>1, <1>7 DEF a
  <2>3. \A k \in m .. x - 1 : asked[c][k + 1].game = Null
    BY <1>10 DEF a
  <2> QED BY <2>1, <2>2, <2>3, <1>8, <1>10, ListedOn
<1>12. x + 1 \in 1 .. Len(a)
  BY <1>3, <1>8, <1>9
<1> QED BY <1>2, <1>6, <1>8, <1>9, <1>10, <1>11, <1>12 DEF At, s, a, d, x

\* What the text in process has to do with that request.
LEMMA AtMeans ==
    ASSUME ServiceInv, NEW c \in Conns, CP!Careful(c), NEW x, At(c, x)
    PROVE  LET q == asked[c][x + 1]
               ids == channeltoUniqueID[c] IN
           /\ x \in Nat /\ q.game \in Channels /\ ids[q.game] \in CP!LineNumbers
           /\ q \in {CP!Request("SUBSCRIBE", q.game), CP!Request("UNSUBSCRIBE", q.game)}
           /\ Input(c) = CP!Wording(q, ids[q.game], x)
           /\ \/ q.command = "DISCONNECT"
              \/ (CP!Joined(asked[c], x, q.game) <=> q.command = "UNSUBSCRIBE")
<1> DEFINE q == asked[c][x + 1]
           ids == channeltoUniqueID[c]
<1>1. /\ x \in Nat /\ x + 1 \in 1 .. Len(asked[c]) /\ CP!Number(Input(c)) = x
      /\ CP!Phrased(asked[c], ids, Input(c))
  BY DEF At
<1>2. CP!Number(Input(c)) >= 0 /\ asked[c][CP!Number(Input(c)) + 1] = q
  BY <1>1
<1>3. /\ q \in {CP!Request("SUBSCRIBE", q.game), CP!Request("UNSUBSCRIBE", q.game)}
      /\ q.game \in Channels /\ q.game \in DOMAIN ids
      /\ Input(c) = CP!Wording(q, ids[q.game], x)
  <2> HIDE DEF q, ids
  <2> QED BY <1>1, <1>2 DEF CP!Phrased
<1>4. ids[q.game] \in CP!LineNumbers
  <2>1. ids \in CP!Maps(Channels, CP!LineNumbers)
    BY DEF ServiceInv, CP!Inv, CP!Types
  <2> HIDE DEF q, ids
  <2> QED BY <1>3, <2>1, Bounds, CP!MapsElements
<1>5. \/ q.command = "DISCONNECT"
      \/ (CP!Joined(asked[c], x, q.game) <=> q.command = "UNSUBSCRIBE")
  <2>1. (x + 1) - 1 = x
    BY <1>1
  <2>2. CP!Sensible(c, x + 1)
    BY <1>1 DEF CP!Careful
  <2> QED BY <2>1, <2>2 DEF CP!Sensible
<1> QED BY <1>1, <1>3, <1>4, <1>5

\* It is the request to join the game that the thread is to add the client to,
\* who is not in yet;
LEMMA AtJoin ==
    ASSUME ServiceInv, NEW c \in Conns, CP!Careful(c), Reads(c), InProcess(c),
           pc[c] \in {"create", "add", "index"}, NEW x, x = frame[c].receipt, At(c, x)
    PROVE  LET g == frame[c].channel IN
           /\ g \in Channels /\ asked[c][x + 1] = CP!Request("SUBSCRIBE", g)
           /\ frame[c].id = channeltoUniqueID[c][g] /\ ~CP!Joined(asked[c], x, g)
<1> DEFINE g == frame[c].channel
           i == frame[c].id
           q == asked[c][x + 1]
           ids == channeltoUniqueID[c]
<1>1. /\ g \in Channels /\ i \in CP!LineNumbers /\ x \in CP!LineNumbers
      /\ Input(c) = CP!SubscribeFrame(g, i, x)
  BY NumbersAreIds DEF Reads
<1>2. /\ q \in {CP!Request("SUBSCRIBE", q.game), CP!Request("UNSUBSCRIBE", q.game)}
      /\ q.game \in Channels /\ Input(c) = CP!Wording(q, ids[q.game], x)
  BY AtMeans
<1>3. ids[q.game] \in CP!LineNumbers
  BY AtMeans
<1>4. \/ q.command = "DISCONNECT"
      \/ (CP!Joined(asked[c], x, q.game) <=> q.command = "UNSUBSCRIBE")
  BY AtMeans
<1> HIDE DEF g, i, q, ids
<1>6. q = CP!Request("SUBSCRIBE", q.game)
  <2> SUFFICES ASSUME q = CP!Request("UNSUBSCRIBE", q.game) PROVE FALSE
    BY <1>2
  <2>1. Input(c) = CP!UnsubscribeFrame(ids[q.game], x)
    BY <1>2 DEF CP!Wording, CP!Request
  <2>2. CP!JavaCommand(CP!UnsubscribeFrame(ids[q.game], x)) = "UNSUBSCRIBE"
    BY <1>1, <1>3, UnsubscribeText
  <2>3. CP!JavaCommand(CP!SubscribeFrame(g, i, x)) = "SUBSCRIBE"
    BY <1>1, SubscribeText
  <2> QED BY <2>1, <2>2, <2>3, <1>1
<1>7. q.game = g /\ ids[q.game] = i
  <2>1. Input(c) = CP!SubscribeFrame(q.game, ids[q.game], x)
    BY <1>2, <1>6 DEF CP!Wording, CP!Request
  <2>2. /\ CP!JavaGet(CP!SubscribeFrame(q.game, ids[q.game], x), "destination") = q.game
        /\ CP!JavaGet(CP!SubscribeFrame(q.game, ids[q.game], x), "id") = ids[q.game]
    <3>1. q.game \in Channels /\ ids[q.game] \in CP!LineNumbers /\ x \in CP!LineNumbers
      BY <1>1, <1>2, <1>3
    <3> QED BY <3>1, SubscribeText
  <2>3. /\ CP!JavaGet(CP!SubscribeFrame(g, i, x), "destination") = g
        /\ CP!JavaGet(CP!SubscribeFrame(g, i, x), "id") = i
    BY <1>1, SubscribeText
  <2> QED BY <2>1, <2>2, <2>3, <1>1
<1>8. ~CP!Joined(asked[c], x, g)
  BY <1>4, <1>6, <1>7 DEF CP!Request
<1> QED BY <1>1, <1>6, <1>7, <1>8 DEF g, i, q, ids

\* or to exit the game whose list it searches, in which he is.
LEMMA AtExit ==
    ASSUME ServiceInv, NEW c \in Conns, CP!Distinct(c), CP!Careful(c), Reads(c), InProcess(c),
           pc[c] \in {"scan", "pick", "remove"}, NEW x, x = frame[c].receipt, At(c, x)
    PROVE  LET g == frame[c].channel IN
           /\ g \in Channels /\ asked[c][x + 1] = CP!Request("UNSUBSCRIBE", g)
           /\ CP!Joined(asked[c], x, g)
<1> DEFINE g == frame[c].channel
           i == frame[c].id
           q == asked[c][x + 1]
           ids == channeltoUniqueID[c]
<1>1. /\ g \in Channels /\ i \in CP!LineNumbers /\ x \in CP!LineNumbers
      /\ Input(c) = CP!UnsubscribeFrame(i, x) /\ clientidToIdTopicMap[c][i] = g
  BY NumbersAreIds DEF Reads
<1>2. /\ q \in {CP!Request("SUBSCRIBE", q.game), CP!Request("UNSUBSCRIBE", q.game)}
      /\ q.game \in Channels /\ Input(c) = CP!Wording(q, ids[q.game], x)
  BY AtMeans
<1>3. ids[q.game] \in CP!LineNumbers
  BY AtMeans
<1>4. \/ q.command = "DISCONNECT"
      \/ (CP!Joined(asked[c], x, q.game) <=> q.command = "UNSUBSCRIBE")
  BY AtMeans
<1>6. \A k \in 1 .. x :
          asked[c][k].command = "SUBSCRIBE" =>
              clientidToIdTopicMap[c][ids[asked[c][k].game]] = asked[c][k].game
  BY DEF At, Listed
<1> HIDE DEF g, i, q, ids
<1>7. q = CP!Request("UNSUBSCRIBE", q.game)
  <2> SUFFICES ASSUME q = CP!Request("SUBSCRIBE", q.game) PROVE FALSE
    BY <1>2
  <2>1. Input(c) = CP!SubscribeFrame(q.game, ids[q.game], x)
    BY <1>2 DEF CP!Wording, CP!Request
  <2>2. \A h, j, r : CP!JavaCommand(CP!SubscribeFrame(h, j, r)) = "SUBSCRIBE"
    BY DEF CP!JavaCommand, CP!SubscribeFrame, CP!ClientText, CP!Text, CP!Plain, CP!Header
  <2>3. CP!JavaCommand(CP!UnsubscribeFrame(i, x)) = "UNSUBSCRIBE"
    BY <1>1, UnsubscribeText
  <2> QED BY <2>1, <2>2, <2>3, <1>1
<1>8. ids[q.game] = i
  <2>1. Input(c) = CP!UnsubscribeFrame(ids[q.game], x)
    BY <1>2, <1>7 DEF CP!Wording, CP!Request
  <2>2. CP!JavaGet(CP!UnsubscribeFrame(ids[q.game], x), "id") = ids[q.game]
    BY <1>1, <1>3, UnsubscribeText
  <2>3. CP!JavaGet(CP!UnsubscribeFrame(i, x), "id") = i
    BY <1>1, UnsubscribeText
  <2> QED BY <2>1, <2>2, <2>3, <1>1
<1>9. CP!Joined(asked[c], x, q.game)
  BY <1>4, <1>7 DEF CP!Request
<1>10. q.game = g
  <2>1. PICK k \in 1 .. x : asked[c][k] = CP!Request("SUBSCRIBE", q.game)
    BY <1>9 DEF CP!Joined
  <2>2. clientidToIdTopicMap[c][ids[q.game]] = q.game
    BY <2>1, <1>6 DEF CP!Request
  <2> QED BY <2>2, <1>1, <1>8
<1> QED BY <1>1, <1>7, <1>9, <1>10 DEF g, i, q, ids

----------------------------------------------------------------------------
(* The steps of the connection's own thread.                               *)

\* The thread goes on with the request with number x, or has processed it.
LEMMA BeliefGoesOn ==
    ASSUME ServiceInv, NEW c \in Conns, NEW x, At(c, x), UNCHANGED clientVars,
           toServer'[c] = toServer[c], Listed(c, x)'
    PROVE  Belief(c)'
<1>1. CP!Due(c) \in Nat /\ CP!Due(c)' = CP!Due(c)
  <2>1. CP!Due(c)' = CP!Due(c)
    BY DEF clientVars, CP!Due, CP!Pending
  <2> QED BY <2>1, Bounds, CP!DueIs DEF ServiceInv, CP!Inv
<1>2. x \in 0 .. CP!Due(c)'
  BY <1>1 DEF At
<1>3. CP!Through(c, x)'
  BY <1>1 DEF At, CP!Through, clientVars
<1> QED BY <1>2, <1>3 DEF Belief

LEMMA BeliefProcessed ==
    ASSUME ServiceInv, NEW c \in Conns, InProcess(c), NEW x, At(c, x), UNCHANGED clientVars,
           toServer'[c] = Tail(toServer[c]), Listed(c, x + 1)'
    PROVE  Belief(c)'
<1>1. CP!Due(c) \in Nat /\ CP!Due(c)' = CP!Due(c)
  <2>1. CP!Due(c)' = CP!Due(c)
    BY DEF clientVars, CP!Due, CP!Pending
  <2> QED BY <2>1, Bounds, CP!DueIs DEF ServiceInv, CP!Inv
<1>2. x + 1 \in 0 .. CP!Due(c)'
  BY <1>1 DEF At
<1>3. CP!Through(c, x + 1)'
  <2>1. CP!Out(toServer'[c]) = Tail(CP!Out(toServer[c]))
    BY HeadNumber DEF ServiceInv
  <2> QED BY <1>1, <2>1 DEF At, CP!Through, clientVars
<1> QED BY <1>2, <1>3 DEF Belief

\* A frame without a number changes nothing.
LEMMA BeliefUnnumbered ==
    ASSUME ServiceInv, NEW c \in Conns, InProcess(c), Belief(c), UNCHANGED clientVars,
           CP!Alive(c), frame[c].receipt = Null, toServer'[c] = Tail(toServer[c]),
           \A m \in Nat : Listed(c, m) => Listed(c, m)'
    PROVE  Belief(c)'
<1>1. CP!Due(c) \in Nat /\ CP!Due(c)' = CP!Due(c) /\ asked'[c] = asked[c]
  <2>1. CP!Due(c)' = CP!Due(c)
    BY DEF clientVars, CP!Due, CP!Pending
  <2> QED BY <2>1, Bounds, CP!DueIs DEF ServiceInv, CP!Inv, clientVars
<1>2. CP!Careful(c)' => CP!Careful(c)
  BY DEF clientVars, CP!Careful, CP!Sensible
<1> SUFFICES ASSUME CP!Careful(c)
             PROVE  \E m \in 0 .. CP!Due(c)' : CP!Through(c, m)' /\ Listed(c, m)'
  BY <1>2 DEF Belief
<1>3. PICK m \in 0 .. CP!Due(c) : CP!Through(c, m) /\ Listed(c, m)
  BY DEF Belief
<1>4. CP!Rest(Tail(CP!Out(toServer[c])), asked[c], m, CP!Due(c))
  <2> DEFINE s == CP!Out(toServer[c])
             d == CP!Due(c)
  <2>1. s \in Seq(Int) /\ s # << >> /\ s[1] < 0
    BY HeadNumber DEF ServiceInv, CP!NoNumber
  <2>2. d \in Nat /\ m \in 0 .. d /\ CP!Rest(s, asked[c], m, d)
    BY <1>1, <1>3 DEF CP!Through
  <2> HIDE DEF s, d
  <2>3. CP!Rest(Tail(s), asked[c], m, d)
    BY <2>1, <2>2, Bounds, CP!RestTail
  <2> QED BY <2>3 DEF s, d
<1>5. CP!Through(c, m)'
  <2>1. CP!Out(toServer'[c]) = Tail(CP!Out(toServer[c]))
    BY HeadNumber DEF ServiceInv
  <2> QED BY <1>1, <1>4, <2>1 DEF CP!Through
<1>6. m \in Nat /\ m \in 0 .. CP!Due(c)'
  BY <1>1
<1> QED BY <1>3, <1>5, <1>6

LEMMA ListedAdd ==
    ASSUME Inv, NEW c \in Conns, AddSubscriber(c), UNCHANGED clientVars, NEW x \in Nat,
           Listed(c, x), ~CP!Joined(asked[c], x, frame[c].channel)
    PROVE  Listed(c, x)'
<1> DEFINE mine == frame[c].channel
<1>1. /\ pc[c] = "add" /\ pc'[c] = "index" /\ frame' = frame
      /\ clientidToIdTopicMap' = clientidToIdTopicMap
      /\ asked' = asked /\ channeltoUniqueID' = channeltoUniqueID
  BY DEF AddSubscriber, Goto, Inv, TypeOK, ThreadTypes, indexes, clientVars
<1>2. ASSUME NEW g \in Channels
      PROVE  Count(Subscribers(g)', c) = One(CP!Joined(asked[c], x, g) <=> ~(Mid(c, g)'))
  <2>1. Count(Subscribers(g), c) = One(CP!Joined(asked[c], x, g))
    BY <1>1 DEF Listed, Mid, One
  <2>2. CASE g = mine
    <3>1. Count(Append(Subscribers(g), c), c) = Count(Subscribers(g), c) + One(c = c)
      BY RosterTypes, CountAppend
    <3>2. Subscribers(g)' = Append(Subscribers(g), c)
      BY <2>2, AddChanges
    <3>3. Mid(c, g)'
      BY <1>1, <2>2 DEF Mid
    <3> QED BY <2>1, <2>2, <3>1, <3>2, <3>3 DEF One
  <2>3. CASE g # mine
    <3>1. Subscribers(g)' = Subscribers(g)
      BY <2>3, AddChanges
    <3>2. ~(Mid(c, g)')
      BY <1>1, <2>3 DEF Mid
    <3> QED BY <2>1, <3>1, <3>2 DEF One
  <2> QED BY <2>2, <2>3
<1> HIDE DEF mine
<1> QED BY <1>1, <1>2 DEF Listed

LEMMA ListedRemove ==
    ASSUME Inv, SerialInv, NEW c \in Conns, Scanning(c), RemoveFound(c), UNCHANGED clientVars,
           NEW x \in Nat, Listed(c, x), CP!Joined(asked[c], x, frame[c].channel)
    PROVE  Listed(c, x)'
<1> DEFINE mine == frame[c].channel
           at == iter[c].at
<1>1. /\ pc[c] = "remove" /\ pc'[c] = "scan" /\ frame' = frame /\ iter'[c].stale
      /\ clientidToIdTopicMap' = clientidToIdTopicMap
      /\ asked' = asked /\ channeltoUniqueID' = channeltoUniqueID
  BY RemoveChanges DEF RemoveFound, indexes, clientVars
<1>2. ASSUME NEW g \in Channels
      PROVE  Count(Subscribers(g)', c) = One(CP!Joined(asked[c], x, g) <=> ~(Mid(c, g)'))
  <2>1. Count(Subscribers(g), c) = One(CP!Joined(asked[c], x, g))
    BY <1>1 DEF Listed, Mid, One
  <2>2. CASE g = mine
    <3>1. /\ at \in 1 .. Len(Subscribers(g)) /\ Subscribers(g)[at] = c
          /\ Subscribers(g)' = RemoveAt(Subscribers(g), at)
      BY <2>2, RemoveChanges
    <3>2. Count(Subscribers(g), c) =
             Count(RemoveAt(Subscribers(g), at), c) + One(Subscribers(g)[at] = c)
      BY <3>1, RosterTypes, CountRemove
    <3>3. Mid(c, g)'
      BY <1>1, <2>2 DEF Mid
    <3>4. RemoveAt(Subscribers(g), at) \in Seq(Conns)
      BY <3>1, RosterTypes, RemoveAtProperties
    <3>5. Count(RemoveAt(Subscribers(g), at), c) \in Nat
      BY <3>4, CountFinite
    <3> QED BY <2>1, <2>2, <3>1, <3>2, <3>3, <3>5 DEF One
  <2>3. CASE g # mine
    <3>1. Subscribers(g)' = Subscribers(g)
      BY <2>3, RemoveChanges
    <3>2. ~(Mid(c, g)')
      BY <1>1, <2>3 DEF Mid
    <3> QED BY <2>1, <3>1, <3>2 DEF One
  <2> QED BY <2>2, <2>3
<1> HIDE DEF mine, at
<1> QED BY <1>1, <1>2 DEF Listed

\* The lists stay, and so do the ids but for that of the request.
LEMMA ListedNext ==
    ASSUME NEW c \in Conns, pc'[c] = "idle", UNCHANGED rosters, UNCHANGED clientVars,
           NEW x \in Nat, Listed(c, x), NEW g \in Channels,
           \A h \in Channels : Mid(c, h) => h = g,
           asked[c][x + 1].game = g,
           Count(Subscribers(g), c) = One(CP!Joined(asked[c], x + 1, g)),
           \A k \in 1 .. x + 1 :
              asked[c][k].command = "SUBSCRIBE" =>
                  clientidToIdTopicMap'[c][channeltoUniqueID[c][asked[c][k].game]]
                     = asked[c][k].game
    PROVE  Listed(c, x + 1)'
<1>1. /\ asked' = asked /\ channeltoUniqueID' = channeltoUniqueID
      /\ \A h : Subscribers(h)' = Subscribers(h)
      /\ \A h : ~(Mid(c, h)')
  BY DEF clientVars, rosters, Subscribers, Mid
<1>2. ASSUME NEW h \in Channels
      PROVE  Count(Subscribers(h)', c) = One(CP!Joined(asked[c], x + 1, h) <=> ~(Mid(c, h)'))
  <2>1. CASE h = g
    BY <1>1, <2>1 DEF One
  <2>2. CASE h # g
    <3>1. CP!Joined(asked[c], x + 1, h) <=> CP!Joined(asked[c], x, h)
      BY <2>2, Bounds, CP!JoinedNext
    <3>2. ~Mid(c, h)
      BY <2>2
    <3> QED BY <1>1, <3>1, <3>2 DEF Listed, One
  <2> QED BY <2>1, <2>2
<1> QED BY <1>1, <1>2 DEF Listed

LEMMA ListedIndex ==
    ASSUME ServiceInv, NEW c \in Conns, IndexSubscription(c), pc'[c] = "idle",
           status'[c] = "open", UNCHANGED clientVars,
           CP!Distinct(c), CP!Careful(c), Reads(c), InProcess(c),
           NEW x, x = frame[c].receipt, At(c, x)
    PROVE  Listed(c, x + 1)'
<1> DEFINE g == frame[c].channel
           ids == channeltoUniqueID[c]
           a == asked[c]
<1>1. /\ pc[c] = "index" /\ TypeOK /\ UNCHANGED rosters
      /\ clientidToIdTopicMap' = [clientidToIdTopicMap EXCEPT ![c][frame[c].id] = g]
  BY ThrowIs DEF ServiceInv, Inv, IndexSubscription
<1>2. /\ g \in Channels /\ a[x + 1] = CP!Request("SUBSCRIBE", g)
      /\ frame[c].id = ids[g] /\ ~CP!Joined(a, x, g)
  BY <1>1, AtJoin
<1>3. x \in Nat /\ x + 1 \in 1 .. Len(a) /\ Len(a) \in Nat
  BY Bounds, CP!FlightIs DEF At, ServiceInv, CP!Inv
<1>4. CP!Joined(a, x + 1, g)
  BY <1>2, <1>3, Bounds, CP!JoinedNext
<1>5. Count(Subscribers(g), c) = One(CP!Joined(a, x + 1, g))
  BY <1>1, <1>2, <1>4 DEF At, Listed, Mid, One
<1>6. ASSUME NEW k \in 1 .. x + 1, a[k].command = "SUBSCRIBE"
      PROVE  clientidToIdTopicMap'[c][ids[a[k].game]] = a[k].game
  <2> DEFINE h == a[k].game
  <2>1. /\ k \in 1 .. Len(a) /\ h \in DOMAIN ids /\ g \in DOMAIN ids
        /\ h # g => ids[h] # ids[g]
    <3>1. k \in 1 .. Len(a) /\ x + 1 \in 1 .. Len(a) /\ a[x + 1].command = "SUBSCRIBE"
      BY <1>2, <1>3 DEF CP!Request
    <3> QED BY <1>2, <1>6, <3>1 DEF CP!Distinct, CP!Request
  <2>2. ids[h] \in Ids /\ ids[g] \in Ids
    <3>1. ids \in CP!Maps(Channels, CP!LineNumbers)
      BY DEF ServiceInv, CP!Inv, CP!Types
    <3> QED BY <2>1, <3>1, NumbersAreIds, Bounds, CP!MapsElements
  <2>3. clientidToIdTopicMap \in [Conns -> [Ids -> Nullable(Channels)]]
    BY <1>1 DEF TypeOK, TopicTypes
  <2>4. CASE h = g
    BY <1>1, <1>2, <2>2, <2>3, <2>4
  <2>5. CASE h # g
    <3>1. k # x + 1
      BY <1>2, <2>5 DEF CP!Request
    <3>2. k \in 1 .. x
      BY <1>3, <3>1
    <3>3. clientidToIdTopicMap[c][ids[h]] = h
      BY <1>6, <3>2 DEF At, Listed
    <3>4. clientidToIdTopicMap'[c][ids[h]] = clientidToIdTopicMap[c][ids[h]]
      BY <1>1, <1>2, <2>1, <2>2, <2>3, <2>5
    <3> QED BY <3>3, <3>4
  <2> QED BY <2>4, <2>5
<1>7. Listed(c, x) /\ \A h \in Channels : Mid(c, h) => h = g
  BY DEF At, Mid
<1>8. a[x + 1].game = g
  BY <1>2 DEF CP!Request
<1> QED BY <1>1, <1>2, <1>3, <1>5, <1>6, <1>7, <1>8, ListedNext

LEMMA ListedEnd ==
    ASSUME ServiceInv, NEW c \in Conns, EndScan(c), pc'[c] = "idle",
           UNCHANGED clientVars, Scanning(c),
           CP!Distinct(c), CP!Careful(c), Reads(c), InProcess(c),
           NEW x, x = frame[c].receipt, At(c, x)
    PROVE  Listed(c, x + 1)'
<1> DEFINE g == frame[c].channel
           ids == channeltoUniqueID[c]
           a == asked[c]
<1>1. /\ pc[c] = "scan" /\ UNCHANGED rosters /\ clientidToIdTopicMap' = clientidToIdTopicMap
      /\ frame[c].command = "UNSUBSCRIBE"
  BY DEF EndScan, indexes, InProcess
<1>2. /\ g \in Channels /\ a[x + 1] = CP!Request("UNSUBSCRIBE", g) /\ CP!Joined(a, x, g)
  BY <1>1, AtExit
<1>3. x \in Nat
  BY DEF At
<1>4. ~CP!Joined(a, x + 1, g)
  BY <1>2, <1>3, Bounds, CP!JoinedNext
<1>5. Count(Subscribers(g), c) = 0
  <2>1. CASE iter[c].stale
    BY <1>1, <1>2, <2>1 DEF At, Listed, Mid, One
  <2>2. CASE ~iter[c].stale
    BY <1>1, <2>2, NothingLeft DEF ServiceInv
  <2> QED BY <2>1, <2>2
<1>6. Count(Subscribers(g), c) = One(CP!Joined(a, x + 1, g))
  BY <1>4, <1>5 DEF One
<1>7. ASSUME NEW k \in 1 .. x + 1, a[k].command = "SUBSCRIBE"
      PROVE  clientidToIdTopicMap'[c][ids[a[k].game]] = a[k].game
  <2>1. k # x + 1
    BY <1>2, <1>7 DEF CP!Request
  <2>2. k \in 1 .. x
    BY <1>3, <2>1
  <2> QED BY <1>1, <1>7, <2>2 DEF At, Listed
<1>8. Listed(c, x) /\ \A h \in Channels : Mid(c, h) => h = g
  BY DEF At, Mid
<1>9. a[x + 1].game = g
  BY <1>2 DEF CP!Request
<1> QED BY <1>1, <1>2, <1>3, <1>6, <1>7, <1>8, <1>9, ListedNext

\* A step of the thread that writes no list and no id, and is not the last of a
\* SUBSCRIBE or an UNSUBSCRIBE.
LEMMA Elsewhere ==
    ASSUME Inv, CP!Inv, SerialInv, NEW c \in Conns, Read(c) \/ Handle(c),
           pc[c] # "idle" => InProcess(c),
           pc'[c] # "idle" \/ frame[c].command \in {"CONNECT", "SEND"},
           ~AddSubscriber(c), ~RemoveFound(c)
    PROVE  /\ clientidToIdTopicMap' = clientidToIdTopicMap
           /\ \A g \in Channels : Subscribers(g)' = Subscribers(g)
           /\ \A g \in Channels : Mid(c, g)' <=> Mid(c, g)
<1>0. /\ TypeOK /\ pc \in [Conns -> Steps] /\ iter \in [Conns -> Iterators]
      /\ Throw(c) => pc'[c] = "idle"
      /\ Return(c) => pc'[c] = "idle"
      /\ \A step : Goto(c, step) => pc'[c] = step
      /\ Inv /\ pc[c] = "idle" => frame[c] = NoFrame
  BY ThrowIs DEF Inv, TypeOK, ThreadTypes, Leave, Goto, Return, Consistent, ThreadConsistent
<1>1. CASE Read(c)
  <2>1. pc[c] = "idle" /\ frame[c] = NoFrame
    BY <1>0, <1>1, ReadIs DEF Ready
  <2>2. pc'[c] # "idle" /\ ~Throw(c) /\ ~Malformed(c)
    BY <1>0, <2>1 DEF NoFrame, Malformed
  <2>3. Asked(c, Input(c))
    BY <1>1, <2>2, ReadIs
  <2> DEFINE Kept == UNCHANGED rosters /\ clientidToIdTopicMap' = clientidToIdTopicMap
             Before == (pc'[c] \in {"put", "check", "stamp", "create", "add"})
                          \/ (pc'[c] = "scan" /\ ~iter'[c].stale)
  <2>4. ASSUME NEW l, NEW p, ProcessConnect(c, l, p) PROVE Kept /\ Before
    BY <1>0, <2>2, <2>4 DEF ProcessConnect, indexes
  <2>5. ASSUME NEW g, ProcessSend(c, g, Null) PROVE Kept /\ Before
    BY <1>0, <2>2, <2>5 DEF ProcessSend, indexes
  <2>6. ASSUME NEW g, NEW i, NEW r, ProcessSubscribe(c, g, i, r) PROVE Kept /\ Before
    BY <1>0, <2>2, <2>6 DEF ProcessSubscribe, indexes
  <2>7. ASSUME NEW i, NEW r, ProcessUnsubscribe(c, i, r) PROVE Kept /\ Before
    <3> DEFINE ref == channelToConnectionId[clientidToIdTopicMap[c][i]]
    <3>1. Kept /\ pc'[c] = "scan" /\ iter' = [iter EXCEPT ![c] = IteratorOn(ref)]
      BY <1>0, <2>2, <2>7 DEF ProcessUnsubscribe, indexes
    <3> HIDE DEF ref
    <3>2. IteratorOn(ref).stale = FALSE
      BY DEF IteratorOn
    <3>3. ~iter'[c].stale
      BY <1>0, <3>1, <3>2
    <3> QED BY <3>1, <3>3
  <2>8. Kept /\ Before
    BY <2>3, <2>4, <2>5, <2>6, <2>7 DEF Asked
  <2> QED BY <2>1, <2>8 DEF rosters, Subscribers, Mid
<1>2. CASE Handle(c)
  <2>1. InProcess(c)
    BY <1>2 DEF Handle, PutHandler, Rebind, Bind, PutPasscode, Check, Stamp, Open,
       NextRecipient, Write, EndSend, CreateList, AddSubscriber, IndexSubscription,
       RemoveHandler, RemoveLogin, LeaveChannel, GoOn, Pick, RemoveFound, EndScan
  <2>2. CASE frame[c].command \in {"CONNECT", "SEND"}
    <3>1. pc[c] \notin {"create", "add", "index", "scan", "pick", "remove",
                         "unregister", "unbind", "leave"}
      BY <2>1, <2>2 DEF InProcess
    <3>2. /\ UNCHANGED rosters /\ clientidToIdTopicMap' = clientidToIdTopicMap
          /\ pc'[c] \notin {"index", "scan", "pick"}
      BY <1>0, <1>2, <3>1 DEF Handle, PutHandler, Rebind, Bind, PutPasscode, Check,
         Stamp, Open, NextRecipient, Write, EndSend, CreateList, AddSubscriber,
         IndexSubscription, RemoveHandler, RemoveLogin, LeaveChannel, GoOn, Pick,
         RemoveFound, EndScan, indexes
    <3> QED BY <3>1, <3>2 DEF rosters, Subscribers, Mid
  <2>3. CASE frame[c].command = "SUBSCRIBE"
    <3>1. pc[c] \in {"create", "add", "index"} /\ ~IndexSubscription(c)
      BY <1>0, <2>1, <2>3 DEF InProcess, IndexSubscription
    <3>2. CreateList(c)
      BY <1>2, <3>1 DEF Handle, PutHandler, Rebind, Bind, PutPasscode, Check, Stamp,
         Open, NextRecipient, Write, EndSend, RemoveHandler, RemoveLogin, LeaveChannel,
         GoOn, Pick, RemoveFound, EndScan
    <3>3. /\ pc[c] = "create" /\ pc'[c] = "add"
          /\ clientidToIdTopicMap' = clientidToIdTopicMap
      BY <1>0, <3>2 DEF CreateList, indexes
    <3> QED BY <1>0, <3>2, <3>3, CreateKeeps DEF Mid
  <2>4. CASE frame[c].command = "UNSUBSCRIBE"
    <3>1. pc[c] \in {"scan", "pick", "remove"} /\ ~EndScan(c)
      BY <1>0, <2>1, <2>4 DEF InProcess, EndScan
    <3>2. Pick(c) \/ GoOn(c)
      BY <1>2, <3>1 DEF Handle, PutHandler, Rebind, Bind, PutPasscode, Check, Stamp,
         Open, NextRecipient, Write, EndSend, CreateList, AddSubscriber,
         IndexSubscription, RemoveHandler, RemoveLogin, LeaveChannel
    <3>3. /\ UNCHANGED rosters /\ clientidToIdTopicMap' = clientidToIdTopicMap
          /\ frame' = frame
          /\ (pc'[c] \in {"scan", "pick"} /\ iter'[c].stale)
                <=> (pc[c] \in {"scan", "pick"} /\ iter[c].stale)
          /\ pc[c] # "index" /\ pc'[c] # "index"
      <4>1. CASE GoOn(c)
        BY <1>0, <3>1, <4>1 DEF GoOn, indexes, locals
      <4>2. CASE Pick(c)
        <5>1. ~NextThrows(c)
          BY <1>0, <2>4, <4>2 DEF Pick
        <5>2. ~iter[c].stale /\ iter'[c].stale = iter[c].stale
          BY <1>0, <4>2, <5>1 DEF Pick, NextThrows, Iterators
        <5>3. pc'[c] \in {"scan", "remove"}
          BY <1>0, <4>2, <5>1 DEF Pick
        <5> QED BY <3>1, <4>2, <5>1, <5>2, <5>3 DEF Pick, indexes
      <4> QED BY <3>2, <4>1, <4>2
    <3> QED BY <3>3 DEF rosters, Subscribers, Mid
  <2> QED BY <2>1, <2>2, <2>3, <2>4 DEF InProcess
<1> QED BY <1>1, <1>2

\* The last step of a frame that leaves the connection open.
LEMMA LastStep ==
    ASSUME TypeOK, NEW c \in Conns, InProcess(c), Handle(c), pc'[c] = "idle",
           status'[c] = "open"
    PROVE  \/ frame[c].command = "CONNECT"
           \/ frame[c].command = "SEND" /\ frame[c].receipt = Null
           \/ frame[c].command = "SUBSCRIBE" /\ IndexSubscription(c)
           \/ frame[c].command = "UNSUBSCRIBE" /\ EndScan(c)
<1>0. /\ pc \in [Conns -> Steps] /\ ~Throw(c)
      /\ \A step : Goto(c, step) => pc'[c] = step
  BY ThrowIs DEF TypeOK, ThreadTypes, Goto
<1>1. CASE pc[c] \in {"put", "rebind", "bind", "passcode"}
  BY <1>1 DEF InProcess
<1>2. CASE pc[c] \in {"check", "stamp", "open", "next", "recipient", "write"}
  <2>1. frame[c].command = "SEND"
    BY <1>2 DEF InProcess
  <2>2. /\ ~Check(c) /\ ~Stamp(c) /\ ~Open(c) /\ ~GoOn(c) /\ ~NextRecipient(c)
        /\ ~Write(c)
    BY <1>0 DEF Check, Stamp, Open, GoOn, NextRecipient, Write
  <2>3. EndSend(c)
    BY <1>2, <2>2 DEF Handle, PutHandler, Rebind, Bind, PutPasscode, CreateList,
       AddSubscriber, IndexSubscription, RemoveHandler, RemoveLogin, LeaveChannel, GoOn,
       Pick, RemoveFound, EndScan
  <2> QED BY <1>0, <2>1, <2>3 DEF EndSend
<1>3. CASE pc[c] \in {"create", "add", "index"}
  <2>1. frame[c].command = "SUBSCRIBE"
    BY <1>3 DEF InProcess
  <2>2. ~CreateList(c) /\ ~AddSubscriber(c)
    BY <1>0 DEF CreateList, AddSubscriber
  <2>3. IndexSubscription(c)
    BY <1>3, <2>2 DEF Handle, PutHandler, Rebind, Bind, PutPasscode, Check, Stamp, Open,
       NextRecipient, Write, EndSend, RemoveHandler, RemoveLogin, LeaveChannel, GoOn,
       Pick, RemoveFound, EndScan
  <2> QED BY <2>1, <2>3
<1>4. CASE pc[c] \in {"scan", "pick", "remove"}
  <2>1. frame[c].command = "UNSUBSCRIBE"
    BY <1>4 DEF InProcess
  <2>2. ~GoOn(c) /\ ~Pick(c) /\ ~RemoveFound(c)
    BY <1>0 DEF GoOn, Pick, RemoveFound
  <2>3. EndScan(c)
    BY <1>4, <2>2 DEF Handle, PutHandler, Rebind, Bind, PutPasscode, Check, Stamp, Open,
       NextRecipient, Write, EndSend, CreateList, AddSubscriber, IndexSubscription,
       RemoveHandler, RemoveLogin, LeaveChannel
  <2> QED BY <2>1, <2>3
<1> QED BY <1>1, <1>2, <1>3, <1>4 DEF InProcess

\* A thread that goes on.
LEMMA BeliefWithin ==
    ASSUME ServiceInv, SerialInv, NEW c \in Conns, ServerStep(c), CP!Worded(c),
           CP!Distinct(c), Scanning(c), Reads(c), Belief(c), pc'[c] # "idle"
    PROVE  Belief(c)'
<1>1. /\ Inv /\ CP!Inv /\ Transfer(c) /\ Bridged(c) /\ (Read(c) \/ Handle(c))
      /\ UNCHANGED clientVars
  BY DEF ServiceInv, ServerStep, Transfer
<1>2. /\ toServer'[c] = toServer[c] /\ serverOpen'[c] = serverOpen[c]
      /\ pc[c] # "idle" => InProcess(c)
  BY <1>1, FirstStays DEF Bridged
<1>3. /\ CP!Alive(c)' => CP!Alive(c)
      /\ CP!Careful(c)' => CP!Careful(c)
  BY <1>1, <1>2 DEF clientVars, CP!Alive, CP!Careful, CP!Sensible
<1>4. CASE ~AddSubscriber(c) /\ ~RemoveFound(c)
  <2>1. /\ clientidToIdTopicMap' = clientidToIdTopicMap
        /\ \A g \in Channels : Subscribers(g)' = Subscribers(g)
        /\ \A g \in Channels : Mid(c, g)' <=> Mid(c, g)
    BY <1>1, <1>2, <1>4, Elsewhere
  <2>2. /\ clientidToIdTopicMap'[c] = clientidToIdTopicMap[c]
        /\ \A g \in Channels : Count(Subscribers(g)', c) = Count(Subscribers(g), c)
        /\ \A g \in Channels : Mid(c, g)' <=> Mid(c, g)
    BY <2>1
  <2>3. /\ asked'[c] = asked[c] /\ channeltoUniqueID'[c] = channeltoUniqueID[c]
        /\ keyboard'[c] = keyboard[c] /\ draft'[c] = draft[c] /\ recipt'[c] = recipt[c]
    BY <1>1 DEF clientVars
  <2> QED BY <1>1, <1>2, <1>3, <2>2, <2>3, BeliefKept
<1>5. CASE AddSubscriber(c) \/ RemoveFound(c)
  <2> SUFFICES ASSUME CP!Alive(c), CP!Careful(c) PROVE Belief(c)'
    BY <1>3 DEF Belief
  <2>1. pc[c] \in {"add", "remove"} /\ InProcess(c)
    BY <1>2, <1>5 DEF AddSubscriber, RemoveFound
  <2>2. PICK x \in Nat : x = frame[c].receipt
    BY <2>1, NumbersAreIds DEF Reads
  <2>3. PICK m \in 0 .. CP!Due(c) : CP!Through(c, m) /\ Listed(c, m)
    BY DEF Belief
  <2>4. At(c, x)
    BY <2>1, <2>2, <2>3, AtIs
  <2>5. Listed(c, x)
    BY <2>4 DEF At
  <2>6. CASE AddSubscriber(c)
    <3>1. pc[c] \in {"create", "add", "index"}
      BY <2>6 DEF AddSubscriber
    <3>2. ~CP!Joined(asked[c], x, frame[c].channel)
      BY <2>1, <2>2, <2>4, <3>1, AtJoin
    <3>3. Listed(c, x)'
      BY <1>1, <2>2, <2>5, <2>6, <3>2, ListedAdd
    <3> QED BY <1>1, <1>2, <2>4, <3>3, BeliefGoesOn
  <2>7. CASE RemoveFound(c)
    <3>1. pc[c] \in {"scan", "pick", "remove"}
      BY <2>7 DEF RemoveFound
    <3>2. CP!Joined(asked[c], x, frame[c].channel)
      BY <2>1, <2>2, <2>4, <3>1, AtExit
    <3>3. Listed(c, x)'
      BY <1>1, <2>2, <2>5, <2>7, <3>2, ListedRemove
    <3> QED BY <1>1, <1>2, <2>4, <3>3, BeliefGoesOn
  <2> QED BY <1>5, <2>6, <2>7
<1> QED BY <1>4, <1>5

\* A thread that is done with its frame.
LEMMA BeliefDone ==
    ASSUME ServiceInv, SerialInv, NEW c \in Conns, ServerStep(c), CP!Worded(c),
           CP!Distinct(c), Scanning(c), Reads(c), Belief(c), pc'[c] = "idle",
           status'[c] = "open"
    PROVE  Belief(c)'
<1>1. /\ Inv /\ CP!Inv /\ TypeOK /\ Transfer(c) /\ Bridged(c) /\ (Read(c) \/ Handle(c))
      /\ UNCHANGED clientVars
  BY DEF ServiceInv, ServerStep, Transfer, Inv
<1>2. Outcome(c) /\ status[c] = "open"
  BY <1>1, HandleOutcome, ReadOutcome DEF Bridged
<1>3. InProcess(c) /\ pc[c] # "idle"
  BY <1>2 DEF Outcome
<1>4. Handle(c)
  <2>1. ~Read(c)
    BY <1>1, <1>3, ReadIs DEF Ready
  <2> QED BY <1>1, <2>1
<1>5. toServer'[c] = Tail(toServer[c])
  <2>1. toServer \in [Conns -> Seq(CP!Written)]
    BY <1>1 DEF CP!Inv, CP!Types
  <2>2. toServer' = [toServer EXCEPT ![c] = Tail(@)]
    BY <1>1 DEF Transfer
  <2> QED BY <2>1, <2>2
<1>6. serverOpen[c]
  BY <1>1, <1>2 DEF Bridged, Linked
<1>7. CP!Alive(c)' => CP!Alive(c)
  BY <1>1, <1>6 DEF clientVars, CP!Alive
<1>8. CP!Careful(c)' => CP!Careful(c)
  BY <1>1 DEF clientVars, CP!Careful, CP!Sensible
<1> SUFFICES ASSUME CP!Alive(c), CP!Careful(c) PROVE Belief(c)'
  BY <1>7, <1>8 DEF Belief
<1>9. CASE frame[c].command \in {"CONNECT", "SEND"} /\ frame[c].receipt = Null
  <2>1. ~AddSubscriber(c) /\ ~RemoveFound(c)
    BY <1>3, <1>9 DEF InProcess, AddSubscriber, RemoveFound
  <2>2. /\ clientidToIdTopicMap' = clientidToIdTopicMap
        /\ \A g \in Channels : Subscribers(g)' = Subscribers(g)
        /\ \A g \in Channels : (Mid(c, g)' <=> Mid(c, g))
    BY <1>1, <1>3, <1>9, <2>1, Elsewhere
  <2>3. asked' = asked /\ channeltoUniqueID' = channeltoUniqueID
    BY <1>1 DEF clientVars
  <2>4. \A m \in Nat : Listed(c, m) => Listed(c, m)'
    BY <2>2, <2>3, ListedKept
  <2> QED BY <1>1, <1>3, <1>5, <1>9, <2>4, BeliefUnnumbered
<1>10. CASE frame[c].command \in {"SUBSCRIBE", "UNSUBSCRIBE"}
  <2>1. pc[c] \in {"create", "add", "index", "scan", "pick", "remove"}
    BY <1>3, <1>10 DEF InProcess
  <2>2. PICK x \in Nat : x = frame[c].receipt
    BY <2>1, NumbersAreIds DEF Reads
  <2>3. PICK m \in 0 .. CP!Due(c) : CP!Through(c, m) /\ Listed(c, m)
    BY DEF Belief
  <2>4. At(c, x)
    BY <1>3, <2>2, <2>3, AtIs
  <2>5. CASE IndexSubscription(c)
    <3>1. Listed(c, x + 1)'
      BY <1>1, <1>3, <2>2, <2>4, <2>5, ListedIndex
    <3> QED BY <1>1, <1>3, <1>5, <2>4, <3>1, BeliefProcessed
  <2>6. CASE EndScan(c)
    <3>1. Listed(c, x + 1)'
      BY <1>1, <1>3, <2>2, <2>4, <2>6, ListedEnd
    <3> QED BY <1>1, <1>3, <1>5, <2>4, <3>1, BeliefProcessed
  <2> QED BY <1>1, <1>3, <1>4, <1>10, <2>5, <2>6, LastStep
<1>11. \/ frame[c].command \in {"CONNECT", "SEND"} /\ frame[c].receipt = Null
       \/ frame[c].command \in {"SUBSCRIBE", "UNSUBSCRIBE"}
  <2>1. frame[c].command = "CONNECT" => frame[c].receipt = Null
    BY <1>1, <1>3, ConnectFrameIs
  <2> QED BY <1>1, <1>3, <1>4, <2>1, LastStep
<1> QED BY <1>9, <1>10, <1>11

LEMMA BeliefServer ==
    ASSUME ServiceInv, SerialInv, NEW c \in Conns, ServerStep(c), CP!Worded(c),
           CP!Distinct(c), Scanning(c), Reads(c), Belief(c)
    PROVE  Belief(c)'
<1>1. /\ Inv /\ CP!Inv /\ Transfer(c) /\ Bridged(c) /\ (Read(c) \/ Handle(c))
  BY DEF ServiceInv, ServerStep
<1>2. Outcome(c) /\ status[c] = "open"
  BY <1>1, HandleOutcome, ReadOutcome DEF Bridged
<1>3. CASE status'[c] # "open"
  <2>1. ~serverOpen'[c] /\ proc[c] # "new" /\ proc' = proc
    BY <1>1, <1>2, <1>3 DEF Transfer, Bridged, Linked, CP!Inv, CP!Types, clientVars
  <2> QED BY <2>1 DEF Belief, CP!Alive
<1>4. CASE status'[c] = "open"
  BY <1>4, BeliefWithin, BeliefDone
<1> QED BY <1>3, <1>4

----------------------------------------------------------------------------
(* The steps of the others.                                                *)

\* Another thread writes neither c's ids nor c's places in the lists.
LEMMA OtherLists ==
    ASSUME Overlap = FALSE, ServiceInv, SerialInv, NEW c \in Conns, Scanning(c),
           ServerStep(c), NEW d \in Conns, d # c
    PROVE  /\ clientidToIdTopicMap'[d] = clientidToIdTopicMap[d]
           /\ \A g \in Channels : Count(Subscribers(g)', d) = Count(Subscribers(g), d)
           /\ \A g \in Channels : ~Mid(d, g) /\ ~(Mid(d, g)')
<1>1. Inv /\ CP!Inv /\ TypeOK /\ OneBusy /\ (Malformed(c) \/ Request(c) \/ Handle(c))
  BY ServerThread DEF ServiceInv, SerialInv, ServerStep, Inv
<1>2. Step(c)
  BY <1>1 DEF Step
<1>3. \A g \in Channels : ~Mid(d, g) /\ ~(Mid(d, g)')
  BY <1>1, <1>2, OthersIdle DEF Mid
<1>4. clientidToIdTopicMap'[d] = clientidToIdTopicMap[d]
  BY <1>1, OtherThreads
<1>5. ASSUME NEW g \in Channels
      PROVE  Count(Subscribers(g)', d) = Count(Subscribers(g), d)
  <2>0. Subscribers(g) \in Seq(Conns) /\ Count(Subscribers(g), d) \in Nat
    BY <1>1, RosterTypes, CountFinite
  <2>1. CASE CreateList(c)
    BY <1>1, <2>1, CreateKeeps
  <2>2. CASE AddSubscriber(c)
    <3>1. Count(Append(Subscribers(g), c), d) = Count(Subscribers(g), d)
      <4>1. Count(Append(Subscribers(g), c), d) = Count(Subscribers(g), d) + One(c = d)
        BY <2>0, CountAppend
      <4> QED BY <2>0, <4>1 DEF One
    <3> QED BY <1>1, <2>2, <3>1, AddChanges
  <2>3. CASE RemoveFound(c)
    <3> DEFINE at == iter[c].at
               mine == frame[c].channel
    <3>1. /\ at \in 1 .. Len(Subscribers(mine)) /\ Subscribers(mine)[at] = c
          /\ Subscribers(mine)' = RemoveAt(Subscribers(mine), at)
          /\ g # mine => Subscribers(g)' = Subscribers(g)
      BY <1>1, <2>3, RemoveChanges
    <3>2. CASE g = mine
      <4>1. /\ at \in 1 .. Len(Subscribers(g)) /\ Subscribers(g)[at] = c
            /\ Subscribers(g)' = RemoveAt(Subscribers(g), at)
        BY <1>1, <2>3, <3>2, RemoveChanges
      <4> HIDE DEF at, mine
      <4>2. Count(Subscribers(g), d) =
               Count(RemoveAt(Subscribers(g), at), d) + One(Subscribers(g)[at] = d)
        BY <2>0, <4>1, CountRemove
      <4>3. Count(RemoveAt(Subscribers(g), at), d) \in Nat
        <5>1. RemoveAt(Subscribers(g), at) \in Seq(Conns)
          BY <2>0, <4>1, RemoveAtProperties
        <5> QED BY <5>1, CountFinite
      <4> QED BY <2>0, <4>1, <4>2, <4>3 DEF One
    <3> QED BY <3>1, <3>2
  <2>4. CASE UNCHANGED <<channelToConnectionId, lists>>
    BY <2>4 DEF Subscribers
  <2> QED BY <1>2, <2>1, <2>2, <2>3, <2>4, OnlyThree
<1> QED BY <1>3, <1>4, <1>5

LEMMA BeliefOtherThread ==
    ASSUME Overlap = FALSE, ServiceInv, SerialInv, NEW c \in Conns, Scanning(c),
           ServerStep(c), NEW d \in Conns, d # c, Belief(d)
    PROVE  Belief(d)'
<1>1. CP!Inv /\ UNCHANGED clientVars
  BY DEF ServiceInv, ServerStep, Transfer
<1>2. toServer'[d] = toServer[d] /\ serverOpen'[d] = serverOpen[d]
  BY FirstStays
<1>3. /\ asked'[d] = asked[d] /\ channeltoUniqueID'[d] = channeltoUniqueID[d]
      /\ keyboard'[d] = keyboard[d] /\ draft'[d] = draft[d] /\ recipt'[d] = recipt[d]
      /\ CP!Alive(d)' => CP!Alive(d)
  BY <1>1, <1>2 DEF clientVars, CP!Alive
<1>4. /\ clientidToIdTopicMap'[d] = clientidToIdTopicMap[d]
      /\ \A g \in Channels : Count(Subscribers(g)', d) = Count(Subscribers(g), d)
      /\ \A g \in Channels : Mid(d, g)' <=> Mid(d, g)
  BY OtherLists
<1> QED BY <1>1, <1>2, <1>3, <1>4, BeliefKept

LEMMA BeliefOtherClient ==
    ASSUME ServiceInv, NEW c \in Conns, ClientStep(c), NEW d \in Conns, d # c, Belief(d)
    PROVE  Belief(d)'
<1>1. /\ CP!ProcessStep(c) /\ UNCHANGED vars /\ CP!Inv /\ CP!Types
  BY ClientsOwn DEF ServiceInv, OfClient, CP!ProcessStep, CP!Inv
<1>2. CP!View(d)' = CP!View(d)
  BY <1>1, Bounds, CP!OthersSame
<1>3. /\ asked'[d] = asked[d] /\ channeltoUniqueID'[d] = channeltoUniqueID[d]
      /\ keyboard'[d] = keyboard[d] /\ draft'[d] = draft[d] /\ recipt'[d] = recipt[d]
      /\ toServer'[d] = toServer[d]
      /\ CP!Alive(d)' => CP!Alive(d)
  BY <1>2 DEF CP!View, CP!Alive
<1>4. /\ clientidToIdTopicMap'[d] = clientidToIdTopicMap[d]
      /\ \A g \in Channels : Count(Subscribers(g)', d) = Count(Subscribers(g), d)
      /\ \A g \in Channels : Mid(d, g)' <=> Mid(d, g)
  BY <1>1 DEF vars, rosters, indexes, locals, Subscribers, Mid
<1> QED BY <1>1, <1>3, <1>4, BeliefKept

LEMMA BeliefStill ==
    ASSUME CP!Inv, NEW d \in Conns, Belief(d), UNCHANGED <<clientVars, pc, frame, iter>>,
           UNCHANGED <<rosters, indexes>>, toServer'[d] = toServer[d],
           serverOpen'[d] => serverOpen[d]
    PROVE  Belief(d)'
<1>1. /\ asked'[d] = asked[d] /\ channeltoUniqueID'[d] = channeltoUniqueID[d]
      /\ keyboard'[d] = keyboard[d] /\ draft'[d] = draft[d] /\ recipt'[d] = recipt[d]
      /\ CP!Alive(d)' => CP!Alive(d)
  BY DEF clientVars, CP!Alive
<1>2. /\ clientidToIdTopicMap'[d] = clientidToIdTopicMap[d]
      /\ \A g \in Channels : Count(Subscribers(g)', d) = Count(Subscribers(g), d)
      /\ \A g \in Channels : Mid(d, g)' <=> Mid(d, g)
  BY DEF rosters, indexes, Subscribers, Mid
<1> QED BY <1>1, <1>2, BeliefKept

\* The end of a connection.
LEMMA BeliefEnd ==
    ASSUME ServiceInv, NEW c \in Conns, EndOfFile(c), NEW d \in Conns, Belief(d)
    PROVE  Belief(d)'
<1>1. /\ CP!Inv /\ proc[c] \in {"crashed", "aborted"} /\ Eof(c)
      /\ serverOpen \in [Conns -> BOOLEAN] /\ toServer \in [Conns -> Seq(CP!Written)]
      /\ toServer' = [toServer EXCEPT ![c] = << >>]
      /\ serverOpen' = [serverOpen EXCEPT ![c] = FALSE]
      /\ UNCHANGED clientVars
  BY DEF ServiceInv, CP!Inv, CP!Types, EndOfFile
<1>2. CASE d = c
  <2>1. proc'[d] # "new" /\ ~serverOpen'[d]
    BY <1>1, <1>2 DEF clientVars
  <2> QED BY <2>1 DEF Belief, CP!Alive
<1>3. CASE d # c
  <2>1. toServer'[d] = toServer[d] /\ serverOpen'[d] = serverOpen[d]
    BY <1>1, <1>3
  <2>2. UNCHANGED <<pc, frame, iter, rosters, indexes>>
    BY <1>1 DEF Eof, locals, EndOfFile
  <2> QED BY <1>1, <2>1, <2>2, BeliefStill
<1> QED BY <1>2, <1>3

----------------------------------------------------------------------------
(* Always.                                                                 *)

LEMMA BeliefInit == ServiceInit => BeliefInv
<1> SUFFICES ASSUME ServiceInit, NEW c \in Conns
             PROVE  CP!Worded(c) /\ CP!Distinct(c) /\ Scanning(c) /\ Reads(c) /\ Belief(c)
  BY DEF BeliefInv
<1>1. CP!Init /\ Init
  BY Same DEF ServiceInit
<1>2. CP!Worded(c) /\ CP!Distinct(c)
  BY <1>1, Bounds, CP!WordedInit, CP!DistinctInit
<1>3. pc[c] = "idle" /\ \A g \in Channels : Subscribers(g) = << >>
  BY <1>1 DEF Init, Subscribers
<1>4. asked[c] = << >> /\ toServer[c] = << >> /\ CP!Due(c) = 0
  BY <1>1 DEF CP!Init, CP!Due, CP!Pending
<1>5. CP!Through(c, 0)
  <2>1. CP!Out(toServer[c]) = << >>
    BY <1>4, Bounds, CP!NoneFlies
  <2>2. 0 .. 0 - 1 = {} /\ 1 .. Len(<< >>) = {}
    OBVIOUS
  <2> QED BY <1>4, <2>1, <2>2 DEF CP!Through, CP!Rest
<1>6. Listed(c, 0)
  <2>1. 1 .. 0 = {}
    OBVIOUS
  <2>2. \A g : ~CP!Joined(asked[c], 0, g)
    BY <2>1 DEF CP!Joined
  <2>3. \A g \in Channels : Count(Subscribers(g), c) = 0 /\ ~Mid(c, g)
    BY <1>3, CountEmpty DEF Mid
  <2> QED BY <2>1, <2>2, <2>3 DEF Listed, One
<1>7. 0 \in 0 .. CP!Due(c)
  BY <1>4
<1> QED BY <1>2, <1>3, <1>5, <1>6, <1>7 DEF Scanning, Reads, Belief

LEMMA BeliefStep ==
    ASSUME Overlap = FALSE, ServiceInv, SerialInv, BeliefInv, [ServiceNext]_serviceVars,
           NEW d \in Conns
    PROVE  Belief(d)'
<1>1. /\ CP!Inv
      /\ \A c \in Conns : /\ CP!Worded(c) /\ CP!Distinct(c) /\ Scanning(c) /\ Reads(c)
                          /\ Belief(c)
  BY DEF ServiceInv, BeliefInv
<1>2. ASSUME NEW c \in Conns, ClientStep(c) PROVE Belief(d)'
  BY <1>1, <1>2, BeliefClient, BeliefOtherClient
<1>3. ASSUME NEW c \in Conns, ServerStep(c) PROVE Belief(d)'
  BY <1>1, <1>3, BeliefServer, BeliefOtherThread
<1>4. ASSUME NEW c \in Conns, EndOfFile(c) PROVE Belief(d)'
  BY <1>1, <1>4, BeliefEnd
<1>5. CASE AcceptClient \/ UNCHANGED serviceVars
  <2>1. /\ UNCHANGED <<clientVars, pc, frame, iter, rosters, indexes>>
        /\ toServer' = toServer /\ serverOpen' = serverOpen
    BY <1>5 DEF AcceptClient, Accept, serviceVars, vars, locals, streams
  <2> QED BY <1>1, <2>1, BeliefStill
<1> QED BY <1>2, <1>3, <1>4, <1>5 DEF ServiceNext

LEMMA BeliefInvStep ==
    ASSUME Overlap = FALSE, ServiceInv, SerialInv, BeliefInv, [ServiceNext]_serviceVars
    PROVE  BeliefInv'
<1>1. /\ Inv /\ CP!Inv /\ [Next]_vars /\ [CP!Next]_CP!vars
  BY ServerStepIs, ClientStepIs DEF ServiceInv
<1>2. \A c \in Conns : CP!Worded(c) /\ CP!Distinct(c) /\ Scanning(c) /\ Reads(c)
  BY DEF BeliefInv
<1>3. \A c \in Conns : CP!Worded(c)'
  BY <1>1, <1>2, Bounds, CP!WordedStep
<1>4. \A c \in Conns : CP!Distinct(c)'
  BY <1>1, <1>2, Bounds, CP!DistinctStep
<1>5. \A c \in Conns : Scanning(c)'
  BY <1>1, <1>2, ScanningStep
<1>6. \A c \in Conns : Reads(c)'
  BY <1>2, ReadsStep
<1>7. \A c \in Conns : Belief(c)'
  BY BeliefStep
<1> QED BY <1>3, <1>4, <1>5, <1>6, <1>7 DEF BeliefInv

LEMMA SameRequests ==
    /\ \A a, n, g : Client!Joined(a, n, g) <=> CP!Joined(a, n, g)
    /\ \A c, k : Client!Sensible(c, k) <=> CP!Sensible(c, k)
  BY DEF Client!Joined, CP!Joined, Client!Sensible, CP!Sensible, Client!Request, CP!Request

\* Nothing is on its way: all requests were processed, and all were answered.
LEMMA SettledIs ==
    ASSUME ServiceInv, NEW c \in Conns, Settled(c)
    PROVE  /\ CP!Due(c) = Len(asked[c]) /\ Len(printed[c]) = Len(asked[c])
           /\ Len(asked[c]) \in Nat
           /\ \A k \in 1 .. Len(asked[c]) : printed[c][k] = asked[c][k]
           /\ \A m \in 0 .. Len(asked[c]) : CP!Through(c, m) =>
                 \A k \in m + 1 .. Len(asked[c]) : asked[c][k].game = Null
<1>1. /\ CP!Inv /\ CP!Types /\ CP!Sound(c) /\ Linked(c)
      /\ keyboard[c] = "line" /\ status[c] = "open"
      /\ toServer[c] = << >> /\ toClient[c] = << >>
  BY DEF ServiceInv, CP!Inv, Settled, Bridged
<1>2. CP!Out(toServer[c]) = << >> /\ CP!Back(toClient[c]) = << >> /\ serverOpen[c]
  BY <1>1, Bounds, CP!NoneFlies DEF Linked
<1>3. CP!Due(c) = recipt[c] /\ recipt[c] = Len(asked[c])
  BY <1>1 DEF CP!Due, CP!Pending, CP!Sound, CP!FiledAsAsked
<1>4. /\ recipt[c] \in Nat
      /\ Len(printed[c]) \in Nat
  <2>1. printed[c] \in Seq(CP!Requests)
    BY <1>1 DEF CP!Types
  <2> QED BY <1>1, <2>1, Bounds, CP!FlightIs, LenProperties
<1>5. /\ Len(printed[c]) <= recipt[c]
      /\ \A n : ~CP!In(n, << >>)
      /\ \A n \in Len(printed[c]) .. recipt[c] - 1 : CP!In(n, << >>)
  <2>1. \A n : ~CP!In(n, << >>)
    BY DEF CP!In
  <2>2. CP!InFlight(<< >>, << >>, Len(printed[c]), recipt[c], serverOpen[c])
    BY <1>1, <1>2, <1>3 DEF CP!Sound, CP!Flying
  <2> QED BY <1>2, <2>1, <2>2 DEF CP!InFlight, CP!Bounded, CP!Gapless
<1>6. Len(printed[c]) = recipt[c]
  <2> SUFFICES ASSUME Len(printed[c]) < recipt[c] PROVE FALSE
    BY <1>4, <1>5
  <2>1. Len(printed[c]) \in Len(printed[c]) .. recipt[c] - 1
    BY <1>4
  <2> QED BY <1>5, <2>1
<1>7. \A k \in 1 .. Len(asked[c]) : printed[c][k] = asked[c][k]
  BY <1>1, <1>3, <1>6 DEF CP!Sound, CP!PrintedAsAsked
<1>8. ASSUME NEW m \in 0 .. Len(asked[c]), CP!Through(c, m),
             NEW k \in m + 1 .. Len(asked[c])
      PROVE  asked[c][k].game = Null
  <2>1. k - 1 \in m .. CP!Due(c) - 1 /\ (k - 1) + 1 = k
    BY <1>3, <1>4
  <2>2. CP!In(k - 1, << >>) \/ asked[c][(k - 1) + 1].game = Null
    BY <1>2, <1>8, <2>1 DEF CP!Through, CP!Rest
  <2> QED BY <1>5, <2>1, <2>2
<1> QED BY <1>3, <1>4, <1>6, <1>7, <1>8

LEMMA BeliefIsTrue ==
    ASSUME ServiceInv, BeliefInv
    PROVE  BeliefTrue
<1> SUFFICES ASSUME NEW c \in Conns, Settled(c),
                    \A k \in DOMAIN asked[c] : Client!Sensible(c, k),
                    NEW g \in Channels
             PROVE  Believes(c, g) <=> Contains(Subscribers(g), c)
  BY DEF BeliefTrue
<1> DEFINE n == Len(asked[c])
<1>1. Inv /\ CP!Inv /\ CP!Types /\ Bridged(c) /\ pc[c] = "idle" /\ status[c] = "open"
  BY DEF ServiceInv, CP!Inv, Settled
<1>2. CP!Alive(c) /\ CP!Careful(c)
  <2>1. serverOpen[c]
    BY <1>1 DEF Bridged, Linked
  <2>2. DOMAIN asked[c] = 1 .. n
    <3>1. asked[c] \in Seq(CP!Requests)
      BY <1>1 DEF CP!Types
    <3> QED BY <3>1, LenProperties
  <2> QED BY <2>1, <2>2, SameRequests DEF CP!Alive, CP!Careful
<1>3. /\ CP!Due(c) = n /\ Len(printed[c]) = n /\ n \in Nat
      /\ \A k \in 1 .. n : printed[c][k] = asked[c][k]
  BY SettledIs
<1>4. PICK m \in 0 .. n : CP!Through(c, m) /\ Listed(c, m)
  BY <1>2, <1>3 DEF BeliefInv, Belief
<1>5. \A k \in m + 1 .. n : asked[c][k].game # g
  BY <1>4, SettledIs, NullAssumption
<1> HIDE DEF n
<1>6. m \in Nat /\ m <= n
  BY <1>3
<1>7. CP!Joined(asked[c], n, g) <=> CP!Joined(asked[c], m, g)
  BY <1>3, <1>5, <1>6, Bounds, CP!JoinedSkip
<1>8. CP!Joined(printed[c], n, g) <=> CP!Joined(asked[c], n, g)
  BY <1>3, Bounds, CP!JoinedSame
<1>9. Believes(c, g) <=> CP!Joined(asked[c], m, g)
  BY <1>3, <1>7, <1>8, SameRequests DEF Believes
<1>10. Count(Subscribers(g), c) = 0 <=> ~CP!Joined(asked[c], m, g)
  BY <1>1, <1>4 DEF Listed, Mid, One
<1> QED BY <1>1, <1>9, <1>10, RosterTypes, CountNone

\* README "Joined channel", "Exited channel": when the server processes one frame
\* at a time, and nothing of a client is on its way any more, the last line its
\* user read about a game and the server's list of that game agree, for every
\* user who joins what he is not in and exits what he is in - whatever other
\* frames were between, although the answer is only a number that the client
\* looks up, and an UNSUBSCRIBE only an id that the server looks up.
THEOREM WhatUsersBelieveIsTrue ==
    ASSUME Overlap = FALSE
    PROVE  ServiceSpec => []BeliefTrue
<1> DEFINE Believed == ServiceInv /\ SerialInv /\ BeliefInv
<1>1. ServiceInit => Believed
  BY ServiceInvInit, SerialInit, BeliefInit DEF ServiceInit
<1>2. Believed /\ [ServiceNext]_serviceVars => Believed'
  <2> SUFFICES ASSUME Believed, [ServiceNext]_serviceVars PROVE Believed'
    OBVIOUS
  <2>1. SerialInv'
    BY ServerStepIs, SerialStep DEF ServiceInv
  <2> QED BY <2>1, ServiceInvStep, BeliefInvStep
<1>3. Believed => BeliefTrue
  BY BeliefIsTrue
<1> HIDE DEF Believed
<1> QED BY <1>1, <1>2, <1>3, PTL DEF ServiceSpec
=============================================================================
