------------------------------ MODULE Service ------------------------------
(***************************************************************************)
(* The whole service: the clients of StompClient connected to StompServer  *)
(* by the two byte streams of a socket each.  A client is named by its     *)
(* connection.  The server's threads read the texts the clients wrote,     *)
(* through the decoder of FrameCodec, and write the texts the clients      *)
(* parse; a process that ends is an end of file to the server, a handler   *)
(* that throws or closes is one to the client.                             *)
(***************************************************************************)
EXTENDS StompServer, FiniteSetsExt

CONSTANTS
    Word, MaxLines, MaxEvents,
    MaxTyped  \* lines typed by all clients together (bound)

\* The clients number subscriptions and receipts themselves, one at most for
\* every line typed; nothing else bounds what they ask of the server.
ASSUME ServiceAssumption ==
    /\ MaxLines \in Nat /\ MaxEvents \in Nat /\ MaxTyped \in Nat
    /\ Ids = 0 .. MaxLines - 1
    /\ Ids \subseteq Receipts
    /\ ~UniqueIds /\ MaxMessageId = Null /\ MaxSubscriptions = Null
    /\ Null # Word /\ Null \notin Nat /\ Null \notin FramesOnWire

VARIABLES
    proc, keyboard, socket, login, username, id, recipt, channeltoUniqueID,
    receiptToOriginalMsg, saved, draft, report, lines, asked, printed,
    toServer, toClient, serverOpen

clientVars == <<proc, keyboard, socket, login, username, id, recipt,
                channeltoUniqueID, receiptToOriginalMsg, saved, draft, report, lines,
                asked, printed>>
streams == <<toServer, toClient, serverOpen>>
serviceVars == <<vars, clientVars, streams>>

Client == INSTANCE StompClient WITH
    Clients <- Conns, Users <- Logins, Passwords <- Passcodes, Games <- Channels,
    MaxInFlight <- Null

ServiceInit == Init /\ Client!Init

----------------------------------------------------------------------------
(* Clients.                                                                *)

\* Connections are numbered in the order in which they are made; one that the
\* server has not accepted yet is open in its backlog.
Arrive(c) ==
    /\ UNCHANGED vars
    /\ \A d \in Conns : d < c => proc[d] # "new"
    /\ Client!Start(c)

Typed == MapThenSumSet(LAMBDA c : lines[c], Conns)

Command(c) == Typed < MaxTyped /\ UNCHANGED vars /\ Client!Command(c)
KeyboardStep(c) == UNCHANGED vars /\ Client!KeyboardStep(c)
SocketStep(c) == UNCHANGED vars /\ Client!SocketStep(c)

----------------------------------------------------------------------------
(* The server.                                                             *)

AcceptClient ==
    /\ connectionId \in Conns /\ serverOpen[connectionId]
    /\ Accept
    /\ UNCHANGED <<clientVars, streams>>

\* The frame the thread of c is at.
Input(c) == Head(toServer[c]).text

\* process() of a frame, by its command and headers.
Process(c, text) ==
    LET Get(key) == Client!JavaGet(text, key)
        command == Client!JavaCommand(text) IN
    CASE command = "CONNECT" -> ProcessConnect(c, Get("login"), Get("passcode"))
      [] command = "SEND" -> ProcessSend(c, Get("destination"), Get("receipt"))
      [] command = "SUBSCRIBE" ->
            ProcessSubscribe(c, Get("destination"), Get("id"), Get("receipt"))
      [] command = "UNSUBSCRIBE" -> ProcessUnsubscribe(c, Get("id"), Get("receipt"))
      [] command = "DISCONNECT" -> Disconnect(c)

\* The decoder has a frame, or throws on its text.
Read(c) ==
    /\ Client!HasFrame(c)
    /\ IF Client!JavaParses(Input(c)) THEN Process(c, Input(c)) ELSE Malformed(c)

\* The text of the frame a step of c's thread has written.
Written(c) ==
    CASE wire'.command = "CONNECTED" -> Client!ConnectedFrame
      [] wire'.command = "RECEIPT" -> Client!ReceiptFrame(wire'.receipt)
      [] wire'.command = "MESSAGE" -> Client!MessageFrame(wire'.id, frame[c].channel)

\* A frame is done with when its thread waits again, and all are when the
\* socket is closed.
Transfer(c) ==
    /\ toServer' = [toServer EXCEPT ![c] =
                      IF status'[c] # "open" THEN << >>
                      ELSE IF pc'[c] = "idle" THEN Tail(@) ELSE @]
    /\ toClient' = IF wire' = Null THEN toClient
                   ELSE [toClient EXCEPT ![wire'.to] = Append(@, Written(c))]
    /\ serverOpen' = [serverOpen EXCEPT ![c] = status'[c] = "open"]
    /\ UNCHANGED clientVars

ServerStep(c) == (Read(c) \/ Handle(c)) /\ Transfer(c)

\* The client's process has ended; what it wrote last may be lost with it.
EndOfFile(c) ==
    /\ proc[c] \in {"crashed", "aborted"}
    /\ Eof(c)
    /\ toServer' = [toServer EXCEPT ![c] = << >>]
    /\ serverOpen' = [serverOpen EXCEPT ![c] = FALSE]
    /\ UNCHANGED <<clientVars, toClient>>

ClientStep(c) == Arrive(c) \/ Command(c) \/ KeyboardStep(c) \/ SocketStep(c)

ServiceNext ==
    AcceptClient \/ \E c \in Conns : ClientStep(c) \/ ServerStep(c) \/ EndOfFile(c)

ServiceSpec == ServiceInit /\ [][ServiceNext]_serviceVars

\* Every thread of both programs is scheduled.  A handler at a client's socket
\* is no exception here (StompServer!AtSocket): the client's socket thread reads
\* until the client ends.
FairServiceSpec ==
    /\ ServiceSpec
    /\ WF_serviceVars(AcceptClient)
    /\ \A c \in Conns :
         /\ WF_serviceVars(KeyboardStep(c)) /\ WF_serviceVars(SocketStep(c))
         /\ WF_serviceVars(ServerStep(c)) /\ WF_serviceVars(EndOfFile(c))

----------------------------------------------------------------------------
(* Properties.                                                             *)

\* The server sees no frame but those StompServer lets arrive.
IsServerSpec == Spec

\* Every client sees the server StompClient assumes: frames answered in order,
\* each once and with its own receipt, or the connection closed.
IsClientSpec == Client!Spec

\* And no client waits for ever for an answer or for the end of its connection.
IsFairClientSpec == Client!FairSpec

\* The last line printed about g says the user is in.
Believes(c, g) == Client!Joined(printed[c], Len(printed[c]), g)

\* Nothing of c is on its way any more, and its connection has survived.
Settled(c) ==
    /\ proc[c] = "running" /\ keyboard[c] = "line" /\ socket[c] = "read"
    /\ status[c] = "open" /\ pc[c] = "idle"
    /\ toServer[c] = << >> /\ toClient[c] = << >>

\* README "Joined channel", "Exited channel": what a user was told is so.  The
\* last line about a game and the server's list of it agree, once nothing is on
\* its way, for a user who joins what he is not in and exits what he is in.
BeliefTrue ==
    \A c \in Conns :
        Settled(c) /\ (\A k \in DOMAIN asked[c] : Client!Sensible(c, k)) =>
            \A g \in Channels : Believes(c, g) <=> Contains(Subscribers(g), c)

\* The same for any user.
BeliefTrueOfAll ==
    \A c \in Conns :
        Settled(c) => \A g \in Channels : Believes(c, g) <=> Contains(Subscribers(g), c)

\* README "the name of the user": a report that the server forwards names a
\* login that is bound to the connection it came by, although the client writes
\* the name itself and never hears that a login was refused.
ReporterLoggedIn ==
    \A c \in Conns :
        pc[c] \in {"open", "next", "recipient", "write"} =>
            loginConnectionId[Client!Reporter(Input(c))] = c

\* README "logout ... The server will reply with a RECEIPT frame".
LogoutAnswered ==
    \A c \in Conns :
        (\E k \in DOMAIN asked[c] : asked[c][k].command = "DISCONNECT")
        ~> (\E k \in DOMAIN printed[c] : printed[c][k].command = "DISCONNECT")
=============================================================================
