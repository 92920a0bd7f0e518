---------------------------- MODULE StompClient ----------------------------
(***************************************************************************)
(* The C++ client: one process per element of Clients, with its keyboard   *)
(* thread (ReadfromKeyboard) and its socket thread (ReadfromSocket, in     *)
(* main), which share the maps of con without a lock.  The server is any   *)
(* peer that reads the frames in order, answers each as the protocol says  *)
(* or closes the connection, and sends messages at any time.               *)
(*                                                                         *)
(* A command is handled in steps, because the other thread, the server and *)
(* the network can come between them: its map entries, the insertion into  *)
(* receiptToOriginalMsg, the text of the frame, and its delimiter.         *)
(***************************************************************************)
EXTENDS FrameCodec, FiniteSets

CONSTANTS
    Clients, Users, Passwords, Games,
    MaxLines,    \* lines typed per client (bound)
    MaxEvents,   \* events in a report file (bound)
    MaxInFlight  \* no new MESSAGE for a client with so many texts unread (bound;
                 \* Null: none)

ASSUME ClientAssumption ==
    /\ MaxLines \in Nat /\ MaxEvents \in Nat /\ MaxInFlight \in Nat \cup {Null}
    /\ Null # Word
    /\ Null \notin Users /\ Null \notin Passwords /\ Null \notin Games
    /\ Null \notin Nat

VARIABLES
    proc,                  \* new, running, or how the process ended
    keyboard, socket,      \* where the two threads are
    login, username,
    id, recipt,            \* the next subscription id and receipt number
    channeltoUniqueID,     \* game -> subscription id
    receiptToOriginalMsg,  \* receipt number -> the request it was sent with
    saved,                 \* Games.map: user -> game -> how many events
    draft,                 \* the text being sent, and its request
    report,                \* the events of a report still to be sent
    toServer,              \* frames sent and not yet read, with their delimiter
    toClient,              \* texts on their way back
    serverOpen,            \* the server's end of the socket
    lines,                 \* lines typed
    asked, printed         \* history: requests typed, requests acknowledged

maps    == <<channeltoUniqueID, receiptToOriginalMsg, id, recipt>>
session == <<login, username>>
network == <<toServer, toClient, serverOpen>>
vars == <<proc, keyboard, socket, session, maps, saved, draft, report, network,
          lines, asked, printed>>

Request(command, g) == [command |-> command, game |-> g]
NoRequest == Request("none", Null)
NoDraft == [text |-> EmptyFrame, request |-> NoRequest]
NoReport == [game |-> Null, left |-> 0]
NoMap == [key \in {} |-> Null]

Init ==
    /\ proc = [c \in Clients |-> "new"]
    /\ keyboard = [c \in Clients |-> "line"]
    /\ socket = [c \in Clients |-> "read"]
    /\ login = [c \in Clients |-> FALSE]
    /\ username = [c \in Clients |-> Null]
    /\ id = [c \in Clients |-> 0]
    /\ recipt = [c \in Clients |-> 0]
    /\ channeltoUniqueID = [c \in Clients |-> NoMap]
    /\ receiptToOriginalMsg = [c \in Clients |-> NoMap]
    /\ saved = [c \in Clients |-> NoMap]
    /\ draft = [c \in Clients |-> NoDraft]
    /\ report = [c \in Clients |-> NoReport]
    /\ toServer = [c \in Clients |-> << >>]
    /\ toClient = [c \in Clients |-> << >>]
    /\ serverOpen = [c \in Clients |-> FALSE]
    /\ lines = [c \in Clients |-> 0]
    /\ asked = [c \in Clients |-> << >>]
    /\ printed = [c \in Clients |-> << >>]

\* std::map::insert: a key that is there keeps its value.
Insert(map, k, v) ==
    [j \in DOMAIN map \cup {k} |-> IF j \in DOMAIN map THEN map[j] ELSE v]

Running(c) == proc[c] = "running"
End(c, how) == proc' = [proc EXCEPT ![c] = how]
KeyboardTo(c, step) == keyboard' = [keyboard EXCEPT ![c] = step]

----------------------------------------------------------------------------
(* main: the process starts and ends.                                      *)

Start(c) ==
    /\ proc[c] = "new"
    /\ End(c, "running")
    /\ serverOpen' = [serverOpen EXCEPT ![c] = TRUE]
    /\ UNCHANGED <<keyboard, socket, session, maps, saved, draft, report, toServer,
                   toClient, lines, asked, printed>>

\* No connection: main returns before there is a second thread.
Refused(c) ==
    /\ proc[c] = "new"
    /\ End(c, "refused")
    /\ UNCHANGED <<keyboard, socket, session, maps, saved, draft, report, network,
                   lines, asked, printed>>

\* main returns while keyboardThread is joinable: std::terminate.
Terminate(c) ==
    /\ Running(c) /\ socket[c] = "left"
    /\ End(c, "aborted")
    /\ UNCHANGED <<keyboard, socket, session, maps, saved, draft, report, network,
                   lines, asked, printed>>

----------------------------------------------------------------------------
(* The keyboard thread.                                                    *)

Type(c) ==
    /\ Running(c) /\ keyboard[c] = "line"
    /\ lines[c] < MaxLines
    /\ lines' = [lines EXCEPT ![c] = @ + 1]

Draft(c, text, request) ==
    draft' = [draft EXCEPT ![c] = [text |-> text, request |-> request]]

\* MUTANT: the insert is missing.
AskUnfiled(c, text, request) ==
    /\ Draft(c, text, request)
    /\ KeyboardTo(c, "text")
    /\ asked' = [asked EXCEPT ![c] = Append(@, request)]

\* A request that asks for a receipt: its text is ready, it is in no map yet.
Ask(c, text, request) ==
    /\ Draft(c, text, request)
    /\ KeyboardTo(c, "insert")
    /\ asked' = [asked EXCEPT ![c] = Append(@, request)]

\* Also a second time, where the line printed says otherwise.
TypeLogin(c) ==
    /\ Type(c)
    /\ \E u \in Users, p \in Passwords :
         /\ username' = [username EXCEPT ![c] = u]
         /\ Draft(c, ConnectFrame(u, p), NoRequest)
    /\ login' = [login EXCEPT ![c] = TRUE]
    /\ KeyboardTo(c, "text")
    /\ UNCHANGED <<proc, socket, maps, saved, report, network, asked, printed>>

\* A game that was joined before keeps its subscription id.
TypeJoin(c) ==
    /\ Type(c) /\ login[c]
    /\ \E g \in Games :
         LET known == g \in DOMAIN channeltoUniqueID[c]
             i == IF known THEN channeltoUniqueID[c][g] ELSE id[c] IN
         /\ channeltoUniqueID' = [channeltoUniqueID EXCEPT ![c] = Insert(@, g, i)]
         /\ id' = [id EXCEPT ![c] = IF known THEN @ ELSE @ + 1]
         /\ Ask(c, SubscribeFrame(g, i, recipt[c]), Request("SUBSCRIBE", g))
    /\ UNCHANGED <<proc, socket, session, receiptToOriginalMsg, recipt, saved, report,
                   network, printed>>

\* MUTANT: the id of the last subscription instead of the game's.
IdOfLast(map, g) == Cardinality(DOMAIN Insert(map, g, 0)) - 1

\* operator[] makes the entry it does not find, with 0.
IdOf(map, g) == Insert(map, g, 0)[g]

TypeExit(c) ==
    /\ Type(c) /\ login[c]
    /\ \E g \in Games :
         /\ channeltoUniqueID' = [channeltoUniqueID EXCEPT ![c] = Insert(@, g, 0)]
         /\ Ask(c, UnsubscribeFrame(IdOf(channeltoUniqueID[c], g), recipt[c]),
                   Request("UNSUBSCRIBE", g))
    /\ UNCHANGED <<proc, socket, session, receiptToOriginalMsg, id, recipt, saved,
                   report, network, printed>>

TypeLogout(c) ==
    /\ Type(c) /\ login[c]
    /\ Ask(c, LogoutFrame(recipt[c]), Request("DISCONNECT", Null))
    /\ UNCHANGED <<proc, socket, session, maps, saved, report, network, printed>>

\* A word processKeyboard does not know: an empty frame is sent.
TypeOther(c) ==
    /\ Type(c) /\ login[c]
    /\ Draft(c, EmptyFrame, NoRequest)
    /\ KeyboardTo(c, "text")
    /\ UNCHANGED <<proc, socket, session, maps, saved, report, network, asked, printed>>

\* The file names one game for all its events.
Files == [game: Games, left: 0 .. MaxEvents]

\* Events of a game without an id are passed over.
TypeReport(c) ==
    /\ Type(c) /\ login[c]
    /\ \E file \in Files :
         /\ file.game \in DOMAIN channeltoUniqueID[c]
         /\ report' = [report EXCEPT ![c] = file]
    /\ KeyboardTo(c, "report")
    /\ UNCHANGED <<proc, socket, session, maps, saved, draft, network, asked, printed>>

\* summary reads a copy of the saved events and prints them nowhere.  A line
\* before the login, and a report of a game without an id, do nothing either.
TypeIgnored(c) ==
    /\ Running(c) /\ keyboard[c] = "line"
    /\ UNCHANGED vars

\* An empty line, the end of the input or a missing word is an index past the
\* end of a vector (and so is a summary's pointer past its literal); a file that
\* cannot be parsed is an exception nobody catches.
TypeBroken(c) ==
    /\ Type(c)
    /\ End(c, "crashed")
    /\ UNCHANGED <<keyboard, socket, session, maps, saved, draft, report, network,
                   asked, printed>>

\* MUTANT: the counter stays.
NextReceiptForgotten(r) == r

NextReceipt(r) == r + 1

InsertRequest(c) ==
    /\ Running(c) /\ keyboard[c] = "insert"
    /\ receiptToOriginalMsg' = [receiptToOriginalMsg EXCEPT ![c] =
                                  Insert(@, recipt[c], draft[c].request)]
    /\ recipt' = [recipt EXCEPT ![c] = NextReceipt(@)]
    /\ KeyboardTo(c, "text")
    /\ UNCHANGED <<proc, socket, session, channeltoUniqueID, id, saved, draft, report,
                   network, lines, asked, printed>>

\* Only the first event of a user is kept: later ones are appended to a copy.
SaveEvent(events, u, g) ==
    IF u \in DOMAIN events
    THEN [events EXCEPT ![u] = Insert(@, g, 0)]
    ELSE Insert(events, u, Insert(NoMap, g, 1))

NextEvent(c) ==
    /\ Running(c) /\ keyboard[c] = "report" /\ report[c].left > 0
    /\ saved' = [saved EXCEPT ![c] = SaveEvent(@, username[c], report[c].game)]
    /\ Draft(c, SendFrame(username[c], report[c].game), NoRequest)
    /\ report' = [report EXCEPT ![c].left = @ - 1]
    /\ KeyboardTo(c, "text")
    /\ UNCHANGED <<proc, socket, session, maps, network, lines, asked, printed>>

EndReport(c) ==
    /\ Running(c) /\ keyboard[c] = "report" /\ report[c].left = 0
    /\ report' = [report EXCEPT ![c] = NoReport]
    /\ KeyboardTo(c, "line")
    /\ UNCHANGED <<proc, socket, session, maps, saved, draft, network, lines, asked,
                   printed>>

InReport(c) == report[c] # NoReport

\* A write on a connection the server has closed fails, or is lost.  In the
\* loop of a report `break' leaves only that loop, elsewhere the thread's.
WriteFails(c) ==
    /\ Running(c) /\ keyboard[c] \in {"text", "delimiter"} /\ ~serverOpen[c]
    /\ KeyboardTo(c, IF InReport(c) THEN "line" ELSE "ended")
    /\ report' = [report EXCEPT ![c] = NoReport]
    /\ draft' = [draft EXCEPT ![c] = NoDraft]
    /\ UNCHANGED <<proc, socket, session, maps, saved, network, lines, asked, printed>>

\* sendFrameAscii writes the text first,
WriteText(c) ==
    /\ Running(c) /\ keyboard[c] = "text"
    /\ toServer' =
          IF serverOpen[c]
          THEN [toServer EXCEPT ![c] = Append(@, [text |-> draft[c].text, ended |-> FALSE])]
          ELSE toServer
    /\ KeyboardTo(c, "delimiter")
    /\ UNCHANGED <<proc, socket, session, maps, saved, draft, report, toClient,
                   serverOpen, lines, asked, printed>>

\* MUTANT: the second write is missing.
EndedForgotten(frames) == frames

Ended(frames) == [frames EXCEPT ![Len(frames)].ended = TRUE]

\* and its delimiter in a second write.
WriteDelimiter(c) ==
    /\ Running(c) /\ keyboard[c] = "delimiter"
    /\ toServer' = IF serverOpen[c] THEN [toServer EXCEPT ![c] = Ended(@)] ELSE toServer
    /\ draft' = [draft EXCEPT ![c] = NoDraft]
    /\ KeyboardTo(c, IF InReport(c) THEN "report" ELSE "line")
    /\ UNCHANGED <<proc, socket, session, maps, saved, report, toClient, serverOpen,
                   lines, asked, printed>>

----------------------------------------------------------------------------
(* The socket thread.                                                      *)

\* processServerMessage of a RECEIPT: the request is looked up and printed.  An
\* unknown number makes an empty entry, whose first word does not exist.
Acknowledged(c, r) ==
    IF r \in DOMAIN receiptToOriginalMsg[c]
    THEN LET request == receiptToOriginalMsg[c][r] IN
         /\ printed' = [printed EXCEPT ![c] = Append(@, request)]
         /\ socket' = [socket EXCEPT ![c] =
                         IF request.command = "DISCONNECT" THEN "left" ELSE "read"]
         /\ UNCHANGED proc
    ELSE End(c, "crashed") /\ UNCHANGED <<socket, printed>>

\* ReadfromSocket: one pass of its loop.
Receive(c) ==
    /\ Running(c) /\ socket[c] = "read" /\ toClient[c] # << >>
    /\ toClient' = [toClient EXCEPT ![c] = Tail(@)]
    /\ LET text == DropLast(Head(toClient[c])) IN
       IF ~CppParses(text)
       THEN End(c, "crashed") /\ UNCHANGED <<socket, printed>>
       ELSE IF CppCommand(text) = "RECEIPT"
       THEN Acknowledged(c, CppGet(text, "receipt-id"))
       ELSE UNCHANGED <<proc, socket, printed>>
    /\ UNCHANGED <<keyboard, session, maps, saved, draft, report, toServer, serverOpen,
                   lines, asked>>

\* The lookup walks the tree while the keyboard thread's insert links a node.
LookupRaces(c) ==
    /\ Running(c) /\ socket[c] = "read" /\ toClient[c] # << >>
    /\ keyboard[c] = "insert"
    /\ CppCommand(DropLast(Head(toClient[c]))) = "RECEIPT"
    /\ End(c, "crashed")
    /\ UNCHANGED <<keyboard, socket, session, maps, saved, draft, report, network,
                   lines, asked, printed>>

\* MUTANT: the loop tries again.
LeaveLoopNever(c) == UNCHANGED socket

LeaveLoop(c) == socket' = [socket EXCEPT ![c] = "left"]

\* read_some fails: the server has closed.  What it sent before may be lost.
ConnectionLost(c) ==
    /\ Running(c) /\ socket[c] = "read" /\ ~serverOpen[c]
    /\ LeaveLoop(c)
    /\ UNCHANGED <<proc, keyboard, session, maps, saved, draft, report, network, lines,
                   asked, printed>>

----------------------------------------------------------------------------
(* The server, as far as one connection shows.                             *)

\* A complete frame is there to be read.
HasFrame(c) == serverOpen[c] /\ toServer[c] # << >> /\ Head(toServer[c]).ended

Reply(text) ==
    IF JavaGet(text, "receipt") # Null THEN <<ReceiptFrame(JavaGet(text, "receipt"))>>
    ELSE IF JavaCommand(text) = "CONNECT" THEN <<ConnectedFrame>>
    ELSE << >>

Acknowledge(c) ==
    /\ HasFrame(c) /\ JavaParses(Head(toServer[c]).text)
    /\ toServer' = [toServer EXCEPT ![c] = Tail(@)]
    /\ toClient' = [toClient EXCEPT ![c] = @ \o Reply(Head(toServer[c]).text)]
    /\ UNCHANGED <<proc, keyboard, socket, session, maps, saved, draft, report,
                   serverOpen, lines, asked, printed>>

PeerMessage(c) ==
    /\ serverOpen[c] /\ (MaxInFlight = Null \/ Len(toClient[c]) < MaxInFlight)
    /\ \E i \in 0 .. MaxLines, g \in Games :
          toClient' = [toClient EXCEPT ![c] = Append(@, MessageFrame(i, g))]
    /\ UNCHANGED <<proc, keyboard, socket, session, maps, saved, draft, report,
                   toServer, serverOpen, lines, asked, printed>>

\* What it has not read is gone.
PeerClose(c) ==
    /\ serverOpen[c]
    /\ serverOpen' = [serverOpen EXCEPT ![c] = FALSE]
    /\ toServer' = [toServer EXCEPT ![c] = << >>]
    /\ UNCHANGED <<proc, keyboard, socket, session, maps, saved, draft, report,
                   toClient, lines, asked, printed>>

----------------------------------------------------------------------------

Command(c) ==
    \/ TypeLogin(c) \/ TypeJoin(c) \/ TypeExit(c) \/ TypeLogout(c) \/ TypeOther(c)
    \/ TypeReport(c) \/ TypeIgnored(c) \/ TypeBroken(c)

KeyboardStep(c) ==
    \/ InsertRequest(c) \/ NextEvent(c) \/ EndReport(c)
    \/ WriteFails(c) \/ WriteText(c) \/ WriteDelimiter(c)

SocketStep(c) == Receive(c) \/ LookupRaces(c) \/ ConnectionLost(c) \/ Terminate(c)

ProcessStep(c) ==
    Start(c) \/ Refused(c) \/ Command(c) \/ KeyboardStep(c) \/ SocketStep(c)

PeerStep(c) == Acknowledge(c) \/ PeerMessage(c) \/ PeerClose(c)

Next == \E c \in Clients : ProcessStep(c) \/ PeerStep(c)

Spec == Init /\ [][Next]_vars

\* The peer does not let a complete frame lie.
Serve(c) == HasFrame(c) /\ (Acknowledge(c) \/ PeerClose(c))

\* Both threads are scheduled, and the server reads.
Fairness ==
    \A c \in Clients :
        WF_vars(KeyboardStep(c)) /\ WF_vars(SocketStep(c)) /\ WF_vars(Serve(c))
FairSpec == Spec /\ Fairness

----------------------------------------------------------------------------
(* Properties.                                                             *)

Requests == [command: {"none", "SUBSCRIBE", "UNSUBSCRIBE", "DISCONNECT"},
             game: Games \cup {Null}]

\* A map from some of S to T.
PartialMap(f, S, T) == DOMAIN f \subseteq S /\ \A k \in DOMAIN f : f[k] \in T

\* Every variable holds what its C++ counterpart can hold; requests are filed
\* under numbers that were used.
TypeOK ==
    /\ proc \in [Clients -> {"new", "running", "refused", "crashed", "aborted"}]
    /\ keyboard \in [Clients -> {"line", "insert", "text", "delimiter", "report", "ended"}]
    /\ socket \in [Clients -> {"read", "left"}]
    /\ login \in [Clients -> BOOLEAN]
    /\ username \in [Clients -> Users \cup {Null}]
    /\ id \in [Clients -> Nat]
    /\ recipt \in [Clients -> Nat]
    /\ lines \in [Clients -> Nat]
    /\ serverOpen \in [Clients -> BOOLEAN]
    /\ \A c \in Clients :
         /\ PartialMap(channeltoUniqueID[c], Games, Nat)
         /\ PartialMap(receiptToOriginalMsg[c], 0 .. recipt[c] - 1, Requests)
         /\ DOMAIN saved[c] \subseteq Users
         /\ \A u \in DOMAIN saved[c] : PartialMap(saved[c][u], Games, {0, 1})
         /\ draft[c].request \in Requests
    /\ report \in [Clients -> [game: Games \cup {Null}, left: Nat]]
    /\ asked \in [Clients -> Seq(Requests)]
    /\ printed \in [Clients -> Seq(Requests)]

\* The last of the first n requests that is about g joins it.
Joined(requests, n, g) ==
    \E k \in 1 .. n : /\ requests[k] = Request("SUBSCRIBE", g)
                      /\ \A j \in k + 1 .. n : requests[j].game # g

\* The k-th request of c asks for what is not so yet: to join what he is not in,
\* or to exit what he is in.
Sensible(c, k) ==
    LET r == asked[c][k] IN
    r.command = "DISCONNECT" \/ (Joined(asked[c], k - 1, r.game) <=> r.command = "UNSUBSCRIBE")

\* README "a cumulative acknowledgment": what is printed is what was asked for,
\* in the order in which it was asked and without a gap, although the number,
\* the map entry, the frame, its receipt and the lookup are steps of two
\* threads and of the server.
AnswersMatchRequests == \A c \in Clients : IsPrefix(printed[c], asked[c])

\* A receipt never comes for a request that is not filed yet (it would crash the
\* socket thread): the entry is made before the frame is sent.  What is left is
\* a lookup that fails beside another insert, LookupRaces.
ReceiptKnown ==
    \A c \in Clients : \A k \in 1 .. Len(toClient[c]) :
        LET text == DropLast(toClient[c][k]) IN
        CppCommand(text) = "RECEIPT" =>
            CppGet(text, "receipt-id") \in DOMAIN receiptToOriginalMsg[c]

\* A request is acknowledged to the user, unless the program ends.
RequestsSettle ==
    \A c \in Clients :
        Len(asked[c]) > Len(printed[c]) ~> (Len(asked[c]) = Len(printed[c]) \/ ~Running(c))

\* A client whose server has gone notices it and ends, whatever its keyboard
\* thread is at.
LossNoticed == \A c \in Clients : Running(c) /\ ~serverOpen[c] ~> ~Running(c)
=============================================================================
