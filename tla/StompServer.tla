---------------------------- MODULE StompServer ----------------------------
(***************************************************************************)
(* The STOMP server in its thread-per-client form: the acceptor of         *)
(* BaseServer, one BlockingConnectionHandler thread per connection, the    *)
(* protocol StompMessagingProtocolimpl those threads run, and the maps of  *)
(* connectionsImpl they share without any lock.                            *)
(*                                                                         *)
(* A thread's call of process(frame) is a sequence of steps; pc[c] names   *)
(* the next step of the thread of connection c.  Every single HashMap or   *)
(* LinkedList call is atomic here, an iterator's hasNext() and next()      *)
(* included, and two calls are one step only where no other thread can     *)
(* come between them with an effect of its own: calls on the entries that  *)
(* belong to the thread's own connection, and reads that might as well     *)
(* have happened together.  An exception thrown in a handler ends its      *)
(* thread, and the try-with-resources of run() closes the socket: that is  *)
(* Throw(c), and it leaves every shared map as it is.  All ten error       *)
(* answers of process() end like that, because the line "The Massge" of    *)
(* the text they hand to the Frame constructor has no ':' and the          *)
(* constructor throws before terminate is set.                             *)
(***************************************************************************)
EXTENDS Integers, Sequences, FiniteSets, SequencesExt

CONSTANTS
    MaxConnections,    \* connections accepted in a behaviour (bound)
    Logins, Passcodes, Channels,
    Ids,               \* subscription ids the clients pick
    Receipts,          \* receipt ids the clients pick
    Null,              \* Java's null
    IntegerCacheHigh,  \* largest boxed Integer that == finds identical
    Overlap,           \* may a frame arrive while another is processed?
    UniqueIds,         \* do clients keep an id to one channel?
    MaxMessageId,      \* no new SEND once messageId is here (bound; Null: none)
    MaxSubscriptions   \* SUBSCRIBE frames per connection (bound; Null: none)

ASSUME BoundsAssumption ==
    /\ MaxConnections \in Nat \ {0}
    /\ IntegerCacheHigh \in Nat
    /\ MaxMessageId \in Nat \cup {Null}
    /\ MaxSubscriptions \in Nat \cup {Null}
    /\ Overlap \in BOOLEAN
    /\ UniqueIds \in BOOLEAN

\* Connection ids are handed out from 0 on.
Conns == 0 .. MaxConnections - 1

\* A LinkedList of channelToConnectionId, named by the channel it was made
\* for and the connection whose thread made it.
ListRefs == Channels \X Conns

ASSUME NullAssumption ==
    /\ Null \notin Logins /\ Null \notin Passcodes /\ Null \notin Channels
    /\ Null \notin Ids /\ Null \notin Conns /\ Null \notin ListRefs
    /\ Null \notin Receipts

Nullable(S) == S \cup {Null}

VARIABLES
    connectionId,           \* the next connection id
    messageId,              \* the server-wide message counter
    connectionIdToHandler,  \* the connections that have a handler in the map
    channelToConnectionId,  \* channel -> its list, or Null
    lists,                  \* the contents of every list object
    ConnectionIdToChannel,  \* connection -> its channels; << >> if no entry
    loginPasscode,          \* login -> passcode, or Null
    loginConnectionId,      \* login -> connection, or Null
    connectionIdTologin,    \* connection -> login, or Null
    clientidToIdTopicMap,   \* connection -> id -> channel, or Null
    topicToChannelId,       \* connection -> channel -> id, or Null
    status,                 \* the socket and thread of each connection
    pc,                     \* the next step of each thread
    frame,                  \* the frame it processes, with the local `channel'
    iter,                   \* its list iterator
    todo,                   \* channels a DISCONNECT has still to leave
    delivery,               \* locals of a SEND; audience and reached are history
    wire                    \* the frame this step wrote to a socket, or Null

counters == <<connectionId, messageId>>
sessions == <<connectionIdToHandler, loginPasscode, loginConnectionId,
              connectionIdTologin>>
rosters  == <<channelToConnectionId, lists>>
indexes  == <<ConnectionIdToChannel, clientidToIdTopicMap, topicToChannelId>>
locals   == <<frame, iter, todo, delivery>>
vars     == <<counters, sessions, rosters, indexes, status, pc, locals, wire>>

NoFrame == [command |-> "none", login |-> Null, passcode |-> Null,
            channel |-> Null, id |-> Null, receipt |-> Null]
NoIter == [list |-> Null, at |-> 0, stale |-> FALSE]
NoDelivery == [mid |-> 0, peer |-> Null, audience |-> {}, reached |-> {}]

Commands == {"none", "CONNECT", "SEND", "SUBSCRIBE", "UNSUBSCRIBE", "DISCONNECT"}
Frames == [command: Commands, login: Nullable(Logins),
           passcode: Nullable(Passcodes), channel: Nullable(Channels),
           id: Nullable(Ids), receipt: Nullable(Receipts)]
Steps == {"idle", "put", "rebind", "bind", "passcode",
          "check", "stamp", "open", "next", "recipient", "write",
          "create", "add", "index",
          "scan", "pick", "remove", "unregister", "unbind", "leave"}

Init ==
    /\ connectionId = 0
    /\ messageId = 0
    /\ connectionIdToHandler = {}
    /\ channelToConnectionId = [ch \in Channels |-> Null]
    /\ lists = [ref \in ListRefs |-> << >>]
    /\ ConnectionIdToChannel = [c \in Conns |-> << >>]
    /\ loginPasscode = [l \in Logins |-> Null]
    /\ loginConnectionId = [l \in Logins |-> Null]
    /\ connectionIdTologin = [c \in Conns |-> Null]
    /\ clientidToIdTopicMap = [c \in Conns |-> [i \in Ids |-> Null]]
    /\ topicToChannelId = [c \in Conns |-> [ch \in Channels |-> Null]]
    /\ status = [c \in Conns |-> "new"]
    /\ pc = [c \in Conns |-> "idle"]
    /\ frame = [c \in Conns |-> NoFrame]
    /\ iter = [c \in Conns |-> NoIter]
    /\ todo = [c \in Conns |-> << >>]
    /\ delivery = [c \in Conns |-> NoDelivery]
    /\ wire = Null

----------------------------------------------------------------------------
(* How a thread moves on.                                                  *)

\* The environment moves at any time if Overlap, else only when every thread
\* waits for input.
Turn == Overlap \/ \A c \in Conns : pc[c] = "idle"

\* The thread of c has returned to in.read().
Ready(c) == status[c] = "open" /\ pc[c] = "idle" /\ Turn

Goto(c, step) == pc' = [pc EXCEPT ![c] = step]

\* process() is left, by return or by an exception: its locals are gone.
Leave(c) ==
    /\ Goto(c, "idle")
    /\ frame' = [frame EXCEPT ![c] = NoFrame]
    /\ iter' = [iter EXCEPT ![c] = NoIter]
    /\ todo' = [todo EXCEPT ![c] = << >>]
    /\ delivery' = [delivery EXCEPT ![c] = NoDelivery]

\* After a DISCONNECT the loop of run() ends, because close() cleared
\* connected; otherwise the thread reads on.
Return(c) == Leave(c) /\ UNCHANGED status

\* MUTANT: the loop of run() catches the exception and reads on.
ThrowCaught(c) == Return(c)

\* MUTANT: the exception ends the thread and nothing closes the socket.
ThrowUnclosed(c) == Goto(c, "dead") /\ UNCHANGED <<status, locals>>

\* The exception leaves run(), which closes the socket.
Throw(c) ==
    /\ Leave(c)
    /\ status' = [status EXCEPT ![c] = IF @ = "open" THEN "failed" ELSE @]

Silent == wire' = Null

\* An answer of run() to its own client.
Answer(c, command) ==
    wire' = [command |-> command, to |-> c, id |-> Null, mid |-> Null,
             receipt |-> frame[c].receipt]

AnswerReceipt(c) == IF frame[c].receipt # Null THEN Answer(c, "RECEIPT") ELSE Silent

\* MUTANT: iterators that do not notice a change of their list.
TouchedUnnoticed(ref) == iter

\* The body of a list changed: every live iterator on it is now stale, and its
\* next() throws ConcurrentModificationException.
Touched(ref) ==
    [d \in Conns |-> IF iter[d].list = ref THEN [iter[d] EXCEPT !.stale = TRUE]
                     ELSE iter[d]]

IteratorOn(ref) == [list |-> ref, at |-> 0, stale |-> FALSE]
Body(c) == lists[iter[c].list]

\* MUTANT: the loop stops one element early.
HasNextButLast(c) == iter[c].at < Len(Body(c)) - 1

HasNext(c) == iter[c].at < Len(Body(c))

\* hasNext() is true: the loop goes on, and next() is a call of its own.
GoOn(c) ==
    /\ pc[c] \in {"next", "scan"}
    /\ HasNext(c)
    /\ Goto(c, IF pc[c] = "next" THEN "recipient" ELSE "pick")
    /\ Silent
    /\ UNCHANGED <<counters, sessions, rosters, indexes, status, locals>>

\* next() throws ConcurrentModificationException or NoSuchElementException.
NextThrows(c) == iter[c].stale \/ ~HasNext(c)

Subscribers(ch) ==
    IF channelToConnectionId[ch] = Null THEN << >>
    ELSE lists[channelToConnectionId[ch]]

----------------------------------------------------------------------------
(* Connections come and go.                                                *)

\* MUTANT: the id is used after it was incremented.
HandlerKeyLate == connectionId + 1

\* addToMapconnectionIdToHandler puts under the id it then returns.
HandlerKey == connectionId

\* The acceptor makes the handler, which registers itself.
Accept ==
    /\ Turn
    /\ connectionId \in Conns
    /\ connectionIdToHandler' = connectionIdToHandler \cup {HandlerKey}
    /\ connectionId' = connectionId + 1
    /\ status' = [status EXCEPT ![connectionId] = "open"]
    /\ Silent
    /\ UNCHANGED <<messageId, loginPasscode, loginConnectionId,
                   connectionIdTologin, rosters, indexes, pc, locals>>

\* The client closed its end: in.read() returns -1 and run() ends.
Eof(c) ==
    /\ Ready(c)
    /\ status' = [status EXCEPT ![c] = "eof"]
    /\ Silent
    /\ UNCHANGED <<counters, sessions, rosters, indexes, pc, locals>>

\* checkValid's answers 3, 5, 7, 8 and 10 (a required header is missing), and
\* a frame decodeNextByte cannot parse.
Malformed(c) ==
    /\ Ready(c)
    /\ Throw(c)
    /\ Silent
    /\ UNCHANGED <<counters, sessions, rosters, indexes>>

----------------------------------------------------------------------------
(* CONNECT.                                                                *)

AlreadyConnected(l) ==
    loginPasscode[l] # Null /\ loginConnectionId[l] \in connectionIdToHandler

\* MUTANT: the comparison of the passcodes is gone.
PasscodeUnchecked(l, p) == FALSE

\* `!=' compares references, and the stored passcode and the one just parsed
\* are two String objects whatever they spell.
WrongPasscode(l, p) == loginPasscode[l] # Null

\* process() of a CONNECT: checkValid, which has seen no passcode if it lets
\* the frame pass.
ProcessConnect(c, l, p) ==
    /\ Ready(c)
    /\ IF AlreadyConnected(l) \/ WrongPasscode(l, p)
       THEN Throw(c)
       ELSE /\ frame' = [frame EXCEPT ![c] =
                 [NoFrame EXCEPT !.command = "CONNECT", !.login = l, !.passcode = p]]
            /\ Goto(c, "put")
            /\ UNCHANGED <<status, iter, todo, delivery>>
    /\ Silent
    /\ UNCHANGED <<counters, sessions, rosters, indexes>>

\* The handler is put under its own id, and process() looks for a passcode
\* itself: the login may have been registered since checkValid looked.
PutHandler(c) ==
    /\ pc[c] = "put"
    /\ connectionIdToHandler' = connectionIdToHandler \cup {c}
    /\ Goto(c, IF loginPasscode[frame[c].login] # Null THEN "rebind" ELSE "bind")
    /\ Silent
    /\ UNCHANGED <<counters, loginPasscode, loginConnectionId, connectionIdTologin,
                   rosters, indexes, status, locals>>

\* MUTANT: the put is forgotten.
BindLoginForgotten(l, c) == UNCHANGED loginConnectionId

BindLogin(l, c) == loginConnectionId' = [loginConnectionId EXCEPT ![l] = c]

\* A login with a passcode on record.
Rebind(c) ==
    /\ pc[c] = "rebind"
    /\ BindLogin(frame[c].login, c)
    /\ Return(c)
    /\ Answer(c, "CONNECTED")
    /\ UNCHANGED <<counters, connectionIdToHandler, loginPasscode,
                   connectionIdTologin, rosters, indexes>>

\* A new login: three puts, the second into the connection's own entry.
Bind(c) ==
    /\ pc[c] = "bind"
    /\ BindLogin(frame[c].login, c)
    /\ connectionIdTologin' = [connectionIdTologin EXCEPT ![c] = frame[c].login]
    /\ Goto(c, "passcode")
    /\ Silent
    /\ UNCHANGED <<counters, connectionIdToHandler, loginPasscode, rosters, indexes,
                   status, locals>>

PutPasscode(c) ==
    /\ pc[c] = "passcode"
    /\ loginPasscode' = [loginPasscode EXCEPT ![frame[c].login] = frame[c].passcode]
    /\ Return(c)
    /\ Answer(c, "CONNECTED")
    /\ UNCHANGED <<counters, connectionIdToHandler, loginConnectionId,
                   connectionIdTologin, rosters, indexes>>

----------------------------------------------------------------------------
(* SEND.                                                                   *)

\* checkValid skips the membership test for a channel nobody subscribed to yet.
ProcessSend(c, ch, receipt) ==
    /\ Ready(c)
    /\ frame' = [frame EXCEPT ![c] =
         [NoFrame EXCEPT !.command = "SEND", !.channel = ch, !.receipt = receipt]]
    /\ IF channelToConnectionId[ch] = Null
       THEN Goto(c, "stamp") /\ UNCHANGED iter
       ELSE /\ iter' = [iter EXCEPT ![c] = IteratorOn(channelToConnectionId[ch])]
            /\ Goto(c, "check")
    /\ Silent
    /\ UNCHANGED <<counters, sessions, rosters, indexes, status, todo, delivery>>

\* MUTANT: the loop's result is not used.
IsSubscriberUnchecked(c) == ~iter[c].stale

\* The loop of checkValid: answer 4 and a stale iterator both end the thread.
IsSubscriber(c) == ~iter[c].stale /\ Contains(Body(c), c)

Check(c) ==
    /\ pc[c] = "check"
    /\ IF IsSubscriber(c)
       THEN Goto(c, "stamp") /\ UNCHANGED <<status, locals>>
       ELSE Throw(c)
    /\ Silent
    /\ UNCHANGED <<counters, sessions, rosters, indexes>>

\* The subscription header is looked up (NullPointerException if the sender
\* has no id for the channel), messageId is read.
Stamp(c) ==
    /\ pc[c] = "stamp"
    /\ IF topicToChannelId[c][frame[c].channel] = Null
       THEN Throw(c)
       ELSE /\ delivery' = [delivery EXCEPT ![c].mid = messageId]
            /\ Goto(c, "open")
            /\ UNCHANGED <<status, frame, iter, todo>>
    /\ Silent
    /\ UNCHANGED <<counters, sessions, rosters, indexes>>

\* MUTANT: the recipient's copy does not count.
IncrementForgotten(c) == messageId' = messageId

\* messageId++ reads the counter once more and writes it back in a later
\* instruction: the value it read may be as old as the thread's last read.
Increment(c) == messageId' \in {delivery[c].mid + 1, messageId + 1}

\* messageId++ and con.send(channel, frame) up to the loop.
Open(c) ==
    LET ref == channelToConnectionId[frame[c].channel] IN
    /\ pc[c] = "open"
    /\ Increment(c)
    /\ IF ref = Null
       THEN Throw(c)
       ELSE /\ iter' = [iter EXCEPT ![c] = IteratorOn(ref)]
            /\ delivery' = [delivery EXCEPT ![c].audience = ToSet(lists[ref])]
            /\ Goto(c, "next")
            /\ UNCHANGED <<status, frame, todo>>
    /\ Silent
    /\ UNCHANGED <<connectionId, sessions, rosters, indexes>>

\* iter.next() and con.send(recipient, frame) up to its second read of
\* messageId.  A recipient without an id for the channel is a
\* NullPointerException.
NextRecipient(c) ==
    LET r == Body(c)[iter[c].at + 1] IN
    /\ pc[c] = "recipient"
    /\ IF NextThrows(c) \/ topicToChannelId[r][frame[c].channel] = Null
       THEN Throw(c)
       ELSE /\ iter' = [iter EXCEPT ![c].at = @ + 1]
            /\ delivery' = [delivery EXCEPT
                  ![c].mid = messageId,
                  ![c].peer = IF r \in connectionIdToHandler THEN r ELSE Null]
            /\ Goto(c, "write")
            /\ UNCHANGED <<status, frame, todo>>
    /\ Silent
    /\ UNCHANGED <<counters, sessions, rosters, indexes>>

\* messageId++ and handler.send(): a missing handler is a NullPointerException,
\* a write to a closed socket is swallowed.
Write(c) ==
    LET r == delivery[c].peer IN
    /\ pc[c] = "write"
    /\ Increment(c)
    /\ IF r = Null
       THEN Throw(c) /\ Silent
       ELSE /\ delivery' = [delivery EXCEPT ![c].reached = @ \cup {r}]
            /\ wire' = IF status[r] # "open" THEN Null
                       ELSE [command |-> "MESSAGE", to |-> r, mid |-> delivery[c].mid,
                             id |-> topicToChannelId[c][frame[c].channel],
                             receipt |-> Null]
            /\ Goto(c, "next")
            /\ UNCHANGED <<status, frame, iter, todo>>
    /\ UNCHANGED <<connectionId, sessions, rosters, indexes>>

\* The loop is done.  The text of the RECEIPT for a SEND lacks its blank line
\* and the Frame constructor throws.
EndSend(c) ==
    /\ pc[c] = "next"
    /\ ~HasNext(c)
    /\ IF frame[c].receipt # Null THEN Throw(c) ELSE Return(c)
    /\ Silent
    /\ UNCHANGED <<counters, sessions, rosters, indexes>>

----------------------------------------------------------------------------
(* SUBSCRIBE.                                                              *)

\* The null test that opens addToMapchannelToConnectionId.
ProcessSubscribe(c, ch, i, receipt) ==
    /\ Ready(c)
    /\ frame' = [frame EXCEPT ![c] =
         [NoFrame EXCEPT !.command = "SUBSCRIBE", !.channel = ch, !.id = i,
                         !.receipt = receipt]]
    /\ Goto(c, IF channelToConnectionId[ch] = Null THEN "create" ELSE "add")
    /\ Silent
    /\ UNCHANGED <<counters, sessions, rosters, indexes, status, iter, todo, delivery>>

\* put(channel, new LinkedList), whatever another thread put since the test.
CreateList(c) ==
    LET ch == frame[c].channel IN
    /\ pc[c] = "create"
    /\ lists' = [lists EXCEPT ![<<ch, c>>] = << >>]
    /\ channelToConnectionId' = [channelToConnectionId EXCEPT ![ch] = <<ch, c>>]
    /\ Goto(c, "add")
    /\ Silent
    /\ UNCHANGED <<counters, sessions, indexes, status, locals>>

\* MUTANT: the add has slipped into the branch that makes the list.
JoinIfFirst(s, c) == IF s = << >> THEN Append(s, c) ELSE s

Join(s, c) == Append(s, c)

AddSubscriber(c) ==
    LET ref == channelToConnectionId[frame[c].channel] IN
    /\ pc[c] = "add"
    /\ lists' = [lists EXCEPT ![ref] = Join(@, c)]
    /\ iter' = Touched(ref)
    /\ Goto(c, "index")
    /\ Silent
    /\ UNCHANGED <<counters, sessions, channelToConnectionId, indexes, status,
                   frame, todo, delivery>>

\* MUTANT: the first channel is not added to the new list.
ChannelsWithForgotten(c, ch) ==
    IF ConnectionIdToChannel[c] = << >> THEN << >>
    ELSE Append(ConnectionIdToChannel[c], ch)

ChannelsWith(c, ch) == Append(ConnectionIdToChannel[c], ch)

\* No id map yet: this is the connection's first subscription.
NoIdMap(c) == \A i \in Ids : clientidToIdTopicMap[c][i] = Null

\* temp.get(0), which throws on an empty list, then the connection's own maps.
\* topicToChannelId is filled for the first subscription only.
IndexSubscription(c) ==
    LET f == frame[c] IN
    /\ pc[c] = "index"
    /\ \/ /\ Subscribers(f.channel) = << >>
          /\ Throw(c)
          /\ Silent
          /\ UNCHANGED indexes
       \/ /\ Subscribers(f.channel) # << >>
          /\ ConnectionIdToChannel' =
                [ConnectionIdToChannel EXCEPT ![c] = ChannelsWith(c, f.channel)]
          /\ clientidToIdTopicMap' =
                [clientidToIdTopicMap EXCEPT ![c][f.id] = f.channel]
          /\ topicToChannelId' =
                IF NoIdMap(c)
                THEN [topicToChannelId EXCEPT ![c] =
                        [ch \in Channels |-> IF ch = f.channel THEN f.id ELSE Null]]
                ELSE topicToChannelId
          /\ Return(c)
          /\ AnswerReceipt(c)
    /\ UNCHANGED <<counters, sessions, rosters>>

----------------------------------------------------------------------------
(* UNSUBSCRIBE and DISCONNECT: both look for the connection in a list and  *)
(* remove it by position while they iterate.                               *)

\* Answer 9, and the NullPointerException of a connection without an id map.
ProcessUnsubscribe(c, i, receipt) ==
    LET ch == clientidToIdTopicMap[c][i] IN
    /\ Ready(c)
    /\ IF ch = Null
       THEN Throw(c)
       ELSE /\ frame' = [frame EXCEPT ![c] =
                 [NoFrame EXCEPT !.command = "UNSUBSCRIBE", !.channel = ch,
                                 !.id = i, !.receipt = receipt]]
            /\ iter' = [iter EXCEPT ![c] = IteratorOn(channelToConnectionId[ch])]
            /\ Goto(c, "scan")
            /\ UNCHANGED <<status, todo, delivery>>
    /\ Silent
    /\ UNCHANGED <<counters, sessions, rosters, indexes>>

\* MUTANT: the user is forgotten with the session.
RemoveUser(c) ==
    LET l == connectionIdTologin[c] IN
    /\ connectionIdTologin' = [connectionIdTologin EXCEPT ![c] = Null]
    /\ loginConnectionId' = [m \in Logins |-> IF m = l THEN Null ELSE loginConnectionId[m]]
    /\ loginPasscode' = [m \in Logins |-> IF m = l THEN Null ELSE loginPasscode[m]]

RemoveSession(c) ==
    LET l == connectionIdTologin[c] IN
    /\ connectionIdTologin' = [connectionIdTologin EXCEPT ![c] = Null]
    /\ loginConnectionId' = [m \in Logins |-> IF m = l THEN Null ELSE loginConnectionId[m]]
    /\ UNCHANGED loginPasscode

\* The handler is closed: connected is false, and so is the socket.
Disconnect(c) ==
    /\ Ready(c)
    /\ status' = [status EXCEPT ![c] = "logout"]
    /\ frame' = [frame EXCEPT ![c] = [NoFrame EXCEPT !.command = "DISCONNECT"]]
    /\ Goto(c, "unregister")
    /\ Silent
    /\ UNCHANGED <<counters, sessions, rosters, indexes, iter, todo, delivery>>

RemoveHandler(c) ==
    /\ pc[c] = "unregister"
    /\ connectionIdToHandler' = connectionIdToHandler \ {c}
    /\ Goto(c, "unbind")
    /\ Silent
    /\ UNCHANGED <<counters, loginPasscode, loginConnectionId, connectionIdTologin,
                   rosters, indexes, status, locals>>

\* The connection's own entries and the login's, then the for statement: a
\* connection that never subscribed has no channel list, and it throws.
RemoveLogin(c) ==
    /\ pc[c] = "unbind"
    /\ clientidToIdTopicMap' = [clientidToIdTopicMap EXCEPT ![c] = [i \in Ids |-> Null]]
    /\ RemoveSession(c)
    /\ IF ConnectionIdToChannel[c] = << >>
       THEN Throw(c)
       ELSE /\ todo' = [todo EXCEPT ![c] = ConnectionIdToChannel[c]]
            /\ Goto(c, "leave")
            /\ UNCHANGED <<status, frame, iter, delivery>>
    /\ Silent
    /\ UNCHANGED <<counters, connectionIdToHandler, rosters, ConnectionIdToChannel,
                   topicToChannelId>>

\* The outer loop of removeFromMaps: the next channel, or the end.  DISCONNECT
\* returns no response: its receipt is never answered.
LeaveChannel(c) ==
    /\ pc[c] = "leave"
    /\ \/ /\ todo[c] = << >>
          /\ ConnectionIdToChannel' = [ConnectionIdToChannel EXCEPT ![c] = << >>]
          /\ Return(c)
       \/ /\ todo[c] # << >>
          /\ todo' = [todo EXCEPT ![c] = Tail(@)]
          /\ frame' = [frame EXCEPT ![c].channel = Head(todo[c])]
          /\ iter' = [iter EXCEPT ![c] = IteratorOn(channelToConnectionId[Head(todo[c])])]
          /\ Goto(c, "scan")
          /\ UNCHANGED <<ConnectionIdToChannel, status, delivery>>
    /\ Silent
    /\ UNCHANGED <<counters, sessions, rosters, clientidToIdTopicMap, topicToChannelId>>

\* UNSUBSCRIBE compares with an int; removeFromMaps compares two boxed
\* Integers by reference, which are one object only below the cache's limit.
Matches(c, d) ==
    d = c /\ (frame[c].command = "UNSUBSCRIBE" \/ c <= IntegerCacheHigh)

\* MUTANT: the loop moves on only past a match.
PositionAfterMatch(c, d) == IF Matches(c, d) THEN iter[c].at + 1 ELSE iter[c].at

PositionAfter(c, d) == iter[c].at + 1

\* next(), and the comparison of what it returned.
Pick(c) ==
    LET d == Body(c)[iter[c].at + 1] IN
    /\ pc[c] = "pick"
    /\ IF NextThrows(c)
       THEN Throw(c)
       ELSE /\ iter' = [iter EXCEPT ![c].at = PositionAfter(c, d)]
            /\ Goto(c, IF Matches(c, d) THEN "remove" ELSE "scan")
            /\ UNCHANGED <<status, frame, todo, delivery>>
    /\ Silent
    /\ UNCHANGED <<counters, sessions, rosters, indexes>>

\* MUTANT: the position is off by one.
IndexAfter(c) == iter[c].at + 1

FoundIndex(c) == iter[c].at

\* subscribers.remove(index): the element at that position now.
RemoveFound(c) ==
    /\ pc[c] = "remove"
    /\ \/ /\ FoundIndex(c) <= Len(Body(c))
          /\ lists' = [lists EXCEPT ![iter[c].list] = RemoveAt(@, FoundIndex(c))]
          /\ iter' = Touched(iter[c].list)
          /\ Goto(c, "scan")
          /\ UNCHANGED <<status, frame, todo, delivery>>
       \/ /\ FoundIndex(c) > Len(Body(c))
          /\ Throw(c)
          /\ UNCHANGED lists
    /\ Silent
    /\ UNCHANGED <<counters, sessions, channelToConnectionId, indexes>>

\* hasNext() is false: behind the last element, or because the list has become
\* shorter.
EndScan(c) ==
    /\ pc[c] = "scan"
    /\ ~HasNext(c)
    /\ \/ /\ frame[c].command = "UNSUBSCRIBE"
          /\ Return(c)
          /\ AnswerReceipt(c)
       \/ /\ frame[c].command = "DISCONNECT"
          /\ Goto(c, "leave")
          /\ Silent
          /\ UNCHANGED <<status, locals>>
    /\ UNCHANGED <<counters, sessions, rosters, indexes>>

----------------------------------------------------------------------------
(* A frame arrives and checkValid has its first look at the maps.          *)

Below(n, bound) == bound = Null \/ n < bound

Connect(c) == \E l \in Logins, p \in Passcodes : ProcessConnect(c, l, p)

Send(c) ==
    /\ Below(messageId, MaxMessageId)
    /\ \E ch \in Channels, receipt \in Nullable(Receipts) : ProcessSend(c, ch, receipt)

\* README: the client generates a unique id per subscription.  (The client of
\* this repository does, unless its user exits what he is not in: Service.)
UnusedFor(c, i, ch) == UniqueIds => clientidToIdTopicMap[c][i] \in {Null, ch}

Subscribe(c) ==
    /\ Below(Len(ConnectionIdToChannel[c]), MaxSubscriptions)
    /\ \E ch \in Channels, i \in Ids, receipt \in Nullable(Receipts) :
         UnusedFor(c, i, ch) /\ ProcessSubscribe(c, ch, i, receipt)

Unsubscribe(c) ==
    \E i \in Ids, receipt \in Nullable(Receipts) : ProcessUnsubscribe(c, i, receipt)

Request(c) ==
    Connect(c) \/ Send(c) \/ Subscribe(c) \/ Unsubscribe(c) \/ Disconnect(c)

\* The thread goes on inside process().
Handle(c) ==
    \/ PutHandler(c) \/ Rebind(c) \/ Bind(c) \/ PutPasscode(c)
    \/ Check(c) \/ Stamp(c) \/ Open(c) \/ NextRecipient(c) \/ Write(c) \/ EndSend(c)
    \/ CreateList(c) \/ AddSubscriber(c) \/ IndexSubscription(c)
    \/ RemoveHandler(c) \/ RemoveLogin(c) \/ LeaveChannel(c)
    \/ GoOn(c) \/ Pick(c) \/ RemoveFound(c) \/ EndScan(c)

Next ==
    \/ Accept
    \/ \E c \in Conns : Eof(c) \/ Malformed(c) \/ Request(c) \/ Handle(c)

Spec == Init /\ [][Next]_vars

\* The thread of c writes to the socket of an open connection: out.write and
\* out.flush wait for as long as that client does not read.
AtSocket(c) ==
    /\ pc[c] = "write"
    /\ delivery[c].peer # Null
    /\ status[delivery[c].peer] = "open"

\* The JVM schedules every handler thread.  Nothing says that a client reads: a
\* thread at its socket may stay there.  (run() writes a thread's own answer
\* after process() has returned; a thread kept there takes no other frame,
\* which no fairness asks of it.)
Fairness == \A c \in Conns : WF_vars(Handle(c) /\ ~AtSocket(c))
FairSpec == Spec /\ Fairness

----------------------------------------------------------------------------
(* Types.                                                                  *)

FramesOnWire == [command: {"CONNECTED", "RECEIPT", "MESSAGE"}, to: Conns,
                 id: Nullable(Ids), mid: Nullable(Nat), receipt: Nullable(Receipts)]

SessionTypes ==
    /\ connectionIdToHandler \subseteq Conns
    /\ loginPasscode \in [Logins -> Nullable(Passcodes)]
    /\ loginConnectionId \in [Logins -> Nullable(Conns)]
    /\ connectionIdTologin \in [Conns -> Nullable(Logins)]

TopicTypes ==
    /\ channelToConnectionId \in [Channels -> Nullable(ListRefs)]
    /\ lists \in [ListRefs -> Seq(Conns)]
    /\ ConnectionIdToChannel \in [Conns -> Seq(Channels)]
    /\ clientidToIdTopicMap \in [Conns -> [Ids -> Nullable(Channels)]]
    /\ topicToChannelId \in [Conns -> [Channels -> Nullable(Ids)]]

Iterators == [list: Nullable(ListRefs), at: Nat, stale: BOOLEAN]
Deliveries == [mid: Nat, peer: Nullable(Conns), audience: SUBSET Conns,
               reached: SUBSET Conns]

ThreadTypes ==
    /\ status \in [Conns -> {"new", "open", "eof", "logout", "failed"}]
    /\ pc \in [Conns -> Steps]
    /\ frame \in [Conns -> Frames]
    /\ iter \in [Conns -> Iterators]
    /\ todo \in [Conns -> Seq(Channels)]
    /\ delivery \in [Conns -> Deliveries]

\* Every variable holds what its Java counterpart can hold: references into
\* the maps name connections, channels, logins and ids that exist.
TypeOK ==
    /\ connectionId \in Nat
    /\ messageId \in Nat
    /\ wire \in Nullable(FramesOnWire)
    /\ SessionTypes
    /\ TopicTypes
    /\ ThreadTypes

----------------------------------------------------------------------------
(* Sessions.                                                               *)

Quiescent == \A c \in Conns : pc[c] = "idle"

\* README "New user", "User is already logged in": when no handler is busy, a
\* connection that still talks and carries a login is the one connection the
\* login is bound to, and the login is registered.  Three maps of
\* connectionsImpl, written by different branches, have to agree.
SessionOwner ==
    Quiescent => \A c \in Conns :
        LET l == connectionIdTologin[c] IN
        status[c] = "open" /\ l # Null =>
            loginConnectionId[l] = c /\ loginPasscode[l] # Null

Answered(c, command) ==
    wire' # Null /\ wire'.command = command /\ wire'.to = c

\* README "Wrong password": a client is answered CONNECTED only with the
\* passcode that is then on record for its login (the early branch of process()
\* answers without comparing).
ConnectedKnowsPasscode ==
    [][\A c \in Conns : Answered(c, "CONNECTED") =>
          loginPasscode'[frame[c].login] = frame[c].passcode]_vars

\* README "New user ... the password is saved for that user": once saved, no
\* other client's CONNECT replaces it.
PasscodeKept ==
    [][\A l \in Logins : loginPasscode[l] # Null =>
          loginPasscode'[l] = loginPasscode[l]]_vars

\* README "User exists": a registered user without an active connection who
\* sends the saved passcode is not refused.
ReturningUserAdmitted ==
    \A l \in Logins :
        loginPasscode[l] # Null /\ ~AlreadyConnected(l) =>
            ~WrongPasscode(l, loginPasscode[l])

----------------------------------------------------------------------------
(* Subscriptions.                                                          *)

Count(s, c) == Cardinality({k \in DOMAIN s : s[k] = c})

Indexed(c, ch) ==
    /\ Contains(ConnectionIdToChannel[c], ch)
    /\ \E i \in Ids : clientidToIdTopicMap[c][i] = ch

\* A connection that is open and not inside SUBSCRIBE's last step, and that
\* some channel's list names, has the channel among its own channels (what
\* DISCONNECT will clean) and an id for it (what UNSUBSCRIBE needs): the lists
\* and the per-connection maps are written by separate calls.
SubscriptionIndexed ==
    \A c \in Conns, ch \in Channels :
        /\ status[c] = "open"
        /\ pc[c] # "index"
        /\ Contains(Subscribers(ch), c)
        => Indexed(c, ch)

Known(ch) == channelToConnectionId[ch] # Null

\* A thread inside process() holds a channel, a list and a position that
\* exist, and the id of its SUBSCRIBE is still its own.
ThreadConsistent(c) ==
    /\ pc[c] = "idle" => frame[c] = NoFrame
    /\ pc[c] # "idle" => status[c] # "new"
    /\ pc[c] \in {"unregister", "unbind", "leave"} => frame[c].command = "DISCONNECT"
    /\ frame[c].command = "DISCONNECT" => status[c] # "open"
    /\ pc[c] \in {"check", "stamp", "open", "next", "recipient", "write", "create",
                  "add", "index", "scan", "pick", "remove"} =>
          frame[c].channel \in Channels
    /\ pc[c] \in {"check", "next", "recipient", "write", "scan", "pick", "remove"} =>
          iter[c].list \in ListRefs
    /\ pc[c] = "remove" => iter[c].at >= 1
    /\ pc[c] \in {"add", "index"} => Known(frame[c].channel)
    /\ pc[c] \in {"create", "add", "index"} =>
          /\ frame[c].id \in Ids
          /\ UnusedFor(c, frame[c].id, frame[c].channel)
    /\ \A k \in 1 .. Len(todo[c]) : Known(todo[c][k])

\* Ids not handed out are those of connections that are not there yet.
FreshIds ==
    \A c \in Conns : c >= connectionId => status[c] = "new"

\* A channel that a connection has an id for, or counts among its own, has a
\* list, and that list was made for this channel.
ReferencesResolve ==
    /\ \A ch \in Channels : Known(ch) => channelToConnectionId[ch][1] = ch
    /\ \A c \in Conns, i \in Ids :
          clientidToIdTopicMap[c][i] # Null => Known(clientidToIdTopicMap[c][i])
    /\ \A c \in Conns : \A k \in 1 .. Len(ConnectionIdToChannel[c]) :
          Known(ConnectionIdToChannel[c][k])

\* SubscriptionIndexed for every list object, also those a race has replaced,
\* and for a connection on its way to index what it was just added to.
ListsIndexed ==
    UniqueIds => \A c \in Conns, ref \in ListRefs :
        status[c] \in {"new", "open"} /\ Contains(lists[ref], c) =>
            (pc[c] = "index" /\ frame[c].channel = ref[1]) \/ Indexed(c, ref[1])

\* The inductive invariant behind SubscriptionIndexed: no thread follows a
\* reference to nowhere, however the handlers of different connections
\* interleave.
Consistent ==
    /\ \A c \in Conns : ThreadConsistent(c)
    /\ FreshIds
    /\ ReferencesResolve
    /\ ListsIndexed

\* README "After this frame was processed by the server, any messages received
\* on the destination subscription are delivered": the RECEIPT of a SUBSCRIBE
\* goes to a connection that the channel's current list names.
ReceiptMeansSubscribed ==
    [][\A c \in Conns, ch \in Channels :
          /\ Answered(c, "RECEIPT")
          /\ frame[c].command = "SUBSCRIBE" /\ frame[c].channel = ch
          => Contains(Subscribers(ch)', c)]_vars

\* A step takes from a channel's list no connection but the one whose thread
\* made it: remove(index) must still mean the element the iterator returned.
RemovesOnlyItself ==
    [][\A c \in Conns, ch \in Channels :
          Count(Subscribers(ch)', c) < Count(Subscribers(ch), c) =>
              pc[c] = "remove" /\ pc'[c] # "remove"]_vars

\* The outer loop of removeFromMaps has run to its end: the connection is in
\* none of the lists it was in.
CompletedLogoutLeavesAll ==
    [][\A c \in Conns : pc[c] = "leave" /\ pc'[c] = "idle" =>
          \A ch \in Channels : ~Contains(Subscribers(ch)', c)]_vars

\* README "The logout command removes the current user from all the topics".
LogoutLeavesTopics ==
    \A c \in Conns : status[c] = "logout" /\ pc[c] = "idle" =>
        \A ch \in Channels : ~Contains(Subscribers(ch), c)

----------------------------------------------------------------------------
(* Publishing.                                                             *)

\* README "if a client is not subscribed to a topic it is not allowed to send
\* messages to it": a SEND that has got past checkValid comes from a
\* subscriber, also on the path where checkValid skips the membership test.
OnlySubscribersPublish ==
    \A c \in Conns : pc[c] \in {"open", "next", "recipient", "write"} =>
        Contains(Subscribers(frame[c].channel), c)

\* README "Every message sent to a topic is being forwarded by the server to
\* all clients registered to that topic": a SEND whose loop ended without an
\* exception has been written to every connection that was in the list when it
\* began and still is.
NobodySkipped ==
    [][\A c \in Conns :
          pc[c] = "next" /\ pc'[c] = "idle" /\ status'[c] = "open" =>
              (delivery[c].audience \cap ToSet(Subscribers(frame[c].channel)))
                 \subseteq delivery[c].reached]_vars

\* As long as nobody changed the list it walks, a SEND has been written to
\* exactly the first `at' connections of it, whatever else ran in between:
\* what an aborted broadcast has delivered is a prefix, never a selection.
ReachedPrefix ==
    \A c \in Conns : pc[c] \in {"next", "recipient"} /\ ~iter[c].stale =>
        delivery[c].reached = {Body(c)[k] : k \in 1 .. iter[c].at}

\* README "message-id: a server-unique id": the id in a MESSAGE is one the
\* counter has not passed before and passes in that step, and the counter
\* never moves back.
MessageIdUnique ==
    [][/\ messageId <= messageId'
       /\ wire' # Null /\ wire'.command = "MESSAGE" =>
              messageId <= wire'.mid /\ wire'.mid < messageId']_vars

\* Whatever the other threads do to the lists it walks, a call of process() runs
\* for ever only at the socket of one client that is connected and does not read
\* (con.send inside the loop of a SEND): every other call returns or throws.
HandlersFinish ==
    \A c \in Conns : []<>(pc[c] = "idle") \/ <>[]AtSocket(c)

\* README "client b will receive the message with the id header equals to 1": a
\* MESSAGE names the receiver's own subscription to the channel.  (One frame at
\* a time: the step that writes is the step of the thread at "write".)
OwnSubscriptionId ==
    [][\A c \in Conns :
          pc[c] = "write" /\ wire' # Null =>
              clientidToIdTopicMap[wire'.to][wire'.id] = frame[c].channel]_vars
=============================================================================
