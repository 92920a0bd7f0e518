---------------------------- MODULE SerialProofs ----------------------------
(* Theorems about StompServer when frames are processed one at a time: what *)
(* its sequential logic guarantees for every value of the other constants.  *)
EXTENDS DeliveryProofs, FiniteSetTheorems

\* At most one thread is inside process().
OneBusy == \A c, d \in Conns : pc[c] # "idle" /\ pc[d] # "idle" => c = d

\* What the thread inside process() may rely on, because nobody has written
\* since it looked.
LoginFree(c) ==
    /\ pc[c] # "rebind"
    /\ pc[c] \in {"put", "bind", "passcode"} =>
          /\ frame[c].login \in Logins /\ frame[c].passcode \in Passcodes
          /\ loginPasscode[frame[c].login] = Null

LoginHalfBound(c) ==
    pc[c] = "passcode" =>
        /\ connectionIdTologin[c] = frame[c].login
        /\ loginConnectionId[frame[c].login] = c

WalksCurrentList(c) ==
    pc[c] \in {"check", "next", "recipient", "write"} =>
        /\ Known(frame[c].channel)
        /\ iter[c].list = channelToConnectionId[frame[c].channel]
        /\ ~iter[c].stale

Entitled(c) ==
    /\ pc[c] = "stamp" =>
          \/ Contains(Subscribers(frame[c].channel), c)
          \/ topicToChannelId[c][frame[c].channel] = Null
    /\ pc[c] \in {"open", "next", "recipient", "write", "index"} =>
          Contains(Subscribers(frame[c].channel), c)

Numbered(c) == pc[c] \in {"open", "write"} => delivery[c].mid = messageId

Addressed(c) ==
    pc[c] \in {"next", "recipient", "write"} =>
        delivery[c].audience = ToSet(Body(c))

MakesFirstList(c) == pc[c] = "create" => ~Known(frame[c].channel)

AtItself(c) ==
    pc[c] = "remove" => iter[c].at \in 1 .. Len(Body(c)) /\ Body(c)[iter[c].at] = c

Undisturbed(c) ==
    /\ LoginFree(c) /\ LoginHalfBound(c) /\ WalksCurrentList(c) /\ Entitled(c)
    /\ Numbered(c) /\ Addressed(c) /\ MakesFirstList(c) /\ AtItself(c)

\* The connection talks, or its DISCONNECT has not come to the login yet.
HasSession(c) == status[c] = "open" \/ pc[c] \in {"unregister", "unbind"}

\* SessionOwner at every moment: the login that is just being registered is
\* bound before its passcode is written.
SessionsBound ==
    \A c \in Conns :
        LET l == connectionIdTologin[c] IN
        /\ status[c] = "new" => l = Null
        /\ HasSession(c) /\ l # Null =>
              /\ loginConnectionId[l] = c
              /\ loginPasscode[l] # Null \/ (pc[c] = "passcode" /\ frame[c].login = l)

\* Who has an id to send under has subscribed, and the channel has a list.
SendersKnown ==
    \A c \in Conns, ch \in Channels : topicToChannelId[c][ch] # Null => Known(ch)

SerialInv ==
    /\ OneBusy
    /\ \A c \in Conns : Undisturbed(c)
    /\ SessionsBound
    /\ SendersKnown

LEMMA IdleUndisturbed ==
    ASSUME NEW c \in Conns, pc'[c] = "idle"
    PROVE  Undisturbed(c)'
BY DEF Undisturbed, LoginFree, LoginHalfBound, WalksCurrentList, Entitled, Numbered,
   Addressed, MakesFirstList, AtItself

LEMMA OthersIdle ==
    ASSUME Overlap = FALSE, Inv, OneBusy, NEW c \in Conns, Step(c)
    PROVE  \A d \in Conns : d # c => pc[d] = "idle" /\ pc'[d] = "idle"
<1>1. CASE Eof(c) \/ Malformed(c) \/ Request(c)
  <2>1. Ready(c)
    BY <1>1 DEF Eof, Malformed, Request, Connect, ProcessConnect, Send, ProcessSend,
       Subscribe, ProcessSubscribe, Unsubscribe, ProcessUnsubscribe, Disconnect
  <2>2. \A d \in Conns : pc[d] = "idle"
    BY <2>1 DEF Ready, Turn
  <2> QED BY <2>2, OtherThreads DEF Step, Inv
<1>2. CASE Handle(c)
  <2>1. pc[c] # "idle"
    BY <1>2 DEF Handle, PutHandler, Rebind, Bind, PutPasscode, Check, Stamp, Open,
       NextRecipient, Write, EndSend, CreateList, AddSubscriber, IndexSubscription,
       RemoveHandler, RemoveLogin, LeaveChannel, GoOn, Pick, RemoveFound, EndScan
  <2> QED BY <2>1, OtherThreads DEF Step, Inv, OneBusy
<1> QED BY <1>1, <1>2 DEF Step

LEMMA OneBusyStep ==
    ASSUME Overlap = FALSE, Inv, OneBusy, [Next]_vars
    PROVE  OneBusy'
<1>1. CASE Accept \/ UNCHANGED vars
  <2>1. pc' = pc
    BY <1>1 DEF Accept, vars, locals
  <2> QED BY <2>1 DEF OneBusy
<1>2. ASSUME NEW c \in Conns, Step(c) PROVE OneBusy'
  BY <1>2, OthersIdle DEF OneBusy
<1> QED BY <1>1, <1>2 DEF Next, Step

----------------------------------------------------------------------------
(* Sessions.                                                               *)

\* A step that leaves the sessions and the threads' places alone, or moves the
\* thread of c to where no session is half-made.
LEMMA SessionsSame ==
    ASSUME Inv, SerialInv, NEW c \in Conns, Step(c), Overlap = FALSE,
           UNCHANGED <<loginPasscode, loginConnectionId, connectionIdTologin>>,
           pc[c] # "passcode"
    PROVE  SessionsBound'
<1> SUFFICES ASSUME NEW d \in Conns
             PROVE  LET l == connectionIdTologin[d] IN
                    /\ status'[d] = "new" => l = Null
                    /\ HasSession(d)' /\ l # Null =>
                          /\ loginConnectionId[l] = d
                          /\ loginPasscode[l] # Null
  BY DEF SessionsBound
<1>1. /\ status'[d] = "new" => status[d] = "new"
      /\ HasSession(d)' => HasSession(d)
  <2>1. CASE d # c
    BY <2>1, OtherThreads DEF Step, Inv, HasSession
  <2>2. CASE d = c
    BY <2>2 DEF HasSession, Ready, Goto, Leave, locals, Inv, TypeOK, ThreadTypes, Step,
       Eof, Malformed, Request, Connect, ProcessConnect, Send, ProcessSend, Subscribe,
       ProcessSubscribe, Unsubscribe, ProcessUnsubscribe, Disconnect, Handle, PutHandler,
       Rebind, Bind, PutPasscode, Check, Stamp, Open, NextRecipient, Write, EndSend,
       CreateList, AddSubscriber, IndexSubscription, RemoveHandler, RemoveLogin,
       LeaveChannel, GoOn, Pick, RemoveFound, EndScan, Throw, Return
  <2> QED BY <2>1, <2>2
<1>2. pc[d] # "passcode"
  BY OthersIdle DEF SerialInv
<1> QED BY <1>1, <1>2 DEF SerialInv, SessionsBound

LEMMA SessionsStep ==
    ASSUME Overlap = FALSE, Inv, SerialInv, [Next]_vars
    PROVE  SessionsBound'
<1>0. /\ TypeOK /\ Consistent /\ SessionsBound
      /\ status \in [Conns -> {"new", "open", "eof", "logout", "failed"}]
      /\ pc \in [Conns -> Steps] /\ frame \in [Conns -> Frames]
      /\ loginPasscode \in [Logins -> Nullable(Passcodes)]
      /\ loginConnectionId \in [Logins -> Nullable(Conns)]
      /\ connectionIdTologin \in [Conns -> Nullable(Logins)]
  BY DEF Inv, SerialInv, TypeOK, ThreadTypes, SessionTypes
<1>1. CASE Accept
  <2>1. /\ UNCHANGED <<loginPasscode, loginConnectionId, connectionIdTologin, pc, frame>>
        /\ status' = [status EXCEPT ![connectionId] = "open"]
        /\ connectionId \in Conns
    BY <1>1 DEF Accept, locals
  <2>2. status[connectionId] = "new"
    BY <1>0, <2>1 DEF Consistent, FreshIds, Conns
  <2> QED BY <1>0, <2>1, <2>2 DEF SessionsBound, HasSession
<1>2. CASE UNCHANGED vars
  BY <1>0, <1>2 DEF vars, sessions, locals, SessionsBound, HasSession
<1>3. ASSUME NEW c \in Conns, Step(c) PROVE SessionsBound'
  <2>0. \A d \in Conns : d # c => /\ pc[d] = "idle" /\ pc'[d] = "idle"
                                  /\ status'[d] = status[d] /\ frame'[d] = frame[d]
    BY <1>0, <1>3, OthersIdle, OtherThreads DEF Step, SerialInv
  <2> DEFINE l == frame[c].login
  <2>1. CASE Bind(c)
    <3>1. l \in Logins /\ loginPasscode[l] = Null
      BY <2>1 DEF Bind, SerialInv, Undisturbed, LoginFree
    <3>2. /\ loginConnectionId' = [loginConnectionId EXCEPT ![l] = c]
          /\ connectionIdTologin' = [connectionIdTologin EXCEPT ![c] = l]
          /\ loginPasscode' = loginPasscode /\ pc' = [pc EXCEPT ![c] = "passcode"]
          /\ frame' = frame /\ status' = status
      BY <2>1, <3>1 DEF Bind, BindLogin, Goto, locals
    <3>3. status[c] # "new"
      BY <1>0, <2>1 DEF Bind, Consistent, ThreadConsistent
    <3>4. ASSUME NEW d \in Conns, d # c, connectionIdTologin[d] = l
          PROVE  ~HasSession(d)
      BY <1>0, <2>0, <3>1, <3>4, NullAssumption DEF SessionsBound
    <3> QED BY <1>0, <2>0, <3>1, <3>2, <3>3, <3>4 DEF SessionsBound, HasSession
  <2>2. CASE PutPasscode(c)
    <3>1. /\ l \in Logins /\ frame[c].passcode \in Passcodes
          /\ connectionIdTologin[c] = l /\ loginConnectionId[l] = c
      BY <2>2 DEF PutPasscode, SerialInv, Undisturbed, LoginFree, LoginHalfBound
    <3>2. /\ UNCHANGED <<connectionIdTologin, loginConnectionId>>
          /\ loginPasscode' = [loginPasscode EXCEPT ![l] = frame[c].passcode]
          /\ status' = status /\ pc' = [pc EXCEPT ![c] = "idle"]
      BY <2>2 DEF PutPasscode, Return, Leave, Goto
    <3>3. \A m \in Logins : loginPasscode'[m] # Null <=> loginPasscode[m] # Null \/ m = l
      BY <1>0, <3>1, <3>2, NullAssumption
    <3>4. pc[c] = "passcode"
      BY <2>2 DEF PutPasscode
    <3> SUFFICES ASSUME NEW d \in Conns
                 PROVE  LET m == connectionIdTologin[d] IN
                        /\ status[d] = "new" => m = Null
                        /\ HasSession(d) /\ m # Null =>
                              /\ loginConnectionId[m] = d
                              /\ loginPasscode'[m] # Null
      BY <1>0, <3>2 DEF SessionsBound, HasSession
    <3>5. connectionIdTologin[d] # Null => connectionIdTologin[d] \in Logins
      BY <1>0 DEF Nullable
    <3>6. CASE d = c
      BY <1>0, <3>1, <3>3, <3>5, <3>6 DEF SessionsBound
    <3>7. CASE d # c
      BY <1>0, <2>0, <3>3, <3>5, <3>7 DEF SessionsBound
    <3> QED BY <3>6, <3>7
  <2>3. CASE RemoveLogin(c)
    <3> DEFINE mine == connectionIdTologin[c]
    <3>1. /\ loginPasscode' = loginPasscode
          /\ connectionIdTologin' = [connectionIdTologin EXCEPT ![c] = Null]
          /\ loginConnectionId' =
                [m \in Logins |-> IF m = mine THEN Null ELSE loginConnectionId[m]]
          /\ pc[c] = "unbind" /\ pc'[c] \in {"idle", "leave"}
          /\ status[c] \notin {"new", "open"} /\ status'[c] \notin {"new", "open"}
      BY <1>0, <2>3 DEF RemoveLogin, RemoveSession, Throw, Leave, Goto, Consistent,
         ThreadConsistent
    <3>2. ASSUME NEW d \in Conns, d # c, HasSession(d), connectionIdTologin[d] # Null
          PROVE  /\ connectionIdTologin[d] \in Logins /\ connectionIdTologin[d] # mine
                 /\ loginConnectionId[connectionIdTologin[d]] = d
                 /\ loginPasscode[connectionIdTologin[d]] # Null
      BY <1>0, <2>0, <3>1, <3>2 DEF SessionsBound, Nullable, HasSession
    <3>3. ~HasSession(c)'
      BY <3>1 DEF HasSession
    <3>4. \A d \in Conns : d # c => (HasSession(d)' <=> HasSession(d))
      BY <2>0 DEF HasSession
    <3> QED BY <1>0, <2>0, <3>1, <3>2, <3>3, <3>4 DEF SessionsBound
  <2>4. CASE ~Bind(c) /\ ~PutPasscode(c) /\ ~RemoveLogin(c)
    <3>1. /\ UNCHANGED <<loginPasscode, loginConnectionId, connectionIdTologin>>
          /\ pc[c] # "passcode"
      BY <1>3, <2>4 DEF Step, Eof, Malformed, Request, Connect, ProcessConnect, Send,
         ProcessSend, Subscribe, ProcessSubscribe, Unsubscribe, ProcessUnsubscribe,
         Disconnect, Handle, PutHandler, Check, Stamp, Open, NextRecipient, Write,
         EndSend, CreateList, AddSubscriber, IndexSubscription, RemoveHandler,
         LeaveChannel, GoOn, Pick, RemoveFound, EndScan, Ready, sessions, Rebind,
         SerialInv, Undisturbed, LoginFree
    <3> QED BY <1>3, <3>1, SessionsSame
  <2> QED BY <2>1, <2>2, <2>3, <2>4
<1> QED BY <1>1, <1>2, <1>3 DEF Next, Step

----------------------------------------------------------------------------
(* The thread inside process().                                            *)

LEMMA SendersKnownStep ==
    ASSUME Inv, SendersKnown, [Next]_vars
    PROVE  SendersKnown'
<1>0. /\ TypeOK /\ Consistent
      /\ topicToChannelId \in [Conns -> [Channels -> Nullable(Ids)]]
  BY DEF Inv, TypeOK, TopicTypes
<1>1. \A ch \in Channels : Known(ch) => Known(ch)'
  BY <1>0, KnownForEver DEF Consistent
<1>2. CASE UNCHANGED topicToChannelId
  BY <1>1, <1>2 DEF SendersKnown
<1>3. ASSUME NEW c \in Conns, IndexSubscription(c) PROVE SendersKnown'
  <2>1. frame[c].channel \in Channels /\ Known(frame[c].channel)
    BY <1>0, <1>3 DEF IndexSubscription, Consistent, ThreadConsistent
  <2>2. ASSUME NEW d \in Conns, NEW ch \in Channels, topicToChannelId'[d][ch] # Null
        PROVE  topicToChannelId[d][ch] # Null \/ ch = frame[c].channel
    <3>1. CASE UNCHANGED topicToChannelId
      BY <2>2, <3>1
    <3>2. CASE topicToChannelId' = [topicToChannelId EXCEPT ![c] =
                  [x \in Channels |-> IF x = frame[c].channel THEN frame[c].id ELSE Null]]
      BY <1>0, <2>2, <3>2
    <3> QED BY <1>3, <3>1, <3>2 DEF IndexSubscription, indexes
  <2> QED BY <1>1, <2>1, <2>2 DEF SendersKnown
<1>4. CASE \A c \in Conns : ~IndexSubscription(c)
  <2>1. ASSUME NEW c \in Conns, Eof(c) \/ Malformed(c) \/ Request(c)
        PROVE  UNCHANGED topicToChannelId
    BY <2>1 DEF indexes, Eof, Malformed, Request, Connect, ProcessConnect, Send,
       ProcessSend, Subscribe, ProcessSubscribe, Unsubscribe, ProcessUnsubscribe,
       Disconnect
  <2>2. ASSUME NEW c \in Conns, Handle(c)
        PROVE  UNCHANGED topicToChannelId
    BY <1>4, <2>2 DEF indexes, Handle, PutHandler, Rebind, Bind, PutPasscode, Check,
       Stamp, Open, NextRecipient, Write, EndSend, CreateList, AddSubscriber,
       RemoveHandler, RemoveLogin, LeaveChannel, GoOn, Pick, RemoveFound, EndScan
  <2>3. Accept \/ UNCHANGED vars => UNCHANGED topicToChannelId
    BY DEF Accept, vars, indexes
  <2>4. UNCHANGED topicToChannelId
    BY <2>1, <2>2, <2>3 DEF Next
  <2> QED BY <1>2, <2>4
<1> QED BY <1>3, <1>4

LEMMA ConnectUndisturbed ==
    ASSUME Inv, NEW c \in Conns, SerialInv,
           Connect(c) \/ PutHandler(c) \/ Rebind(c) \/ Bind(c)
    PROVE  Undisturbed(c)'
<1> USE DEF Undisturbed, LoginFree, LoginHalfBound, WalksCurrentList, Entitled, Numbered,
        Addressed, MakesFirstList, AtItself
<1>0. /\ TypeOK /\ frame \in [Conns -> Frames] /\ pc \in [Conns -> Steps]
      /\ loginConnectionId \in [Logins -> Nullable(Conns)]
      /\ connectionIdTologin \in [Conns -> Nullable(Logins)]
  BY DEF Inv, TypeOK, ThreadTypes, SessionTypes
<1>1. CASE Throw(c) \/ Return(c)
  <2>1. pc'[c] = "idle"
    BY <1>0, <1>1, LeftIterator
  <2> QED BY <2>1
<1>2. CASE Connect(c) /\ ~Throw(c)
  <2>1. PICK l \in Logins, p \in Passcodes : ProcessConnect(c, l, p)
    BY <1>2 DEF Connect
  <2> DEFINE f == [NoFrame EXCEPT !.command = "CONNECT", !.login = l, !.passcode = p]
  <2>2. f \in Frames /\ f.login = l /\ f.passcode = p
    BY FrameTypes DEF NoFrame
  <2>3. /\ frame'[c] = f /\ pc'[c] = "put" /\ loginPasscode' = loginPasscode
        /\ loginPasscode[l] = Null
    BY <1>0, <1>2, <2>1, <2>2 DEF ProcessConnect, Goto, WrongPasscode, sessions
  <2> HIDE DEF f
  <2> QED BY <2>2, <2>3
<1>4. CASE PutHandler(c)
  <2>1. /\ pc[c] = "put" /\ frame[c].login \in Logins
        /\ frame[c].passcode \in Passcodes /\ loginPasscode[frame[c].login] = Null
    BY <1>4 DEF PutHandler, SerialInv
  <2>2. pc'[c] = "bind" /\ frame' = frame /\ loginPasscode' = loginPasscode
    BY <1>0, <1>4, <2>1 DEF PutHandler, Goto, locals
  <2> QED BY <2>1, <2>2
<1>3. CASE Bind(c)
  <2>1. /\ pc[c] = "bind" /\ frame[c].login \in Logins
        /\ frame[c].passcode \in Passcodes /\ loginPasscode[frame[c].login] = Null
    BY <1>3 DEF Bind, SerialInv
  <2>2. /\ loginConnectionId' = [loginConnectionId EXCEPT ![frame[c].login] = c]
        /\ connectionIdTologin' = [connectionIdTologin EXCEPT ![c] = frame[c].login]
        /\ pc'[c] = "passcode" /\ frame' = frame /\ loginPasscode' = loginPasscode
    BY <1>0, <1>3, <2>1 DEF Bind, BindLogin, Goto, locals
  <2> QED BY <1>0, <2>1, <2>2
<1> QED BY <1>1, <1>2, <1>3, <1>4 DEF Rebind

LEMMA SendUndisturbed ==
    ASSUME Inv, NEW c \in Conns,
           Send(c) \/ Check(c) \/ Stamp(c) \/ Open(c) \/ NextRecipient(c) \/ Write(c),
           SerialInv
    PROVE  Undisturbed(c)'
<1> USE DEF Undisturbed, LoginFree, LoginHalfBound, WalksCurrentList, Entitled, Numbered,
        Addressed, MakesFirstList, AtItself, Goto
<1>0. /\ TypeOK /\ frame \in [Conns -> Frames] /\ pc \in [Conns -> Steps]
      /\ iter \in [Conns -> Iterators] /\ delivery \in [Conns -> Deliveries]
      /\ iter[c] \in Iterators /\ delivery[c] \in Deliveries
      /\ channelToConnectionId \in [Channels -> Nullable(ListRefs)]
  BY DEF Inv, TypeOK, ThreadTypes, TopicTypes
<1>1. CASE Throw(c)
  <2>1. pc'[c] = "idle"
    BY <1>0, <1>1, LeftIterator
  <2> QED BY <2>1
<1>2. CASE Send(c)
  <2>1. PICK ch \in Channels, receipt \in Nullable(Receipts) : ProcessSend(c, ch, receipt)
    BY <1>2 DEF Send
  <2> DEFINE f == [NoFrame EXCEPT !.command = "SEND", !.channel = ch, !.receipt = receipt]
  <2>2. f \in Frames /\ f.channel = ch
    BY FrameTypes DEF NoFrame
  <2>3. frame'[c] = f /\ UNCHANGED <<channelToConnectionId, lists, topicToChannelId>>
    BY <1>0, <2>1, <2>2 DEF ProcessSend, rosters, indexes
  <2> HIDE DEF f
  <2>4. CASE channelToConnectionId[ch] = Null
    <3>1. pc'[c] = "stamp"
      BY <1>0, <2>1, <2>4 DEF ProcessSend
    <3>2. topicToChannelId[c][ch] = Null
      BY <2>4 DEF SerialInv, SendersKnown, Known
    <3> QED BY <2>2, <2>3, <3>1, <3>2
  <2>5. CASE channelToConnectionId[ch] # Null
    <3>1. pc'[c] = "check" /\ iter'[c] = IteratorOn(channelToConnectionId[ch])
      BY <1>0, <2>1, <2>5 DEF ProcessSend
    <3>2. iter'[c].list = channelToConnectionId[ch] /\ ~iter'[c].stale
      BY <3>1 DEF IteratorOn
    <3> QED BY <2>2, <2>3, <2>5, <3>1, <3>2 DEF Known
  <2> QED BY <2>4, <2>5
<1>3. CASE Check(c) /\ ~Throw(c)
  <2>1. /\ pc'[c] = "stamp" /\ frame' = frame /\ pc[c] = "check"
        /\ UNCHANGED <<channelToConnectionId, lists>> /\ Contains(Body(c), c)
    BY <1>0, <1>3 DEF Check, IsSubscriber, locals, rosters
  <2>2. Body(c) = Subscribers(frame[c].channel)
    BY <2>1 DEF SerialInv, Body, Subscribers, Known
  <2>3. Contains(Subscribers(frame[c].channel), c)'
    BY <2>1, <2>2 DEF Subscribers
  <2> QED BY <2>1, <2>3
<1>4. CASE Stamp(c) /\ ~Throw(c)
  <2>1. /\ pc'[c] = "open" /\ frame' = frame /\ pc[c] = "stamp" /\ messageId' = messageId
        /\ UNCHANGED <<channelToConnectionId, lists>>
        /\ topicToChannelId[c][frame[c].channel] # Null
        /\ delivery'[c].mid = messageId
    BY <1>0, <1>4 DEF Stamp, rosters, counters, Deliveries
  <2>2. Contains(Subscribers(frame[c].channel), c)
    BY <2>1 DEF SerialInv
  <2>3. Contains(Subscribers(frame[c].channel), c)'
    BY <2>1, <2>2 DEF Subscribers
  <2> QED BY <2>1, <2>3
<1>5. CASE Open(c) /\ ~Throw(c)
  <2> DEFINE ref == channelToConnectionId[frame[c].channel]
  <2>1. /\ pc'[c] = "next" /\ frame' = frame /\ pc[c] = "open"
        /\ UNCHANGED <<channelToConnectionId, lists>> /\ ref # Null
        /\ iter'[c] = IteratorOn(ref) /\ delivery'[c].audience = ToSet(lists[ref])
    BY <1>0, <1>5 DEF Open, rosters, Deliveries
  <2>2. iter'[c].list = ref /\ ~iter'[c].stale
    BY <2>1 DEF IteratorOn
  <2>3. Contains(Subscribers(frame[c].channel), c)'
    BY <2>1 DEF SerialInv, Subscribers
  <2>4. ToSet(Body(c))' = ToSet(lists[ref])
    BY <2>1, <2>2 DEF Body
  <2> QED BY <2>1, <2>2, <2>3, <2>4 DEF Known
<1>6. CASE (NextRecipient(c) \/ Write(c)) /\ ~Throw(c)
  <2>1. /\ pc[c] \in {"recipient", "write"} /\ frame' = frame
        /\ UNCHANGED <<channelToConnectionId, lists>>
        /\ iter'[c].list = iter[c].list /\ iter'[c].stale = iter[c].stale
        /\ delivery'[c].audience = delivery[c].audience
        /\ \/ pc'[c] = "next"
           \/ pc'[c] = "write" /\ delivery'[c].mid = messageId /\ messageId' = messageId
    BY <1>0, <1>6 DEF NextRecipient, Write, rosters, counters, Iterators, Deliveries
  <2>2. Contains(Subscribers(frame[c].channel), c)'
    BY <2>1 DEF SerialInv, Subscribers
  <2>3. Body(c)' = Body(c)
    BY <2>1 DEF Body
  <2> QED BY <2>1, <2>2, <2>3 DEF SerialInv, Known
<1> QED BY <1>1, <1>2, <1>3, <1>4, <1>5, <1>6

LEMMA OtherUndisturbed ==
    ASSUME Inv, NEW c \in Conns, SerialInv, Step(c),
           ~Connect(c), ~PutHandler(c), ~Rebind(c), ~Bind(c), ~Send(c), ~Check(c),
           ~Stamp(c), ~Open(c), ~NextRecipient(c), ~Write(c)
    PROVE  Undisturbed(c)'
<1>0. /\ TypeOK /\ Consistent /\ frame \in [Conns -> Frames] /\ pc \in [Conns -> Steps]
      /\ channelToConnectionId \in [Channels -> Nullable(ListRefs)]
      /\ lists \in [ListRefs -> Seq(Conns)]
  BY DEF Inv, TypeOK, ThreadTypes, TopicTypes
<1> USE DEF Goto
<1>1. CASE Throw(c) \/ Return(c)
  BY <1>0, <1>1, LeftIterator, IdleUndisturbed
<1>2. CASE pc'[c] \in {"idle", "add", "scan", "pick", "unregister", "unbind", "leave"}
  BY <1>2 DEF Undisturbed, LoginFree, LoginHalfBound, WalksCurrentList, Entitled,
     Numbered, Addressed, MakesFirstList, AtItself
<1>3. CASE Eof(c) \/ Malformed(c) \/ Unsubscribe(c) \/ Disconnect(c)
  BY <1>0, <1>1, <1>2, <1>3 DEF Eof, Malformed, Unsubscribe, ProcessUnsubscribe,
     Disconnect, Ready, locals
<1>4. CASE PutPasscode(c) \/ EndSend(c) \/ CreateList(c) \/ IndexSubscription(c)
           \/ RemoveHandler(c) \/ RemoveLogin(c) \/ LeaveChannel(c) \/ RemoveFound(c)
           \/ EndScan(c)
  BY <1>0, <1>1, <1>2, <1>4 DEF PutPasscode, EndSend, CreateList, IndexSubscription,
     RemoveHandler, RemoveLogin, LeaveChannel, RemoveFound, EndScan
<1>5. CASE AddSubscriber(c)
  <2> DEFINE ref == channelToConnectionId[frame[c].channel]
  <2>1. frame[c].channel \in Channels /\ ref \in ListRefs /\ ref # Null
    BY <1>0, <1>5, NullAssumption DEF AddSubscriber, Consistent, ThreadConsistent, Known,
       Nullable
  <2>2. /\ pc'[c] = "index" /\ frame' = frame
        /\ channelToConnectionId' = channelToConnectionId
        /\ lists'[ref] = Append(lists[ref], c)
    BY <1>0, <1>5, <2>1 DEF AddSubscriber, Join
  <2>3. Contains(Append(lists[ref], c), c)
    <3>1. lists[ref] \in Seq(Conns)
      BY <1>0, <2>1
    <3>2. /\ Len(Append(lists[ref], c)) = Len(lists[ref]) + 1
          /\ Append(lists[ref], c)[Len(lists[ref]) + 1] = c
      BY <3>1
    <3> QED BY <3>1, <3>2 DEF Contains
  <2>4. Contains(Subscribers(frame[c].channel), c)'
    BY <2>1, <2>2, <2>3 DEF Subscribers
  <2> QED BY <2>2, <2>4 DEF Undisturbed, LoginFree, LoginHalfBound, WalksCurrentList,
          Entitled, Numbered, Addressed, MakesFirstList, AtItself
<1>6. CASE Subscribe(c)
  <2>1. CASE pc'[c] = "create"
    <3>1. ~Known(frame'[c].channel) /\ UNCHANGED channelToConnectionId
      BY <1>0, <1>6, <2>1, ToCreate DEF Eof, Subscribe, ProcessSubscribe, Ready
    <3> QED BY <2>1, <3>1 DEF Known, Undisturbed, LoginFree, LoginHalfBound,
            WalksCurrentList, Entitled, Numbered, Addressed, MakesFirstList, AtItself
  <2>2. CASE pc'[c] # "create"
    BY <1>0, <1>2, <1>6, <2>2 DEF Subscribe, ProcessSubscribe
  <2> QED BY <2>1, <2>2
<1>7. CASE Pick(c) /\ ~Throw(c)
  <2> DEFINE n == iter[c].at
  <2>1. iter[c] \in Iterators /\ iter \in [Conns -> Iterators] /\ Body(c) \in Seq(Conns)
    <3>1. iter[c].list \in ListRefs
      BY <1>0, <1>7 DEF Pick, Consistent, ThreadConsistent
    <3> QED BY <1>0, <3>1 DEF TypeOK, ThreadTypes, Body
  <2>2. n + 1 \in 1 .. Len(Body(c))
    BY <1>7, <2>1 DEF Pick, NextThrows, HasNext, Iterators
  <2>3. /\ iter'[c].at = n + 1 /\ iter'[c].list = iter[c].list
        /\ lists' = lists
        /\ pc'[c] = IF Matches(c, Body(c)[n + 1]) THEN "remove" ELSE "scan"
    BY <1>0, <1>7, <2>1 DEF Pick, PositionAfter, Iterators, rosters
  <2>4. CASE ~Matches(c, Body(c)[n + 1])
    BY <1>2, <2>3, <2>4
  <2>5. CASE Matches(c, Body(c)[n + 1])
    <3>1. Body(c)' = Body(c) /\ Body(c)[n + 1] = c
      BY <2>3, <2>5 DEF Body, Matches
    <3> QED BY <2>2, <2>3, <2>5, <3>1 DEF Undisturbed, LoginFree, LoginHalfBound,
            WalksCurrentList, Entitled, Numbered, Addressed, MakesFirstList, AtItself
  <2> QED BY <2>4, <2>5
<1>8. CASE GoOn(c)
  <2>1. CASE pc[c] = "scan"
    BY <1>0, <1>2, <1>8, <2>1 DEF GoOn
  <2>2. CASE pc[c] = "next"
    <3>1. /\ pc'[c] = "recipient"
          /\ UNCHANGED <<frame, iter, delivery, channelToConnectionId, lists>>
      BY <1>0, <1>8, <2>2 DEF GoOn, locals, rosters
    <3> QED BY <2>2, <3>1 DEF SerialInv, Undisturbed, LoginFree, LoginHalfBound,
            WalksCurrentList, Entitled, Numbered, Addressed, MakesFirstList, AtItself,
            Known, Subscribers, Body
  <2> QED BY <1>8, <2>1, <2>2 DEF GoOn
<1> QED BY <1>1, <1>3, <1>4, <1>5, <1>6, <1>7, <1>8 DEF Step, Request, Handle

LEMMA SerialInit == Init => SerialInv
<1> SUFFICES ASSUME Init PROVE SerialInv
  OBVIOUS
<1>1. \A c \in Conns : Undisturbed(c)
  BY DEF Init, Undisturbed, LoginFree, LoginHalfBound, WalksCurrentList, Entitled,
     Numbered, Addressed, MakesFirstList, AtItself
<1> QED BY <1>1 DEF Init, SerialInv, OneBusy, SessionsBound, SendersKnown

LEMMA SerialStep ==
    ASSUME Overlap = FALSE, Inv, SerialInv, [Next]_vars
    PROVE  SerialInv'
<1>1. OneBusy' /\ SessionsBound' /\ SendersKnown'
  BY OneBusyStep, SessionsStep, SendersKnownStep DEF SerialInv
<1>2. CASE Accept
  <2>1. \A c \in Conns : pc'[c] = "idle"
    BY <1>2 DEF Accept, Turn
  <2> QED BY <1>1, <2>1, IdleUndisturbed DEF SerialInv
<1>3. CASE UNCHANGED vars
  <2>1. \A c \in Conns : Undisturbed(c)'
    BY <1>3 DEF vars, counters, sessions, rosters, indexes, locals, SerialInv,
       Undisturbed, LoginFree, LoginHalfBound, WalksCurrentList, Entitled, Numbered,
       Addressed, MakesFirstList, AtItself, Known, Subscribers, Body
  <2> QED BY <1>1, <2>1 DEF SerialInv
<1>4. ASSUME NEW c \in Conns, Step(c) PROVE SerialInv'
  <2>1. ASSUME NEW d \in Conns, d # c PROVE Undisturbed(d)'
    BY <1>4, <2>1, OthersIdle, IdleUndisturbed DEF SerialInv
  <2>2. Undisturbed(c)'
    BY <1>4, ConnectUndisturbed, SendUndisturbed, OtherUndisturbed
  <2> QED BY <1>1, <2>1, <2>2 DEF SerialInv
<1> QED BY <1>2, <1>3, <1>4 DEF Next, Step

LEMMA SerialAlways ==
    ASSUME Overlap = FALSE
    PROVE  Spec => [](Inv /\ DeliveryInv /\ SerialInv)
<1>1. Spec => [](Inv /\ DeliveryInv)
  BY DeliveryAlways
<1>2. Inv /\ SerialInv /\ [Next]_vars => SerialInv'
  BY SerialStep
<1> QED BY <1>1, <1>2, SerialInit, PTL DEF Spec

----------------------------------------------------------------------------
(* Who writes what.                                                        *)

\* The steps that write a frame to a client.
LEMMA WireWriters ==
    ASSUME [Next]_vars, ~UNCHANGED vars, wire' # Null
    PROVE  \E c \in Conns :
              \/ wire'.to = c /\ wire'.command = "CONNECTED" /\ Handle(c)
                 /\ (PutPasscode(c) \/ Rebind(c))
              \/ wire'.to = c /\ wire'.command = "RECEIPT" /\ Handle(c)
                 /\ (IndexSubscription(c) \/ (EndScan(c) /\ frame[c].command = "UNSUBSCRIBE"))
              \/ wire'.command = "MESSAGE" /\ Write(c)
<1> USE DEF Silent
<1>1. ~Accept
  BY DEF Accept
<1>2. PICK c \in Conns : Step(c)
  BY <1>1 DEF Next, Step
<1>3. Handle(c)
  BY <1>2 DEF Step, Eof, Malformed, Request, Connect, ProcessConnect, Send, ProcessSend,
     Subscribe, ProcessSubscribe, Unsubscribe, ProcessUnsubscribe, Disconnect
<1>4. Rebind(c) \/ PutPasscode(c) \/ IndexSubscription(c) \/ EndScan(c) \/ Write(c)
  BY <1>3 DEF Handle, PutHandler, Bind, Check, Stamp, Open, NextRecipient, EndSend, CreateList,
     AddSubscriber, RemoveHandler, RemoveLogin, LeaveChannel, GoOn, Pick, RemoveFound
<1>5. CASE Rebind(c) \/ PutPasscode(c)
  BY <1>3, <1>5 DEF Rebind, PutPasscode, Answer
<1>6. CASE IndexSubscription(c)
  BY <1>3, <1>6 DEF IndexSubscription, AnswerReceipt, Answer
<1>7. CASE EndScan(c)
  BY <1>3, <1>7 DEF EndScan, AnswerReceipt, Answer
<1>8. CASE Write(c)
  BY <1>8 DEF Write
<1> QED BY <1>4, <1>5, <1>6, <1>7, <1>8

LEMMA PasscodeWriters ==
    ASSUME [Next]_vars, loginPasscode' # loginPasscode
    PROVE  \E c \in Conns : PutPasscode(c)
<1>1. ASSUME NEW c \in Conns, Eof(c) \/ Malformed(c) \/ Request(c) PROVE FALSE
  BY <1>1 DEF sessions, Eof, Malformed, Request, Connect, ProcessConnect, Send,
     ProcessSend, Subscribe, ProcessSubscribe, Unsubscribe, ProcessUnsubscribe,
     Disconnect, RemoveSession
<1>2. ASSUME NEW c \in Conns, Handle(c) PROVE PutPasscode(c)
  BY <1>2 DEF sessions, Handle, PutHandler, Rebind, Bind, Check, Stamp, Open,
     NextRecipient, Write, EndSend, CreateList, AddSubscriber, IndexSubscription,
     RemoveHandler, RemoveLogin, RemoveSession, LeaveChannel, GoOn, Pick, RemoveFound,
     EndScan
<1>3. ~Accept /\ ~UNCHANGED vars
  BY DEF Accept, vars, sessions
<1> QED BY <1>1, <1>2, <1>3 DEF Next

LEMMA NumberWriters ==
    ASSUME [Next]_vars, messageId' # messageId
    PROVE  \E c \in Conns : Open(c) \/ Write(c)
<1>1. ASSUME NEW c \in Conns, Eof(c) \/ Malformed(c) \/ Request(c) PROVE FALSE
  BY <1>1 DEF counters, Eof, Malformed, Request, Connect, ProcessConnect, Send,
     ProcessSend, Subscribe, ProcessSubscribe, Unsubscribe, ProcessUnsubscribe,
     Disconnect
<1>2. ASSUME NEW c \in Conns, Handle(c) PROVE Open(c) \/ Write(c)
  BY <1>2 DEF counters, Handle, PutHandler, Rebind, Bind, PutPasscode, Check, Stamp,
     NextRecipient, EndSend, CreateList, AddSubscriber, IndexSubscription,
     RemoveHandler, RemoveLogin, LeaveChannel, GoOn, Pick, RemoveFound, EndScan
<1>3. ~Accept /\ ~UNCHANGED vars
  BY DEF Accept, vars, counters
<1> QED BY <1>1, <1>2, <1>3 DEF Next

----------------------------------------------------------------------------
(* Steps that the properties forbid.                                       *)

LEMMA ConnectedStep ==
    ASSUME Inv, SerialInv, [Next]_vars, ~UNCHANGED vars, NEW c \in Conns,
           Answered(c, "CONNECTED")
    PROVE  loginPasscode'[frame[c].login] = frame[c].passcode
<1>1. PutPasscode(c)
  <2>1. PutPasscode(c) \/ Rebind(c)
    BY WireWriters DEF Answered
  <2> QED BY <2>1 DEF Rebind, SerialInv, Undisturbed, LoginFree
<1>2. pc[c] = "passcode"
  BY <1>1 DEF PutPasscode
<1>3. frame[c].login \in Logins /\ loginPasscode[frame[c].login] = Null
  BY <1>2 DEF SerialInv, Undisturbed, LoginFree
<1>4. loginPasscode' = [loginPasscode EXCEPT ![frame[c].login] = frame[c].passcode]
  BY <1>1, <1>3 DEF PutPasscode
<1> QED BY <1>3, <1>4 DEF Inv, TypeOK, SessionTypes

LEMMA PasscodeStep ==
    ASSUME Inv, SerialInv, [Next]_vars, NEW l \in Logins, loginPasscode[l] # Null
    PROVE  loginPasscode'[l] = loginPasscode[l]
<1>1. SUFFICES ASSUME loginPasscode' # loginPasscode PROVE loginPasscode'[l] = loginPasscode[l]
  OBVIOUS
<1>2. PICK c \in Conns : PutPasscode(c)
  BY <1>1, PasscodeWriters
<1>3. loginPasscode[frame[c].login] = Null
  BY <1>2 DEF SerialInv, Undisturbed, LoginFree, PutPasscode
<1>4. loginPasscode' = [loginPasscode EXCEPT ![frame[c].login] = frame[c].passcode]
  BY <1>2 DEF PutPasscode
<1> QED BY <1>3, <1>4 DEF Inv, TypeOK, SessionTypes

LEMMA ReceiptStep ==
    ASSUME Inv, SerialInv, [Next]_vars, ~UNCHANGED vars, NEW c \in Conns,
           Answered(c, "RECEIPT"), frame[c].command = "SUBSCRIBE"
    PROVE  Contains(Subscribers(frame[c].channel), c)
           /\ UNCHANGED <<channelToConnectionId, lists>>
<1>1. IndexSubscription(c)
  BY WireWriters DEF Answered
<1>2. pc[c] = "index" /\ UNCHANGED <<channelToConnectionId, lists>>
  BY <1>1 DEF IndexSubscription, rosters
<1> QED BY <1>2 DEF SerialInv, Undisturbed, Entitled

LEMMA NumberStep ==
    ASSUME Inv, SerialInv, [Next]_vars, ~UNCHANGED vars
    PROVE  /\ messageId <= messageId'
           /\ wire' # Null /\ wire'.command = "MESSAGE" =>
                 messageId <= wire'.mid /\ wire'.mid < messageId'
<1>0. messageId \in Nat
  BY DEF Inv, TypeOK
<1>1. ASSUME NEW c \in Conns, Open(c) \/ Write(c)
      PROVE  delivery[c].mid = messageId /\ messageId' = messageId + 1
  <2>1. delivery[c].mid = messageId
    BY <1>1 DEF Open, Write, SerialInv, Undisturbed, Numbered
  <2> QED BY <1>1, <2>1 DEF Open, Write, Increment
<1>2. messageId <= messageId'
  BY <1>0, <1>1, NumberWriters
<1>3. ASSUME wire' # Null, wire'.command = "MESSAGE"
      PROVE  messageId <= wire'.mid /\ wire'.mid < messageId'
  <2>1. PICK c \in Conns : Write(c)
    BY <1>3, WireWriters
  <2>2. wire'.mid = delivery[c].mid
    BY <1>3, <2>1 DEF Write, Silent
  <2> QED BY <1>0, <1>1, <2>1, <2>2
<1> QED BY <1>2, <1>3

LEMMA BroadcastStep ==
    ASSUME Overlap = FALSE, Inv, DeliveryInv, SerialInv, [Next]_vars, NEW c \in Conns,
           pc[c] = "next", pc'[c] = "idle", status'[c] = "open"
    PROVE  delivery[c].audience \subseteq delivery[c].reached
<1>0. /\ TypeOK /\ Consistent /\ pc \in [Conns -> Steps] /\ iter[c] \in Iterators
      /\ status \in [Conns -> {"new", "open", "eof", "logout", "failed"}]
  BY DEF Inv, TypeOK, ThreadTypes
<1>1. Step(c)
  <2>1. ~Accept /\ ~UNCHANGED vars
    BY DEF Accept, vars, locals
  <2>2. PICK b \in Conns : Step(b)
    BY <2>1 DEF Next, Step
  <2> QED BY <1>0, <2>2, OtherThreads DEF Step
<1>2. ~Throw(c)
  BY <1>0 DEF Throw
<1>3. EndSend(c)
  BY <1>0, <1>1, <1>2 DEF Step, Eof, Malformed, Request, Connect, ProcessConnect, Send,
     ProcessSend, Subscribe, ProcessSubscribe, Unsubscribe, ProcessUnsubscribe,
     Disconnect, Ready, Handle, PutHandler, Rebind, Bind, PutPasscode, Check, Stamp,
     Open, NextRecipient, Write, CreateList, AddSubscriber, IndexSubscription,
     RemoveHandler, RemoveLogin, LeaveChannel, GoOn, Pick, RemoveFound, EndScan, Goto
<1>4. Body(c) \in Seq(Conns)
  BY <1>0 DEF Consistent, ThreadConsistent, Body, TypeOK, TopicTypes
<1>5. iter[c].at >= Len(Body(c)) /\ iter[c].at \in Nat
  BY <1>0, <1>3, <1>4 DEF EndSend, HasNext, Iterators
<1>6. ~iter[c].stale /\ delivery[c].audience = ToSet(Body(c))
  BY DEF SerialInv, Undisturbed, WalksCurrentList, Addressed
<1>7. delivery[c].reached = FirstOf(c, iter[c].at)
  BY <1>6 DEF DeliveryInv, Walked
<1>8. ToSet(Body(c)) \subseteq FirstOf(c, iter[c].at)
  BY <1>4, <1>5 DEF ToSet, FirstOf
<1> QED BY <1>6, <1>7, <1>8

----------------------------------------------------------------------------
(* Counting.                                                               *)

Places(s, d) == {k \in DOMAIN s : s[k] = d}

\* 1 if A holds, else 0.
One(A) == IF A THEN 1 ELSE 0

LEMMA CountFinite ==
    ASSUME NEW S, NEW s \in Seq(S), NEW d
    PROVE  /\ IsFiniteSet(Places(s, d)) /\ Places(s, d) \subseteq 1 .. Len(s)
           /\ Count(s, d) = Cardinality(Places(s, d))
           /\ Count(s, d) \in Nat
<1>1. IsFiniteSet(1 .. Len(s))
  BY FS_Interval
<1>2. Places(s, d) \in SUBSET (1 .. Len(s))
  BY DEF Places
<1>3. IsFiniteSet(Places(s, d))
  BY <1>1, <1>2, FS_Subset
<1>4. Cardinality(Places(s, d)) \in Nat
  BY <1>3, FS_CardinalityType
<1> QED BY <1>2, <1>3, <1>4 DEF Count, Places

LEMMA CountEmpty ==
    ASSUME NEW d
    PROVE  Count(<< >>, d) = 0
<1>1. {k \in DOMAIN << >> : << >>[k] = d} = {}
  OBVIOUS
<1> QED BY <1>1, FS_EmptySet DEF Count

LEMMA CountNone ==
    ASSUME NEW S, NEW s \in Seq(S), NEW d
    PROVE  Count(s, d) = 0 <=> ~Contains(s, d)
<1>1. Count(s, d) = 0 <=> Places(s, d) = {}
  BY CountFinite, FS_EmptySet
<1>2. Places(s, d) = {} <=> ~Contains(s, d)
  BY DEF Places, Contains
<1> QED BY <1>1, <1>2

LEMMA CountAppend ==
    ASSUME NEW S, NEW s \in Seq(S), NEW e \in S, NEW d
    PROVE  Count(Append(s, e), d) = Count(s, d) + One(e = d)
<1> DEFINE n == Len(s) + 1
<1>1. Append(s, e) \in Seq(S)
  OBVIOUS
<1>2. Count(Append(s, e), d) = Cardinality(Places(Append(s, e), d))
  BY <1>1, CountFinite
<1>3. n \notin Places(s, d)
  BY DEF Places
<1>4. CASE e = d
  <2>1. Places(Append(s, e), d) = Places(s, d) \cup {n}
    BY <1>4 DEF Places
  <2>2. Cardinality(Places(s, d) \cup {n}) = Cardinality(Places(s, d)) + 1
    BY <1>3, CountFinite, FS_AddElement
  <2> QED BY <1>2, <1>4, <2>1, <2>2, CountFinite DEF One
<1>5. CASE e # d
  <2>1. Places(Append(s, e), d) = Places(s, d)
    BY <1>5 DEF Places
  <2> QED BY <1>2, <1>5, <2>1, CountFinite DEF One
<1> QED BY <1>4, <1>5

\* Positions behind the one that is taken out move down by one.
LEMMA CountTakenOut ==
    ASSUME NEW S, NEW s \in Seq(S), NEW t \in Seq(S), NEW i \in 1 .. Len(s), NEW d,
           Len(t) = Len(s) - 1,
           \A k \in 1 .. Len(s) - 1 : t[k] = IF k < i THEN s[k] ELSE s[k + 1]
    PROVE  Count(s, d) = Count(t, d) + One(s[i] = d)
<1> DEFINE Others == Places(s, d) \ {i}
           f == [k \in Others |-> IF k < i THEN k ELSE k - 1]
           g == [k \in Places(t, d) |-> IF k < i THEN k ELSE k + 1]
<1>1. /\ Count(s, d) = Cardinality(Places(s, d)) /\ IsFiniteSet(Places(s, d))
      /\ Count(t, d) = Cardinality(Places(t, d)) /\ IsFiniteSet(Places(t, d))
      /\ Count(t, d) \in Nat /\ Count(s, d) \in Nat
  BY CountFinite
<1>2. IsFiniteSet(Others) /\ Cardinality(Others) \in Nat
  <2>1. Others \in SUBSET Places(s, d)
    OBVIOUS
  <2>2. IsFiniteSet(Others)
    BY <1>1, <2>1, FS_Subset
  <2> QED BY <2>2, FS_CardinalityType
<1>3. Cardinality(Others) <= Cardinality(Places(t, d))
  <2>1. \A k \in Others : f[k] \in Places(t, d)
    BY DEF Places
  <2>2. \A j, k \in Others : f[j] = f[k] => j = k
    BY DEF Places
  <2>3. f \in Injection(Others, Places(t, d))
    BY <2>1, <2>2 DEF Injection, IsInjective
  <2> HIDE DEF f, Others
  <2> QED BY <1>1, <2>3, FS_Injection
<1>4. Cardinality(Places(t, d)) <= Cardinality(Others)
  <2>1. \A k \in Places(t, d) : g[k] \in Others
    BY DEF Places
  <2>2. \A j, k \in Places(t, d) : g[j] = g[k] => j = k
    BY DEF Places
  <2>3. g \in Injection(Places(t, d), Others)
    BY <2>1, <2>2 DEF Injection, IsInjective
  <2> HIDE DEF g, Others
  <2> QED BY <1>2, <2>3, FS_Injection
<1>5. CASE s[i] = d
  <2>1. i \in Places(s, d)
    BY <1>5 DEF Places
  <2>2. Cardinality(Others) = Cardinality(Places(s, d)) - 1
    BY <1>1, <2>1, FS_RemoveElement
  <2> HIDE DEF Others
  <2> QED BY <1>1, <1>2, <1>3, <1>4, <1>5, <2>2 DEF One
<1>6. CASE s[i] # d
  <2>1. Others = Places(s, d)
    BY <1>6 DEF Places
  <2> HIDE DEF Others
  <2> QED BY <1>1, <1>2, <1>3, <1>4, <1>6, <2>1 DEF One
<1> QED BY <1>5, <1>6

LEMMA CountRemove ==
    ASSUME NEW S, NEW s \in Seq(S), NEW i \in 1 .. Len(s), NEW d
    PROVE  Count(s, d) = Count(RemoveAt(s, i), d) + One(s[i] = d)
BY RemoveAtProperties, CountTakenOut

LEMMA CountTail ==
    ASSUME NEW S, NEW s \in Seq(S), s # << >>, NEW d
    PROVE  Count(s, d) = Count(Tail(s), d) + One(Head(s) = d)
<1> DEFINE t == Tail(s)
<1>1. t \in Seq(S) /\ Len(t) = Len(s) - 1 /\ 1 \in 1 .. Len(s) /\ Head(s) = s[1]
  OBVIOUS
<1>2. \A k \in 1 .. Len(s) - 1 : t[k] = s[k + 1]
  OBVIOUS
<1> HIDE DEF t
<1>3. \A k \in 1 .. Len(s) - 1 : t[k] = IF k < 1 THEN s[k] ELSE s[k + 1]
  <2> SUFFICES ASSUME NEW k \in 1 .. Len(s) - 1 PROVE t[k] = s[k + 1] /\ ~(k < 1)
    OBVIOUS
  <2>1. ~(k < 1)
    OBVIOUS
  <2> QED BY <1>2, <2>1
<1>4. Count(s, d) = Count(t, d) + One(s[1] = d)
  BY <1>1, <1>3, CountTakenOut
<1> QED BY <1>1, <1>4 DEF t

LEMMA RemovalStep ==
    ASSUME Inv, SerialInv, [Next]_vars, NEW c \in Conns, NEW ch \in Channels,
           Count(Subscribers(ch)', c) < Count(Subscribers(ch), c)
    PROVE  pc[c] = "remove" /\ pc'[c] # "remove"
<1> DEFINE ref == channelToConnectionId[ch]
<1>0. /\ TypeOK /\ Consistent /\ pc \in [Conns -> Steps]
      /\ channelToConnectionId \in [Channels -> Nullable(ListRefs)]
      /\ lists \in [ListRefs -> Seq(Conns)]
  BY DEF Inv, TypeOK, TopicTypes, ThreadTypes
<1>1. Subscribers(ch) \in Seq(Conns) /\ Subscribers(ch)' \in Seq(Conns)
  <2>1. Subscribers(ch) \in Seq(Conns)
    BY <1>0 DEF Subscribers, Nullable
  <2>2. /\ channelToConnectionId' \in [Channels -> Nullable(ListRefs)]
        /\ lists' \in [ListRefs -> Seq(Conns)]
    BY TypeStep DEF TypeOK, TopicTypes
  <2>3. Subscribers(ch)' \in Seq(Conns)
    BY <2>2 DEF Subscribers, Nullable
  <2> QED BY <2>1, <2>3
<1> DEFINE new == Subscribers(ch)'
           old == Subscribers(ch)
<1>2. Count(new, c) \in Nat /\ Count(old, c) \in Nat /\ new # old
  <2>1. Count(old, c) \in Nat
    BY <1>1, CountFinite
  <2>2. Count(new, c) \in Nat
    BY <1>1, CountFinite
  <2>3. new # old
    <3> SUFFICES ASSUME new = old PROVE FALSE
      OBVIOUS
    <3>1. Count(new, c) < Count(old, c)
      OBVIOUS
    <3> QED BY <2>1, <3>1
  <2> QED BY <2>1, <2>2, <2>3
<1>3. ~UNCHANGED <<channelToConnectionId, lists>>
  BY <1>2 DEF Subscribers
<1>4. PICK b \in Conns : CreateList(b) \/ AddSubscriber(b) \/ RemoveFound(b)
  BY <1>3, RosterWriters
<1>5. ~CreateList(b)
  <2> SUFFICES ASSUME CreateList(b) PROVE FALSE
    OBVIOUS
  <2> DEFINE mine == frame[b].channel
  <2>1. /\ lists' = [lists EXCEPT ![<<mine, b>>] = << >>]
        /\ channelToConnectionId' = [channelToConnectionId EXCEPT ![mine] = <<mine, b>>]
        /\ ~Known(mine)
    BY DEF CreateList, SerialInv, Undisturbed, MakesFirstList
  <2>2. CASE ch = mine
    <3>1. Subscribers(ch) = << >>
      BY <2>1, <2>2 DEF Subscribers, Known
    <3>2. Count(<< >>, c) = 0
      BY CountEmpty
    <3> QED BY <1>2, <3>1, <3>2
  <2>3. CASE ch # mine
    <3>1. channelToConnectionId'[ch] = ref
      BY <1>0, <2>1, <2>3
    <3>2. ref # Null => ref[1] = ch /\ ref \in ListRefs
      BY <1>0 DEF Consistent, ReferencesResolve, Known, Nullable
    <3>3. ref # Null => lists'[ref] = lists[ref]
      BY <1>0, <2>1, <2>3, <3>2
    <3> QED BY <1>2, <3>1, <3>3 DEF Subscribers
  <2> QED BY <2>2, <2>3
<1>6. channelToConnectionId' = channelToConnectionId
  BY <1>4, <1>5 DEF AddSubscriber, RemoveFound
<1>7. ref \in ListRefs /\ Subscribers(ch) = lists[ref] /\ Subscribers(ch)' = lists'[ref]
  BY <1>0, <1>2, <1>6 DEF Subscribers, Nullable
<1>8. ~AddSubscriber(b)
  <2> SUFFICES ASSUME AddSubscriber(b) PROVE FALSE
    OBVIOUS
  <2>1. lists'[ref] = Append(lists[ref], b)
    BY <1>0, <1>2, <1>7 DEF AddSubscriber, Join
  <2>2. Count(Append(lists[ref], b), c) = Count(lists[ref], c) + One(b = c)
    BY <1>0, <1>7, CountAppend
  <2> QED BY <1>2, <1>7, <2>1, <2>2 DEF One
<1>9. RemoveFound(b) /\ FoundIndex(b) <= Len(Body(b))
  BY <1>3, <1>4, <1>5, <1>6, <1>8 DEF RemoveFound, SerialInv, Undisturbed, AtItself,
     FoundIndex
<1>10. /\ pc[b] = "remove" /\ FoundIndex(b) \in 1 .. Len(Body(b))
       /\ Body(b)[FoundIndex(b)] = b /\ iter[b].list \in ListRefs
  BY <1>0, <1>9 DEF RemoveFound, SerialInv, Undisturbed, AtItself, FoundIndex, Consistent,
     ThreadConsistent
<1>11. /\ lists' = [lists EXCEPT ![iter[b].list] = RemoveAt(@, FoundIndex(b))]
       /\ pc'[b] = "scan"
  BY <1>0, <1>9, <1>10 DEF RemoveFound, Goto
<1>12. ref = iter[b].list
  BY <1>0, <1>2, <1>7, <1>10, <1>11
<1>13. c = b
  <2> SUFFICES ASSUME c # b PROVE FALSE
    OBVIOUS
  <2>1. Body(b) = lists[ref] /\ lists'[ref] = RemoveAt(lists[ref], FoundIndex(b))
    BY <1>0, <1>11, <1>12, <1>10 DEF Body
  <2>2. Count(lists[ref], c) = Count(RemoveAt(lists[ref], FoundIndex(b)), c) + One(b = c)
    BY <1>0, <1>7, <1>10, <2>1, CountRemove
  <2> QED BY <1>2, <1>7, <2>1, <2>2 DEF One
<1> QED BY <1>10, <1>11, <1>13

----------------------------------------------------------------------------
(* The theorems.                                                           *)

\* One frame at a time, a connection that talks under a login is the one the
\* login is bound to, and the login has a passcode.
THEOREM SerialSessionOwner ==
    ASSUME Overlap = FALSE
    PROVE  Spec => []SessionOwner
<1>1. SerialInv => SessionOwner
  BY DEF SerialInv, SessionsBound, HasSession, SessionOwner, Quiescent
<1> QED BY <1>1, SerialAlways, PTL

\* A SEND past checkValid comes from a subscriber, whatever its channel.
THEOREM SerialOnlySubscribersPublish ==
    ASSUME Overlap = FALSE
    PROVE  Spec => []OnlySubscribersPublish
<1>1. SerialInv => OnlySubscribersPublish
  BY DEF SerialInv, Undisturbed, Entitled, OnlySubscribersPublish
<1> QED BY <1>1, SerialAlways, PTL

\* CONNECTED is an answer to the passcode that is on record from then on.
THEOREM SerialConnectedKnowsPasscode ==
    ASSUME Overlap = FALSE
    PROVE  Spec => ConnectedKnowsPasscode
<1>1. Inv /\ SerialInv /\ [Next]_vars =>
         [\A c \in Conns : Answered(c, "CONNECTED") =>
             loginPasscode'[frame[c].login] = frame[c].passcode]_vars
  BY ConnectedStep
<1> QED BY <1>1, SerialAlways, PTL DEF Spec, ConnectedKnowsPasscode

\* The passcode a login was registered with stays.
THEOREM SerialPasscodeKept ==
    ASSUME Overlap = FALSE
    PROVE  Spec => PasscodeKept
<1>1. Inv /\ SerialInv /\ [Next]_vars =>
         [\A l \in Logins : loginPasscode[l] # Null =>
             loginPasscode'[l] = loginPasscode[l]]_vars
  BY PasscodeStep
<1> QED BY <1>1, SerialAlways, PTL DEF Spec, PasscodeKept

\* Who gets the receipt of a SUBSCRIBE is in the channel's list.
THEOREM SerialReceiptMeansSubscribed ==
    ASSUME Overlap = FALSE
    PROVE  Spec => ReceiptMeansSubscribed
<1>1. Inv /\ SerialInv /\ [Next]_vars =>
         [\A c \in Conns, ch \in Channels :
             /\ Answered(c, "RECEIPT")
             /\ frame[c].command = "SUBSCRIBE" /\ frame[c].channel = ch
             => Contains(Subscribers(ch)', c)]_vars
  BY ReceiptStep DEF Subscribers
<1> QED BY <1>1, SerialAlways, PTL DEF Spec, ReceiptMeansSubscribed

\* No two MESSAGEs carry one message id.
THEOREM SerialMessageIdUnique ==
    ASSUME Overlap = FALSE
    PROVE  Spec => MessageIdUnique
<1>1. Inv /\ SerialInv /\ [Next]_vars =>
         [/\ messageId <= messageId'
          /\ wire' # Null /\ wire'.command = "MESSAGE" =>
                 messageId <= wire'.mid /\ wire'.mid < messageId']_vars
  BY NumberStep
<1> QED BY <1>1, SerialAlways, PTL DEF Spec, MessageIdUnique

\* A SEND whose loop has ended has been written to everyone in the list.
THEOREM SerialNobodySkipped ==
    ASSUME Overlap = FALSE
    PROVE  Spec => NobodySkipped
<1>1. Inv /\ DeliveryInv /\ SerialInv /\ [Next]_vars =>
         [\A c \in Conns :
             pc[c] = "next" /\ pc'[c] = "idle" /\ status'[c] = "open" =>
                 (delivery[c].audience \cap ToSet(Subscribers(frame[c].channel)))
                    \subseteq delivery[c].reached]_vars
  BY BroadcastStep
<1> QED BY <1>1, SerialAlways, PTL DEF Spec, NobodySkipped

\* Removal by position takes out the connection that asked for it.
THEOREM SerialRemovesOnlyItself ==
    ASSUME Overlap = FALSE
    PROVE  Spec => RemovesOnlyItself
<1>1. Inv /\ SerialInv /\ [Next]_vars =>
         [\A c \in Conns, ch \in Channels :
             Count(Subscribers(ch)', c) < Count(Subscribers(ch), c) =>
                 pc[c] = "remove" /\ pc'[c] # "remove"]_vars
  BY RemovalStep
<1> QED BY <1>1, SerialAlways, PTL DEF Spec, RemovesOnlyItself

----------------------------------------------------------------------------
(* Logouts, with ids that the Integer cache holds: how often a list names a *)
(* connection.                                                              *)

\* A channel's list names a connection that may still log out at most as often
\* as the connection's own record, which DISCONNECT will work through.
Recorded(c) ==
    status[c] \in {"new", "open"} => \A ch \in Channels :
        Count(Subscribers(ch), c) <=
            Count(ConnectionIdToChannel[c], ch)
              + One(pc[c] = "index" /\ frame[c].channel = ch)

\* What a DISCONNECT has not removed yet it has still to do.
Leaving(c) ==
    /\ pc[c] \in {"unregister", "unbind"} => \A ch \in Channels :
          Count(Subscribers(ch), c) <= Count(ConnectionIdToChannel[c], ch)
    /\ pc[c] = "leave" => \A ch \in Channels :
          Count(Subscribers(ch), c) <= Count(todo[c], ch)
    /\ pc[c] \in {"scan", "pick", "remove"} /\ frame[c].command = "DISCONNECT" =>
          \A ch \in Channels :
             Count(Subscribers(ch), c) <=
                Count(todo[c], ch) + One(ch = frame[c].channel /\ ~iter[c].stale)

\* The search goes through the current list, and until a removal makes its
\* iterator stale it has come past no element that it would have removed.
Scanning(c) ==
    pc[c] \in {"scan", "pick", "remove"} =>
        /\ Known(frame[c].channel)
        /\ iter[c].list = channelToConnectionId[frame[c].channel]
        /\ pc[c] # "remove" /\ ~iter[c].stale =>
              \A k \in 1 .. iter[c].at : ~Matches(c, Body(c)[k])
        /\ pc[c] = "remove" => ~iter[c].stale

\* The steps at which the invariant says more than Recorded.
Outward == {"unregister", "unbind", "leave", "scan", "pick", "remove"}

OnItsWayOut(c) == Recorded(c) /\ Leaving(c) /\ Scanning(c)

LogoutInv == \A c \in Conns : OnItsWayOut(c)

----------------------------------------------------------------------------
(* How a step changes a channel's list.                                    *)

LEMMA RosterTypes ==
    ASSUME Inv, NEW ch \in Channels
    PROVE  Subscribers(ch) \in Seq(Conns)
BY DEF Inv, TypeOK, TopicTypes, Subscribers, Nullable

LEMMA RosterTypesNext ==
    ASSUME Inv, [Next]_vars, NEW ch \in Channels
    PROVE  Subscribers(ch)' \in Seq(Conns)
<1>1. /\ channelToConnectionId' \in [Channels -> Nullable(ListRefs)]
      /\ lists' \in [ListRefs -> Seq(Conns)]
  BY TypeStep DEF TypeOK, TopicTypes
<1> QED BY <1>1 DEF Subscribers, Nullable

\* Counts are numbers, before and after a step.
LEMMA Counts ==
    ASSUME Inv, [Next]_vars, NEW c \in Conns, NEW ch \in Channels
    PROVE  /\ Count(Subscribers(ch), c) \in Nat /\ Count(Subscribers(ch)', c) \in Nat
           /\ Count(ConnectionIdToChannel[c], ch) \in Nat
           /\ Count(ConnectionIdToChannel'[c], ch) \in Nat
           /\ Count(todo[c], ch) \in Nat /\ Count(todo'[c], ch) \in Nat
<1>1. Subscribers(ch) \in Seq(Conns) /\ Subscribers(ch)' \in Seq(Conns)
  BY RosterTypes, RosterTypesNext
<1>2. /\ ConnectionIdToChannel[c] \in Seq(Channels) /\ todo[c] \in Seq(Channels)
      /\ ConnectionIdToChannel'[c] \in Seq(Channels) /\ todo'[c] \in Seq(Channels)
  BY TypeStep DEF Inv, TypeOK, TopicTypes, ThreadTypes
<1>3. \A S, d : \A s \in Seq(S) : Count(s, d) \in Nat
  BY CountFinite
<1> QED BY <1>1, <1>2, <1>3

LEMMA OnlyThree ==
    ASSUME NEW b \in Conns, Step(b)
    PROVE  \/ CreateList(b) \/ AddSubscriber(b) \/ RemoveFound(b)
           \/ UNCHANGED <<channelToConnectionId, lists>>
<1>1. CASE Eof(b) \/ Malformed(b) \/ Request(b)
  BY <1>1, RequestEffects
<1>2. CASE Handle(b)
  BY <1>2 DEF Handle, PutHandler, Rebind, Bind, PutPasscode, Check, Stamp, Open,
     NextRecipient, Write, EndSend, IndexSubscription, RemoveHandler, RemoveLogin,
     LeaveChannel, GoOn, Pick, EndScan, rosters
<1> QED BY <1>1, <1>2 DEF Step

\* A new list is empty and takes the place of none.
LEMMA CreateKeeps ==
    ASSUME Inv, SerialInv, NEW b \in Conns, CreateList(b), NEW ch \in Channels
    PROVE  Subscribers(ch)' = Subscribers(ch)
<1> DEFINE mine == frame[b].channel
           ref == channelToConnectionId[ch]
<1>0. /\ channelToConnectionId \in [Channels -> Nullable(ListRefs)]
      /\ lists \in [ListRefs -> Seq(Conns)]
      /\ ref # Null => ref[1] = ch /\ ref \in ListRefs
  BY DEF Inv, TypeOK, TopicTypes, Consistent, ReferencesResolve, Known, Nullable
<1>1. /\ lists' = [lists EXCEPT ![<<mine, b>>] = << >>]
      /\ channelToConnectionId' = [channelToConnectionId EXCEPT ![mine] = <<mine, b>>]
      /\ ~Known(mine) /\ mine \in Channels /\ <<mine, b>> \in ListRefs
  BY DEF CreateList, SerialInv, Undisturbed, MakesFirstList, Inv, Consistent,
     ThreadConsistent, ListRefs
<1>2. CASE ch = mine
  <2>1. Subscribers(ch) = << >>
    BY <1>1, <1>2 DEF Subscribers, Known
  <2>2. channelToConnectionId'[ch] = <<mine, b>> /\ lists'[<<mine, b>>] = << >>
    BY <1>0, <1>1, <1>2
  <2>3. <<mine, b>> # Null
    BY <1>1, NullAssumption
  <2> QED BY <2>1, <2>2, <2>3 DEF Subscribers
<1>3. CASE ch # mine
  <2>1. channelToConnectionId'[ch] = ref
    BY <1>0, <1>1, <1>3
  <2>2. ref # Null => lists'[ref] = lists[ref]
    BY <1>0, <1>1, <1>3
  <2> QED BY <2>1, <2>2 DEF Subscribers
<1> QED BY <1>2, <1>3

\* A subscription changes the list of its own channel.
LEMMA AddChanges ==
    ASSUME Inv, NEW b \in Conns, AddSubscriber(b), NEW ch \in Channels
    PROVE  IF ch = frame[b].channel
           THEN Subscribers(ch)' = Append(Subscribers(ch), b)
           ELSE Subscribers(ch)' = Subscribers(ch)
<1> DEFINE mine == channelToConnectionId[frame[b].channel]
           ref == channelToConnectionId[ch]
<1>0. /\ channelToConnectionId \in [Channels -> Nullable(ListRefs)]
      /\ lists \in [ListRefs -> Seq(Conns)]
      /\ \A x \in Channels : Known(x) =>
            channelToConnectionId[x][1] = x /\ channelToConnectionId[x] \in ListRefs
  BY DEF Inv, TypeOK, TopicTypes, Consistent, ReferencesResolve, Known, Nullable
<1>1. frame[b].channel \in Channels /\ Known(frame[b].channel)
  BY DEF AddSubscriber, Inv, Consistent, ThreadConsistent
<1>2. /\ channelToConnectionId' = channelToConnectionId
      /\ lists' = [lists EXCEPT ![mine] = Append(@, b)]
      /\ mine \in ListRefs /\ mine[1] = frame[b].channel
  BY <1>0, <1>1 DEF AddSubscriber, Join
<1>3. CASE ch = frame[b].channel
  <2>1. lists'[ref] = Append(lists[ref], b) /\ ref # Null
    BY <1>0, <1>1, <1>2, <1>3 DEF Known
  <2> QED BY <1>2, <1>3, <2>1 DEF Subscribers
<1>4. CASE ch # frame[b].channel
  <2>1. ref # Null => ref # mine /\ ref \in ListRefs
    BY <1>0, <1>2, <1>4 DEF Known
  <2>2. ref # Null => lists'[ref] = lists[ref]
    BY <1>0, <1>2, <2>1
  <2> QED BY <1>2, <1>4, <2>2 DEF Subscribers
<1> QED BY <1>3, <1>4

\* A removal takes the connection that asked for it out of the list it
\* searches, and its iterator is stale from then on.
LEMMA RemoveChanges ==
    ASSUME Inv, SerialInv, NEW b \in Conns, Scanning(b), RemoveFound(b)
    PROVE  LET mine == frame[b].channel
               at   == iter[b].at
           IN /\ at \in 1 .. Len(Subscribers(mine)) /\ Subscribers(mine)[at] = b
              /\ Subscribers(mine)' = RemoveAt(Subscribers(mine), at)
              /\ \A ch \in Channels \ {mine} : Subscribers(ch)' = Subscribers(ch)
              /\ pc'[b] = "scan" /\ iter'[b].stale
              /\ iter'[b].list = iter[b].list
              /\ UNCHANGED <<status, frame, todo, channelToConnectionId>>
<1> DEFINE mine == frame[b].channel
           at == iter[b].at
<1>0. /\ channelToConnectionId \in [Channels -> Nullable(ListRefs)]
      /\ lists \in [ListRefs -> Seq(Conns)] /\ pc \in [Conns -> Steps]
      /\ iter \in [Conns -> Iterators]
      /\ \A x \in Channels : Known(x) =>
            channelToConnectionId[x][1] = x /\ channelToConnectionId[x] \in ListRefs
  BY DEF Inv, TypeOK, TopicTypes, ThreadTypes, Consistent, ReferencesResolve, Known,
     Nullable
<1>1. /\ pc[b] = "remove" /\ mine \in Channels /\ Known(mine)
      /\ iter[b].list = channelToConnectionId[mine]
  BY DEF RemoveFound, Scanning, Inv, Consistent, ThreadConsistent
<1>2. Body(b) = Subscribers(mine) /\ iter[b].list \in ListRefs
  BY <1>0, <1>1 DEF Body, Subscribers, Known
<1>3. at \in 1 .. Len(Subscribers(mine)) /\ Subscribers(mine)[at] = b
  BY <1>1, <1>2 DEF SerialInv, Undisturbed, AtItself
<1>4. /\ lists' = [lists EXCEPT ![iter[b].list] = RemoveAt(@, at)]
      /\ iter' = Touched(iter[b].list) /\ pc' = [pc EXCEPT ![b] = "scan"]
      /\ UNCHANGED <<status, frame, todo, channelToConnectionId>>
  BY <1>0, <1>2, <1>3 DEF RemoveFound, FoundIndex, Goto
<1>5. Subscribers(mine)' = RemoveAt(Subscribers(mine), at)
  BY <1>0, <1>1, <1>2, <1>4 DEF Subscribers, Known
<1>6. \A ch \in Channels \ {mine} : Subscribers(ch)' = Subscribers(ch)
  <2> SUFFICES ASSUME NEW ch \in Channels \ {mine}
               PROVE  Subscribers(ch)' = Subscribers(ch)
    OBVIOUS
  <2>1. Known(ch) => channelToConnectionId[ch] # iter[b].list
    BY <1>0, <1>1
  <2>2. Known(ch) => lists'[channelToConnectionId[ch]] = lists[channelToConnectionId[ch]]
    BY <1>0, <1>4, <2>1
  <2> QED BY <1>4, <2>2 DEF Subscribers, Known
<1>7. pc'[b] = "scan" /\ iter'[b].stale /\ iter'[b].list = iter[b].list
  BY <1>0, <1>4 DEF Touched, Iterators
<1> QED BY <1>3, <1>4, <1>5, <1>6, <1>7

\* The loop moves on by one element, or stops at one it will remove.
LEMMA PickOn ==
    ASSUME Inv, NEW c \in Conns, Scanning(c), Pick(c), ~NextThrows(c)
    PROVE  /\ Scanning(c)' /\ pc'[c] \in {"scan", "remove"} /\ pc[c] = "pick"
           /\ iter'[c].stale = iter[c].stale /\ UNCHANGED <<frame, todo, status>>
<1> DEFINE n == iter[c].at
<1>0. pc \in [Conns -> Steps] /\ iter \in [Conns -> Iterators] /\ iter[c] \in Iterators
  BY DEF Inv, TypeOK, ThreadTypes
<1>1. /\ pc[c] = "pick" /\ ~iter[c].stale /\ UNCHANGED <<frame, todo, status>>
      /\ UNCHANGED <<channelToConnectionId, lists>>
      /\ pc'[c] = IF Matches(c, Body(c)[n + 1]) THEN "remove" ELSE "scan"
      /\ iter' = [iter EXCEPT ![c].at = n + 1]
  BY <1>0 DEF Pick, NextThrows, PositionAfter, Goto, rosters
<1>2. n \in Nat /\ iter'[c].at = n + 1 /\ iter'[c].list = iter[c].list /\ ~iter'[c].stale
  BY <1>0, <1>1 DEF Iterators
<1>3. Body(c)' = Body(c) /\ \A d : Matches(c, d)' <=> Matches(c, d)
  BY <1>1, <1>2 DEF Body, Matches
<1>4. ASSUME pc'[c] = "scan", NEW k \in 1 .. n + 1
      PROVE  ~Matches(c, Body(c)[k])
  <2>1. k \in 1 .. n \/ k = n + 1
    BY <1>2
  <2> QED BY <1>1, <1>4, <2>1 DEF Scanning
<1> QED BY <1>1, <1>2, <1>3, <1>4 DEF Scanning, Known

\* The search by itself, whatever else a logout needs.
LEMMA ScanningStep ==
    ASSUME Overlap = FALSE, Inv, SerialInv, [Next]_vars, NEW c \in Conns, Scanning(c)
    PROVE  Scanning(c)'
<1>0. /\ TypeOK /\ Consistent /\ ThreadConsistent(c) /\ ReferencesResolve
      /\ pc \in [Conns -> Steps] /\ frame \in [Conns -> Frames]
      /\ iter \in [Conns -> Iterators] /\ todo \in [Conns -> Seq(Channels)]
      /\ clientidToIdTopicMap \in [Conns -> [Ids -> Nullable(Channels)]]
  BY DEF Inv, TypeOK, ThreadTypes, TopicTypes, Consistent
<1>1. CASE UNCHANGED vars
  BY <1>1 DEF vars, rosters, locals, Scanning, Known, Body, Matches
<1>2. CASE Accept
  BY <1>2 DEF Accept, rosters, locals, Scanning, Known, Body, Matches
<1>3. ASSUME NEW b \in Conns, Step(b), b # c PROVE Scanning(c)'
  BY <1>3, OthersIdle DEF SerialInv, Scanning
<1>4. CASE pc'[c] \notin {"scan", "pick", "remove"}
  BY <1>4 DEF Scanning
<1>5. ASSUME NEW i \in Ids, NEW receipt, ProcessUnsubscribe(c, i, receipt) PROVE Scanning(c)'
  <2> DEFINE ch == clientidToIdTopicMap[c][i]
  <2>1. CASE ch = Null
    BY <1>0, <1>5, <2>1 DEF ProcessUnsubscribe, Throw, Leave, Goto, Scanning
  <2>2. CASE ch # Null
    <3>1. ch \in Channels /\ Known(ch)
      BY <1>0, <2>2 DEF ReferencesResolve, Nullable
    <3>2. /\ frame' = [frame EXCEPT ![c] = [NoFrame EXCEPT !.command = "UNSUBSCRIBE",
                                  !.channel = ch, !.id = i, !.receipt = receipt]]
          /\ iter' = [iter EXCEPT ![c] = IteratorOn(channelToConnectionId[ch])]
          /\ Goto(c, "scan") /\ channelToConnectionId' = channelToConnectionId
      BY <1>5, <2>2 DEF ProcessUnsubscribe, rosters
    <3> HIDE DEF ch
    <3>3. iter'[c] = IteratorOn(channelToConnectionId[ch]) /\ pc'[c] = "scan"
      BY <1>0, <3>2 DEF Goto
    <3>4. frame'[c].channel = ch
      BY <1>0, <3>2 DEF NoFrame
    <3> QED BY <3>1, <3>2, <3>3, <3>4 DEF Scanning, IteratorOn, Known
  <2> QED BY <2>1, <2>2
<1>6. CASE LeaveChannel(c)
  <2>1. CASE todo[c] = << >>
    BY <1>0, <1>4, <1>6, <2>1 DEF LeaveChannel, Return, Leave, Goto
  <2>2. CASE todo[c] # << >>
    <3> DEFINE next == Head(todo[c])
    <3>1. next \in Channels /\ next = todo[c][1] /\ 1 \in 1 .. Len(todo[c])
      BY <1>0, <2>2
    <3>2. Known(next)
      BY <1>0, <3>1 DEF ThreadConsistent
    <3>3. /\ pc'[c] = "scan" /\ frame'[c].channel = next
          /\ iter'[c] = IteratorOn(channelToConnectionId[next])
          /\ channelToConnectionId' = channelToConnectionId
      BY <1>0, <1>6, <2>2, <3>1 DEF LeaveChannel, Goto, Frames, rosters
    <3> QED BY <3>2, <3>3 DEF Scanning, IteratorOn, Known
  <2> QED BY <2>1, <2>2
<1>7. CASE Pick(c)
  <2>1. CASE NextThrows(c)
    BY <1>0, <1>4, <1>7, <2>1 DEF Pick, Throw, Leave, Goto
  <2>2. CASE ~NextThrows(c)
    BY <1>7, <2>2, PickOn
  <2> QED BY <2>1, <2>2
<1>10. CASE GoOn(c)
  <2>1. /\ UNCHANGED <<frame, iter, channelToConnectionId, lists>>
        /\ (pc[c] = "scan" /\ pc'[c] = "pick") \/ pc'[c] = "recipient"
    BY <1>0, <1>10 DEF GoOn, Goto, locals, rosters
  <2>2. CASE pc[c] = "scan" /\ pc'[c] = "pick"
    <3>1. Body(c)' = Body(c) /\ \A d : Matches(c, d)' <=> Matches(c, d)
      BY <2>1 DEF Body, Matches
    <3> QED BY <2>1, <2>2, <3>1 DEF Scanning, Known
  <2> QED BY <1>4, <2>1, <2>2
<1>8. CASE RemoveFound(c)
  <2>1. /\ pc'[c] = "scan" /\ iter'[c].stale /\ iter'[c].list = iter[c].list
        /\ UNCHANGED <<frame, channelToConnectionId>> /\ pc[c] = "remove"
    BY <1>8, RemoveChanges DEF RemoveFound
  <2> QED BY <2>1 DEF Scanning, Known
<1>9. CASE Step(c)
  <2>1. CASE Eof(c) \/ Malformed(c) \/ Request(c)
    <3>1. CASE Unsubscribe(c)
      BY <1>5, <3>1 DEF Unsubscribe
    <3>2. CASE ~Unsubscribe(c)
      <4>1. pc'[c] \notin {"scan", "pick", "remove"}
        BY <1>0, <2>1, <3>2 DEF Eof, Malformed, Request, Connect, ProcessConnect, Send,
           ProcessSend, Subscribe, ProcessSubscribe, Disconnect, Ready, Throw, Leave,
           Goto, locals
      <4> QED BY <1>4, <4>1
    <3> QED BY <3>1, <3>2
  <2>2. CASE Handle(c)
    <3>1. CASE LeaveChannel(c) \/ GoOn(c) \/ Pick(c) \/ RemoveFound(c)
      BY <1>6, <1>7, <1>8, <1>10, <3>1
    <3>2. CASE ~(LeaveChannel(c) \/ GoOn(c) \/ Pick(c) \/ RemoveFound(c))
      <4>1. pc'[c] \notin {"scan", "pick", "remove"}
        BY <1>0, <2>2, <3>2 DEF Handle, PutHandler, Rebind, Bind, PutPasscode, Check,
           Stamp, Open, NextRecipient, Write, EndSend, CreateList, AddSubscriber,
           IndexSubscription, RemoveHandler, RemoveLogin, EndScan, Throw, Return, Leave,
           Goto
      <4> QED BY <1>4, <4>1
    <3> QED BY <3>1, <3>2
  <2> QED BY <1>9, <2>1, <2>2 DEF Step
<1> QED BY <1>1, <1>2, <1>3, <1>9 DEF Next, Step

\* Who is named more often after a step has just been added.
LEMMA NamedMore ==
    ASSUME Inv, SerialInv, LogoutInv, [Next]_vars, NEW b \in Conns, Step(b),
           NEW c \in Conns, NEW ch \in Channels,
           ~(AddSubscriber(b) /\ b = c /\ ch = frame[b].channel)
    PROVE  Count(Subscribers(ch)', c) <= Count(Subscribers(ch), c)
<1>0. Count(Subscribers(ch), c) \in Nat /\ Count(Subscribers(ch)', c) \in Nat
  BY Counts
<1>1. CASE Subscribers(ch)' = Subscribers(ch)
  BY <1>0, <1>1
<1>2. CASE CreateList(b)
  BY <1>1, <1>2, CreateKeeps
<1>3. CASE AddSubscriber(b)
  <2>1. CASE ch = frame[b].channel
    <3>1. Count(Append(Subscribers(ch), b), c) = Count(Subscribers(ch), c) + One(b = c)
      BY RosterTypes, CountAppend
    <3>2. Subscribers(ch)' = Append(Subscribers(ch), b) /\ b # c
      BY <1>3, <2>1, AddChanges
    <3> QED BY <1>0, <3>1, <3>2 DEF One
  <2> QED BY <1>1, <1>3, <2>1, AddChanges
<1>4. CASE RemoveFound(b)
  <2>0. Scanning(b)
    BY DEF LogoutInv, OnItsWayOut
  <2>1. CASE ch = frame[b].channel
    <3> DEFINE at == iter[b].at
    <3>1. at \in 1 .. Len(Subscribers(ch)) /\ Subscribers(ch)' = RemoveAt(Subscribers(ch), at)
      BY <1>4, <2>0, <2>1, RemoveChanges
    <3>2. Count(Subscribers(ch), c) =
             Count(RemoveAt(Subscribers(ch), at), c) + One(Subscribers(ch)[at] = c)
      BY <3>1, RosterTypes, CountRemove
    <3> QED BY <1>0, <3>1, <3>2 DEF One
  <2> QED BY <1>1, <1>4, <2>0, <2>1, RemoveChanges
<1>5. CASE UNCHANGED <<channelToConnectionId, lists>>
  BY <1>1, <1>5 DEF Subscribers
<1> QED BY <1>2, <1>3, <1>4, <1>5, OnlyThree

----------------------------------------------------------------------------
(* The invariant.                                                          *)

\* Outside SUBSCRIBE, a step that adds the connection to no list and keeps its
\* record leaves the two in agreement.
LEMMA StillRecorded ==
    ASSUME Inv, LogoutInv, [Next]_vars, NEW c \in Conns,
           \A ch \in Channels : Count(Subscribers(ch)', c) <= Count(Subscribers(ch), c),
           ConnectionIdToChannel'[c] = ConnectionIdToChannel[c],
           pc[c] # "index"
    PROVE  Recorded(c)'
<1> SUFFICES ASSUME NEW ch \in Channels, status'[c] \in {"new", "open"}
             PROVE  Count(Subscribers(ch)', c) <=
                       Count(ConnectionIdToChannel'[c], ch)
                         + One(pc'[c] = "index" /\ frame'[c].channel = ch)
  BY DEF Recorded
<1>1. status[c] \in {"new", "open"}
  BY StillLive DEF Inv
<1>2. Count(Subscribers(ch), c) <= Count(ConnectionIdToChannel[c], ch) + 0
  BY <1>1 DEF LogoutInv, OnItsWayOut, Recorded, One
<1>3. One(pc'[c] = "index" /\ frame'[c].channel = ch) \in {0, 1}
  BY DEF One
<1> QED BY <1>2, <1>3, Counts

LEMMA OutOfScan ==
    ASSUME Inv, LogoutInv, [Next]_vars, NEW c \in Conns,
           \A ch \in Channels : Count(Subscribers(ch)', c) <= Count(Subscribers(ch), c),
           ConnectionIdToChannel'[c] = ConnectionIdToChannel[c],
           pc[c] # "index", pc'[c] \notin Outward
    PROVE  OnItsWayOut(c)'
<1>1. Leaving(c)' /\ Scanning(c)'
  BY DEF Leaving, Scanning, Outward
<1> QED BY <1>1, StillRecorded DEF OnItsWayOut

\* A connection that has left process(), or will never log out.
LEMMA OutOfService ==
    ASSUME NEW c \in Conns, pc'[c] \notin Outward,
           status'[c] \notin {"new", "open"}
    PROVE  OnItsWayOut(c)'
BY DEF OnItsWayOut, Recorded, Leaving, Scanning, Outward

LEMMA ThrownOut ==
    ASSUME Inv, NEW c \in Conns, pc[c] # "idle" \/ status[c] # "new", Throw(c)
    PROVE  OnItsWayOut(c)'
<1>1. pc'[c] = "idle" /\ status'[c] \notin {"new", "open"}
  BY DEF Throw, Leave, Goto, Inv, TypeOK, ThreadTypes, Consistent, ThreadConsistent
<1> QED BY <1>1, OutOfService DEF Outward

LEMMA LogoutOthers ==
    ASSUME Overlap = FALSE, Inv, SerialInv, LogoutInv, [Next]_vars,
           NEW b \in Conns, Step(b), NEW c \in Conns, c # b
    PROVE  OnItsWayOut(c)'
<1>1. pc[c] = "idle" /\ pc'[c] = "idle"
  BY OthersIdle DEF SerialInv
<1>2. ConnectionIdToChannel'[c] = ConnectionIdToChannel[c]
  BY OtherThreads DEF Inv, Step
<1>3. \A ch \in Channels : Count(Subscribers(ch)', c) <= Count(Subscribers(ch), c)
  BY NamedMore
<1> QED BY <1>1, <1>2, <1>3, OutOfScan DEF Outward

LEMMA LogoutRequest ==
    ASSUME Inv, SerialInv, LogoutInv, [Next]_vars, NEW c \in Conns,
           Eof(c) \/ Malformed(c) \/ Request(c)
    PROVE  OnItsWayOut(c)'
<1>0. /\ Inv /\ TypeOK /\ Consistent /\ ReferencesResolve
      /\ pc \in [Conns -> Steps] /\ frame \in [Conns -> Frames]
      /\ iter \in [Conns -> Iterators] /\ todo \in [Conns -> Seq(Channels)]
      /\ status \in [Conns -> {"new", "open", "eof", "logout", "failed"}]
      /\ clientidToIdTopicMap \in [Conns -> [Ids -> Nullable(Channels)]]
  BY DEF Inv, TypeOK, ThreadTypes, TopicTypes, Consistent
<1>1. /\ pc[c] = "idle" /\ status[c] = "open"
      /\ UNCHANGED <<channelToConnectionId, lists, ConnectionIdToChannel>>
  <2>1. Ready(c)
    BY DEF Eof, Malformed, Request, Connect, ProcessConnect, Send, ProcessSend,
       Subscribe, ProcessSubscribe, Unsubscribe, ProcessUnsubscribe, Disconnect
  <2> QED BY <2>1, RequestEffects DEF Ready, indexes
<1>2. \A ch \in Channels : Subscribers(ch)' = Subscribers(ch)
  BY <1>1 DEF Subscribers
<1>3. \A ch \in Channels : Count(Subscribers(ch)', c) <= Count(Subscribers(ch), c)
  BY <1>2, Counts
<1>4. \A ch \in Channels :
         Count(Subscribers(ch)', c) <= Count(ConnectionIdToChannel[c], ch)
  <2> SUFFICES ASSUME NEW ch \in Channels
               PROVE  Count(Subscribers(ch)', c) <= Count(ConnectionIdToChannel[c], ch)
    OBVIOUS
  <2>1. Count(Subscribers(ch), c) <= Count(ConnectionIdToChannel[c], ch) + 0
    BY <1>1 DEF LogoutInv, OnItsWayOut, Recorded, One
  <2> QED BY <1>2, <2>1, Counts
<1>5. CASE Throw(c)
  BY <1>1, <1>5, ThrownOut
<1>6. CASE pc'[c] \notin Outward
  BY <1>1, <1>3, <1>6, OutOfScan
<1>7. CASE Unsubscribe(c)
  <2>1. PICK i \in Ids, receipt \in Nullable(Receipts) : ProcessUnsubscribe(c, i, receipt)
    BY <1>7 DEF Unsubscribe
  <2> DEFINE ch == clientidToIdTopicMap[c][i]
  <2>2. CASE ch # Null
    <3>1. ch \in Channels /\ Known(ch)
      BY <1>0, <2>2 DEF ReferencesResolve, Nullable
    <3>2. /\ frame'[c].command = "UNSUBSCRIBE" /\ frame'[c].channel = ch
          /\ iter'[c] = IteratorOn(channelToConnectionId[ch])
          /\ pc'[c] = "scan"
      <4>1. /\ frame' = [frame EXCEPT ![c] = [NoFrame EXCEPT !.command = "UNSUBSCRIBE",
                                    !.channel = ch, !.id = i, !.receipt = receipt]]
            /\ iter' = [iter EXCEPT ![c] = IteratorOn(channelToConnectionId[ch])]
            /\ Goto(c, "scan")
        BY <2>1, <2>2 DEF ProcessUnsubscribe
      <4> HIDE DEF ch
      <4>2. iter'[c] = IteratorOn(channelToConnectionId[ch]) /\ pc'[c] = "scan"
        BY <1>0, <4>1 DEF Goto
      <4>3. frame'[c] = [NoFrame EXCEPT !.command = "UNSUBSCRIBE",
                             !.channel = ch, !.id = i, !.receipt = receipt]
        BY <1>0, <4>1
      <4> QED BY <4>2, <4>3 DEF NoFrame
    <3>3. Leaving(c)'
      BY <3>2 DEF Leaving
    <3>4. Scanning(c)'
      BY <1>1, <3>1, <3>2 DEF Scanning, IteratorOn, Known
    <3>5. Recorded(c)'
      BY <1>1, <1>4, <3>2, Counts DEF Recorded, One
    <3> QED BY <3>3, <3>4, <3>5 DEF OnItsWayOut
  <2>3. CASE ch = Null
    BY <1>5, <2>1, <2>3 DEF ProcessUnsubscribe
  <2> QED BY <2>2, <2>3
<1>8. CASE Disconnect(c)
  <2>1. /\ pc'[c] = "unregister" /\ status'[c] = "logout"
        /\ ConnectionIdToChannel' = ConnectionIdToChannel
    BY <1>0, <1>8 DEF Disconnect, Goto, indexes
  <2>2. Leaving(c)' /\ Recorded(c)' /\ Scanning(c)'
    BY <1>4, <2>1 DEF Leaving, Recorded, Scanning
  <2> QED BY <2>2 DEF OnItsWayOut
<1>9. CASE Eof(c)
  BY <1>1, <1>6, <1>9 DEF Eof, locals, Outward
<1>10. CASE Connect(c)
  BY <1>0, <1>5, <1>6, <1>10 DEF Connect, ProcessConnect, Goto, Outward
<1>11. CASE Send(c)
  BY <1>0, <1>6, <1>11 DEF Send, ProcessSend, Goto, Outward
<1>12. CASE Subscribe(c)
  BY <1>0, <1>6, <1>12 DEF Subscribe, ProcessSubscribe, Goto, Outward
<1> QED BY <1>5, <1>7, <1>8, <1>9, <1>10, <1>11, <1>12 DEF Malformed, Request

LEMMA LogoutSubscribe ==
    ASSUME Inv, SerialInv, LogoutInv, [Next]_vars, NEW c \in Conns,
           AddSubscriber(c) \/ IndexSubscription(c)
    PROVE  OnItsWayOut(c)'
<1>0. /\ Inv /\ TypeOK /\ pc \in [Conns -> Steps]
      /\ ConnectionIdToChannel \in [Conns -> Seq(Channels)]
      /\ status \in [Conns -> {"new", "open", "eof", "logout", "failed"}]
      /\ frame[c].channel \in Channels
  BY DEF Inv, TypeOK, ThreadTypes, TopicTypes, Consistent, ThreadConsistent,
     AddSubscriber, IndexSubscription
<1>1. CASE AddSubscriber(c)
  <2>1. /\ pc[c] = "add" /\ pc'[c] = "index"
        /\ UNCHANGED <<status, frame, ConnectionIdToChannel>>
    BY <1>0, <1>1 DEF AddSubscriber, Goto, indexes
  <2>2. ASSUME NEW ch \in Channels, status[c] \in {"new", "open"}
        PROVE  Count(Subscribers(ch)', c) <=
                  Count(ConnectionIdToChannel[c], ch) + One(frame[c].channel = ch)
    <3>1. Count(Subscribers(ch), c) <= Count(ConnectionIdToChannel[c], ch) + 0
      BY <2>1, <2>2 DEF LogoutInv, OnItsWayOut, Recorded, One
    <3>2. Count(Append(Subscribers(ch), c), c) = Count(Subscribers(ch), c) + 1
      BY RosterTypes, CountAppend DEF One
    <3>3. CASE ch = frame[c].channel
      <4>1. Subscribers(ch)' = Append(Subscribers(ch), c)
        BY <1>1, <3>3, AddChanges
      <4>2. One(frame[c].channel = ch) = 1
        BY <3>3 DEF One
      <4> QED BY <3>1, <3>2, <4>1, <4>2, Counts
    <3>4. CASE ch # frame[c].channel
      <4>1. Subscribers(ch)' = Subscribers(ch)
        BY <1>1, <3>4, AddChanges
      <4>2. One(frame[c].channel = ch) = 0
        BY <3>4 DEF One
      <4> QED BY <3>1, <4>1, <4>2
    <3> QED BY <3>3, <3>4
  <2>3. Recorded(c)' /\ Leaving(c)' /\ Scanning(c)'
    BY <2>1, <2>2 DEF Recorded, Leaving, Scanning
  <2> QED BY <2>3 DEF OnItsWayOut
<1>2. CASE IndexSubscription(c)
  <2>1. CASE Throw(c)
    <3>1. pc[c] = "index"
      BY <1>2 DEF IndexSubscription
    <3> QED BY <2>1, <3>1, ThrownOut
  <2>2. CASE ~Throw(c)
    <3>1. /\ pc[c] = "index" /\ pc'[c] = "idle" /\ status' = status
          /\ UNCHANGED <<channelToConnectionId, lists>>
          /\ ConnectionIdToChannel'[c] =
                Append(ConnectionIdToChannel[c], frame[c].channel)
      BY <1>0, <1>2, <2>2 DEF IndexSubscription, Return, Leave, Goto, ChannelsWith, rosters
    <3>2. ASSUME NEW ch \in Channels, status[c] \in {"new", "open"}
          PROVE  Count(Subscribers(ch)', c) <= Count(ConnectionIdToChannel'[c], ch) + 0
      <4>1. Count(Subscribers(ch), c) <=
               Count(ConnectionIdToChannel[c], ch) + One(frame[c].channel = ch)
        BY <3>1, <3>2 DEF LogoutInv, OnItsWayOut, Recorded
      <4>2. Subscribers(ch)' = Subscribers(ch)
        BY <3>1 DEF Subscribers
      <4>3. Count(ConnectionIdToChannel'[c], ch) =
               Count(ConnectionIdToChannel[c], ch) + One(frame[c].channel = ch)
        BY <1>0, <3>1, CountAppend
      <4> QED BY <4>1, <4>2, <4>3, Counts
    <3>3. Recorded(c)' /\ Leaving(c)' /\ Scanning(c)'
      BY <3>1, <3>2 DEF Recorded, Leaving, Scanning, One
    <3> QED BY <3>3 DEF OnItsWayOut
  <2> QED BY <2>1, <2>2
<1> QED BY <1>1, <1>2

\* The next channel of a DISCONNECT moves from what is to do to what is done.
LEMMA LogoutLeave ==
    ASSUME Inv, SerialInv, LogoutInv, [Next]_vars, NEW c \in Conns, LeaveChannel(c)
    PROVE  OnItsWayOut(c)'
<1>0. /\ Inv /\ TypeOK /\ Consistent /\ ThreadConsistent(c) /\ pc \in [Conns -> Steps]
      /\ frame \in [Conns -> Frames] /\ iter \in [Conns -> Iterators]
      /\ todo \in [Conns -> Seq(Channels)]
  BY DEF Inv, TypeOK, ThreadTypes, Consistent
<1>1. pc[c] = "leave" /\ status'[c] \notin {"new", "open"}
  <2>1. pc[c] = "leave" /\ status[c] \notin {"new", "open"}
    BY <1>0 DEF LeaveChannel, ThreadConsistent
  <2> QED BY <1>0, <2>1, StillLive
<1>2. CASE todo[c] = << >>
  <2>1. pc'[c] \notin Outward
    BY <1>0, <1>2 DEF LeaveChannel, Return, Leave, Goto, Outward
  <2> QED BY <1>1, <2>1, OutOfService
<1>3. CASE todo[c] # << >>
  <2> DEFINE next == Head(todo[c])
  <2>1. next \in Channels /\ next = todo[c][1] /\ 1 \in 1 .. Len(todo[c])
    BY <1>0, <1>3
  <2>2. Known(next)
    BY <1>0, <2>1 DEF ThreadConsistent
  <2>3. /\ todo'[c] = Tail(todo[c]) /\ pc'[c] = "scan" /\ frame'[c].channel = next
        /\ iter'[c] = IteratorOn(channelToConnectionId[next])
        /\ UNCHANGED <<channelToConnectionId, lists>>
    BY <1>0, <1>3, <2>1 DEF LeaveChannel, Goto, Frames, rosters
  <2>4. Scanning(c)'
    BY <2>2, <2>3 DEF Scanning, IteratorOn, Known
  <2>5. ASSUME NEW ch \in Channels
        PROVE  Count(Subscribers(ch)', c) <= Count(todo'[c], ch) + One(ch = next)
    <3>1. Count(todo[c], ch) = Count(Tail(todo[c]), ch) + One(next = ch)
      BY <1>0, <1>3, CountTail
    <3>2. One(next = ch) = One(ch = next)
      BY DEF One
    <3>3. Count(Subscribers(ch), c) <= Count(todo[c], ch)
      BY <1>1 DEF LogoutInv, OnItsWayOut, Leaving
    <3>4. Subscribers(ch)' = Subscribers(ch)
      BY <2>3 DEF Subscribers
    <3> QED BY <2>3, <3>1, <3>2, <3>3, <3>4
  <2>6. Leaving(c)'
    <3>1. iter'[c].stale = FALSE
      BY <2>3 DEF IteratorOn
    <3> QED BY <2>3, <2>5, <3>1 DEF Leaving, One
  <2> QED BY <1>1, <2>4, <2>6 DEF OnItsWayOut, Recorded
<1> QED BY <1>2, <1>3

\* The two removals before the outer loop: all channels are still to do.
LEMMA LogoutUnbind ==
    ASSUME Inv, SerialInv, LogoutInv, [Next]_vars, NEW c \in Conns,
           RemoveHandler(c) \/ RemoveLogin(c)
    PROVE  OnItsWayOut(c)'
<1>0. /\ pc \in [Conns -> Steps] /\ todo \in [Conns -> Seq(Channels)]
      /\ ThreadConsistent(c)
  BY DEF Inv, TypeOK, ThreadTypes, Consistent
<1>1. /\ pc[c] \in {"unregister", "unbind"} /\ status[c] \notin {"new", "open"}
      /\ UNCHANGED <<channelToConnectionId, lists, ConnectionIdToChannel>>
  BY <1>0 DEF RemoveHandler, RemoveLogin, ThreadConsistent, rosters, indexes
<1>2. ASSUME NEW ch \in Channels
      PROVE  Count(Subscribers(ch)', c) <= Count(ConnectionIdToChannel[c], ch)
  <2>1. Subscribers(ch)' = Subscribers(ch)
    BY <1>1 DEF Subscribers
  <2> QED BY <1>1, <2>1 DEF LogoutInv, OnItsWayOut, Leaving
<1>3. CASE Throw(c)
  BY <1>1, <1>3, ThrownOut
<1>4. CASE ~Throw(c)
  <2>1. /\ status' = status
        /\ \/ pc'[c] = "unbind"
           \/ pc'[c] = "leave" /\ todo'[c] = ConnectionIdToChannel[c]
    BY <1>0, <1>4 DEF RemoveHandler, RemoveLogin, Goto
  <2> QED BY <1>1, <1>2, <2>1 DEF OnItsWayOut, Recorded, Leaving, Scanning
<1> QED BY <1>3, <1>4

\* hasNext() and next(): the search owes what it owed before.
LEMMA LogoutPick ==
    ASSUME Overlap = FALSE, Inv, SerialInv, LogoutInv, [Next]_vars, NEW c \in Conns,
           Pick(c) \/ (GoOn(c) /\ pc[c] = "scan")
    PROVE  OnItsWayOut(c)'
<1>0. pc \in [Conns -> Steps]
  BY DEF Inv, TypeOK, ThreadTypes
<1>1. /\ pc[c] \in {"scan", "pick"}
      /\ UNCHANGED <<channelToConnectionId, lists, ConnectionIdToChannel>>
  BY DEF Pick, GoOn, rosters, indexes
<1>2. \A ch \in Channels : Subscribers(ch)' = Subscribers(ch)
  BY <1>1 DEF Subscribers
<1>3. CASE Throw(c)
  BY <1>1, <1>3, ThrownOut
<1>4. CASE ~Throw(c)
  <2>1. Scanning(c) /\ Scanning(c)'
    BY ScanningStep DEF LogoutInv, OnItsWayOut
  <2>2. /\ pc'[c] \in {"scan", "pick", "remove"} /\ UNCHANGED <<frame, todo>>
        /\ iter'[c].stale = iter[c].stale
    <3>1. CASE Pick(c)
      BY <1>4, <2>1, <3>1, PickOn DEF Pick
    <3>2. CASE GoOn(c) /\ pc[c] = "scan"
      BY <1>0, <3>2 DEF GoOn, Goto, locals
    <3> QED BY <3>1, <3>2
  <2>3. Leaving(c)'
    BY <1>1, <1>2, <2>2 DEF LogoutInv, OnItsWayOut, Leaving
  <2>4. Recorded(c)'
    BY <1>1, <1>2, StillRecorded, Counts
  <2> QED BY <2>1, <2>3, <2>4 DEF OnItsWayOut
<1> QED BY <1>3, <1>4

\* The removal pays for the one place the search still owed.
LEMMA LogoutRemove ==
    ASSUME Inv, SerialInv, LogoutInv, [Next]_vars, NEW c \in Conns, RemoveFound(c)
    PROVE  OnItsWayOut(c)'
<1> DEFINE mine == frame[c].channel
           at == iter[c].at
<1>0. Scanning(c) /\ Leaving(c)
  BY DEF LogoutInv, OnItsWayOut
<1>1. /\ pc[c] = "remove" /\ ~iter[c].stale /\ mine \in Channels
      /\ UNCHANGED ConnectionIdToChannel
  BY <1>0 DEF RemoveFound, Scanning, Inv, Consistent, ThreadConsistent, indexes
<1>2. /\ at \in 1 .. Len(Subscribers(mine)) /\ Subscribers(mine)[at] = c
      /\ Subscribers(mine)' = RemoveAt(Subscribers(mine), at)
      /\ \A ch \in Channels \ {mine} : Subscribers(ch)' = Subscribers(ch)
      /\ pc'[c] = "scan" /\ iter'[c].stale /\ iter'[c].list = iter[c].list
      /\ UNCHANGED <<status, frame, todo, channelToConnectionId>>
  BY <1>0, RemoveChanges
<1>3. Count(Subscribers(mine), c) = Count(Subscribers(mine)', c) + 1
  BY <1>1, <1>2, RosterTypes, CountRemove DEF One
<1>4. Recorded(c)'
  <2>1. \A ch \in Channels : Count(Subscribers(ch)', c) <= Count(Subscribers(ch), c)
    BY <1>1, <1>2, <1>3, Counts
  <2> QED BY <1>1, <2>1, StillRecorded
<1>5. Leaving(c)'
  <2> SUFFICES ASSUME frame[c].command = "DISCONNECT", NEW ch \in Channels
               PROVE  Count(Subscribers(ch)', c) <= Count(todo[c], ch) + 0
    BY <1>2 DEF Leaving, One
  <2>1. CASE ch = mine
    <3>1. Count(Subscribers(ch), c) <= Count(todo[c], ch) + 1
      BY <1>0, <1>1, <2>1 DEF Leaving, One
    <3>2. Subscribers(ch)' = Subscribers(mine)' /\ Subscribers(ch) = Subscribers(mine)
      BY <1>2, <2>1 DEF Subscribers
    <3>3. Count(Subscribers(ch), c) = Count(Subscribers(ch)', c) + 1
      BY <1>3, <3>2
    <3> QED BY <3>1, <3>3, Counts
  <2>2. CASE ch # mine
    <3>1. Count(Subscribers(ch), c) <= Count(todo[c], ch) + 0
      BY <1>0, <1>1, <2>2 DEF Leaving, One
    <3> QED BY <1>2, <2>2, <3>1
  <2> QED BY <2>1, <2>2
<1>6. Scanning(c)'
  BY <1>0, <1>1, <1>2 DEF Scanning, Known
<1> QED BY <1>4, <1>5, <1>6 DEF OnItsWayOut

\* A search that ends with a fresh iterator has seen the whole list; a DISCONNECT
\* also needs that the boxed ids it compared are one object.
LEMMA NothingLeft ==
    ASSUME NEW c \in Conns,
           frame[c].command = "UNSUBSCRIBE" \/ MaxConnections <= IntegerCacheHigh + 1,
           Inv, Scanning(c), EndScan(c), ~iter[c].stale
    PROVE  Count(Subscribers(frame[c].channel), c) = 0
<1> DEFINE s == Subscribers(frame[c].channel)
<1>1. /\ frame[c].channel \in Channels /\ Body(c) = s /\ iter[c].at \in Nat
      /\ \A k \in 1 .. iter[c].at : ~Matches(c, s[k])
  BY DEF Scanning, EndScan, Inv, Consistent, ThreadConsistent, TypeOK, ThreadTypes,
     Iterators, Body, Subscribers, Known
<1>2. s \in Seq(Conns)
  BY <1>1, RosterTypes
<1>3. frame[c].command = "UNSUBSCRIBE" \/ c <= IntegerCacheHigh
  BY BoundsAssumption DEF Conns
<1>4. ~Contains(s, c)
  <2> SUFFICES ASSUME NEW k \in 1 .. Len(s), s[k] = c PROVE FALSE
    BY <1>2 DEF Contains
  <2> HIDE DEF s
  <2>1. k \in 1 .. iter[c].at
    BY <1>1, <1>2 DEF EndScan, HasNext
  <2>2. Matches(c, s[k])
    BY <1>3 DEF Matches
  <2> QED BY <1>1, <2>1, <2>2
<1> QED BY <1>2, <1>4, CountNone

LEMMA LogoutEndScan ==
    ASSUME MaxConnections <= IntegerCacheHigh + 1, Inv, SerialInv, LogoutInv,
           [Next]_vars, NEW c \in Conns, EndScan(c)
    PROVE  OnItsWayOut(c)'
<1>0. pc \in [Conns -> Steps]
  BY DEF Inv, TypeOK, ThreadTypes
<1>1. /\ pc[c] = "scan"
      /\ UNCHANGED <<channelToConnectionId, lists, ConnectionIdToChannel>>
  BY DEF EndScan, rosters, indexes
<1>2. \A ch \in Channels : Subscribers(ch)' = Subscribers(ch)
  BY <1>1 DEF Subscribers
<1>3. CASE frame[c].command = "UNSUBSCRIBE"
  <2>1. pc'[c] = "idle"
    BY <1>0, <1>3 DEF EndScan, Return, Leave, Goto
  <2>3. pc'[c] \notin Outward
    BY <2>1 DEF Outward
  <2>2. \A ch \in Channels : Count(Subscribers(ch)', c) <= Count(Subscribers(ch), c)
    BY <1>2, Counts
  <2> QED BY <1>1, <2>2, <2>3, OutOfScan
<1>4. CASE frame[c].command = "DISCONNECT"
  <2>1. pc'[c] = "leave" /\ UNCHANGED <<status, frame, iter, todo>>
    BY <1>0, <1>4 DEF EndScan, Goto, locals
  <2>2. status'[c] \notin {"new", "open"}
    BY <1>1, <1>4, <2>1 DEF Inv, Consistent, ThreadConsistent
  <2>3. ASSUME NEW ch \in Channels
        PROVE  Count(Subscribers(ch), c) <= Count(todo[c], ch)
    <3>1. CASE ch = frame[c].channel /\ ~iter[c].stale
      <4>1. Scanning(c)
        BY DEF LogoutInv, OnItsWayOut
      <4> QED BY <3>1, <4>1, NothingLeft, Counts
    <3>2. CASE ~(ch = frame[c].channel /\ ~iter[c].stale)
      <4>1. Count(Subscribers(ch), c) <= Count(todo[c], ch) + 0
        BY <1>1, <1>4, <3>2 DEF LogoutInv, OnItsWayOut, Leaving, One
      <4> QED BY <4>1, Counts
    <3> QED BY <3>1, <3>2
  <2>4. Leaving(c)' /\ Scanning(c)' /\ Recorded(c)'
    BY <1>2, <2>1, <2>2, <2>3 DEF Leaving, Scanning, Recorded
  <2> QED BY <2>4 DEF OnItsWayOut
<1> QED BY <1>3, <1>4 DEF EndScan

LEMMA LogoutHandle ==
    ASSUME Overlap = FALSE, MaxConnections <= IntegerCacheHigh + 1, Inv, SerialInv,
           LogoutInv, [Next]_vars, NEW c \in Conns, Handle(c)
    PROVE  OnItsWayOut(c)'
<1>1. CASE AddSubscriber(c) \/ IndexSubscription(c)
  BY <1>1, LogoutSubscribe
<1>2. CASE LeaveChannel(c)
  BY <1>2, LogoutLeave
<1>7. CASE RemoveHandler(c) \/ RemoveLogin(c)
  BY <1>7, LogoutUnbind
<1>3. CASE Pick(c) \/ (GoOn(c) /\ pc[c] = "scan")
  BY <1>3, LogoutPick
<1>4. CASE RemoveFound(c)
  BY <1>4, LogoutRemove
<1>5. CASE EndScan(c)
  BY <1>5, LogoutEndScan
<1>6. CASE PutHandler(c) \/ Rebind(c) \/ Bind(c) \/ PutPasscode(c) \/ Check(c)
           \/ Stamp(c) \/ Open(c) \/ (GoOn(c) /\ pc[c] # "scan") \/ NextRecipient(c)
           \/ Write(c) \/ EndSend(c) \/ CreateList(c)
  <2>1. pc \in [Conns -> Steps]
    BY DEF Inv, TypeOK, ThreadTypes
  <2>2. /\ pc[c] # "index" /\ UNCHANGED ConnectionIdToChannel
        /\ pc'[c] \notin Outward
    BY <1>6, <2>1 DEF PutHandler, Rebind, Bind, PutPasscode, Check, Stamp, Open,
       GoOn, NextRecipient, Write, EndSend, CreateList, Throw, Return, Leave, Goto,
       indexes, Outward
  <2>3. ~AddSubscriber(c)
    BY <1>6 DEF AddSubscriber, PutHandler, Rebind, Bind, PutPasscode, Check, Stamp,
       Open, GoOn, NextRecipient, Write, EndSend, CreateList
  <2>4. \A ch \in Channels : Count(Subscribers(ch)', c) <= Count(Subscribers(ch), c)
    BY <2>3, NamedMore DEF Step
  <2> QED BY <2>2, <2>4, OutOfScan
<1> QED BY <1>1, <1>2, <1>3, <1>4, <1>5, <1>6, <1>7 DEF Handle

LEMMA LogoutInit == Init => LogoutInv
<1> SUFFICES ASSUME Init, NEW c \in Conns PROVE OnItsWayOut(c)
  BY DEF LogoutInv
<1>1. \A ch \in Channels : Subscribers(ch) = << >>
  BY DEF Init, Subscribers
<1>2. \A d : Count(<< >>, d) = 0
  BY CountEmpty
<1>3. pc[c] = "idle" /\ ConnectionIdToChannel[c] = << >>
  BY DEF Init
<1> QED BY <1>1, <1>2, <1>3 DEF OnItsWayOut, Recorded, Leaving, Scanning, One

LEMMA LogoutStep ==
    ASSUME Overlap = FALSE, MaxConnections <= IntegerCacheHigh + 1,
           Inv, SerialInv, LogoutInv, [Next]_vars
    PROVE  LogoutInv'
<1> SUFFICES ASSUME NEW c \in Conns PROVE OnItsWayOut(c)'
  BY DEF LogoutInv
<1>1. CASE UNCHANGED vars
  BY <1>1 DEF vars, rosters, indexes, locals, LogoutInv, OnItsWayOut, Recorded, Leaving,
     Scanning, Subscribers, Known, Body, Matches
<1>2. CASE Accept
  <2>1. UNCHANGED <<channelToConnectionId, lists, ConnectionIdToChannel, pc, frame, iter,
                    todo>>
    BY <1>2 DEF Accept, rosters, indexes, locals
  <2>2. status'[c] \in {"new", "open"} => status[c] \in {"new", "open"}
    BY StillLive DEF Inv
  <2> QED BY <2>1, <2>2 DEF LogoutInv, OnItsWayOut, Recorded, Leaving, Scanning,
          Subscribers, Known, Body, Matches
<1>3. ASSUME NEW b \in Conns, Step(b) PROVE OnItsWayOut(c)'
  <2>1. CASE c # b
    BY <1>3, <2>1, LogoutOthers
  <2>2. CASE c = b
    BY <1>3, <2>2, LogoutRequest, LogoutHandle DEF Step
  <2> QED BY <2>1, <2>2
<1> QED BY <1>1, <1>2, <1>3 DEF Next, Step

\* The loop of removeFromMaps ends with nothing to do, and nothing to do means
\* named by no list.
LEMMA LogoutCompletes ==
    ASSUME Inv, LogoutInv, [Next]_vars, NEW c \in Conns, NEW ch \in Channels,
           pc[c] = "leave", pc'[c] = "idle"
    PROVE  ~Contains(Subscribers(ch)', c)
<1>0. TypeOK /\ pc \in [Conns -> Steps] /\ todo \in [Conns -> Seq(Channels)]
  BY DEF Inv, TypeOK, ThreadTypes
<1>1. Step(c)
  <2>1. ~Accept /\ ~UNCHANGED vars
    BY DEF Accept, vars, locals
  <2>2. PICK b \in Conns : Step(b)
    BY <2>1 DEF Next, Step
  <2> QED BY <1>0, <2>2, OtherThreads DEF Step
<1>2. LeaveChannel(c)
  BY <1>1 DEF Step, Eof, Malformed, Request, Connect, ProcessConnect, Send, ProcessSend,
     Subscribe, ProcessSubscribe, Unsubscribe, ProcessUnsubscribe, Disconnect, Ready,
     Handle, PutHandler, Rebind, Bind, PutPasscode, Check, Stamp, Open, NextRecipient,
     Write, EndSend, CreateList, AddSubscriber, IndexSubscription, RemoveHandler,
     RemoveLogin, GoOn, Pick, RemoveFound, EndScan
<1>3. todo[c] = << >> /\ UNCHANGED <<channelToConnectionId, lists>>
  BY <1>0, <1>2 DEF LeaveChannel, Goto, rosters
<1>4. Count(Subscribers(ch), c) <= Count(todo[c], ch)
  BY DEF LogoutInv, OnItsWayOut, Leaving
<1>5. Count(<< >>, ch) = 0
  BY CountEmpty
<1>6. Count(Subscribers(ch), c) = 0
  BY <1>3, <1>4, <1>5, Counts
<1>7. ~Contains(Subscribers(ch), c)
  BY <1>6, RosterTypes, CountNone
<1> QED BY <1>3, <1>7 DEF Subscribers

----------------------------------------------------------------------------
(* The theorem.                                                            *)

\* One frame at a time, and with ids the Integer cache holds, a logout whose
\* loop over the channels comes to its end has taken the connection out of
\* every list, also where it had subscribed to a channel more than once.
THEOREM SerialCompletedLogoutLeavesAll ==
    ASSUME Overlap = FALSE, MaxConnections <= IntegerCacheHigh + 1
    PROVE  Spec => CompletedLogoutLeavesAll
<1>1. Spec => [](Inv /\ SerialInv)
  BY SerialAlways, PTL
<1>2. Inv /\ SerialInv /\ LogoutInv /\ [Next]_vars => LogoutInv'
  BY LogoutStep
<1>3. Inv /\ LogoutInv /\ [Next]_vars =>
         [\A c \in Conns : pc[c] = "leave" /\ pc'[c] = "idle" =>
             \A ch \in Channels : ~Contains(Subscribers(ch)', c)]_vars
  BY LogoutCompletes
<1> QED BY <1>1, <1>2, <1>3, LogoutInit, PTL DEF Spec, CompletedLogoutLeavesAll

=============================================================================
