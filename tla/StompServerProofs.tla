------------------------- MODULE StompServerProofs -------------------------
(* Theorems about StompServer, for every value of its constants. *)
EXTENDS StompServer, SequenceTheorems, TLAPS

\* Inductive: what every reachable state satisfies and every step preserves.
Inv == TypeOK /\ Consistent

----------------------------------------------------------------------------
(* Sequences.                                                              *)

LEMMA RemoveAtProperties ==
    ASSUME NEW S, NEW s \in Seq(S), NEW i \in 1 .. Len(s)
    PROVE  /\ RemoveAt(s, i) \in Seq(S)
           /\ \A x : Contains(RemoveAt(s, i), x) => Contains(s, x)
           /\ Len(RemoveAt(s, i)) = Len(s) - 1
           /\ \A k \in 1 .. Len(s) - 1 :
                 RemoveAt(s, i)[k] = IF k < i THEN s[k] ELSE s[k + 1]
<1> DEFINE a == SubSeq(s, 1, i-1)
           b == SubSeq(s, i+1, Len(s))
<1>1. /\ a \in Seq(S) /\ Len(a) = i - 1
      /\ \A k \in 1 .. Len(a) : a[k] = s[k]
  BY SubSeqProperties, LenProperties, ElementOfSeq
<1>2. /\ b \in Seq(S) /\ Len(b) = Len(s) - i
      /\ \A k \in 1 .. Len(b) : b[k] = s[i + k]
  OBVIOUS
<1>3. RemoveAt(s, i) = a \o b
  BY DEF RemoveAt
<1> HIDE DEF a, b
<1>4. a \o b \in Seq(S) /\ Len(a \o b) = Len(a) + Len(b)
      /\ \A k \in 1 .. Len(a) + Len(b) :
            (a \o b)[k] = IF k <= Len(a) THEN a[k] ELSE b[k - Len(a)]
  BY <1>1, <1>2, ConcatProperties
<1>5. ASSUME NEW k \in 1 .. Len(a \o b) PROVE \E j \in 1 .. Len(s) : (a \o b)[k] = s[j]
  <2>1. CASE k <= Len(a)
    BY <2>1, <1>1, <1>4, <1>2
  <2>2. CASE ~(k <= Len(a))
    <3>1. k - Len(a) \in 1 .. Len(b)
      BY <2>2, <1>1, <1>2, <1>4
    <3>2. (a \o b)[k] = s[i + (k - Len(a))]
      BY <2>2, <3>1, <1>1, <1>2, <1>4
    <3>3. i + (k - Len(a)) \in 1 .. Len(s)
      BY <3>1, <1>2
    <3> QED BY <3>2, <3>3
  <2> QED BY <2>1, <2>2
<1>6. Len(s) \in Nat /\ i \in Nat /\ Len(a) + Len(b) = Len(s) - 1
  BY <1>1, <1>2
<1>7. ASSUME NEW k \in 1 .. Len(s) - 1, k < i
      PROVE  (a \o b)[k] = s[k]
  <2>1. k \in 1 .. Len(a)
    BY <1>7, <1>1, <1>6
  <2>2. k \in 1 .. Len(a) + Len(b) /\ k <= Len(a)
    BY <2>1, <1>6
  <2>3. (a \o b)[k] = a[k]
    BY <2>2, <1>4
  <2> QED BY <2>1, <2>3, <1>1
<1>8. ASSUME NEW k \in 1 .. Len(s) - 1, ~(k < i)
      PROVE  (a \o b)[k] = s[k + 1]
  <2>1. k - Len(a) \in 1 .. Len(b) /\ i + (k - Len(a)) = k + 1
    BY <1>8, <1>1, <1>2, <1>6
  <2>2. k \in 1 .. Len(a) + Len(b) /\ ~(k <= Len(a))
    BY <1>8, <1>1, <1>6
  <2>3. (a \o b)[k] = b[k - Len(a)]
    BY <2>2, <1>4
  <2>4. b[k - Len(a)] = s[i + (k - Len(a))]
    BY <2>1, <1>2
  <2> QED BY <2>1, <2>3, <2>4
<1>9. \A x : Contains(a \o b, x) => Contains(s, x)
  <2> SUFFICES ASSUME NEW x, NEW k \in 1 .. Len(a \o b), (a \o b)[k] = x
               PROVE  \E j \in 1 .. Len(s) : s[j] = x
    BY <1>4 DEF Contains
  <2> QED BY <1>5
<1>10. Len(a \o b) = Len(s) - 1 /\ a \o b \in Seq(S)
  BY <1>4, <1>6
<1>11. \A k \in 1 .. Len(s) - 1 : (a \o b)[k] = IF k < i THEN s[k] ELSE s[k + 1]
  BY <1>7, <1>8
<1> QED BY <1>3, <1>9, <1>10, <1>11

----------------------------------------------------------------------------
(* Types.                                                                  *)

LEMMA NothingTypes ==
    NoFrame \in Frames /\ NoIter \in Iterators /\ NoDelivery \in Deliveries
BY DEF NoFrame, NoIter, NoDelivery, Frames, Commands, Iterators, Deliveries, Nullable

LEMMA FrameTypes ==
    /\ \A l \in Logins, p \in Passcodes :
          [NoFrame EXCEPT !.command = "CONNECT", !.login = l, !.passcode = p] \in Frames
    /\ \A ch \in Channels, receipt \in Nullable(Receipts) :
          [NoFrame EXCEPT !.command = "SEND", !.channel = ch, !.receipt = receipt] \in Frames
    /\ \A ch \in Channels, i \in Ids, receipt \in Nullable(Receipts) :
          [NoFrame EXCEPT !.command = "SUBSCRIBE", !.channel = ch, !.id = i,
                          !.receipt = receipt] \in Frames
    /\ \A ch \in Channels, i \in Ids, receipt \in Nullable(Receipts) :
          [NoFrame EXCEPT !.command = "UNSUBSCRIBE", !.channel = ch, !.id = i,
                          !.receipt = receipt] \in Frames
    /\ [NoFrame EXCEPT !.command = "DISCONNECT"] \in Frames
BY DEF NoFrame, Frames, Commands, Nullable

LEMMA GotoTypes ==
    ASSUME ThreadTypes, NEW c \in Conns
    PROVE  \A step \in {"idle", "put", "rebind", "bind", "passcode", "check", "stamp",
                         "open", "next", "recipient", "write", "create", "add", "index",
                         "scan", "pick", "remove", "unregister", "unbind", "leave"} :
              Goto(c, step) => pc' \in [Conns -> Steps]
<1> SUFFICES ASSUME NEW step \in Steps, Goto(c, step) PROVE pc' \in [Conns -> Steps]
  BY DEF Steps
<1> QED BY DEF ThreadTypes, Goto

LEMMA UpdateTypes ==
    ASSUME ThreadTypes, NEW c \in Conns
    PROVE  /\ \A f \in Frames : [frame EXCEPT ![c] = f] \in [Conns -> Frames]
           /\ \A it \in Iterators : [iter EXCEPT ![c] = it] \in [Conns -> Iterators]
           /\ \A s \in Seq(Channels) : [todo EXCEPT ![c] = s] \in [Conns -> Seq(Channels)]
           /\ \A d \in Deliveries : [delivery EXCEPT ![c] = d] \in [Conns -> Deliveries]
<1> HIDE DEF Frames, Iterators, Deliveries
<1> QED BY DEF ThreadTypes

LEMMA LeaveTypes ==
    ASSUME ThreadTypes, NEW c \in Conns, Leave(c), UNCHANGED status \/ Throw(c)
    PROVE  ThreadTypes'
<1> HIDE DEF Frames, Iterators, Deliveries
<1>1. status' \in [Conns -> {"new", "open", "eof", "logout", "failed"}]
  BY DEF ThreadTypes, Throw
<1>2. << >> \in Seq(Channels)
  OBVIOUS
<1>3. /\ frame' \in [Conns -> Frames]
      /\ iter' \in [Conns -> Iterators]
      /\ todo' \in [Conns -> Seq(Channels)]
      /\ delivery' \in [Conns -> Deliveries]
  BY <1>2, NothingTypes, UpdateTypes DEF Leave
<1>4. pc' \in [Conns -> Steps]
  BY GotoTypes DEF Leave
<1> QED BY <1>1, <1>3, <1>4 DEF ThreadTypes

LEMMA ThrowTypes ==
    ASSUME ThreadTypes, NEW c \in Conns, Throw(c)
    PROVE  ThreadTypes'
BY LeaveTypes DEF Throw

LEMMA ReturnTypes ==
    ASSUME ThreadTypes, NEW c \in Conns, Return(c)
    PROVE  ThreadTypes'
BY LeaveTypes DEF Return

LEMMA IteratorTypes ==
    ASSUME NEW ref \in Nullable(ListRefs)
    PROVE  IteratorOn(ref) \in Iterators
BY DEF IteratorOn, Iterators

LEMMA TouchedTypes ==
    ASSUME ThreadTypes, NEW ref
    PROVE  Touched(ref) \in [Conns -> Iterators]
BY DEF ThreadTypes, Touched, Iterators

LEMMA AnswerTypes ==
    ASSUME ThreadTypes, NEW c \in Conns
    PROVE  /\ Silent => wire' \in Nullable(FramesOnWire)
           /\ Answer(c, "CONNECTED") => wire' \in Nullable(FramesOnWire)
           /\ AnswerReceipt(c) => wire' \in Nullable(FramesOnWire)
<1>1. frame[c].receipt \in Nullable(Receipts)
  BY DEF ThreadTypes, Frames
<1> QED BY <1>1 DEF Silent, Answer, AnswerReceipt, Nullable, FramesOnWire

\* What the first step of a frame, or the end of the connection, leaves alone.
LEMMA RequestEffects ==
    ASSUME NEW c \in Conns, Eof(c) \/ Malformed(c) \/ Request(c)
    PROVE  /\ status[c] = "open"
           /\ UNCHANGED <<connectionId, channelToConnectionId, lists, indexes>>
<1> USE DEF Ready, counters, rosters, indexes
<1>1. CASE Eof(c) \/ Malformed(c) \/ Disconnect(c)
  BY <1>1 DEF Eof, Malformed, Disconnect
<1>2. CASE Connect(c) \/ Send(c)
  BY <1>2 DEF Connect, ProcessConnect, Send, ProcessSend
<1>3. CASE Subscribe(c) \/ Unsubscribe(c)
  BY <1>3 DEF Subscribe, ProcessSubscribe, Unsubscribe, ProcessUnsubscribe
<1> QED BY <1>1, <1>2, <1>3 DEF Request

LEMMA TypeStep == Inv /\ [Next]_vars => TypeOK'
<1> SUFFICES ASSUME TypeOK, \A c \in Conns : ThreadConsistent(c), [Next]_vars PROVE TypeOK'
  BY DEF Inv, Consistent
<1> USE DEF TypeOK, counters, sessions, rosters, indexes, locals
<1>0. UNCHANGED sessions => SessionTypes'
  BY DEF SessionTypes
<1>00. UNCHANGED <<rosters, indexes>> => TopicTypes'
  BY DEF TopicTypes
<1>1. CASE Accept
  <2>1. SessionTypes' /\ ThreadTypes'
    BY <1>1 DEF Accept, HandlerKey, SessionTypes, ThreadTypes
  <2> QED BY <1>1, <2>1, <1>00, AnswerTypes DEF Accept, Conns
<1>2. ASSUME NEW c \in Conns, Eof(c) PROVE TypeOK'
  <2>1. ThreadTypes'
    BY <1>2 DEF Eof, ThreadTypes
  <2> QED BY <1>2, <2>1, <1>0, <1>00, AnswerTypes DEF Eof
<1>3. ASSUME NEW c \in Conns, Malformed(c) PROVE TypeOK'
  BY <1>3, <1>0, <1>00, ThrowTypes, AnswerTypes DEF Malformed
<1>4. ASSUME NEW c \in Conns, Connect(c) PROVE TypeOK'
  <2>1. ThreadTypes'
    <3>1. PICK l \in Logins, p \in Passcodes : ProcessConnect(c, l, p)
      BY <1>4 DEF Connect
    <3>2. CASE Throw(c)
      BY <3>2, ThrowTypes
    <3>3. CASE ~Throw(c)
      <4>1. /\ frame' = [frame EXCEPT ![c] =
                  [NoFrame EXCEPT !.command = "CONNECT", !.login = l, !.passcode = p]]
            /\ Goto(c, "put")
            /\ UNCHANGED <<status, iter, todo, delivery>>
        BY <3>1, <3>3 DEF ProcessConnect
      <4>2. frame' \in [Conns -> Frames]
        BY <4>1, FrameTypes, UpdateTypes
      <4>3. pc' \in [Conns -> Steps]
        BY <4>1, GotoTypes
      <4> QED BY <4>1, <4>2, <4>3 DEF ThreadTypes
    <3> QED BY <3>2, <3>3
  <2> QED BY <1>4, <2>1, <1>0, <1>00, AnswerTypes DEF Connect, ProcessConnect
<1>5. ASSUME NEW c \in Conns, Send(c) PROVE TypeOK'
  <2>1. ThreadTypes'
    <3>1. PICK ch \in Channels, receipt \in Nullable(Receipts) :
             /\ frame' = [frame EXCEPT ![c] =
                  [NoFrame EXCEPT !.command = "SEND", !.channel = ch, !.receipt = receipt]]
             /\ IF channelToConnectionId[ch] = Null
                THEN Goto(c, "stamp") /\ UNCHANGED iter
                ELSE /\ iter' = [iter EXCEPT ![c] = IteratorOn(channelToConnectionId[ch])]
                     /\ Goto(c, "check")
      BY <1>5 DEF Send, ProcessSend
    <3>2. frame' \in [Conns -> Frames]
      BY <3>1, FrameTypes, UpdateTypes
    <3>3. iter' \in [Conns -> Iterators]
      <4>1. channelToConnectionId[ch] \in Nullable(ListRefs)
        BY DEF TopicTypes
      <4>2. IteratorOn(channelToConnectionId[ch]) \in Iterators
        BY <4>1, IteratorTypes
      <4>3. CASE channelToConnectionId[ch] = Null
        BY <3>1, <4>3 DEF ThreadTypes
      <4>4. CASE channelToConnectionId[ch] # Null
        BY <3>1, <4>2, <4>4, UpdateTypes
      <4> QED BY <4>3, <4>4
    <3>4. pc' \in [Conns -> Steps]
      BY <3>1, GotoTypes
    <3> QED BY <1>5, <3>2, <3>3, <3>4 DEF Send, ProcessSend, ThreadTypes
  <2> QED BY <1>5, <2>1, <1>0, <1>00, AnswerTypes DEF Send, ProcessSend
<1>6. ASSUME NEW c \in Conns, Subscribe(c) PROVE TypeOK'
  <2>1. ThreadTypes'
    <3>1. frame' \in [Conns -> Frames]
      <4>1. PICK ch \in Channels, i \in Ids, receipt \in Nullable(Receipts) :
               frame' = [frame EXCEPT ![c] =
                 [NoFrame EXCEPT !.command = "SUBSCRIBE", !.channel = ch, !.id = i,
                                 !.receipt = receipt]]
        BY <1>6 DEF Subscribe, ProcessSubscribe
      <4>2. [NoFrame EXCEPT !.command = "SUBSCRIBE", !.channel = ch, !.id = i,
                            !.receipt = receipt] \in Frames
        BY FrameTypes
      <4> QED BY <4>1, <4>2, UpdateTypes
    <3>2. pc' \in [Conns -> Steps]
      BY <1>6, GotoTypes DEF Subscribe, ProcessSubscribe
    <3> QED BY <1>6, <3>1, <3>2 DEF Subscribe, ProcessSubscribe, ThreadTypes
  <2> QED BY <1>6, <2>1, <1>0, <1>00, AnswerTypes DEF Subscribe, ProcessSubscribe
<1>7. ASSUME NEW c \in Conns, Unsubscribe(c) PROVE TypeOK'
  <2>1. PICK i \in Ids, receipt \in Nullable(Receipts) :
          LET ch == clientidToIdTopicMap[c][i] IN
          IF ch = Null
          THEN Throw(c)
          ELSE /\ frame' = [frame EXCEPT ![c] =
                    [NoFrame EXCEPT !.command = "UNSUBSCRIBE", !.channel = ch,
                                    !.id = i, !.receipt = receipt]]
               /\ iter' = [iter EXCEPT ![c] = IteratorOn(channelToConnectionId[ch])]
               /\ Goto(c, "scan")
               /\ UNCHANGED <<status, todo, delivery>>
    BY <1>7 DEF Unsubscribe, ProcessUnsubscribe
  <2>2. CASE clientidToIdTopicMap[c][i] = Null
    BY <1>7, <2>1, <2>2, <1>0, <1>00, ThrowTypes, AnswerTypes DEF Unsubscribe,
       ProcessUnsubscribe
  <2>3. CASE clientidToIdTopicMap[c][i] # Null
    <3> DEFINE ch == clientidToIdTopicMap[c][i]
    <3>1. ch \in Channels /\ channelToConnectionId[ch] \in Nullable(ListRefs)
      BY <2>3 DEF TopicTypes, Nullable
    <3>2. ThreadTypes'
      <4>1. frame' \in [Conns -> Frames]
        <5>1. [NoFrame EXCEPT !.command = "UNSUBSCRIBE", !.channel = ch, !.id = i,
                              !.receipt = receipt] \in Frames
          BY <3>1, FrameTypes
        <5> QED BY <2>1, <2>3, <5>1, UpdateTypes
      <4>2. iter' \in [Conns -> Iterators]
        BY <2>1, <2>3, <3>1, IteratorTypes, UpdateTypes
      <4>3. pc' \in [Conns -> Steps]
        BY <2>1, <2>3, GotoTypes
      <4> QED BY <2>1, <2>3, <4>1, <4>2, <4>3 DEF ThreadTypes
    <3> QED BY <1>7, <3>2, <1>0, <1>00, AnswerTypes DEF Unsubscribe, ProcessUnsubscribe
  <2> QED BY <2>2, <2>3
<1>8. ASSUME NEW c \in Conns, Disconnect(c) PROVE TypeOK'
  <2>1. ThreadTypes'
    BY <1>8, FrameTypes, GotoTypes DEF Disconnect, ThreadTypes
  <2> QED BY <1>8, <2>1, <1>0, <1>00, AnswerTypes DEF Disconnect
<1>9. ASSUME NEW c \in Conns, Handle(c) PROVE TypeOK'
  <2>0. frame[c] \in Frames /\ iter[c] \in Iterators /\ delivery[c] \in Deliveries
    BY DEF ThreadTypes
  <2>1. CASE PutHandler(c)
    <3>1. ThreadTypes'
      BY <2>1, GotoTypes DEF PutHandler, ThreadTypes
    <3>2. SessionTypes'
      BY <2>1 DEF PutHandler, SessionTypes
    <3> QED BY <2>1, <3>1, <3>2, <1>00, AnswerTypes DEF PutHandler
  <2>16. CASE Rebind(c)
    <3>1. SessionTypes'
      BY <2>16 DEF Rebind, BindLogin, SessionTypes, Nullable
    <3> QED BY <2>16, <3>1, <1>00, ReturnTypes, AnswerTypes DEF Rebind
  <2>17. CASE Bind(c)
    <3>1. ThreadTypes'
      BY <2>17, GotoTypes DEF Bind, ThreadTypes
    <3>2. SessionTypes'
      BY <2>0, <2>17 DEF Bind, BindLogin, SessionTypes, Nullable, Frames
    <3> QED BY <2>17, <3>1, <3>2, <1>00, AnswerTypes DEF Bind
  <2>2. CASE PutPasscode(c)
    <3>1. SessionTypes'
      BY <2>0, <2>2 DEF PutPasscode, SessionTypes, Frames
    <3> QED BY <2>2, <3>1, <1>00, ReturnTypes, AnswerTypes DEF PutPasscode
  <2>3. CASE Check(c)
    <3>1. ThreadTypes'
      BY <2>3, ThrowTypes, GotoTypes DEF Check, ThreadTypes
    <3> QED BY <2>3, <3>1, <1>0, <1>00, AnswerTypes DEF Check
  <2>4. CASE Stamp(c)
    <3>1. ThreadTypes'
      <4>1. [delivery[c] EXCEPT !.mid = messageId] \in Deliveries
        BY <2>0 DEF Deliveries
      <4> QED BY <2>4, <4>1, ThrowTypes, GotoTypes DEF Stamp, ThreadTypes
    <3> QED BY <2>4, <3>1, <1>0, <1>00, AnswerTypes DEF Stamp
  <2>5. CASE Open(c)
    <3>1. messageId' \in Nat
      BY <2>5 DEF Open, Increment, ThreadTypes, Deliveries
    <3>2. ThreadTypes'
      <4> DEFINE ref == channelToConnectionId[frame[c].channel]
      <4>1. CASE ref = Null
        BY <2>5, <4>1, ThrowTypes DEF Open
      <4>2. CASE ref # Null
        <5>1. ref \in Nullable(ListRefs) /\ ToSet(lists[ref]) \subseteq Conns
          BY <2>5, <4>2 DEF Open, TopicTypes, ThreadConsistent, Nullable, ToSet
        <5>2. [delivery[c] EXCEPT !.audience = ToSet(lists[ref])] \in Deliveries
          BY <2>0, <5>1 DEF Deliveries
        <5>3. delivery' \in [Conns -> Deliveries]
          BY <2>5, <4>2, <5>2 DEF Open, ThreadTypes
        <5>4. iter' \in [Conns -> Iterators]
          BY <2>5, <4>2, <5>1, IteratorTypes, UpdateTypes DEF Open
        <5> QED BY <2>5, <4>2, <5>3, <5>4, GotoTypes DEF Open, ThreadTypes
      <4> QED BY <4>1, <4>2
    <3> QED BY <2>5, <3>1, <3>2, <1>0, <1>00, AnswerTypes DEF Open
  <2>6. CASE NextRecipient(c)
    <3>1. ThreadTypes'
      <4> DEFINE r == Body(c)[iter[c].at + 1]
                 peer == IF r \in connectionIdToHandler THEN r ELSE Null
      <4>1. [iter[c] EXCEPT !.at = @ + 1] \in Iterators
        BY <2>0 DEF Iterators
      <4>2. peer \in Nullable(Conns)
        BY DEF SessionTypes, Nullable
      <4> HIDE DEF peer
      <4>3. [delivery[c] EXCEPT !.mid = messageId, !.peer = peer] \in Deliveries
        BY <2>0, <4>2 DEF Deliveries
      <4>4. CASE NextThrows(c) \/ topicToChannelId[r][frame[c].channel] = Null
        BY <2>6, <4>4, ThrowTypes DEF NextRecipient
      <4>5. CASE ~(NextThrows(c) \/ topicToChannelId[r][frame[c].channel] = Null)
        <5>1. delivery' = [delivery EXCEPT ![c].mid = messageId, ![c].peer = peer]
          BY <2>6, <4>5 DEF NextRecipient, peer
        <5>2. delivery' \in [Conns -> Deliveries]
          BY <5>1, <4>3 DEF ThreadTypes
        <5>3. iter' \in [Conns -> Iterators]
          BY <2>6, <4>5, <4>1 DEF NextRecipient, ThreadTypes
        <5> QED BY <2>6, <4>5, <5>2, <5>3, GotoTypes DEF NextRecipient, ThreadTypes
      <4> QED BY <4>4, <4>5
    <3> QED BY <2>6, <3>1, <1>0, <1>00, AnswerTypes DEF NextRecipient
  <2>7. CASE Write(c)
    <3>1. messageId' \in Nat
      BY <2>7 DEF Write, Increment, ThreadTypes, Deliveries
    <3>2. ThreadTypes'
      <4> DEFINE r == delivery[c].peer
      <4>1. CASE r = Null
        BY <2>7, <4>1, ThrowTypes DEF Write
      <4>2. CASE r # Null
        <5>1. [delivery[c] EXCEPT !.reached = @ \cup {r}] \in Deliveries
          BY <2>0, <4>2 DEF Deliveries, Nullable
        <5> QED BY <2>7, <4>2, <5>1, GotoTypes DEF Write, ThreadTypes
      <4> QED BY <4>1, <4>2
    <3>3. wire' \in Nullable(FramesOnWire)
      BY <2>7 DEF Write, Silent, ThreadTypes, TopicTypes, Deliveries, FramesOnWire,
         Nullable, ThreadConsistent
    <3> QED BY <2>7, <3>1, <3>2, <3>3, <1>0, <1>00 DEF Write
  <2>8. CASE EndSend(c)
    BY <2>8, <1>0, <1>00, ThrowTypes, ReturnTypes, AnswerTypes DEF EndSend
  <2>9. CASE CreateList(c)
    <3>1. ThreadTypes'
      BY <2>9, GotoTypes DEF CreateList, ThreadTypes
    <3>2. TopicTypes'
      BY <2>9 DEF CreateList, TopicTypes, ThreadConsistent, ListRefs, Nullable
    <3> QED BY <2>9, <3>1, <3>2, <1>0, AnswerTypes DEF CreateList
  <2>10. CASE AddSubscriber(c)
    <3>1. ThreadTypes'
      BY <2>10, TouchedTypes, GotoTypes DEF AddSubscriber, ThreadTypes
    <3>2. TopicTypes'
      <4>1. \A ref \in ListRefs : Append(lists[ref], c) \in Seq(Conns)
        BY DEF TopicTypes
      <4> QED BY <2>10, <4>1 DEF AddSubscriber, TopicTypes, Join
    <3> QED BY <2>10, <3>1, <3>2, <1>0, AnswerTypes DEF AddSubscriber
  <2>11. CASE IndexSubscription(c)
    <3>1. ThreadTypes'
      BY <2>11, ThrowTypes, ReturnTypes DEF IndexSubscription
    <3>2. TopicTypes'
      <4>1. frame[c].channel \in Channels /\ frame[c].id \in Ids
        BY <2>11 DEF IndexSubscription, ThreadConsistent
      <4>2. [ch \in Channels |-> IF ch = frame[c].channel THEN frame[c].id ELSE Null]
              \in [Channels -> Nullable(Ids)]
        BY <4>1 DEF Nullable
      <4>3. Append(ConnectionIdToChannel[c], frame[c].channel) \in Seq(Channels)
        BY <4>1 DEF TopicTypes
      <4>4. ConnectionIdToChannel' \in [Conns -> Seq(Channels)]
        BY <2>11, <4>3 DEF IndexSubscription, ChannelsWith, TopicTypes
      <4>5. clientidToIdTopicMap' \in [Conns -> [Ids -> Nullable(Channels)]]
        <5>1. [clientidToIdTopicMap[c] EXCEPT ![frame[c].id] = frame[c].channel]
                \in [Ids -> Nullable(Channels)]
          BY <4>1 DEF TopicTypes, Nullable
        <5> QED BY <2>11, <5>1 DEF IndexSubscription, TopicTypes
      <4>6. topicToChannelId' \in [Conns -> [Channels -> Nullable(Ids)]]
        BY <2>11, <4>2 DEF IndexSubscription, TopicTypes
      <4> QED BY <2>11, <4>4, <4>5, <4>6 DEF IndexSubscription, TopicTypes
    <3> QED BY <2>11, <3>1, <3>2, <1>0, AnswerTypes DEF IndexSubscription
  <2>12. CASE LeaveChannel(c)
    <3>1. TopicTypes'
      <4>1. ConnectionIdToChannel' \in [Conns -> Seq(Channels)]
        <5>1. << >> \in Seq(Channels)
          OBVIOUS
        <5> QED BY <2>12, <5>1 DEF LeaveChannel, TopicTypes
      <4> QED BY <2>12, <4>1 DEF LeaveChannel, TopicTypes
    <3>2. ThreadTypes'
      <4>1. CASE todo[c] = << >>
        BY <2>12, <4>1, ReturnTypes DEF LeaveChannel
      <4>2. CASE todo[c] # << >>
        <5>1. Head(todo[c]) \in Channels /\ Tail(todo[c]) \in Seq(Channels)
          BY <4>2 DEF ThreadTypes
        <5>2. [frame[c] EXCEPT !.channel = Head(todo[c])] \in Frames
          BY <2>0, <5>1 DEF Frames, Nullable
        <5>3. IteratorOn(channelToConnectionId[Head(todo[c])]) \in Iterators
          BY <5>1, IteratorTypes DEF TopicTypes
        <5> QED BY <2>12, <4>2, <5>1, <5>2, <5>3, GotoTypes DEF LeaveChannel,
           ThreadTypes
      <4> QED BY <4>1, <4>2
    <3> QED BY <2>12, <3>1, <3>2, <1>0, AnswerTypes DEF LeaveChannel
  <2>13. CASE Pick(c)
    <3>1. ThreadTypes'
      <4>1. CASE NextThrows(c)
        BY <2>13, <4>1, ThrowTypes DEF Pick
      <4>2. CASE ~NextThrows(c)
        <5>1. [iter[c] EXCEPT !.at = iter[c].at + 1] \in Iterators
          BY <2>0 DEF Iterators
        <5> QED BY <2>13, <4>2, <5>1, GotoTypes DEF Pick, PositionAfter, ThreadTypes
      <4> QED BY <4>1, <4>2
    <3> QED BY <2>13, <3>1, <1>0, <1>00, AnswerTypes DEF Pick
  <2>14. CASE RemoveFound(c)
    <3>1. ThreadTypes'
      BY <2>14, ThrowTypes, TouchedTypes, GotoTypes DEF RemoveFound, ThreadTypes
    <3>2. TopicTypes'
      <4>1. CASE iter[c].at <= Len(Body(c))
        <5>1. iter[c].list \in ListRefs /\ iter[c].at \in 1 .. Len(lists[iter[c].list])
          BY <2>14, <4>1 DEF RemoveFound, Body, ThreadConsistent, ThreadTypes,
             Iterators, TopicTypes
        <5>2. RemoveAt(lists[iter[c].list], iter[c].at) \in Seq(Conns)
          BY <5>1, RemoveAtProperties DEF TopicTypes
        <5> QED BY <2>14, <4>1, <5>2 DEF RemoveFound, FoundIndex, Body, TopicTypes
      <4>2. CASE ~(iter[c].at <= Len(Body(c)))
        BY <2>14, <4>2 DEF RemoveFound, FoundIndex, TopicTypes
      <4> QED BY <4>1, <4>2
    <3> QED BY <2>14, <3>1, <3>2, <1>0, AnswerTypes DEF RemoveFound
  <2>15. CASE EndScan(c)
    <3>1. ThreadTypes'
      BY <2>15, ReturnTypes, GotoTypes DEF EndScan, ThreadTypes
    <3> QED BY <2>15, <3>1, <1>0, <1>00, AnswerTypes DEF EndScan
  <2>18. CASE RemoveHandler(c)
    <3>1. ThreadTypes'
      BY <2>18, GotoTypes DEF RemoveHandler, ThreadTypes
    <3>2. SessionTypes'
      BY <2>18 DEF RemoveHandler, SessionTypes
    <3> QED BY <2>18, <3>1, <3>2, <1>00, AnswerTypes DEF RemoveHandler
  <2>19. CASE RemoveLogin(c)
    <3>1. ThreadTypes'
      BY <2>19, ThrowTypes, GotoTypes DEF RemoveLogin, ThreadTypes, TopicTypes
    <3>2. SessionTypes'
      BY <2>19 DEF RemoveLogin, RemoveSession, SessionTypes, Nullable
    <3>3. TopicTypes'
      BY <2>19 DEF RemoveLogin, TopicTypes, Nullable
    <3> QED BY <2>19, <3>1, <3>2, <3>3, AnswerTypes DEF RemoveLogin
  <2>20. CASE GoOn(c)
    <3>1. ThreadTypes'
      BY <2>20, GotoTypes DEF GoOn, ThreadTypes
    <3> QED BY <2>20, <3>1, <1>0, <1>00, AnswerTypes DEF GoOn
  <2> QED BY <1>9, <2>1, <2>2, <2>3, <2>4, <2>5, <2>6, <2>7, <2>8, <2>9, <2>10,
          <2>11, <2>12, <2>13, <2>14, <2>15, <2>16, <2>17, <2>18, <2>19, <2>20
          DEF Handle
<1>10. CASE UNCHANGED vars
  BY <1>10 DEF vars, SessionTypes, TopicTypes, ThreadTypes
<1> QED BY <1>1, <1>2, <1>3, <1>4, <1>5, <1>6, <1>7, <1>8, <1>9, <1>10 DEF Next, Request
----------------------------------------------------------------------------
(* Consistency.                                                            *)

LEMMA InitInv == Init => Inv
<1> SUFFICES ASSUME Init PROVE Inv
  OBVIOUS
<1> USE DEF Init
<1>1. SessionTypes /\ TopicTypes
  BY DEF SessionTypes, TopicTypes, Nullable
<1>2. ThreadTypes
  BY NothingTypes DEF ThreadTypes, Steps
<1>3. TypeOK
  BY <1>1, <1>2 DEF TypeOK, Nullable
<1>4. \A c \in Conns : ThreadConsistent(c)
  BY DEF ThreadConsistent, NoFrame
<1>5. FreshIds /\ ReferencesResolve /\ ListsIndexed
  BY DEF FreshIds, ReferencesResolve, ListsIndexed, Known, Contains
<1> QED BY <1>3, <1>4, <1>5 DEF Inv, Consistent

\* A channel that has a list keeps one.
LEMMA KnownForEver ==
    ASSUME TypeOK, \A c \in Conns : ThreadConsistent(c), [Next]_vars,
           NEW ch \in Channels, Known(ch)
    PROVE  Known(ch)'
<1> USE DEF Known, counters, sessions, rosters, indexes, locals
<1>1. CASE Accept
  BY <1>1 DEF Accept
<1>2. CASE \E c \in Conns : Eof(c) \/ Malformed(c) \/ Request(c)
  BY <1>2, RequestEffects
<1>3. ASSUME NEW c \in Conns, Handle(c) PROVE Known(ch)'
  <2>1. CASE CreateList(c)
    BY <2>1, NullAssumption DEF CreateList, TypeOK, TopicTypes, ListRefs,
       ThreadConsistent
  <2>2. CASE ~CreateList(c)
    BY <1>3, <2>2 DEF Handle, PutHandler, Rebind, Bind, PutPasscode, Check, Stamp, Open,
       NextRecipient, Write, EndSend, AddSubscriber, IndexSubscription, RemoveHandler,
       RemoveLogin, LeaveChannel, GoOn, Pick, RemoveFound, EndScan
  <2> QED BY <2>1, <2>2
<1>4. CASE UNCHANGED vars
  BY <1>4 DEF vars
<1> QED BY <1>1, <1>2, <1>3, <1>4 DEF Next

\* A step of one thread leaves the locals and the id map of the others alone;
\* at most it marks their iterators stale.
LEMMA OtherThreads ==
    ASSUME TypeOK, NEW c \in Conns, NEW d \in Conns, d # c,
           Eof(c) \/ Malformed(c) \/ Request(c) \/ Handle(c)
    PROVE  /\ pc'[d] = pc[d] /\ frame'[d] = frame[d] /\ todo'[d] = todo[d]
           /\ status'[d] = status[d]
           /\ iter'[d].list = iter[d].list /\ iter'[d].at = iter[d].at
           /\ clientidToIdTopicMap'[d] = clientidToIdTopicMap[d]
           /\ ConnectionIdToChannel'[d] = ConnectionIdToChannel[d]
           /\ topicToChannelId'[d] = topicToChannelId[d]
<1> USE DEF counters, sessions, rosters, indexes, locals
<1>0. iter[d] \in Iterators
  BY DEF TypeOK, ThreadTypes
<1>1. \A ref : Touched(ref)[d].list = iter[d].list /\ Touched(ref)[d].at = iter[d].at
  BY <1>0 DEF Touched, Iterators
<1> USE DEF TypeOK, ThreadTypes, TopicTypes, Goto, Throw, Return, Leave
<1>2. CASE Eof(c) \/ Malformed(c)
  BY <1>2 DEF Eof, Malformed
<1>3. CASE Connect(c)
  BY <1>3 DEF Connect, ProcessConnect
<1>4. CASE Send(c)
  BY <1>4 DEF Send, ProcessSend
<1>5. CASE Subscribe(c)
  BY <1>5 DEF Subscribe, ProcessSubscribe
<1>6. CASE Unsubscribe(c)
  BY <1>6 DEF Unsubscribe, ProcessUnsubscribe
<1>7. CASE Disconnect(c)
  BY <1>7 DEF Disconnect
<1>8. CASE Handle(c)
  <2>1. CASE PutHandler(c) \/ Rebind(c) \/ Bind(c) \/ PutPasscode(c)
    BY <2>1 DEF PutHandler, Rebind, Bind, PutPasscode
  <2>2. CASE Check(c) \/ Stamp(c)
    BY <2>2 DEF Check, Stamp
  <2>3. CASE Open(c)
    BY <2>3 DEF Open
  <2>4. CASE NextRecipient(c)
    BY <2>4 DEF NextRecipient
  <2>5. CASE Write(c) \/ EndSend(c)
    BY <2>5 DEF Write, EndSend
  <2>6. CASE CreateList(c)
    BY <2>6 DEF CreateList
  <2>7. CASE AddSubscriber(c)
    BY <2>7, <1>1 DEF AddSubscriber
  <2>8. CASE IndexSubscription(c)
    BY <2>8 DEF IndexSubscription
  <2>9. CASE LeaveChannel(c)
    BY <2>9 DEF LeaveChannel
  <2>10. CASE GoOn(c) \/ Pick(c)
    BY <2>10 DEF GoOn, Pick
  <2>11. CASE RemoveFound(c)
    BY <2>11, <1>1 DEF RemoveFound
  <2>12. CASE EndScan(c)
    BY <2>12 DEF EndScan
  <2>13. CASE RemoveHandler(c) \/ RemoveLogin(c)
    BY <2>13 DEF RemoveHandler, RemoveLogin
  <2> QED BY <1>8, <2>1, <2>2, <2>3, <2>4, <2>5, <2>6, <2>7, <2>8, <2>9, <2>10,
          <2>11, <2>12, <2>13 DEF Handle
<1> QED BY <1>2, <1>3, <1>4, <1>5, <1>6, <1>7, <1>8 DEF Request

\* What ThreadConsistent says of a thread survives any step that leaves its
\* locals alone.
LEMMA StillConsistent ==
    ASSUME TypeOK, NEW d \in Conns, ThreadConsistent(d),
           \A ch \in Channels : Known(ch) => Known(ch)',
           pc'[d] = pc[d], frame'[d] = frame[d], todo'[d] = todo[d],
           status'[d] = status[d] \/ (status[d] = "new" /\ status'[d] = "open"),
           iter'[d].list = iter[d].list, iter'[d].at = iter[d].at,
           clientidToIdTopicMap'[d] = clientidToIdTopicMap[d]
    PROVE  ThreadConsistent(d)'
<1>1. \A k \in 1 .. Len(todo[d]) : todo[d][k] \in Channels
  BY DEF TypeOK, ThreadTypes
<1>2. (\A k \in 1 .. Len(todo[d]) : Known(todo[d][k]))'
  BY <1>1 DEF ThreadConsistent, Known
<1>3. (pc[d] \in {"add", "index"} => Known(frame[d].channel))'
  BY DEF ThreadConsistent, Known
<1>4. (pc[d] \in {"create", "add", "index"} =>
         frame[d].id \in Ids /\ UnusedFor(d, frame[d].id, frame[d].channel))'
  BY DEF ThreadConsistent, UnusedFor
<1> QED BY <1>2, <1>3, <1>4 DEF ThreadConsistent, NoFrame

LEMMA LeftConsistent ==
    ASSUME ThreadTypes, NEW c \in Conns, Leave(c)
    PROVE  ThreadConsistent(c)'
<1>1. pc'[c] = "idle" /\ frame'[c] = NoFrame /\ todo'[c] = << >>
  BY DEF ThreadTypes, Leave, Goto
<1> QED BY <1>1 DEF ThreadConsistent, NoFrame

LEMMA ThrownConsistent ==
    ASSUME ThreadTypes, NEW c \in Conns, Throw(c) \/ Return(c)
    PROVE  ThreadConsistent(c)'
BY LeftConsistent DEF Throw, Return

\* The thread that makes the step.
LEMMA SelfConsistent ==
    ASSUME TypeOK, TypeOK', Consistent, NEW c \in Conns,
           Eof(c) \/ Malformed(c) \/ Request(c) \/ Handle(c),
           \A ch \in Channels : Known(ch) => Known(ch)'
    PROVE  ThreadConsistent(c)'
<1> USE DEF TypeOK, counters, sessions, rosters, indexes, locals
<1>0. ThreadConsistent(c) /\ ThreadTypes
  BY DEF Consistent
<1>1. CASE Eof(c)
  <2>1. /\ pc' = pc /\ frame' = frame /\ todo' = todo /\ iter' = iter
        /\ channelToConnectionId' = channelToConnectionId /\ status'[c] = "eof"
        /\ clientidToIdTopicMap' = clientidToIdTopicMap
    BY <1>1 DEF Eof, ThreadTypes
  <2> QED BY <1>0, <2>1 DEF ThreadConsistent, Known, UnusedFor
<1>2. CASE Malformed(c)
  BY <1>2, ThrownConsistent DEF Malformed
<1>3. CASE Connect(c)
  <2>1. CASE Throw(c)
    BY <2>1, ThrownConsistent
  <2>2. CASE ~Throw(c)
    <3>1. PICK l \in Logins, p \in Passcodes : frame' = [frame EXCEPT ![c] =
             [NoFrame EXCEPT !.command = "CONNECT", !.login = l, !.passcode = p]]
      BY <1>3, <2>2 DEF Connect, ProcessConnect
    <3>2. pc'[c] = "put" /\ status'[c] = "open" /\ todo'[c] = todo[c]
          /\ channelToConnectionId' = channelToConnectionId
      BY <1>3, <2>2 DEF Connect, ProcessConnect, Goto, Ready, ThreadTypes
    <3>3. frame'[c].command = "CONNECT"
      BY <3>1 DEF ThreadTypes, NoFrame
    <3> QED BY <1>0, <3>2, <3>3 DEF ThreadConsistent, Known
  <2> QED BY <2>1, <2>2
<1>4. CASE Send(c)
  <2>1. PICK ch \in Channels, receipt \in Nullable(Receipts) :
           /\ frame' = [frame EXCEPT ![c] =
                [NoFrame EXCEPT !.command = "SEND", !.channel = ch, !.receipt = receipt]]
           /\ IF channelToConnectionId[ch] = Null
              THEN Goto(c, "stamp") /\ UNCHANGED iter
              ELSE /\ iter' = [iter EXCEPT ![c] = IteratorOn(channelToConnectionId[ch])]
                   /\ Goto(c, "check")
    BY <1>4 DEF Send, ProcessSend
  <2>2. frame'[c].command = "SEND" /\ frame'[c].channel = ch
    BY <2>1 DEF ThreadTypes, NoFrame
  <2>3. status'[c] = "open" /\ todo'[c] = todo[c]
        /\ channelToConnectionId' = channelToConnectionId
    BY <1>4 DEF Send, ProcessSend, Ready, ThreadTypes
  <2>4. \/ pc'[c] = "stamp"
        \/ pc'[c] = "check" /\ iter'[c].list \in ListRefs
    BY <2>1 DEF Goto, ThreadTypes, TopicTypes, IteratorOn, Nullable
  <2> QED BY <1>0, <2>2, <2>3, <2>4 DEF ThreadConsistent, Known
<1>5. CASE Subscribe(c)
  <2>1. PICK ch \in Channels, i \in Ids, receipt \in Nullable(Receipts) :
           /\ UnusedFor(c, i, ch)
           /\ frame' = [frame EXCEPT ![c] =
                [NoFrame EXCEPT !.command = "SUBSCRIBE", !.channel = ch, !.id = i,
                                !.receipt = receipt]]
           /\ Goto(c, IF channelToConnectionId[ch] = Null THEN "create" ELSE "add")
    BY <1>5 DEF Subscribe, ProcessSubscribe
  <2>2. /\ frame'[c].command = "SUBSCRIBE" /\ frame'[c].channel = ch
        /\ frame'[c].id = i
    BY <2>1 DEF ThreadTypes, NoFrame
  <2>3. /\ status'[c] = "open" /\ todo'[c] = todo[c]
        /\ channelToConnectionId' = channelToConnectionId
        /\ clientidToIdTopicMap' = clientidToIdTopicMap
    BY <1>5 DEF Subscribe, ProcessSubscribe, Ready, ThreadTypes
  <2>4. \/ pc'[c] = "create"
        \/ pc'[c] = "add" /\ Known(ch)
    BY <2>1 DEF Goto, ThreadTypes, Known
  <2> QED BY <1>0, <2>1, <2>2, <2>3, <2>4 DEF ThreadConsistent, Known, UnusedFor
<1>6. CASE Unsubscribe(c)
  <2>1. CASE Throw(c)
    BY <2>1, ThrownConsistent
  <2>2. CASE ~Throw(c)
    <3>1. PICK i \in Ids, receipt \in Nullable(Receipts) :
            LET ch == clientidToIdTopicMap[c][i] IN
            /\ ch # Null
            /\ frame' = [frame EXCEPT ![c] =
                 [NoFrame EXCEPT !.command = "UNSUBSCRIBE", !.channel = ch,
                                 !.id = i, !.receipt = receipt]]
            /\ iter' = [iter EXCEPT ![c] = IteratorOn(channelToConnectionId[ch])]
            /\ Goto(c, "scan")
      BY <1>6, <2>2 DEF Unsubscribe, ProcessUnsubscribe
    <3> DEFINE ch == clientidToIdTopicMap[c][i]
    <3>2. ch \in Channels /\ channelToConnectionId[ch] \in ListRefs
      BY <3>1 DEF TopicTypes, Nullable, Consistent, ReferencesResolve, Known
    <3>3. /\ frame'[c].command = "UNSUBSCRIBE" /\ frame'[c].channel = ch
          /\ iter'[c].list \in ListRefs /\ pc'[c] = "scan"
      BY <3>1, <3>2 DEF ThreadTypes, NoFrame, IteratorOn, Goto
    <3>4. status'[c] = "open" /\ todo'[c] = todo[c]
          /\ channelToConnectionId' = channelToConnectionId
      BY <1>6, <2>2 DEF Unsubscribe, ProcessUnsubscribe, Ready, ThreadTypes
    <3> QED BY <1>0, <3>2, <3>3, <3>4 DEF ThreadConsistent, Known
  <2> QED BY <2>1, <2>2
<1>7. CASE Disconnect(c)
  <2>1. /\ frame' = [frame EXCEPT ![c] = [NoFrame EXCEPT !.command = "DISCONNECT"]]
        /\ pc'[c] = "unregister" /\ status'[c] = "logout" /\ todo'[c] = todo[c]
        /\ channelToConnectionId' = channelToConnectionId
    BY <1>7 DEF Disconnect, Goto, ThreadTypes
  <2>2. frame'[c].command = "DISCONNECT"
    BY <2>1 DEF ThreadTypes, NoFrame
  <2> QED BY <1>0, <2>1, <2>2 DEF ThreadConsistent, Known
<1>8. CASE Handle(c)
  <2>0. CASE Throw(c) \/ Return(c)
    BY <2>0, ThrownConsistent
  <2> SUFFICES ASSUME ~Throw(c), ~Return(c) PROVE ThreadConsistent(c)'
    BY <2>0
  <2>1. CASE PutHandler(c) \/ Bind(c)
    BY <1>0, <2>1 DEF PutHandler, Bind, ThreadConsistent, ThreadTypes, Goto, Known
  <2>2. CASE Rebind(c) \/ PutPasscode(c) \/ EndSend(c)
    BY <2>2 DEF Rebind, PutPasscode, EndSend
  <2>3. CASE Check(c) \/ Stamp(c)
    BY <1>0, <2>3 DEF Check, Stamp, ThreadConsistent, ThreadTypes, Goto, Known
  <2>4. CASE Open(c)
    BY <1>0, <2>4 DEF Open, ThreadConsistent, ThreadTypes, TopicTypes, Goto, Known,
       IteratorOn, Nullable
  <2>5. CASE NextRecipient(c)
    <3>1. iter'[c].list = iter[c].list
      BY <2>5 DEF NextRecipient, ThreadTypes, Iterators
    <3> QED BY <1>0, <2>5, <3>1 DEF NextRecipient, ThreadConsistent, ThreadTypes,
       Goto, Known
  <2>6. CASE Write(c)
    BY <1>0, <2>6 DEF Write, ThreadConsistent, ThreadTypes, Goto, Known
  <2>7. CASE CreateList(c)
    <3>1. Known(frame[c].channel)'
      BY <1>0, <2>7, NullAssumption DEF CreateList, ThreadConsistent, TopicTypes,
         ListRefs, Known
    <3>2. /\ pc'[c] = "add" /\ frame' = frame /\ todo' = todo /\ status' = status
          /\ clientidToIdTopicMap' = clientidToIdTopicMap
      BY <2>7 DEF CreateList, Goto, ThreadTypes
    <3>3. \A k \in 1 .. Len(todo[c]) : channelToConnectionId'[todo[c][k]] # Null
      <4> SUFFICES ASSUME NEW k \in 1 .. Len(todo[c])
                   PROVE  channelToConnectionId'[todo[c][k]] # Null
        OBVIOUS
      <4>1. todo[c][k] \in Channels
        BY DEF ThreadTypes
      <4>2. Known(todo[c][k])
        BY <1>0 DEF ThreadConsistent
      <4> QED BY <4>1, <4>2 DEF Known
    <3>4. (\A k \in 1 .. Len(todo[c]) : Known(todo[c][k]))'
      BY <3>2, <3>3 DEF Known
    <3> QED BY <1>0, <2>7, <3>1, <3>2, <3>4 DEF CreateList, ThreadConsistent, UnusedFor
  <2>8. CASE AddSubscriber(c)
    <3>1. /\ pc'[c] = "index" /\ frame' = frame /\ todo' = todo /\ status' = status
          /\ clientidToIdTopicMap' = clientidToIdTopicMap
          /\ channelToConnectionId' = channelToConnectionId
      BY <2>8 DEF AddSubscriber, Goto, ThreadTypes
    <3> QED BY <1>0, <2>8, <3>1 DEF AddSubscriber, ThreadConsistent, UnusedFor, Known
  <2>9. CASE IndexSubscription(c)
    BY <2>9 DEF IndexSubscription
  <2>10. CASE LeaveChannel(c)
    <3> DEFINE ch == Head(todo[c])
    <3>0. todo[c] # << >> /\ todo[c] \in Seq(Channels)
      BY <2>10 DEF LeaveChannel, ThreadTypes
    <3>1. /\ pc'[c] = "scan" /\ todo'[c] = Tail(todo[c]) /\ status' = status
          /\ frame' = [frame EXCEPT ![c].channel = ch]
          /\ iter' = [iter EXCEPT ![c] = IteratorOn(channelToConnectionId[ch])]
          /\ channelToConnectionId' = channelToConnectionId
      BY <2>10, <3>0 DEF LeaveChannel, Goto, ThreadTypes
    <3>2. ch \in Channels /\ Known(ch)
      <4>1. ch = todo[c][1] /\ 1 \in 1 .. Len(todo[c])
        BY <3>0
      <4> QED BY <1>0, <3>0, <4>1 DEF ThreadConsistent
    <3>3. \A k \in 1 .. Len(Tail(todo[c])) : Known(Tail(todo[c])[k])
      <4>1. \A k \in 1 .. Len(Tail(todo[c])) :
               Tail(todo[c])[k] = todo[c][k + 1] /\ k + 1 \in 1 .. Len(todo[c])
        BY <3>0
      <4> QED BY <1>0, <4>1 DEF ThreadConsistent
    <3>4. frame'[c].command = frame[c].command /\ frame'[c].channel = ch
      BY <3>1 DEF ThreadTypes, Frames
    <3>5. iter'[c].list \in ListRefs
      BY <3>1, <3>2 DEF ThreadTypes, TopicTypes, IteratorOn, Known, Nullable
    <3> QED BY <1>0, <2>10, <3>1, <3>2, <3>3, <3>4, <3>5 DEF LeaveChannel,
       ThreadConsistent, Known
  <2>11. CASE Pick(c)
    <3>1. iter'[c].at = iter[c].at + 1 /\ iter'[c].list = iter[c].list
      BY <2>11 DEF Pick, PositionAfter, ThreadTypes, Iterators
    <3>2. iter'[c].at >= 1
      BY <3>1 DEF ThreadTypes, Iterators
    <3> QED BY <1>0, <2>11, <3>1, <3>2 DEF Pick, ThreadConsistent, ThreadTypes, Goto,
       Known
  <2>12. CASE RemoveFound(c)
    <3>1. iter'[c].list = iter[c].list
      BY <2>12 DEF RemoveFound, Touched, ThreadTypes, Iterators
    <3> QED BY <1>0, <2>12, <3>1 DEF RemoveFound, ThreadConsistent, ThreadTypes,
       Goto, Known
  <2>13. CASE EndScan(c)
    BY <1>0, <2>13 DEF EndScan, ThreadConsistent, ThreadTypes, Goto, Known
  <2>14. CASE GoOn(c)
    BY <1>0, <2>14 DEF GoOn, ThreadConsistent, ThreadTypes, Goto, Known
  <2>15. CASE RemoveHandler(c)
    BY <1>0, <2>15 DEF RemoveHandler, ThreadConsistent, ThreadTypes, Goto, Known
  <2>16. CASE RemoveLogin(c)
    <3>1. /\ pc'[c] = "leave" /\ todo'[c] = ConnectionIdToChannel[c]
          /\ UNCHANGED <<frame, status, channelToConnectionId>>
      BY <2>16 DEF RemoveLogin, Goto, ThreadTypes
    <3>2. frame[c].command = "DISCONNECT" /\ status[c] \notin {"new", "open"}
      BY <1>0, <2>16 DEF RemoveLogin, ThreadConsistent
    <3> QED BY <3>1, <3>2 DEF ThreadConsistent, Known, Consistent, ReferencesResolve
  <2> QED BY <1>8, <2>1, <2>2, <2>3, <2>4, <2>5, <2>6, <2>7, <2>8, <2>9, <2>10,
          <2>11, <2>12, <2>13, <2>14, <2>15, <2>16 DEF Handle
<1> QED BY <1>1, <1>2, <1>3, <1>4, <1>5, <1>6, <1>7, <1>8 DEF Request

----------------------------------------------------------------------------
(* The maps.                                                               *)

\* The thread that makes a step belongs to a connection that was accepted.
LEMMA StepOfAccepted ==
    ASSUME TypeOK, Consistent, NEW c \in Conns,
           Eof(c) \/ Malformed(c) \/ Request(c) \/ Handle(c)
    PROVE  status[c] # "new" /\ c < connectionId /\ connectionId' = connectionId
<1> USE DEF counters
<1>1. CASE Eof(c) \/ Malformed(c) \/ Request(c)
  <2>1. status[c] = "open"
    BY <1>1, RequestEffects
  <2>2. connectionId' = connectionId
    BY <1>1, RequestEffects
  <2> QED BY <2>1, <2>2 DEF TypeOK, Consistent, FreshIds, Conns
<1>2. CASE Handle(c)
  <2>1. pc[c] # "idle"
    BY <1>2 DEF Handle, PutHandler, Rebind, Bind, PutPasscode, Check, Stamp, Open,
       NextRecipient, Write, EndSend, CreateList, AddSubscriber, IndexSubscription,
       RemoveHandler, RemoveLogin, LeaveChannel, GoOn, Pick, RemoveFound, EndScan
  <2>2. connectionId' = connectionId
    BY <1>2 DEF Handle, PutHandler, Rebind, Bind, PutPasscode, Check, Stamp, Open,
       NextRecipient, Write, EndSend, CreateList, AddSubscriber, IndexSubscription,
       RemoveHandler, RemoveLogin, LeaveChannel, GoOn, Pick, RemoveFound, EndScan
  <2> QED BY <2>1, <2>2 DEF TypeOK, Consistent, FreshIds, ThreadConsistent, Conns
<1> QED BY <1>1, <1>2

LEMMA FreshIdsStep ==
    ASSUME TypeOK, Consistent, [Next]_vars
    PROVE  FreshIds'
<1>1. CASE Accept
  <2>1. /\ connectionId' = connectionId + 1 /\ connectionId \in Nat
        /\ status' = [status EXCEPT ![connectionId] = "open"]
    BY <1>1 DEF Accept, TypeOK
  <2>2. status \in [Conns -> {"new", "open", "eof", "logout", "failed"}]
    BY DEF TypeOK, ThreadTypes
  <2> QED BY <2>1, <2>2 DEF Consistent, FreshIds, Conns
<1>2. ASSUME NEW c \in Conns, Eof(c) \/ Malformed(c) \/ Request(c) \/ Handle(c)
      PROVE  FreshIds'
  <2>1. \A d \in Conns \ {c} : status'[d] = status[d]
    BY <1>2, OtherThreads
  <2>2. c < connectionId /\ connectionId' = connectionId /\ connectionId \in Nat
    BY <1>2, StepOfAccepted DEF TypeOK
  <2> QED BY <2>1, <2>2 DEF Consistent, FreshIds, Conns
<1>3. CASE UNCHANGED vars
  BY <1>3 DEF vars, counters, Consistent, FreshIds
<1> QED BY <1>1, <1>2, <1>3 DEF Next

\* Which steps write the per-connection maps.
LEMMA IndexWriters ==
    ASSUME [Next]_vars
    PROVE  \/ UNCHANGED <<ConnectionIdToChannel, clientidToIdTopicMap>>
           \/ \E c \in Conns : RemoveLogin(c) \/ IndexSubscription(c) \/ LeaveChannel(c)
<1>1. CASE Accept \/ UNCHANGED vars
  BY <1>1 DEF Accept, vars, indexes
<1>2. ASSUME NEW c \in Conns, Eof(c) \/ Malformed(c) \/ Request(c)
      PROVE  UNCHANGED <<ConnectionIdToChannel, clientidToIdTopicMap>>
  BY <1>2, RequestEffects DEF indexes
<1>3. ASSUME NEW c \in Conns, Handle(c)
      PROVE  \/ RemoveLogin(c) \/ IndexSubscription(c) \/ LeaveChannel(c)
             \/ UNCHANGED <<ConnectionIdToChannel, clientidToIdTopicMap>>
  BY <1>3 DEF Handle, PutHandler, Rebind, Bind, PutPasscode, Check, Stamp, Open,
     NextRecipient, Write, EndSend, CreateList, AddSubscriber, RemoveHandler, GoOn, Pick,
     RemoveFound, EndScan, indexes
<1> QED BY <1>1, <1>2, <1>3 DEF Next

\* Which steps write the channels' lists.
LEMMA RosterWriters ==
    ASSUME [Next]_vars
    PROVE  \/ UNCHANGED <<channelToConnectionId, lists>>
           \/ \E c \in Conns : CreateList(c) \/ AddSubscriber(c) \/ RemoveFound(c)
<1>1. CASE Accept \/ UNCHANGED vars
  BY <1>1 DEF Accept, vars, rosters
<1>2. ASSUME NEW c \in Conns, Eof(c) \/ Malformed(c) \/ Request(c)
      PROVE  UNCHANGED <<channelToConnectionId, lists>>
  BY <1>2, RequestEffects
<1>3. ASSUME NEW c \in Conns, Handle(c)
      PROVE  \/ CreateList(c) \/ AddSubscriber(c) \/ RemoveFound(c)
             \/ UNCHANGED <<channelToConnectionId, lists>>
  BY <1>3 DEF Handle, PutHandler, Rebind, Bind, PutPasscode, Check, Stamp, Open,
     NextRecipient, Write, EndSend, IndexSubscription, RemoveHandler, RemoveLogin,
     LeaveChannel, GoOn, Pick, EndScan, rosters
<1> QED BY <1>1, <1>2, <1>3 DEF Next

LEMMA ReferencesStep ==
    ASSUME TypeOK, Consistent, [Next]_vars
    PROVE  ReferencesResolve'
<1> USE DEF TypeOK, TopicTypes
<1>1. \A ch \in Channels : Known(ch) => Known(ch)'
  BY KnownForEver DEF Consistent
<1>2. ReferencesResolve
  BY DEF Consistent
<1>3. \A ch \in Channels : Known(ch)' => channelToConnectionId'[ch][1] = ch
  <2>1. CASE UNCHANGED channelToConnectionId
    BY <1>2, <2>1 DEF ReferencesResolve, Known
  <2>2. ASSUME NEW c \in Conns, CreateList(c)
        PROVE  \A ch \in Channels : Known(ch)' => channelToConnectionId'[ch][1] = ch
    <3>1. channelToConnectionId' =
             [channelToConnectionId EXCEPT ![frame[c].channel] = <<frame[c].channel, c>>]
      BY <2>2 DEF CreateList
    <3> QED BY <1>2, <3>1 DEF ReferencesResolve, Known
  <2>3. ASSUME NEW c \in Conns, AddSubscriber(c) \/ RemoveFound(c)
        PROVE  UNCHANGED channelToConnectionId
    BY <2>3 DEF AddSubscriber, RemoveFound
  <2> QED BY <2>1, <2>2, <2>3, RosterWriters
<1>4. (\A c \in Conns, i \in Ids :
         clientidToIdTopicMap[c][i] # Null => Known(clientidToIdTopicMap[c][i]))'
  <2>0. \A c \in Conns, i \in Ids : clientidToIdTopicMap[c][i] # Null =>
           channelToConnectionId'[clientidToIdTopicMap[c][i]] # Null
    <3> SUFFICES ASSUME NEW c \in Conns, NEW i \in Ids, clientidToIdTopicMap[c][i] # Null
                 PROVE  channelToConnectionId'[clientidToIdTopicMap[c][i]] # Null
      OBVIOUS
    <3>1. clientidToIdTopicMap[c][i] \in Channels /\ Known(clientidToIdTopicMap[c][i])
      BY <1>2 DEF ReferencesResolve, Nullable
    <3> QED BY <1>1, <3>1 DEF Known
  <2>1. CASE UNCHANGED clientidToIdTopicMap
    BY <2>0, <2>1 DEF Known
  <2>2. ASSUME NEW c \in Conns, RemoveLogin(c)
        PROVE  \A d \in Conns, i \in Ids :
                  clientidToIdTopicMap'[d][i] \in {Null, clientidToIdTopicMap[d][i]}
    BY <2>2 DEF RemoveLogin
  <2>3. ASSUME NEW c \in Conns, IndexSubscription(c)
        PROVE  \A d \in Conns, i \in Ids :
                  \/ clientidToIdTopicMap'[d][i] = clientidToIdTopicMap[d][i]
                  \/ clientidToIdTopicMap'[d][i] = frame[c].channel
    <3>1. CASE UNCHANGED clientidToIdTopicMap
      BY <3>1
    <3>2. CASE clientidToIdTopicMap' =
                 [clientidToIdTopicMap EXCEPT ![c][frame[c].id] = frame[c].channel]
      BY <3>2
    <3> QED BY <2>3, <3>1, <3>2 DEF IndexSubscription, indexes
  <2>4. ASSUME NEW c \in Conns, IndexSubscription(c)
        PROVE  Known(frame[c].channel) /\ frame[c].channel \in Channels
               /\ channelToConnectionId' = channelToConnectionId
    BY <2>4 DEF IndexSubscription, Consistent, ThreadConsistent, rosters
  <2>5. ASSUME NEW c \in Conns, LeaveChannel(c)
        PROVE  UNCHANGED clientidToIdTopicMap
    BY <2>5 DEF LeaveChannel
  <2>6. CASE \E c \in Conns : RemoveLogin(c)
    BY <2>0, <2>2, <2>6 DEF Known
  <2>7. CASE \E c \in Conns : IndexSubscription(c)
    <3>1. PICK c \in Conns : IndexSubscription(c)
      BY <2>7
    <3>2. channelToConnectionId'[frame[c].channel] # Null
      BY <2>4, <3>1 DEF Known
    <3> SUFFICES ASSUME NEW d \in Conns, NEW i \in Ids, clientidToIdTopicMap'[d][i] # Null
                 PROVE  channelToConnectionId'[clientidToIdTopicMap'[d][i]] # Null
      BY DEF Known
    <3>3. CASE clientidToIdTopicMap'[d][i] = clientidToIdTopicMap[d][i]
      BY <2>0, <3>3
    <3>4. CASE clientidToIdTopicMap'[d][i] = frame[c].channel
      BY <3>2, <3>4
    <3> QED BY <2>3, <3>1, <3>3, <3>4
  <2> QED BY <2>1, <2>5, <2>6, <2>7, IndexWriters
<1>5. (\A c \in Conns : \A k \in 1 .. Len(ConnectionIdToChannel[c]) :
         Known(ConnectionIdToChannel[c][k]))'
  <2>0. \A c \in Conns : \A k \in 1 .. Len(ConnectionIdToChannel[c]) :
           ConnectionIdToChannel[c][k] \in Channels
           /\ channelToConnectionId[ConnectionIdToChannel[c][k]] # Null
           /\ channelToConnectionId'[ConnectionIdToChannel[c][k]] # Null
    BY <1>1, <1>2 DEF ReferencesResolve, Known
  <2>1. CASE UNCHANGED ConnectionIdToChannel
    BY <2>0, <2>1 DEF Known
  <2>2. ASSUME NEW c \in Conns, RemoveLogin(c)
        PROVE  UNCHANGED ConnectionIdToChannel
    BY <2>2 DEF RemoveLogin
  <2>3. CASE \E c \in Conns : LeaveChannel(c)
    <3>1. \A d \in Conns : ConnectionIdToChannel'[d] \in {<< >>, ConnectionIdToChannel[d]}
      BY <2>3 DEF LeaveChannel
    <3> QED BY <2>0, <3>1 DEF Known
  <2>4. ASSUME NEW c \in Conns, IndexSubscription(c),
               ~UNCHANGED ConnectionIdToChannel, NEW d \in Conns,
               NEW k \in 1 .. Len(ConnectionIdToChannel'[d])
        PROVE  channelToConnectionId'[ConnectionIdToChannel'[d][k]] # Null
    <3>1. /\ ConnectionIdToChannel' = [ConnectionIdToChannel EXCEPT ![c] =
                                         Append(ConnectionIdToChannel[c], frame[c].channel)]
          /\ channelToConnectionId' = channelToConnectionId
      BY <2>4 DEF IndexSubscription, ChannelsWith, indexes, rosters
    <3>2. Known(frame[c].channel) /\ frame[c].channel \in Channels
      BY <2>4 DEF IndexSubscription, Consistent, ThreadConsistent
    <3>3. CASE d = c
      <4>1. ConnectionIdToChannel'[d] = Append(ConnectionIdToChannel[c], frame[c].channel)
        BY <3>1, <3>3
      <4>2. \/ k \in 1 .. Len(ConnectionIdToChannel[c])
                /\ ConnectionIdToChannel'[d][k] = ConnectionIdToChannel[c][k]
            \/ ConnectionIdToChannel'[d][k] = frame[c].channel
        BY <2>4, <3>2, <4>1, AppendProperties
      <4> QED BY <2>0, <3>1, <3>2, <4>2 DEF Known
    <3>4. CASE d # c
      BY <2>0, <3>1, <3>4
    <3> QED BY <3>3, <3>4
  <2> QED BY <2>1, <2>2, <2>3, <2>4, IndexWriters DEF Known
<1> QED BY <1>3, <1>4, <1>5 DEF ReferencesResolve, Known

\* Which steps end the last step of a SUBSCRIBE.
LEMMA IndexEnds ==
    ASSUME TypeOK, NEW c \in Conns, pc[c] = "index",
           Eof(c) \/ Malformed(c) \/ Request(c) \/ Handle(c)
    PROVE  IndexSubscription(c)
BY DEF Eof, Malformed, Request, Connect, ProcessConnect, Send, ProcessSend, Subscribe,
   ProcessSubscribe, Unsubscribe, ProcessUnsubscribe, Disconnect, Ready, Handle,
   PutHandler, Rebind, Bind, PutPasscode, Check, Stamp, Open, NextRecipient, Write,
   EndSend, CreateList, AddSubscriber, RemoveHandler, RemoveLogin, LeaveChannel, GoOn,
   Pick, RemoveFound, EndScan

\* Who is live after a step was live before it.
LEMMA StillLive ==
    ASSUME TypeOK, Consistent, [Next]_vars, NEW d \in Conns, status'[d] \in {"new", "open"}
    PROVE  status[d] \in {"new", "open"}
<1>1. CASE Accept
  <2>1. status' = [status EXCEPT ![connectionId] = "open"] /\ connectionId \in Conns
    BY <1>1 DEF Accept
  <2>2. status[connectionId] = "new"
    BY <2>1 DEF TypeOK, Consistent, FreshIds, Conns
  <2> QED BY <2>1, <2>2 DEF TypeOK, ThreadTypes
<1>2. ASSUME NEW c \in Conns, Eof(c) \/ Malformed(c) \/ Request(c) \/ Handle(c)
      PROVE  status'[d] = status[d] \/ status'[d] \notin {"new", "open"}
  <2>1. CASE d # c
    BY <1>2, <2>1, OtherThreads
  <2>2. CASE d = c
    <3>1. CASE UNCHANGED status
      BY <3>1
    <3>2. CASE Throw(c)
      BY <2>2, <3>2 DEF Throw, TypeOK, ThreadTypes
    <3>3. CASE Eof(c) \/ Disconnect(c)
      BY <2>2, <3>3 DEF Eof, Disconnect, TypeOK, ThreadTypes
    <3> QED BY <1>2, <3>1, <3>2, <3>3 DEF Malformed, Request, Connect, ProcessConnect,
       Send, ProcessSend, Subscribe, ProcessSubscribe, Unsubscribe, ProcessUnsubscribe,
       Handle, PutHandler, Rebind, Bind, PutPasscode, Check, Stamp, Open, NextRecipient,
       Write, EndSend, CreateList, AddSubscriber, IndexSubscription, RemoveHandler,
       RemoveLogin, LeaveChannel, GoOn, Pick, RemoveFound, EndScan, Return
  <2> QED BY <2>1, <2>2
<1>3. CASE UNCHANGED vars
  BY <1>3 DEF vars
<1> QED BY <1>1, <1>2, <1>3 DEF Next

LEMMA AppendContains ==
    ASSUME NEW S, NEW s \in Seq(S), NEW e \in S, NEW x, Contains(Append(s, e), x)
    PROVE  x = e \/ Contains(s, x)
BY AppendProperties DEF Contains

LEMMA ContainsAppend ==
    ASSUME NEW S, NEW s \in Seq(S), NEW e \in S
    PROVE  /\ Contains(Append(s, e), e)
           /\ \A x : Contains(s, x) => Contains(Append(s, e), x)
<1>1. /\ Len(Append(s, e)) = Len(s) + 1 /\ Len(s) \in Nat
      /\ Append(s, e)[Len(s) + 1] = e
      /\ \A i \in 1 .. Len(s) : Append(s, e)[i] = s[i]
  OBVIOUS
<1>2. Len(s) + 1 \in 1 .. Len(Append(s, e))
  BY <1>1
<1>3. \A i \in 1 .. Len(s) : i \in 1 .. Len(Append(s, e))
  BY <1>1
<1> QED BY <1>1, <1>2, <1>3 DEF Contains

\* The lists of a step hold nobody new, but for the connection that
\* AddSubscriber has just added and that now stands before "index".
LEMMA ListsGrow ==
    ASSUME TypeOK, Consistent, [Next]_vars, NEW d \in Conns, NEW ref \in ListRefs,
           Contains(lists'[ref], d)
    PROVE  \/ Contains(lists[ref], d)
           \/ pc'[d] = "index" /\ frame'[d].channel = ref[1]
<1> USE DEF TypeOK, TopicTypes, ThreadTypes
<1>1. CASE UNCHANGED lists
  BY <1>1
<1>2. ASSUME NEW c \in Conns, CreateList(c)
      PROVE  Contains(lists[ref], d)
  <2>1. lists'[ref] \in {<< >>, lists[ref]}
    BY <1>2 DEF CreateList
  <2> QED BY <2>1 DEF Contains
<1>3. ASSUME NEW c \in Conns, RemoveFound(c)
      PROVE  Contains(lists[ref], d)
  <2>1. CASE UNCHANGED lists
    BY <2>1
  <2>2. CASE ~UNCHANGED lists
    <3>1. /\ iter[c].at <= Len(lists[iter[c].list])
          /\ lists' = [lists EXCEPT ![iter[c].list] = RemoveAt(@, iter[c].at)]
      BY <1>3, <2>2 DEF RemoveFound, FoundIndex, Body
    <3>2. iter[c].list \in ListRefs /\ iter[c].at \in 1 .. Len(lists[iter[c].list])
      BY <1>3, <3>1 DEF RemoveFound, Consistent, ThreadConsistent, Iterators
    <3>3. \A x : Contains(RemoveAt(lists[iter[c].list], iter[c].at), x)
                   => Contains(lists[iter[c].list], x)
      BY <3>2, RemoveAtProperties
    <3> QED BY <3>1, <3>2, <3>3
  <2> QED BY <2>1, <2>2
<1>4. ASSUME NEW c \in Conns, AddSubscriber(c), ~Contains(lists[ref], d)
      PROVE  pc'[d] = "index" /\ frame'[d].channel = ref[1]
  <2> DEFINE new == channelToConnectionId[frame[c].channel]
  <2>1. /\ lists' = [lists EXCEPT ![new] = Append(@, c)]
        /\ pc'[c] = "index" /\ frame' = frame
    BY <1>4 DEF AddSubscriber, Join, Goto
  <2>2. frame[c].channel \in Channels /\ new \in ListRefs /\ new[1] = frame[c].channel
    BY <1>4 DEF AddSubscriber, Consistent, ThreadConsistent, ReferencesResolve,
       Known, Nullable
  <2>3. ref = new /\ Contains(Append(lists[new], c), d)
    BY <1>4, <2>1, <2>2
  <2>4. d = c
    BY <1>4, <2>2, <2>3, AppendContains
  <2> QED BY <2>1, <2>2, <2>3, <2>4
<1> QED BY <1>1, <1>2, <1>3, <1>4, RosterWriters

\* What a live connection has indexed stays indexed.
LEMMA StillIndexed ==
    ASSUME UniqueIds, TypeOK, Consistent, [Next]_vars, NEW d \in Conns, NEW ch \in Channels,
           status'[d] \in {"new", "open"}, Indexed(d, ch)
    PROVE  Indexed(d, ch)'
<1> USE DEF TypeOK, TopicTypes, ThreadTypes
<1>1. CASE UNCHANGED <<ConnectionIdToChannel, clientidToIdTopicMap>>
  BY <1>1 DEF Indexed
<1>2. ASSUME NEW c \in Conns, RemoveLogin(c) \/ IndexSubscription(c) \/ LeaveChannel(c),
             d # c
      PROVE  Indexed(d, ch)'
  <2>1. ConnectionIdToChannel'[d] = ConnectionIdToChannel[d]
        /\ clientidToIdTopicMap'[d] = clientidToIdTopicMap[d]
    BY <1>2, OtherThreads DEF Handle
  <2> QED BY <2>1 DEF Indexed
<1>3. ~RemoveLogin(d)
  <2> SUFFICES ASSUME RemoveLogin(d) PROVE FALSE
    OBVIOUS
  <2>1. status[d] \notin {"new", "open"}
    BY DEF RemoveLogin, Consistent, ThreadConsistent
  <2>2. status'[d] = status[d]
    BY <2>1 DEF RemoveLogin, Throw
  <2> QED BY <2>1, <2>2
<1>4. ~LeaveChannel(d)
  <2> SUFFICES ASSUME LeaveChannel(d) PROVE FALSE
    OBVIOUS
  <2>1. status'[d] = status[d] /\ status[d] \notin {"new", "open"}
    BY DEF LeaveChannel, Return, Consistent, ThreadConsistent
  <2> QED BY <2>1
<1>5. ASSUME IndexSubscription(d) PROVE Indexed(d, ch)'
  <2> DEFINE f == frame[d]
  <2>1. f.channel \in Channels /\ f.id \in Ids /\ UnusedFor(d, f.id, f.channel)
    BY <1>5 DEF IndexSubscription, Consistent, ThreadConsistent
  <2>2. CASE UNCHANGED <<ConnectionIdToChannel, clientidToIdTopicMap>>
    BY <2>2 DEF Indexed
  <2>3. CASE ~UNCHANGED <<ConnectionIdToChannel, clientidToIdTopicMap>>
    <3>1. /\ ConnectionIdToChannel'[d] = Append(ConnectionIdToChannel[d], f.channel)
          /\ clientidToIdTopicMap'[d] = [clientidToIdTopicMap[d] EXCEPT ![f.id] = f.channel]
      BY <1>5, <2>3 DEF IndexSubscription, ChannelsWith, indexes
    <3>2. Contains(ConnectionIdToChannel'[d], ch)
      BY <2>1, <3>1, ContainsAppend DEF Indexed
    <3>3. PICK i \in Ids : clientidToIdTopicMap[d][i] = ch
      BY DEF Indexed
    <3>4. clientidToIdTopicMap'[d][i] = ch
      BY <2>1, <3>1, <3>3, NullAssumption DEF UnusedFor
    <3> QED BY <3>2, <3>3, <3>4 DEF Indexed
  <2> QED BY <2>2, <2>3
<1> QED BY <1>1, <1>2, <1>3, <1>4, <1>5, IndexWriters

LEMMA ListsIndexedStep ==
    ASSUME TypeOK, Consistent, [Next]_vars
    PROVE  ListsIndexed'
<1> SUFFICES ASSUME UniqueIds, NEW d \in Conns, NEW ref \in ListRefs,
                    status'[d] \in {"new", "open"}, Contains(lists'[ref], d),
                    ~(pc'[d] = "index" /\ frame'[d].channel = ref[1])
             PROVE  Indexed(d, ref[1])'
  BY DEF ListsIndexed, Indexed
<1>0. ref[1] \in Channels
  BY DEF ListRefs
<1>1. Contains(lists[ref], d) /\ status[d] \in {"new", "open"}
  BY ListsGrow, StillLive
<1>2. (pc[d] = "index" /\ frame[d].channel = ref[1]) \/ Indexed(d, ref[1])
  BY <1>1 DEF Consistent, ListsIndexed
<1>3. CASE Indexed(d, ref[1])
  BY <1>0, <1>3, StillIndexed
<1>4. CASE pc[d] = "index" /\ frame[d].channel = ref[1]
  <2>1. IndexSubscription(d)
    <3>1. CASE Accept \/ UNCHANGED vars
      BY <1>4, <3>1 DEF Accept, vars, locals
    <3>2. ASSUME NEW c \in Conns, Eof(c) \/ Malformed(c) \/ Request(c) \/ Handle(c), c # d
          PROVE  FALSE
      BY <1>4, <3>2, OtherThreads
    <3> QED BY <1>4, <3>1, <3>2, IndexEnds DEF Next
  <2>2. ~Throw(d)
    <3>1. status[d] = "open"
      BY <1>1, <1>4 DEF Consistent, ThreadConsistent
    <3> QED BY <3>1 DEF Throw, TypeOK, ThreadTypes
  <2>3. /\ ConnectionIdToChannel'[d] = Append(ConnectionIdToChannel[d], ref[1])
        /\ clientidToIdTopicMap'[d] = [clientidToIdTopicMap[d] EXCEPT ![frame[d].id] = ref[1]]
    BY <1>4, <2>1, <2>2 DEF IndexSubscription, ChannelsWith, TypeOK, TopicTypes
  <2>4. Contains(ConnectionIdToChannel'[d], ref[1])
    BY <1>0, <2>3, ContainsAppend DEF TypeOK, TopicTypes
  <2>5. frame[d].id \in Ids /\ clientidToIdTopicMap'[d][frame[d].id] = ref[1]
    BY <1>4, <2>3 DEF Consistent, ThreadConsistent, TypeOK, TopicTypes
  <2> QED BY <2>4, <2>5 DEF Indexed
<1> QED BY <1>2, <1>3, <1>4

----------------------------------------------------------------------------
(* The theorems.                                                           *)

LEMMA ThreadConsistentStep ==
    ASSUME TypeOK, TypeOK', Consistent, [Next]_vars, NEW d \in Conns
    PROVE  ThreadConsistent(d)'
<1>0. ThreadConsistent(d) /\ (\A ch \in Channels : Known(ch) => Known(ch)')
  BY KnownForEver DEF Consistent
<1>1. CASE Accept
  <2>1. /\ pc' = pc /\ frame' = frame /\ iter' = iter /\ todo' = todo
        /\ clientidToIdTopicMap' = clientidToIdTopicMap
        /\ status' = [status EXCEPT ![connectionId] = "open"] /\ connectionId \in Conns
    BY <1>1 DEF Accept, locals, indexes
  <2>2. status[connectionId] = "new"
    BY <2>1 DEF Consistent, FreshIds, TypeOK
  <2>3. status'[d] = status[d] \/ (status[d] = "new" /\ status'[d] = "open")
    BY <2>1, <2>2 DEF TypeOK, ThreadTypes
  <2> QED BY <1>0, <2>1, <2>3, StillConsistent
<1>2. ASSUME NEW c \in Conns, Eof(c) \/ Malformed(c) \/ Request(c) \/ Handle(c)
      PROVE  ThreadConsistent(d)'
  <2>1. CASE c = d
    BY <1>0, <1>2, <2>1, SelfConsistent
  <2>2. CASE c # d
    BY <1>0, <1>2, <2>2, OtherThreads, StillConsistent
  <2> QED BY <2>1, <2>2
<1>3. CASE UNCHANGED vars
  BY <1>0, <1>3, StillConsistent DEF vars, locals, indexes
<1> QED BY <1>1, <1>2, <1>3 DEF Next

LEMMA InvStep == Inv /\ [Next]_vars => Inv'
<1> SUFFICES ASSUME Inv, [Next]_vars PROVE Inv'
  OBVIOUS
<1>1. TypeOK /\ Consistent
  BY DEF Inv
<1>2. TypeOK'
  BY TypeStep
<1>3. \A d \in Conns : ThreadConsistent(d)'
  BY <1>1, <1>2, ThreadConsistentStep
<1> QED BY <1>1, <1>2, <1>3, FreshIdsStep, ReferencesStep, ListsIndexedStep
        DEF Inv, Consistent

LEMMA InvAlways == Spec => []Inv
BY InitInv, InvStep, PTL DEF Spec

\* What DISCONNECT and UNSUBSCRIBE will need is there: the current list of a
\* channel is one of the list objects ListsIndexed speaks of.
LEMMA IndexedByLists == UniqueIds /\ Inv => SubscriptionIndexed
<1> SUFFICES ASSUME UniqueIds, Inv, NEW c \in Conns, NEW ch \in Channels,
                    status[c] = "open", pc[c] # "index", Contains(Subscribers(ch), c)
             PROVE  Indexed(c, ch)
  BY DEF SubscriptionIndexed
<1>1. CASE channelToConnectionId[ch] = Null
  <2>1. Subscribers(ch) = << >>
    BY <1>1 DEF Subscribers
  <2> QED BY <2>1 DEF Contains
<1>2. CASE channelToConnectionId[ch] # Null
  <2> DEFINE ref == channelToConnectionId[ch]
  <2>1. ref \in ListRefs /\ ref[1] = ch
    BY <1>2 DEF Inv, TypeOK, TopicTypes, Nullable, Consistent, ReferencesResolve, Known
  <2>2. Contains(lists[ref], c)
    BY <1>2 DEF Subscribers
  <2> QED BY <2>1, <2>2 DEF Inv, Consistent, ListsIndexed
<1> QED BY <1>1, <1>2

\* However many handler threads interleave in connectionsImpl, every map holds
\* values of the type its readers expect.
THEOREM TypeCorrect == Spec => []TypeOK
BY InvAlways, PTL DEF Inv

\* No thread of the server follows a reference that another thread has
\* invalidated: the channel, list and position it stopped at exist.
THEOREM AlwaysConsistent == Spec => []Consistent
BY InvAlways, PTL DEF Inv

\* A connection that is open and listed under a channel can unsubscribe and log
\* out of it: its own maps name the channel and an id.  (A client that gives a
\* second channel the id of the first loses the first.)
THEOREM AlwaysIndexed ==
    ASSUME UniqueIds
    PROVE  Spec => []SubscriptionIndexed
BY InvAlways, IndexedByLists, PTL

=============================================================================
