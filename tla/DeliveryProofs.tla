--------------------------- MODULE DeliveryProofs ---------------------------
(* Theorems about the broadcast of StompServer: what a SEND has delivered   *)
(* at any moment, whatever other threads do to the list it walks.           *)
EXTENDS StompServerProofs

\* An iterator walks a list that was made for a channel.
IteratorsKnown == \A d \in Conns : iter[d].list # Null => Known(iter[d].list[1])

\* The list object that a thread is about to make is in nobody's hands, so its
\* contents cannot be emptied behind an iterator.
CreatesUnseen ==
    \A c \in Conns : pc[c] = "create" =>
        /\ channelToConnectionId[frame[c].channel] # <<frame[c].channel, c>>
        /\ \A d \in Conns : iter[d].list # <<frame[c].channel, c>>

FirstOf(c, n) == {Body(c)[k] : k \in 1 .. n}

\* How far the SEND of c is: between two recipients, and in the middle of one.
Walked(c) ==
    /\ pc[c] \notin {"next", "recipient", "write"} => delivery[c].reached = {}
    /\ pc[c] \in {"next", "recipient"} /\ ~iter[c].stale =>
          delivery[c].reached = FirstOf(c, iter[c].at)
    /\ pc[c] = "write" /\ ~iter[c].stale =>
          /\ iter[c].at >= 1
          /\ delivery[c].reached = FirstOf(c, iter[c].at - 1)
          /\ delivery[c].peer \in {Null, Body(c)[iter[c].at]}

DeliveryInv == IteratorsKnown /\ CreatesUnseen /\ \A c \in Conns : Walked(c)

Step(c) == Eof(c) \/ Malformed(c) \/ Request(c) \/ Handle(c)

----------------------------------------------------------------------------
(* Iterators.                                                              *)

LEMMA LeftIterator ==
    ASSUME TypeOK, NEW c \in Conns, Throw(c) \/ Return(c)
    PROVE  iter'[c] = NoIter /\ delivery'[c] = NoDelivery /\ pc'[c] = "idle"
BY DEF TypeOK, ThreadTypes, Throw, Return, Leave, Goto

\* A step gives a thread no iterator but one on a channel's current list.
LEMMA NewIterators ==
    ASSUME Inv, NEW c \in Conns, Step(c), NEW d \in Conns
    PROVE  iter'[d].list \in {iter[d].list, Null}
              \cup {channelToConnectionId[ch] : ch \in {x \in Channels : Known(x)}}
<1> DEFINE Current == {channelToConnectionId[ch] : ch \in {x \in Channels : Known(x)}}
<1> SUFFICES iter'[d].list \in {iter[d].list, Null} \cup Current
  OBVIOUS
<1> USE DEF Step
<1>0. TypeOK /\ Consistent /\ ThreadConsistent(c) /\ iter \in [Conns -> Iterators]
  BY DEF Inv, TypeOK, Consistent, ThreadTypes
<1>1. CASE d # c
  BY <1>0, <1>1, OtherThreads
<1>2. CASE d = c
  <2>1. CASE Throw(c) \/ Return(c)
    BY <1>0, <1>2, <2>1, LeftIterator DEF NoIter
  <2>2. CASE UNCHANGED iter
    BY <1>2, <2>2
  <2>3. CASE \E ref : iter' = [iter EXCEPT ![c] = IteratorOn(ref)]
                /\ ref \in Current
    BY <1>0, <1>2, <2>3 DEF IteratorOn
  <2>4. CASE \E n : iter' = [iter EXCEPT ![c].at = n]
    BY <1>0, <1>2, <2>4 DEF Iterators
  <2>5. CASE \E ref : iter' = Touched(ref)
    BY <1>0, <1>2, <2>5 DEF Touched, Iterators
  <2> HIDE DEF Current
  <2> USE DEF locals
  <2>6. CASE Eof(c) \/ Malformed(c)
    BY <2>1, <2>2, <2>6 DEF Eof, Malformed
  <2>7. CASE Connect(c) \/ Subscribe(c) \/ Disconnect(c)
    BY <2>1, <2>2, <2>7 DEF Connect, ProcessConnect, Subscribe, ProcessSubscribe,
       Disconnect
  <2>8. CASE Send(c)
    <3>1. \A ch \in Channels : Known(ch) => channelToConnectionId[ch] \in Current
      BY DEF Current
    <3> QED BY <2>2, <2>3, <2>8, <3>1 DEF Send, ProcessSend, Known
  <2>9. CASE Unsubscribe(c)
    <3>1. \A i \in Ids : clientidToIdTopicMap[c][i] # Null =>
             channelToConnectionId[clientidToIdTopicMap[c][i]] \in Current
      <4> SUFFICES ASSUME NEW i \in Ids, clientidToIdTopicMap[c][i] # Null
                   PROVE  channelToConnectionId[clientidToIdTopicMap[c][i]] \in Current
        OBVIOUS
      <4>1. clientidToIdTopicMap[c][i] \in Channels
        BY <1>0 DEF TypeOK, TopicTypes, Nullable
      <4>2. Known(clientidToIdTopicMap[c][i])
        BY <1>0 DEF Consistent, ReferencesResolve
      <4> QED BY <4>1, <4>2 DEF Current
    <3>2. PICK i \in Ids, receipt \in Nullable(Receipts) : ProcessUnsubscribe(c, i, receipt)
      BY <2>9 DEF Unsubscribe
    <3> QED BY <2>1, <2>3, <3>1, <3>2 DEF ProcessUnsubscribe
  <2>10. CASE Open(c)
    <3>1. channelToConnectionId[frame[c].channel] # Null =>
             channelToConnectionId[frame[c].channel] \in Current
      BY <1>0, <2>10 DEF Open, ThreadConsistent, Current, Known
    <3> QED BY <2>1, <2>3, <2>10, <3>1 DEF Open
  <2>11. CASE LeaveChannel(c)
    <3>1. todo[c] # << >> => channelToConnectionId[Head(todo[c])] \in Current
      <4>1. todo[c] \in Seq(Channels)
        BY <1>0 DEF TypeOK, ThreadTypes
      <4>2. todo[c] # << >> => Head(todo[c]) \in Channels /\ Known(todo[c][1])
        BY <1>0, <4>1 DEF ThreadConsistent
      <4> QED BY <4>1, <4>2 DEF Current
    <3> QED BY <2>1, <2>3, <2>11, <3>1 DEF LeaveChannel
  <2>12. CASE PutHandler(c) \/ Rebind(c) \/ Bind(c) \/ PutPasscode(c) \/ Check(c)
              \/ Stamp(c) \/ EndSend(c) \/ CreateList(c) \/ IndexSubscription(c)
              \/ RemoveHandler(c) \/ RemoveLogin(c) \/ GoOn(c) \/ EndScan(c)
    BY <2>1, <2>2, <2>12 DEF PutHandler, Rebind, Bind, PutPasscode, Check, Stamp,
       EndSend, CreateList, IndexSubscription, RemoveHandler, RemoveLogin, GoOn, EndScan
  <2>13. CASE NextRecipient(c) \/ Write(c) \/ Pick(c)
    BY <2>1, <2>2, <2>4, <2>13 DEF NextRecipient, Write, Pick
  <2>14. CASE AddSubscriber(c) \/ RemoveFound(c)
    BY <2>1, <2>5, <2>14 DEF AddSubscriber, RemoveFound
  <2> QED BY <2>6, <2>7, <2>8, <2>9, <2>10, <2>11, <2>12, <2>13, <2>14
          DEF Request, Handle
<1> QED BY <1>1, <1>2

LEMMA IteratorsKnownStep ==
    ASSUME Inv, IteratorsKnown, [Next]_vars
    PROVE  IteratorsKnown'
<1>0. TypeOK /\ Consistent
  BY DEF Inv
<1>1. \A ch \in Channels : Known(ch) => Known(ch)'
  BY <1>0, KnownForEver DEF Consistent
<1>2. ASSUME NEW d \in Conns, iter[d].list # Null 
      PROVE  channelToConnectionId'[iter[d].list[1]] # Null
  <2>1. iter[d].list[1] \in Channels
    BY <1>0, <1>2 DEF TypeOK, ThreadTypes, Iterators, ListRefs, Nullable
  <2>2. Known(iter[d].list[1])
    BY <1>2 DEF IteratorsKnown
  <2> QED BY <1>1, <2>1, <2>2 DEF Known
<1>3. CASE Accept \/ UNCHANGED vars
  <2>1. iter' = iter
    BY <1>3 DEF Accept, vars, locals
  <2> QED BY <1>2, <2>1 DEF IteratorsKnown, Known
<1>4. ASSUME NEW c \in Conns, Step(c), NEW d \in Conns, iter'[d].list # Null
      PROVE  channelToConnectionId'[iter'[d].list[1]] # Null
  <2>1. CASE iter'[d].list = iter[d].list
    BY <1>2, <1>4, <2>1
  <2>2. CASE iter'[d].list # iter[d].list
    <3>1. PICK ch \in Channels : Known(ch) /\ iter'[d].list = channelToConnectionId[ch]
      BY <1>4, <2>2, NewIterators
    <3>2. iter'[d].list[1] = ch
      BY <1>0, <3>1 DEF Consistent, ReferencesResolve
    <3> QED BY <1>1, <3>1, <3>2 DEF Known
  <2> QED BY <2>1, <2>2
<1> QED BY <1>3, <1>4 DEF Next, Step, IteratorsKnown, Known

\* A thread comes to `create' with a SUBSCRIBE to a channel without a list.
LEMMA ToCreate ==
    ASSUME TypeOK, NEW c \in Conns, Step(c), pc'[c] = "create"
    PROVE  \/ /\ frame'[c].channel \in Channels /\ ~Known(frame'[c].channel)
              /\ UNCHANGED <<iter, channelToConnectionId>>
           \/ pc[c] = "create" /\ Eof(c)
<1> USE DEF TypeOK, ThreadTypes, Goto, Step
<1>1. ~Throw(c) /\ ~Return(c)
  BY LeftIterator
<1>2. CASE Eof(c)
  BY <1>2 DEF Eof
<1>3. CASE Malformed(c) \/ Connect(c) \/ Send(c) \/ Unsubscribe(c) \/ Disconnect(c)
  BY <1>1, <1>3 DEF Malformed, Connect, ProcessConnect, Send, ProcessSend, Unsubscribe,
     ProcessUnsubscribe, Disconnect, Ready
<1>4. CASE Subscribe(c)
  <2>1. PICK ch \in Channels, i \in Ids, receipt \in Nullable(Receipts) :
           ProcessSubscribe(c, ch, i, receipt)
    BY <1>4 DEF Subscribe
  <2> DEFINE f == [NoFrame EXCEPT !.command = "SUBSCRIBE", !.channel = ch, !.id = i,
                                  !.receipt = receipt]
  <2>2. f \in Frames /\ f.channel = ch
    BY FrameTypes DEF NoFrame
  <2>3. frame'[c] = f
    BY <2>1, <2>2 DEF ProcessSubscribe
  <2>4. channelToConnectionId[ch] = Null /\ UNCHANGED <<iter, channelToConnectionId>>
    BY <2>1 DEF ProcessSubscribe, rosters
  <2> QED BY <2>2, <2>3, <2>4 DEF Known
<1>5. CASE Handle(c)
  BY <1>1, <1>5 DEF Handle, PutHandler, Rebind, Bind, PutPasscode, Check, Stamp, Open,
     NextRecipient, Write, EndSend, CreateList, AddSubscriber, IndexSubscription,
     RemoveHandler, RemoveLogin, LeaveChannel, GoOn, Pick, RemoveFound, EndScan
<1> QED BY <1>2, <1>3, <1>4, <1>5 DEF Request

LEMMA CreatesUnseenStep ==
    ASSUME Inv, IteratorsKnown, CreatesUnseen, [Next]_vars
    PROVE  CreatesUnseen'
<1>0. TypeOK /\ Consistent
  BY DEF Inv
<1>1. CASE Accept \/ UNCHANGED vars
  <2>1. UNCHANGED <<pc, frame, iter, channelToConnectionId>>
    BY <1>1 DEF Accept, vars, locals, rosters
  <2> QED BY <2>1 DEF CreatesUnseen
<1>2. ASSUME NEW b \in Conns, Step(b), NEW c \in Conns, pc'[c] = "create"
      PROVE  /\ channelToConnectionId'[frame'[c].channel] # <<frame'[c].channel, c>>
             /\ \A d \in Conns : iter'[d].list # <<frame'[c].channel, c>>
  <2> DEFINE ch == frame'[c].channel
  <2>1. CASE b = c /\ ~Eof(b)
    <3>1. ch \in Channels /\ ~Known(ch) /\ UNCHANGED <<iter, channelToConnectionId>>
      BY <1>0, <1>2, <2>1, ToCreate
    <3>2. <<ch, c>> \in ListRefs
      BY <3>1 DEF ListRefs
    <3>3. <<ch, c>> # Null
      BY <3>2, NullAssumption
    <3>4. ASSUME NEW d \in Conns, iter[d].list = <<ch, c>> PROVE FALSE
      <4>1. channelToConnectionId[iter[d].list[1]] # Null
        BY <3>3, <3>4 DEF IteratorsKnown, Known
      <4>2. iter[d].list[1] = ch
        BY <3>4
      <4> QED BY <3>1, <4>1, <4>2 DEF Known
    <3> QED BY <3>1, <3>3, <3>4 DEF Known
  <2>2. CASE b # c \/ Eof(b)
    <3>1. pc[c] = "create" /\ frame'[c] = frame[c] /\ ch = frame[c].channel
      BY <1>0, <1>2, <2>2, OtherThreads DEF Step, Eof, locals
    <3>2. /\ channelToConnectionId[ch] # <<ch, c>>
          /\ \A d \in Conns : iter[d].list # <<ch, c>>
      BY <3>1 DEF CreatesUnseen
    <3>3. ch \in Channels
      BY <1>0, <3>1 DEF Consistent, ThreadConsistent
    <3>4. <<ch, c>> \in ListRefs
      BY <3>3 DEF ListRefs
    <3>5. channelToConnectionId'[ch] # <<ch, c>>
      <4>1. CASE CreateList(b)
        <5>1. b # c
          BY <2>2, <4>1, <1>0 DEF Eof, CreateList, Ready
        <5>2. channelToConnectionId' =
                 [channelToConnectionId EXCEPT ![frame[b].channel] = <<frame[b].channel, b>>]
          BY <4>1 DEF CreateList
        <5>3. channelToConnectionId \in [Channels -> Nullable(ListRefs)]
          BY <1>0 DEF TypeOK, TopicTypes
        <5> QED BY <3>2, <3>3, <5>1, <5>2, <5>3
      <4>2. CASE ~CreateList(b)
        <5>1. channelToConnectionId' = channelToConnectionId
          BY <1>2, <4>2, RequestEffects DEF Step, Handle, PutHandler, Rebind, Bind,
             PutPasscode, Check, Stamp, Open, NextRecipient, Write, EndSend,
             AddSubscriber, IndexSubscription, RemoveHandler, RemoveLogin, LeaveChannel,
             GoOn, Pick, RemoveFound, EndScan, rosters
        <5> QED BY <3>2, <5>1
      <4> QED BY <4>1, <4>2
    <3>6. ASSUME NEW d \in Conns PROVE iter'[d].list # <<ch, c>>
      <4>1. CASE iter'[d].list \in {iter[d].list, Null}
        BY <3>2, <3>4, <4>1, NullAssumption
      <4>2. CASE iter'[d].list \notin {iter[d].list, Null}
        <5>1. PICK x \in Channels : Known(x) /\ iter'[d].list = channelToConnectionId[x]
          BY <1>2, <4>2, NewIterators
        <5>2. iter'[d].list[1] = x
          BY <1>0, <5>1 DEF Consistent, ReferencesResolve
        <5> QED BY <3>2, <5>1, <5>2
      <4> QED BY <4>1, <4>2
    <3> QED BY <3>5, <3>6
  <2> QED BY <2>1, <2>2
<1> QED BY <1>1, <1>2 DEF Next, Step, CreatesUnseen

----------------------------------------------------------------------------
(* The broadcast.                                                          *)

LEMMA WalkedSame ==
    ASSUME NEW c \in Conns, Walked(c), pc'[c] = pc[c], delivery'[c] = delivery[c],
           iter'[c].at = iter[c].at,
           pc[c] \in {"next", "recipient", "write"} /\ ~iter'[c].stale =>
              ~iter[c].stale /\ Body(c)' = Body(c)
    PROVE  Walked(c)'
BY DEF Walked, FirstOf

\* Another thread's step: if it changes the list, the iterator is stale.
LEMMA OtherWalked ==
    ASSUME Inv, DeliveryInv, NEW b \in Conns, NEW c \in Conns, b # c, Step(b)
    PROVE  Walked(c)'
<1>0. /\ TypeOK /\ Consistent /\ iter[c] \in Iterators /\ iter \in [Conns -> Iterators]
      /\ lists \in [ListRefs -> Seq(Conns)] /\ delivery \in [Conns -> Deliveries]
  BY DEF Inv, TypeOK, ThreadTypes, TopicTypes
<1>1. pc'[c] = pc[c] /\ iter'[c].list = iter[c].list /\ iter'[c].at = iter[c].at
  BY <1>0, OtherThreads DEF Step
<1>2. delivery'[c] = delivery[c]
  BY <1>0 DEF Step, Eof, Malformed, Request, Connect, ProcessConnect, Send, ProcessSend,
     Subscribe, ProcessSubscribe, Unsubscribe, ProcessUnsubscribe, Disconnect, Handle,
     PutHandler, Rebind, Bind, PutPasscode, Check, Stamp, Open, NextRecipient, Write,
     EndSend, CreateList, AddSubscriber, IndexSubscription, RemoveHandler, RemoveLogin,
     LeaveChannel, GoOn, Pick, RemoveFound, EndScan, Throw, Return, Leave, locals
<1>3. CASE pc[c] \notin {"next", "recipient", "write"}
  BY <1>1, <1>2, <1>3, WalkedSame DEF DeliveryInv
<1>4. CASE pc[c] \in {"next", "recipient", "write"}
  <2> DEFINE mine == iter[c].list
  <2>1. mine \in ListRefs
    BY <1>0, <1>4 DEF Consistent, ThreadConsistent
  <2>2. CASE AddSubscriber(b) \/ (RemoveFound(b) /\ FoundIndex(b) <= Len(Body(b)))
    <3>1. PICK ref \in ListRefs :
             /\ iter' = Touched(ref)
             /\ \A other \in ListRefs : other # ref => lists'[other] = lists[other]
      <4>1. CASE AddSubscriber(b)
        <5>1. channelToConnectionId[frame[b].channel] \in ListRefs
          BY <1>0, <4>1 DEF AddSubscriber, Consistent, ThreadConsistent, Known, TypeOK,
             TopicTypes, Nullable
        <5> QED BY <1>0, <4>1, <5>1 DEF AddSubscriber
      <4>2. CASE RemoveFound(b) /\ FoundIndex(b) <= Len(Body(b))
        <5>1. iter[b].list \in ListRefs
          BY <1>0, <4>2 DEF RemoveFound, Consistent, ThreadConsistent
        <5>2. FoundIndex(b) \in Nat /\ Len(Body(b)) \in Nat
          BY <1>0, <5>1 DEF FoundIndex, Body, Iterators
        <5> QED BY <1>0, <4>2, <5>1, <5>2 DEF RemoveFound
      <4> QED BY <2>2, <4>1, <4>2
    <3>2. CASE ref = mine
      <4>1. iter'[c].stale
        BY <1>0, <3>1, <3>2 DEF Touched, Iterators
      <4> QED BY <1>1, <1>2, <4>1, WalkedSame DEF DeliveryInv
    <3>3. CASE ref # mine
      <4>1. iter'[c] = iter[c] /\ lists'[mine] = lists[mine]
        BY <1>0, <2>1, <3>1, <3>3 DEF Touched
      <4> QED BY <1>1, <1>2, <4>1, WalkedSame DEF DeliveryInv, Body
    <3> QED BY <3>2, <3>3
  <2>3. CASE ~AddSubscriber(b) /\ ~(RemoveFound(b) /\ FoundIndex(b) <= Len(Body(b)))
    <3>1. iter'[c] = iter[c]
      BY <1>0, <2>3 DEF Step, Eof, Malformed, Request, Connect, ProcessConnect, Send,
         ProcessSend, Subscribe, ProcessSubscribe, Unsubscribe, ProcessUnsubscribe,
         Disconnect, Handle, PutHandler, Rebind, Bind, PutPasscode, Check, Stamp, Open,
         NextRecipient, Write, EndSend, CreateList, IndexSubscription, RemoveHandler,
         RemoveLogin, LeaveChannel, GoOn, Pick, RemoveFound, EndScan, Throw, Return,
         Leave, locals
    <3>2. lists'[mine] = lists[mine]
      <4>1. CASE CreateList(b)
        <5>1. mine # <<frame[b].channel, b>>
          BY <4>1 DEF DeliveryInv, CreatesUnseen, CreateList
        <5> QED BY <1>0, <2>1, <4>1, <5>1 DEF CreateList
      <4>2. CASE ~CreateList(b)
        <5>1. CASE RemoveFound(b)
          <6>1. iter[b] \in Iterators /\ iter[b].list \in ListRefs
            BY <1>0, <5>1 DEF RemoveFound, Consistent, ThreadConsistent, Iterators
          <6>2. FoundIndex(b) \in Nat /\ Len(Body(b)) \in Nat
            BY <1>0, <6>1 DEF FoundIndex, Body, Iterators
          <6> QED BY <2>3, <5>1, <6>2 DEF RemoveFound
        <5>2. CASE ~RemoveFound(b)
          BY <2>3, <4>2, <5>2, RequestEffects DEF Step, Handle, PutHandler, Rebind,
             Bind, PutPasscode, Check, Stamp, Open, NextRecipient, Write, EndSend,
             IndexSubscription, RemoveHandler, RemoveLogin, LeaveChannel, GoOn, Pick,
             EndScan, rosters
        <5> QED BY <5>1, <5>2
      <4> QED BY <4>1, <4>2
    <3> QED BY <1>1, <1>2, <3>1, <3>2, WalkedSame DEF DeliveryInv, Body
  <2> QED BY <2>2, <2>3
<1> QED BY <1>3, <1>4

LEMMA LeftWalked ==
    ASSUME TypeOK, NEW c \in Conns, Throw(c) \/ Return(c)
    PROVE  Walked(c)'
BY LeftIterator DEF Walked, NoDelivery

\* The sender's own step.
LEMMA SelfWalked ==
    ASSUME Inv, DeliveryInv, NEW c \in Conns, Step(c)
    PROVE  Walked(c)'
<1>0. /\ TypeOK /\ Walked(c) /\ iter[c] \in Iterators /\ iter \in [Conns -> Iterators]
      /\ delivery \in [Conns -> Deliveries] /\ delivery[c] \in Deliveries
      /\ pc \in [Conns -> Steps]
  BY DEF Inv, TypeOK, ThreadTypes, DeliveryInv
<1> USE DEF Goto
<1>1. CASE Throw(c) \/ Return(c)
  BY <1>0, <1>1, LeftWalked
<1>2. CASE /\ pc[c] \notin {"next", "recipient", "write"}
           /\ pc'[c] \notin {"next", "recipient", "write"}
           /\ UNCHANGED delivery
  BY <1>0, <1>2 DEF Walked
<1>3. CASE Eof(c)
  BY <1>0, <1>3, WalkedSame DEF Eof, locals, rosters, Body
<1>4. CASE Malformed(c)
  BY <1>1, <1>4 DEF Malformed
<1>5. CASE Connect(c) \/ Unsubscribe(c)
  BY <1>0, <1>1, <1>2, <1>5 DEF Connect, ProcessConnect, Unsubscribe,
     ProcessUnsubscribe, Ready
<1>6. CASE Send(c)
  BY <1>0, <1>2, <1>6 DEF Send, ProcessSend, Ready
<1>7. CASE Subscribe(c)
  BY <1>0, <1>2, <1>7 DEF Subscribe, ProcessSubscribe, Ready
<1>8. CASE Disconnect(c)
  BY <1>0, <1>2, <1>8 DEF Disconnect, Ready
<1>9. CASE PutHandler(c) \/ Rebind(c) \/ Bind(c) \/ PutPasscode(c) \/ Check(c)
           \/ CreateList(c) \/ AddSubscriber(c) \/ IndexSubscription(c)
           \/ RemoveHandler(c) \/ RemoveLogin(c) \/ LeaveChannel(c)
           \/ Pick(c) \/ RemoveFound(c) \/ EndScan(c) \/ EndSend(c)
  BY <1>0, <1>1, <1>2, <1>9 DEF PutHandler, Rebind, Bind, PutPasscode, Check,
     CreateList, AddSubscriber, IndexSubscription, RemoveHandler, RemoveLogin,
     LeaveChannel, Pick, RemoveFound, EndScan, EndSend, locals
<1>14. CASE GoOn(c)
  <2>1. UNCHANGED <<iter, delivery, lists>>
    BY <1>14 DEF GoOn, locals, rosters
  <2>2. \/ pc[c] = "next" /\ pc'[c] = "recipient"
        \/ pc[c] = "scan" /\ pc'[c] = "pick"
    BY <1>0, <1>14 DEF GoOn
  <2> QED BY <1>0, <2>1, <2>2 DEF Walked, FirstOf, Body
<1>10. CASE Stamp(c) /\ ~Throw(c)
  BY <1>0, <1>10 DEF Stamp, Walked, Deliveries
<1>11. CASE Open(c) /\ ~Throw(c)
  <2>1. delivery'[c].reached = {} /\ iter'[c].at = 0 /\ pc'[c] = "next"
    BY <1>0, <1>11 DEF Open, IteratorOn, Walked, Deliveries
  <2>2. FirstOf(c, iter[c].at)' = {}
    BY <2>1 DEF FirstOf
  <2> QED BY <2>1, <2>2 DEF Walked
<1>12. CASE NextRecipient(c) /\ ~Throw(c)
  <2> DEFINE n == iter[c].at
             r == Body(c)[n + 1]
  <2>0. n \in Nat
    BY <1>0 DEF Iterators
  <2>1. /\ pc'[c] = "write" /\ ~iter[c].stale /\ pc[c] = "recipient"
        /\ iter'[c].at = n + 1 /\ iter'[c].list = iter[c].list
        /\ delivery'[c].reached = delivery[c].reached
        /\ delivery'[c].peer \in {Null, r}
        /\ lists' = lists
    BY <1>0, <1>12 DEF NextRecipient, NextThrows, Iterators, Deliveries, rosters
  <2>2. Body(c)' = Body(c)
    BY <2>1 DEF Body
  <2>3. FirstOf(c, iter[c].at - 1)' = FirstOf(c, n)
    BY <2>0, <2>1, <2>2 DEF FirstOf
  <2> QED BY <1>0, <2>0, <2>1, <2>2, <2>3 DEF Walked
<1>13. CASE Write(c) /\ ~Throw(c)
  <2> DEFINE n == iter[c].at
             r == delivery[c].peer
  <2>0. n \in Nat
    BY <1>0 DEF Iterators
  <2>1. /\ pc'[c] = "next" /\ pc[c] = "write" /\ iter' = iter /\ lists' = lists
        /\ r # Null
        /\ delivery'[c].reached = delivery[c].reached \cup {r}
    BY <1>0, <1>13 DEF Write, Deliveries, rosters
  <2>2. Body(c)' = Body(c)
    BY <2>1 DEF Body
  <2>3. CASE ~iter[c].stale
    <3>1. n >= 1 /\ delivery[c].reached = FirstOf(c, n - 1) /\ r = Body(c)[n]
      BY <1>0, <2>1, <2>3 DEF Walked
    <3>2. FirstOf(c, n) = FirstOf(c, n - 1) \cup {Body(c)[n]}
      BY <2>0, <3>1 DEF FirstOf
    <3>3. FirstOf(c, iter[c].at)' = FirstOf(c, n)
      BY <2>1, <2>2 DEF FirstOf
    <3> QED BY <2>1, <3>1, <3>2, <3>3 DEF Walked
  <2> QED BY <2>1, <2>3 DEF Walked
<1> QED BY <1>1, <1>3, <1>4, <1>5, <1>6, <1>7, <1>8, <1>9, <1>10, <1>11, <1>12, <1>13,
        <1>14 DEF Step, Request, Handle

----------------------------------------------------------------------------
(* The theorem.                                                            *)

LEMMA DeliveryInit == Init => DeliveryInv
<1> SUFFICES ASSUME Init PROVE DeliveryInv
  OBVIOUS
<1> QED BY DEF Init, DeliveryInv, IteratorsKnown, CreatesUnseen, Walked, NoIter,
        NoDelivery

LEMMA DeliveryStep == Inv /\ DeliveryInv /\ [Next]_vars => DeliveryInv'
<1> SUFFICES ASSUME Inv, DeliveryInv, [Next]_vars PROVE DeliveryInv'
  OBVIOUS
<1>1. IteratorsKnown' /\ CreatesUnseen'
  BY IteratorsKnownStep, CreatesUnseenStep DEF DeliveryInv
<1>2. ASSUME NEW c \in Conns PROVE Walked(c)'
  <2>1. CASE Accept \/ UNCHANGED vars
    <3>1. UNCHANGED <<pc, iter, lists, delivery>>
      BY <2>1 DEF Accept, vars, locals, rosters
    <3> QED BY <3>1, WalkedSame DEF DeliveryInv, Body
  <2>2. ASSUME NEW b \in Conns, Step(b) PROVE Walked(c)'
    BY <2>2, OtherWalked, SelfWalked
  <2> QED BY <2>1, <2>2 DEF Next, Step
<1> QED BY <1>1, <1>2 DEF DeliveryInv

LEMMA DeliveryAlways == Spec => [](Inv /\ DeliveryInv)
<1>1. Spec => []Inv
  BY InvAlways
<1> QED BY <1>1, DeliveryInit, DeliveryStep, PTL DEF Spec

LEMMA DeliveryReaches == DeliveryInv => ReachedPrefix
BY DEF DeliveryInv, Walked, ReachedPrefix, FirstOf

\* A broadcast that other threads disturb or an exception ends has been written
\* to the first connections of the list it walks and to no others, for any
\* number of connections, channels and overlapping frames.
THEOREM BroadcastReachesPrefix == Spec => []ReachedPrefix
BY DeliveryAlways, DeliveryReaches, PTL

=============================================================================
