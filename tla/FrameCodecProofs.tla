-------------------------- MODULE FrameCodecProofs --------------------------
(* What the two programs make of each other's frames. *)
EXTENDS FrameCodec, SequenceTheorems, TLAPS

----------------------------------------------------------------------------
(* Where the headers end, and what they hold.                              *)

LEMMA BlankHasNoColon == ASSUME NEW line, IsBlank(line) PROVE ~HasColon(line)
  BY DEF HasColon, IsBlank, Blank, Plain, Header

LEMMA EndIs ==
    ASSUME NEW text, Len(text.lines) \in Nat,
           NEW n \in 2 .. Len(text.lines), HeadersEndAt(text, n)
    PROVE  /\ JavaParses(text) /\ JavaEnd(text) = n
           /\ CppParses(text) /\ CppEnd(text) = n
<1>1. ASSUME NEW m \in 2 .. Len(text.lines), HeadersEndAt(text, m)
      PROVE  m = n
  <2>1. CASE m < n
    <3>1. m \in 2 .. n - 1
      BY <2>1
    <3> QED BY <3>1, <1>1, BlankHasNoColon DEF HeadersEndAt
  <2>2. CASE n < m
    <3>1. n \in 2 .. m - 1
      BY <2>2
    <3> QED BY <3>1, <1>1, BlankHasNoColon DEF HeadersEndAt
  <2> QED BY <2>1, <2>2
<1>2. JavaEnd(text) = n
  BY <1>1 DEF JavaEnd
<1>3. CppEnd(text) = n
  BY <1>1 DEF CppEnd
<1> QED BY <1>2, <1>3 DEF JavaParses, CppParses

LEMMA HeaderIs ==
    ASSUME NEW text, Len(text.lines) \in Nat,
           NEW n \in 2 .. Len(text.lines), HeadersEndAt(text, n),
           NEW key, NEW value, NEW k \in 2 .. n - 1, text.lines[k] = Header(key, value),
           \A j \in 2 .. n - 1 : text.lines[j].key = key => j = k
    PROVE  JavaGet(text, key) = value /\ CppGet(text, key) = value
<1>1. JavaEnd(text) = n /\ CppEnd(text) = n
  BY EndIs
<1>2. text.lines[k].key = key /\ text.lines[k].value = value
  BY DEF Header
<1>3. HeadersBefore(text, n, key) = {k}
  BY <1>2 DEF HeadersBefore
<1> QED BY <1>1, <1>2, <1>3 DEF JavaGet, CppGet

LEMMA NoHeader ==
    ASSUME NEW text, Len(text.lines) \in Nat,
           NEW n \in 2 .. Len(text.lines), HeadersEndAt(text, n),
           NEW key, \A j \in 2 .. n - 1 : text.lines[j].key # key
    PROVE  JavaGet(text, key) = Null /\ CppGet(text, key) = Null
<1>1. JavaEnd(text) = n /\ CppEnd(text) = n
  BY EndIs
<1>2. HeadersBefore(text, n, key) = {}
  BY DEF HeadersBefore
<1> QED BY <1>1, <1>2 DEF JavaGet, CppGet

\* The two parsers take different copies of a header that occurs twice
\* (map.put, map::insert); of everything else that the Java one accepts they
\* have the same idea.
THEOREM ParsersAgree ==
    ASSUME NEW text, Len(text.lines) \in Nat, JavaParses(text),
           \A i, j \in 2 .. JavaEnd(text) - 1 :
               text.lines[i].key = text.lines[j].key => i = j
    PROVE  /\ CppParses(text)
           /\ \A key : JavaGet(text, key) = CppGet(text, key)
<1>1. PICK n \in 2 .. Len(text.lines) : HeadersEndAt(text, n)
  BY DEF JavaParses
<1>2. CppParses(text) /\ JavaEnd(text) = n
  BY <1>1, EndIs
<1>3. ASSUME NEW key PROVE JavaGet(text, key) = CppGet(text, key)
  <2>1. CASE \E k \in 2 .. n - 1 : text.lines[k].key = key
    <3>1. PICK k \in 2 .. n - 1 : text.lines[k].key = key
      BY <2>1
    <3>2. HeadersBefore(text, n, key) = {k}
      BY <3>1, <1>2 DEF HeadersBefore
    <3> QED BY <3>2, <1>1, EndIs DEF JavaGet, CppGet
  <2>2. CASE ~ \E k \in 2 .. n - 1 : text.lines[k].key = key
    BY <2>2, <1>1, NoHeader
  <2> QED BY <2>1, <2>2
<1> QED BY <1>2, <1>3

----------------------------------------------------------------------------
(* The client's frames, as the server reads them.                          *)

\* CONNECT has a login and a passcode and asks for no receipt.
LEMMA ConnectRead ==
    ASSUME NEW u, NEW p, u # Null, p # Null, Word # Null
    PROVE  /\ JavaParses(ConnectFrame(u, p))
           /\ JavaCommand(ConnectFrame(u, p)) = "CONNECT"
           /\ JavaGet(ConnectFrame(u, p), "login") = u
           /\ JavaGet(ConnectFrame(u, p), "passcode") = p
           /\ JavaGet(ConnectFrame(u, p), "receipt") = Null
<1> DEFINE t == ConnectFrame(u, p)
<1>1. /\ Len(t.lines) \in Nat /\ 6 \in 2 .. Len(t.lines)
      /\ t.lines[1].key = "CONNECT"
      /\ t.lines[2] = Header("accept-version", Word)
      /\ t.lines[3] = Header("host", Word)
      /\ t.lines[4] = Header("login", u)
      /\ t.lines[5] = Header("passcode", p)
      /\ t.lines[6] = Blank
  BY DEF ConnectFrame, ClientText, Text, Plain, Header, Blank
<1> HIDE DEF t
<1>2. \A k \in 2 .. 5 : k = 2 \/ k = 3 \/ k = 4 \/ k = 5
  OBVIOUS
<1>3. HeadersEndAt(t, 6)
  BY <1>1, <1>2 DEF HeadersEndAt, IsBlank, HasColon, Header
<1>4. JavaParses(t)
  BY <1>1, <1>3, EndIs
<1>5. JavaGet(t, "login") = u
  <2>1. 4 \in 2 .. 5
    OBVIOUS
  <2>2. \A l \in 2 .. 5 : t.lines[l].key = "login" => l = 4
    BY <1>1, <1>2 DEF Header
  <2> QED BY <1>1, <1>3, <2>1, <2>2, HeaderIs
<1>6. JavaGet(t, "passcode") = p
  <2>1. 5 \in 2 .. 5
    OBVIOUS
  <2>2. \A l \in 2 .. 5 : t.lines[l].key = "passcode" => l = 5
    BY <1>1, <1>2 DEF Header
  <2> QED BY <1>1, <1>3, <2>1, <2>2, HeaderIs
<1>7. JavaGet(t, "receipt") = Null
  <2>1. \A l \in 2 .. 5 : t.lines[l].key # "receipt"
    BY <1>1, <1>2 DEF Header
  <2> QED BY <1>1, <1>3, <2>1, NoHeader
<1> QED BY <1>1, <1>4, <1>5, <1>6, <1>7 DEF t, JavaCommand

\* SUBSCRIBE: the game, its id and a receipt.
LEMMA SubscribeRead ==
    ASSUME NEW g, NEW i, NEW r, g # Null, i # Null, r # Null
    PROVE  /\ JavaParses(SubscribeFrame(g, i, r))
           /\ JavaCommand(SubscribeFrame(g, i, r)) = "SUBSCRIBE"
           /\ JavaGet(SubscribeFrame(g, i, r), "destination") = g
           /\ JavaGet(SubscribeFrame(g, i, r), "id") = i
           /\ JavaGet(SubscribeFrame(g, i, r), "receipt") = r
<1> DEFINE t == SubscribeFrame(g, i, r)
<1>1. /\ Len(t.lines) \in Nat /\ 5 \in 2 .. Len(t.lines)
      /\ t.lines[1].key = "SUBSCRIBE"
      /\ t.lines[2] = Header("destination", g)
      /\ t.lines[3] = Header("id", i)
      /\ t.lines[4] = Header("receipt", r)
      /\ t.lines[5] = Blank
  BY DEF SubscribeFrame, ClientText, Text, Plain, Header, Blank
<1> HIDE DEF t
<1>2. \A k \in 2 .. 4 : k = 2 \/ k = 3 \/ k = 4
  OBVIOUS
<1>3. HeadersEndAt(t, 5)
  BY <1>1, <1>2 DEF HeadersEndAt, IsBlank, HasColon, Header
<1>4. JavaParses(t)
  BY <1>1, <1>3, EndIs
<1>5. JavaGet(t, "destination") = g
  <2>1. 2 \in 2 .. 4
    OBVIOUS
  <2>2. \A l \in 2 .. 4 : t.lines[l].key = "destination" => l = 2
    BY <1>1, <1>2 DEF Header
  <2> QED BY <1>1, <1>3, <2>1, <2>2, HeaderIs
<1>6. JavaGet(t, "id") = i
  <2>1. 3 \in 2 .. 4
    OBVIOUS
  <2>2. \A l \in 2 .. 4 : t.lines[l].key = "id" => l = 3
    BY <1>1, <1>2 DEF Header
  <2> QED BY <1>1, <1>3, <2>1, <2>2, HeaderIs
<1>7. JavaGet(t, "receipt") = r
  <2>1. 4 \in 2 .. 4
    OBVIOUS
  <2>2. \A l \in 2 .. 4 : t.lines[l].key = "receipt" => l = 4
    BY <1>1, <1>2 DEF Header
  <2> QED BY <1>1, <1>3, <2>1, <2>2, HeaderIs
<1> QED BY <1>1, <1>4, <1>5, <1>6, <1>7 DEF t, JavaCommand

\* UNSUBSCRIBE: the id and a receipt.
LEMMA UnsubscribeRead ==
    ASSUME NEW i, NEW r, i # Null, r # Null
    PROVE  /\ JavaParses(UnsubscribeFrame(i, r))
           /\ JavaCommand(UnsubscribeFrame(i, r)) = "UNSUBSCRIBE"
           /\ JavaGet(UnsubscribeFrame(i, r), "id") = i
           /\ JavaGet(UnsubscribeFrame(i, r), "receipt") = r
<1> DEFINE t == UnsubscribeFrame(i, r)
<1>1. /\ Len(t.lines) \in Nat /\ 4 \in 2 .. Len(t.lines)
      /\ t.lines[1].key = "UNSUBSCRIBE"
      /\ t.lines[2] = Header("id", i)
      /\ t.lines[3] = Header("receipt", r)
      /\ t.lines[4] = Blank
  BY DEF UnsubscribeFrame, ClientText, Text, Plain, Header, Blank
<1> HIDE DEF t
<1>2. \A k \in 2 .. 3 : k = 2 \/ k = 3
  OBVIOUS
<1>3. HeadersEndAt(t, 4)
  BY <1>1, <1>2 DEF HeadersEndAt, IsBlank, HasColon, Header
<1>4. JavaParses(t)
  BY <1>1, <1>3, EndIs
<1>5. JavaGet(t, "id") = i
  <2>1. 2 \in 2 .. 3
    OBVIOUS
  <2>2. \A l \in 2 .. 3 : t.lines[l].key = "id" => l = 2
    BY <1>1, <1>2 DEF Header
  <2> QED BY <1>1, <1>3, <2>1, <2>2, HeaderIs
<1>6. JavaGet(t, "receipt") = r
  <2>1. 3 \in 2 .. 3
    OBVIOUS
  <2>2. \A l \in 2 .. 3 : t.lines[l].key = "receipt" => l = 3
    BY <1>1, <1>2 DEF Header
  <2> QED BY <1>1, <1>3, <2>1, <2>2, HeaderIs
<1> QED BY <1>1, <1>4, <1>5, <1>6 DEF t, JavaCommand

\* SEND: the game, and no receipt asked for.
LEMMA SendRead ==
    ASSUME NEW u, NEW g, g # Null
    PROVE  /\ JavaParses(SendFrame(u, g))
           /\ JavaCommand(SendFrame(u, g)) = "SEND"
           /\ JavaGet(SendFrame(u, g), "destination") = g
           /\ JavaGet(SendFrame(u, g), "receipt") = Null
<1> DEFINE t == SendFrame(u, g)
<1>1. /\ Len(t.lines) \in Nat /\ 3 \in 2 .. Len(t.lines)
      /\ t.lines[1].key = "SEND"
      /\ t.lines[2] = Header("destination", g)
      /\ t.lines[3] = Blank
  BY DEF SendFrame, ClientText, Text, Plain, Header, Blank
<1> HIDE DEF t
<1>2. \A k \in 2 .. 2 : k = 2
  OBVIOUS
<1>3. HeadersEndAt(t, 3)
  BY <1>1, <1>2 DEF HeadersEndAt, IsBlank, HasColon, Header
<1>4. JavaParses(t)
  BY <1>1, <1>3, EndIs
<1>5. JavaGet(t, "destination") = g
  <2>1. 2 \in 2 .. 2
    OBVIOUS
  <2>2. \A l \in 2 .. 2 : t.lines[l].key = "destination" => l = 2
    BY <1>1, <1>2 DEF Header
  <2> QED BY <1>1, <1>3, <2>1, <2>2, HeaderIs
<1>6. JavaGet(t, "receipt") = Null
  <2>1. \A l \in 2 .. 2 : t.lines[l].key # "receipt"
    BY <1>1, <1>2 DEF Header
  <2> QED BY <1>1, <1>3, <2>1, NoHeader
<1> QED BY <1>1, <1>4, <1>5, <1>6 DEF t, JavaCommand

\* README "accept-version, host, login, passcode", "destination", "id",
\* "receipt": the server reads in every frame of the client, except the logout,
\* what the client wrote.
THEOREM ClientFramesRead ==
    ASSUME NEW u, NEW p, NEW g, NEW i, NEW r,
           u # Null, p # Null, g # Null, i # Null, r # Null, Word # Null
    PROVE  /\ LET t == ConnectFrame(u, p) IN
              /\ JavaParses(t) /\ JavaCommand(t) = "CONNECT"
              /\ JavaGet(t, "login") = u /\ JavaGet(t, "passcode") = p
           /\ LET t == SubscribeFrame(g, i, r) IN
              /\ JavaParses(t) /\ JavaCommand(t) = "SUBSCRIBE"
              /\ JavaGet(t, "destination") = g /\ JavaGet(t, "id") = i
              /\ JavaGet(t, "receipt") = r
           /\ LET t == UnsubscribeFrame(i, r) IN
              /\ JavaParses(t) /\ JavaCommand(t) = "UNSUBSCRIBE"
              /\ JavaGet(t, "id") = i /\ JavaGet(t, "receipt") = r
           /\ LET t == SendFrame(u, g) IN
              /\ JavaParses(t) /\ JavaCommand(t) = "SEND"
              /\ JavaGet(t, "destination") = g
  BY ConnectRead, SubscribeRead, UnsubscribeRead, SendRead

----------------------------------------------------------------------------
(* Texts that no parser accepts.                                           *)

\* The logout's text has no header and no blank line.
THEOREM LogoutNeverParses == \A r : ~JavaParses(LogoutFrame(r))
<1> SUFFICES ASSUME NEW r PROVE ~JavaParses(LogoutFrame(r))
  OBVIOUS
<1>1. Len(LogoutFrame(r).lines) = 1
  BY DEF LogoutFrame, ClientText, Text
<1> QED BY <1>1 DEF JavaParses

LEMMA NoBlankLine ==
    ASSUME NEW text, \A n \in 2 .. Len(text.lines) : text.lines[n] # Blank
    PROVE  ~JavaParses(text)
  BY DEF JavaParses, HeadersEndAt, IsBlank

LEMMA EmptyNeverParses == ~JavaParses(EmptyFrame)
<1>1. Len(EmptyFrame.lines) = 0
  BY DEF EmptyFrame, Text
<1> QED BY <1>1 DEF JavaParses

LEMMA NotBlank == ASSUME NEW k, NEW v, k # "" PROVE Header(k, v) # Blank
<1>1. Header(k, v).key = k /\ Blank.key = ""
  BY DEF Plain, Header, Blank
<1> QED BY <1>1

LEMMA OfElements ==
    ASSUME NEW S, NEW a \in S, NEW b \in S, NEW c \in S, NEW d \in S
    PROVE  << >> \in Seq(S) /\ <<a>> \in Seq(S) /\ <<a, b, c, d>> \in Seq(S)
  OBVIOUS

\* Every error answer has lines without a colon and no blank line before them:
\* the server's own constructor throws on it, whether or not it has a
\* receipt-id.
THEOREM ErrorNeverParses == \A receipt : ~JavaParses(ErrorDraft(receipt))
<1> SUFFICES ASSUME NEW receipt PROVE ~JavaParses(ErrorDraft(receipt))
  OBVIOUS
<1> DEFINE t == ErrorDraft(receipt)
           wanted == IF receipt = Null THEN << >> ELSE <<Header("receipt-id", receipt)>>
           tail == <<Header("message", Word), Plain("The Massge"), Plain("-----"),
                     Plain("-----")>>
           S == {Plain("ERROR"), Header("receipt-id", receipt), Header("message", Word),
                 Plain("The Massge"), Plain("-----")}
<1>1. Blank \notin S
  BY NotBlank DEF Plain
<1>2. /\ Plain("ERROR") \in S /\ Header("receipt-id", receipt) \in S
      /\ Header("message", Word) \in S /\ Plain("The Massge") \in S
      /\ Plain("-----") \in S
  OBVIOUS
<1>3. t.lines = <<Plain("ERROR")>> \o wanted \o tail
  BY DEF ErrorDraft, Text
<1> HIDE DEF S, t
<1>4. <<Plain("ERROR")>> \in Seq(S) /\ wanted \in Seq(S) /\ tail \in Seq(S)
  BY <1>2, OfElements
<1> HIDE DEF wanted, tail
<1>6. t.lines \in Seq(S)
  BY <1>3, <1>4, ConcatProperties
<1>5. \A n \in 2 .. Len(t.lines) : t.lines[n] # Blank
  BY <1>1, <1>6, ElementOfSeq
<1> QED BY <1>5, NoBlankLine DEF t

\* The receipt of a SEND lacks its blank line.
THEOREM SendReceiptNeverParses == \A r : ~JavaParses(SendReceiptDraft(r))
<1> SUFFICES ASSUME NEW r PROVE ~JavaParses(SendReceiptDraft(r))
  OBVIOUS
<1> DEFINE t == SendReceiptDraft(r)
<1>1. t.lines = <<Plain("RECEIPT"), Header("receipt-id", r)>>
  BY DEF SendReceiptDraft, ServerText, Text
<1>2. \A n \in 2 .. Len(t.lines) : t.lines[n] = Header("receipt-id", r)
  BY <1>1
<1>3. \A n \in 2 .. Len(t.lines) : t.lines[n] # Blank
  BY <1>2, NotBlank
<1> QED BY <1>3, NoBlankLine

----------------------------------------------------------------------------
(* The server's frames, as the client reads them.                          *)

LEMMA DropLastIs ==
    ASSUME NEW text, Len(text.lines) \in Nat, Len(text.lines) > 0
    PROVE  /\ Len(DropLast(text).lines) = Len(text.lines) - 1
           /\ \A k \in 1 .. Len(text.lines) - 1 : DropLast(text).lines[k] = text.lines[k]
           /\ DropLast(text).rest = text.lines[Len(text.lines)]
<1> DEFINE s == text.lines
           n == Len(s)
           S == {s[k] : k \in 1 .. n}
<1>1. /\ Len(SubSeq(s, 1, n - 1)) = n - 1
      /\ \A k \in 1 .. n - 1 : SubSeq(s, 1, n - 1)[k] = s[k]
  <2>1. n \in Nat /\ n > 0 /\ \A k \in 1 .. n - 1 : s[k] \in S
    OBVIOUS
  <2> HIDE DEF S, s, n
  <2> QED BY <2>1, SubSeqProperties
<1> QED BY <1>1 DEF DropLast, Text, Front, Last

\* Without a blank line the headers end with the text.
LEMMA OneHeader ==
    ASSUME NEW word, NEW key, NEW value, NEW text,
           value # Null, Len(text.lines) = 2,
           text.lines[1] = Plain(word), text.lines[2] = Header(key, value),
           text.rest = Blank
    PROVE  CppParses(text) /\ CppCommand(text) = word /\ CppGet(text, key) = value
<1>1. /\ text.lines[1].key = word
      /\ text.lines[2].key = key /\ text.lines[2].value = value
  BY DEF Plain, Header
<1>2. text # EmptyFrame
  <2>1. Len(EmptyFrame.lines) = 0
    BY DEF EmptyFrame, Text
  <2> QED BY <2>1
<1>3. \A n \in 2 .. 2 : ~HeadersEndAt(text, n)
  BY <1>1, BlankHasNoColon DEF HeadersEndAt, HasColon
<1>4. \A n \in 2 .. 2 : HasColon(text.lines[n])
  BY <1>1 DEF HasColon
<1>5. CppParses(text)
  <2>1. text.lines # << >>
    OBVIOUS
  <2> QED BY <2>1, <1>4 DEF CppParses, IsBlank
<1>6. CppEnd(text) = 3
  BY <1>3 DEF CppEnd
<1>7. HeadersBefore(text, 3, key) = {2}
  BY <1>1 DEF HeadersBefore
<1>8. CppGet(text, key) = value
  BY <1>1, <1>6, <1>7 DEF CppGet
<1> QED BY <1>1, <1>2, <1>5, <1>8 DEF CppCommand

LEMMA OneHeaderCut ==
    ASSUME NEW word, NEW key, NEW value, NEW f,
           value # Null, Len(f.lines) = 3, f.lines[1] = Plain(word),
           f.lines[2] = Header(key, value), f.lines[3] = Blank
    PROVE  LET t == DropLast(f) IN
           CppParses(t) /\ CppCommand(t) = word /\ CppGet(t, key) = value
<1> SUFFICES ASSUME NEW t, t = DropLast(f)
             PROVE  CppParses(t) /\ CppCommand(t) = word /\ CppGet(t, key) = value
  OBVIOUS
<1>1. Len(t.lines) = 2 /\ (\A k \in 1 .. 2 : t.lines[k] = f.lines[k]) /\ t.rest = Blank
  <2>1. Len(f.lines) = 3 /\ Len(f.lines) \in Nat /\ Len(f.lines) > 0
    OBVIOUS
  <2>2. /\ Len(t.lines) = Len(f.lines) - 1
        /\ \A k \in 1 .. Len(f.lines) - 1 : t.lines[k] = f.lines[k]
        /\ t.rest = f.lines[Len(f.lines)]
    BY <2>1, DropLastIs, Zenon
  <2> QED BY <2>1, <2>2
<1>2. t.lines[1] = Plain(word) /\ t.lines[2] = Header(key, value)
  BY <1>1
<1> QED BY <1>1, <1>2, OneHeader

LEMMA ReceiptRead ==
    ASSUME NEW r, r # Null
    PROVE  LET t == DropLast(ReceiptFrame(r)) IN
           CppParses(t) /\ CppCommand(t) = "RECEIPT" /\ CppGet(t, "receipt-id") = r
<1> DEFINE f == ReceiptFrame(r)
<1>1. /\ Len(f.lines) = 3 /\ f.lines[1] = Plain("RECEIPT")
      /\ f.lines[2] = Header("receipt-id", r) /\ f.lines[3] = Blank
  BY DEF ReceiptFrame, ServerText, Text
<1> QED BY <1>1, OneHeaderCut

LEMMA ConnectedRead ==
    ASSUME Word # Null
    PROVE  LET t == DropLast(ConnectedFrame) IN
           CppParses(t) /\ CppCommand(t) = "CONNECTED"
<1> DEFINE f == ConnectedFrame
<1>1. /\ Len(f.lines) = 3 /\ f.lines[1] = Plain("CONNECTED")
      /\ f.lines[2] = Header("version", Word) /\ f.lines[3] = Blank
  BY DEF ConnectedFrame, ServerText, Text
<1> QED BY <1>1, OneHeaderCut

LEMMA MessageRead ==
    ASSUME NEW i, NEW g, i # Null, g # Null, Word # Null
    PROVE  LET t == DropLast(MessageFrame(i, g)) IN
           CppParses(t) /\ CppCommand(t) = "MESSAGE"
<1> SUFFICES ASSUME NEW f, f = MessageFrame(i, g), NEW t, t = DropLast(f)
             PROVE  CppParses(t) /\ CppCommand(t) = "MESSAGE"
  OBVIOUS
<1>1. /\ Len(f.lines) = 6 /\ f.lines[1].key = "MESSAGE" /\ f.lines[2].value = i
      /\ f.lines[3].value = Word /\ f.lines[4].value = g /\ f.lines[5] = Blank
  BY DEF MessageFrame, ServerText, Text, Plain, Header, Blank
<1>2. Len(t.lines) = 5 /\ \A k \in 1 .. 5 : t.lines[k] = f.lines[k]
  <2>1. Len(f.lines) = 6 /\ Len(f.lines) \in Nat /\ Len(f.lines) > 0
    BY <1>1
  <2>2. /\ Len(t.lines) = Len(f.lines) - 1
        /\ \A k \in 1 .. Len(f.lines) - 1 : t.lines[k] = f.lines[k]
        /\ t.rest = f.lines[Len(f.lines)]
    BY <2>1, DropLastIs, Zenon
  <2> QED BY <2>1, <2>2
<1>3. \A k \in 2 .. 4 : k = 2 \/ k = 3 \/ k = 4
  OBVIOUS
<1>4. HeadersEndAt(t, 5)
  BY <1>1, <1>2, <1>3 DEF HeadersEndAt, IsBlank, HasColon
<1>5. t # EmptyFrame
  <2>1. Len(EmptyFrame.lines) = 0
    BY DEF EmptyFrame, Text
  <2> QED BY <2>1, <1>2
<1> QED BY <1>1, <1>2, <1>4, <1>5, EndIs DEF CppCommand

\* What the server could construct the client can parse, although it drops the
\* last character of every text: with it the blank line of a CONNECTED or
\* RECEIPT is gone.
THEOREM ServerFramesRead ==
    ASSUME NEW r, NEW i, NEW g, r # Null, i # Null, g # Null, Word # Null
    PROVE  /\ LET t == DropLast(ConnectedFrame) IN
              CppParses(t) /\ CppCommand(t) = "CONNECTED"
           /\ LET t == DropLast(ReceiptFrame(r)) IN
              /\ CppParses(t) /\ CppCommand(t) = "RECEIPT"
              /\ CppGet(t, "receipt-id") = r
           /\ LET t == DropLast(MessageFrame(i, g)) IN
              CppParses(t) /\ CppCommand(t) = "MESSAGE"
  BY ConnectedRead, ReceiptRead, MessageRead
=============================================================================
