----------------------------- MODULE FrameCodec -----------------------------
(***************************************************************************)
(* The texts of STOMP frames, as the two programs write and parse them.    *)
(*                                                                         *)
(* A text is what lies between two zero bytes of the stream: its lines,    *)
(* each ended by a newline, and what is behind the last newline.  A line   *)
(* is a word alone, or a key and a value around its first colon; numbers   *)
(* stand for their decimal form.                                           *)
(***************************************************************************)
EXTENDS Integers, Sequences, SequencesExt

CONSTANTS
    Null,  \* no value: the line has no colon, the header is not there
    Word   \* some text that no property looks at

Header(k, v) == [key |-> k, value |-> v]
Plain(word) == Header(word, Null)
Blank == Plain("")

IsBlank(line) == line = Blank
HasColon(line) == line.value # Null

Text(lines, rest) == [lines |-> lines, rest |-> rest]

\* Nothing between two zero bytes.
EmptyFrame == Text(<< >>, Blank)

\* Blank line at n, and nothing before it but a command and headers.
HeadersEndAt(text, n) ==
    /\ IsBlank(text.lines[n])
    /\ \A k \in 2 .. n - 1 : HasColon(text.lines[k])

HeadersBefore(text, n, key) == {k \in 2 .. n - 1 : text.lines[k].key = key}

----------------------------------------------------------------------------
(* The Java side: Frame, and the decoder that makes one of every text.     *)

\* mapHeaders reads on until a blank line.  Without one getNextLine runs past
\* the end of the text, and a line without a colon has no splitted[1]: both
\* throw.
JavaParses(text) == \E n \in 2 .. Len(text.lines) : HeadersEndAt(text, n)

\* The blank line that ends the headers.
JavaEnd(text) == CHOOSE n \in 2 .. Len(text.lines) : HeadersEndAt(text, n)

JavaCommand(text) == text.lines[1].key

\* map.put: of two headers with one key the later one stays.
JavaGet(text, key) ==
    LET hs == HeadersBefore(text, JavaEnd(text), key) IN
    IF hs = {} THEN Null
    ELSE text.lines[CHOOSE k \in hs : \A j \in hs : j <= k].value

----------------------------------------------------------------------------
(* The C++ side: Frame.                                                    *)

\* mapHeaders ends at a blank line, or where the text ends with a line;
\* getNextLine throws on a line without its newline, and a line without a
\* colon has no splitted[1].  The empty text has an empty command.
CppParses(text) ==
    \/ text = EmptyFrame
    \/ \E n \in 2 .. Len(text.lines) : HeadersEndAt(text, n)
    \/ /\ text.lines # << >> /\ IsBlank(text.rest)
       /\ \A k \in 2 .. Len(text.lines) : HasColon(text.lines[k])

CppEnd(text) ==
    IF \E n \in 2 .. Len(text.lines) : HeadersEndAt(text, n)
    THEN CHOOSE n \in 2 .. Len(text.lines) : HeadersEndAt(text, n)
    ELSE Len(text.lines) + 1

CppCommand(text) == IF text = EmptyFrame THEN "" ELSE text.lines[1].key

\* map.insert: of two headers with one key the first one stays.
CppGet(text, key) ==
    LET hs == HeadersBefore(text, CppEnd(text), key) IN
    IF hs = {} THEN Null
    ELSE text.lines[CHOOSE k \in hs : \A j \in hs : k <= j].value

\* answer.resize(len - 1) drops the newline of the last line.
DropLast(text) == Text(Front(text.lines), Last(text.lines))

----------------------------------------------------------------------------
(* What the client writes: every frame ends with the two characters ^@.    *)

ClientText(lines) == Text(lines, Plain("^@"))

\* MUTANT: the header has another name.
ConnectFrameMisspelt(u, p) ==
    ClientText(<<Plain("CONNECT"), Header("accept-version", Word), Header("host", Word),
                 Header("login", u), Header("password", p), Blank>>)

ConnectFrame(u, p) ==
    ClientText(<<Plain("CONNECT"), Header("accept-version", Word), Header("host", Word),
                 Header("login", u), Header("passcode", p), Blank>>)

SubscribeFrame(g, i, r) ==
    ClientText(<<Plain("SUBSCRIBE"), Header("destination", g), Header("id", i),
                 Header("receipt", r), Blank>>)

UnsubscribeFrame(i, r) ==
    ClientText(<<Plain("UNSUBSCRIBE"), Header("id", i), Header("receipt", r), Blank>>)

\* The body begins with the user; of the rest no property speaks.
SendFrame(u, g) ==
    ClientText(<<Plain("SEND"), Header("destination", g), Blank, Header("user", u),
                 Header("team a", Word)>>)

\* "DISCONNECT" + '\n' and "recipt:" + recipt + '\n' add numbers to pointers.
\* The first is then the end of its literal; the second is past the end of its
\* own, and reads what the build has put there up to its zero byte: no newline.
LogoutFrame(r) == ClientText(<<Plain("garbage")>>)

\* The user a SEND names: the first line of its body.
Reporter(text) == text.lines[JavaEnd(text) + 1].value

----------------------------------------------------------------------------
(* What the server writes: Frame.toString of a frame it could construct.   *)

ServerText(lines) == Text(lines, Blank)

ConnectedFrame == ServerText(<<Plain("CONNECTED"), Header("version", Word), Blank>>)

ReceiptFrame(r) == ServerText(<<Plain("RECEIPT"), Header("receipt-id", r), Blank>>)

MessageFrame(i, g) ==
    ServerText(<<Plain("MESSAGE"), Header("subscription", i), Header("message-id", Word),
                 Header("destination", g), Blank, Plain("body")>>)

\* The texts the server hands to its own Frame constructor: of every error
\* answer (with a receipt-id if the client wants a receipt), and of the receipt
\* of a SEND.
ErrorDraft(receipt) ==
    Text(<<Plain("ERROR")>>
         \o (IF receipt = Null THEN << >> ELSE <<Header("receipt-id", receipt)>>)
         \o <<Header("message", Word), Plain("The Massge"), Plain("-----"),
              Plain("-----")>>,
         Plain("reason"))

SendReceiptDraft(r) == ServerText(<<Plain("RECEIPT"), Header("receipt-id", r)>>)
=============================================================================
