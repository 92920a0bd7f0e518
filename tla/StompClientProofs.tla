------------------------- MODULE StompClientProofs -------------------------
(***************************************************************************)
(* Theorems about StompClient, for every value of its constants.           *)
(*                                                                         *)
(* What is printed follows what was asked, because the receipt numbers on  *)
(* their way, first those in toClient and then those in toServer, increase *)
(* without a gap from the number of requests printed to the number of      *)
(* requests sent.  InFlight says it of two sequences of numbers, Inv of    *)
(* the texts.                                                              *)
(***************************************************************************)
EXTENDS StompClient, FrameCodecProofs

\* Instead of a number: a text without one, a text that does not parse.
NoNumber == -1
Unread == -2

\* The numbers b on their way back and s on their way to the server; p requests
\* printed, d requests sent.  A closed connection has lost some, and what is
\* behind a text that does not parse is never answered.
Bounded(b, s, p, d) ==
    /\ p <= d
    /\ \A k \in 1 .. Len(b) : b[k] >= 0 => p <= b[k] /\ b[k] < d
    /\ \A k \in 1 .. Len(s) : s[k] >= 0 => p <= s[k] /\ s[k] < d

Increasing(b, s) ==
    /\ \A j, k \in 1 .. Len(b) : j < k /\ b[j] >= 0 /\ b[k] >= 0 => b[j] < b[k]
    /\ \A j, k \in 1 .. Len(s) : j < k /\ s[j] >= 0 /\ s[k] >= 0 => s[j] < s[k]
    /\ \A j \in 1 .. Len(b), k \in 1 .. Len(s) : b[j] >= 0 /\ s[k] >= 0 => b[j] < s[k]

In(n, b) == \E k \in 1 .. Len(b) : b[k] = n

Gapless(b, s, p, d, open) ==
    /\ \A k \in 1 .. Len(b) : \A n \in p .. b[k] : In(n, b)
    /\ \A k \in 1 .. Len(s) :
          (\A j \in 1 .. k : s[j] # Unread) => \A n \in p .. s[k] : In(n, b) \/ In(n, s)
    /\ open /\ (\A j \in 1 .. Len(s) : s[j] # Unread) =>
          \A n \in p .. d - 1 : In(n, b) \/ In(n, s)

InFlight(b, s, p, d, open) ==
    Bounded(b, s, p, d) /\ Increasing(b, s) /\ Gapless(b, s, p, d, open)

----------------------------------------------------------------------------
(* InFlight is preserved.                                                  *)

LEMMA InAppend ==
    ASSUME NEW b \in Seq(Int), NEW x \in Int, NEW n
    PROVE  In(n, Append(b, x)) <=> In(n, b) \/ n = x
<1>1. /\ Len(Append(b, x)) = Len(b) + 1 /\ Append(b, x)[Len(b) + 1] = x
      /\ \A k \in 1 .. Len(b) : Append(b, x)[k] = b[k]
  BY AppendProperties
<1>2. \A k \in 1 .. Len(b) + 1 : k \in 1 .. Len(b) \/ k = Len(b) + 1
  OBVIOUS
<1> QED BY <1>1, <1>2 DEF In

LEMMA InTail ==
    ASSUME NEW b \in Seq(Int), b # << >>, NEW n
    PROVE  In(n, b) <=> In(n, Tail(b)) \/ n = b[1]
<1>1. /\ Len(b) \in Nat /\ Len(b) >= 1 /\ Len(Tail(b)) = Len(b) - 1
      /\ \A k \in 1 .. Len(Tail(b)) : Tail(b)[k] = b[k + 1]
  BY HeadTailProperties, EmptySeq
<1>2. \A k \in 1 .. Len(b) : k = 1 \/ (k - 1 \in 1 .. Len(Tail(b)) /\ Tail(b)[k - 1] = b[k])
  BY <1>1
<1>3. \A k \in 1 .. Len(Tail(b)) : k + 1 \in 1 .. Len(b)
  BY <1>1
<1>4. 1 \in 1 .. Len(b)
  BY <1>1
<1> QED BY <1>1, <1>2, <1>3, <1>4 DEF In

\* A frame is written: x is its number, the next one if it has one.
LEMMA Write ==
    ASSUME NEW b \in Seq(Int), NEW s \in Seq(Int), NEW p \in Nat, NEW d \in Nat,
           NEW x \in Int, NEW e \in {d, d + 1},
           InFlight(b, s, p, d, TRUE),
           x >= 0 => x = d /\ e = d + 1,
           e = d + 1 => x = d \/ x = Unread
    PROVE  InFlight(b, Append(s, x), p, e, TRUE)
<1> DEFINE t == Append(s, x)
<1>1. /\ t \in Seq(Int) /\ Len(t) = Len(s) + 1 /\ t[Len(s) + 1] = x
      /\ \A k \in 1 .. Len(s) : t[k] = s[k]
      /\ Len(s) \in Nat
  BY AppendProperties
<1>2. \A n : In(n, t) <=> In(n, s) \/ n = x
  BY InAppend
<1>3. \A k \in 1 .. Len(t) : k \in 1 .. Len(s) \/ k = Len(s) + 1
  BY <1>1
<1>4. \A k \in 1 .. Len(s) : k \in 1 .. Len(t)
  BY <1>1
<1>5. \A k \in 1 .. Len(s) : s[k] \in Int
  BY ElementOfSeq
<1>6. \A k \in 1 .. Len(b) : b[k] \in Int
  BY ElementOfSeq
<1> HIDE DEF t
<1>7. Bounded(b, t, p, e)
  <2>1. p <= d /\ (d <= e)
    BY DEF InFlight, Bounded
  <2>2. ASSUME NEW k \in 1 .. Len(b), b[k] >= 0 PROVE p <= b[k] /\ b[k] < e
    BY <2>1, <2>2, <1>6 DEF InFlight, Bounded
  <2>3. ASSUME NEW k \in 1 .. Len(t), t[k] >= 0 PROVE p <= t[k] /\ t[k] < e
    <3>1. CASE k \in 1 .. Len(s)
      <4>1. t[k] = s[k] /\ s[k] \in Int
        BY <3>1, <1>1, <1>5
      <4> QED BY <4>1, <3>1, <2>1, <2>3 DEF InFlight, Bounded
    <3>2. CASE k = Len(s) + 1
      BY <3>2, <2>1, <2>3, <1>1
    <3> QED BY <3>1, <3>2, <1>3
  <2> QED BY <2>1, <2>2, <2>3 DEF Bounded
<1>8. Increasing(b, t)
  <2>1. ASSUME NEW j \in 1 .. Len(t), NEW k \in 1 .. Len(t), j < k, t[j] >= 0, t[k] >= 0
        PROVE  t[j] < t[k]
    <3>1. j \in 1 .. Len(s) /\ t[j] = s[j]
      BY <2>1, <1>1
    <3>2. CASE k \in 1 .. Len(s)
      BY <3>1, <3>2, <2>1, <1>1 DEF InFlight, Increasing
    <3>3. CASE k = Len(s) + 1
      BY <3>1, <3>3, <2>1, <1>1, <1>5 DEF InFlight, Bounded
    <3> QED BY <3>2, <3>3, <1>3
  <2>2. \A j \in 1 .. Len(b), k \in 1 .. Len(t) : b[j] >= 0 /\ t[k] >= 0 => b[j] < t[k]
    BY <1>1, <1>3, <1>5, <1>6 DEF InFlight, Bounded, Increasing
  <2> QED BY <2>1, <2>2 DEF InFlight, Increasing
<1>9. \A k \in 1 .. Len(b) : \A n \in p .. b[k] : In(n, b)
  BY DEF InFlight, Gapless
<1>10. ASSUME \A j \in 1 .. Len(s) : s[j] # Unread, NEW n \in p .. d - 1
       PROVE  In(n, b) \/ In(n, t)
  BY <1>2, <1>10 DEF InFlight, Gapless
<1>11. ASSUME NEW k \in 1 .. Len(t), \A j \in 1 .. k : t[j] # Unread, NEW n \in p .. t[k]
       PROVE  In(n, b) \/ In(n, t)
  <2>1. CASE k \in 1 .. Len(s)
    <3>1. \A j \in 1 .. k : j \in 1 .. Len(s) /\ s[j] # Unread
      BY <2>1, <1>1, <1>11
    <3> QED BY <3>1, <2>1, <1>1, <1>2, <1>11 DEF InFlight, Gapless
  <2>2. CASE k = Len(s) + 1
    <3>1. x >= 0 /\ x = d /\ n \in p .. d
      BY <2>2, <1>1, <1>11
    <3>2. \A j \in 1 .. Len(s) : s[j] # Unread
      BY <2>2, <1>1, <1>11
    <3>3. CASE n = d
      BY <3>1, <3>3, <1>2
    <3>4. CASE n # d
      <4>1. n \in p .. d - 1
        BY <3>1, <3>4
      <4> QED BY <4>1, <3>2, <1>10
    <3> QED BY <3>3, <3>4
  <2> QED BY <2>1, <2>2, <1>3
<1>12. ASSUME \A j \in 1 .. Len(t) : t[j] # Unread, NEW n \in p .. e - 1
       PROVE  In(n, b) \/ In(n, t)
  <2>1. (\A j \in 1 .. Len(s) : s[j] # Unread) /\ x # Unread
    <3>1. Len(s) + 1 \in 1 .. Len(t)
      BY <1>1
    <3> QED BY <3>1, <1>1, <1>4, <1>12
  <2>2. CASE n = d
    BY <2>1, <2>2, <1>2
  <2>3. CASE n # d
    <3>1. n \in p .. d - 1
      BY <2>3
    <3> QED BY <3>1, <2>1, <1>10
  <2> QED BY <2>2, <2>3
<1>13. Gapless(b, t, p, e, TRUE)
  BY <1>9, <1>11, <1>12 DEF Gapless
<1> QED BY <1>7, <1>8, <1>13 DEF InFlight, t

\* The server has answered the first frame, whose number was x: with that
\* number, or not at all if there was none.
LEMMA Answered ==
    ASSUME NEW b \in Seq(Int), NEW s \in Seq(Int), NEW p \in Nat, NEW d \in Nat,
           NEW open \in BOOLEAN, InFlight(b, s, p, d, open),
           s # << >>, s[1] # Unread, s[1] >= 0 \/ s[1] = NoNumber
    PROVE  /\ InFlight(Append(b, s[1]), Tail(s), p, d, open)
           /\ s[1] = NoNumber => InFlight(b, Tail(s), p, d, open)
<1> DEFINE t == Tail(s)
           x == s[1]
           a == Append(b, x)
<1>1. /\ t \in Seq(Int) /\ Len(s) \in Nat /\ Len(s) >= 1 /\ Len(t) = Len(s) - 1
      /\ \A k \in 1 .. Len(t) : t[k] = s[k + 1]
      /\ x \in Int
  <2>1. Len(s) \in Nat /\ Len(s) >= 1
    BY EmptySeq
  <2> QED BY <2>1, HeadTailProperties, ElementOfSeq
<1>2. \A k \in 1 .. Len(t) : k + 1 \in 1 .. Len(s)
  BY <1>1
<1>3. 1 \in 1 .. Len(s)
  BY <1>1
<1>4. /\ a \in Seq(Int) /\ Len(a) = Len(b) + 1 /\ a[Len(b) + 1] = x
      /\ \A k \in 1 .. Len(b) : a[k] = b[k]
      /\ Len(b) \in Nat
  BY <1>1, AppendProperties
<1>5. \A k \in 1 .. Len(a) : k \in 1 .. Len(b) \/ k = Len(b) + 1
  BY <1>4
<1>6. \A k \in 1 .. Len(s) : s[k] \in Int
  BY ElementOfSeq
<1>7. \A k \in 1 .. Len(b) : b[k] \in Int
  BY ElementOfSeq
<1>8. \A n : In(n, s) <=> In(n, t) \/ n = x
  BY InTail
<1>9. \A n : In(n, a) <=> In(n, b) \/ n = x
  BY <1>1, InAppend
<1> HIDE DEF t, x, a
<1>10. x = s[1]
  BY DEF x
<1>11. x >= 0 => (\A k \in 1 .. Len(t) : t[k] >= 0 => x < t[k])
  <2>1. ASSUME x >= 0, NEW k \in 1 .. Len(t), t[k] >= 0 PROVE x < t[k]
    <3>1. k + 1 \in 1 .. Len(s) /\ t[k] = s[k + 1] /\ 1 < k + 1
      BY <1>1, <1>2
    <3> QED BY <3>1, <2>1, <1>3, <1>10 DEF InFlight, Increasing
  <2> QED BY <2>1
<1>12. Bounded(a, t, p, d) /\ Bounded(b, t, p, d)
  BY <1>1, <1>2, <1>3, <1>4, <1>5, <1>6, <1>7, <1>10 DEF InFlight, Bounded
<1>13. Increasing(b, t)
  <2>1. ASSUME NEW j \in 1 .. Len(t), NEW k \in 1 .. Len(t), j < k, t[j] >= 0, t[k] >= 0
        PROVE  t[j] < t[k]
    <3>1. /\ j + 1 \in 1 .. Len(s) /\ k + 1 \in 1 .. Len(s)
          /\ t[j] = s[j + 1] /\ t[k] = s[k + 1]
      BY <1>1, <1>2
    <3>2. j + 1 < k + 1
      BY <2>1
    <3> QED BY <3>1, <3>2, <2>1 DEF InFlight, Increasing
  <2>2. ASSUME NEW j \in 1 .. Len(b), NEW k \in 1 .. Len(t), b[j] >= 0, t[k] >= 0
        PROVE  b[j] < t[k]
    <3>1. k + 1 \in 1 .. Len(s) /\ t[k] = s[k + 1]
      BY <1>1, <1>2
    <3> QED BY <3>1, <2>2 DEF InFlight, Increasing
  <2> QED BY <2>1, <2>2 DEF InFlight, Increasing
<1>14. Increasing(a, t)
  <2>1. ASSUME NEW j \in 1 .. Len(a), NEW k \in 1 .. Len(a), j < k, a[j] >= 0, a[k] >= 0
        PROVE  a[j] < a[k]
    <3>0. Len(b) \in Nat /\ Len(a) = Len(b) + 1
      BY <1>4
    <3>1. j \in 1 .. Len(b) /\ a[j] = b[j]
      <4>1. j \in 1 .. Len(b)
        BY <3>0, <2>1
      <4> QED BY <4>1, <1>4
    <3>2. CASE k \in 1 .. Len(b)
      BY <3>1, <3>2, <2>1, <1>4 DEF InFlight, Increasing
    <3>3. CASE k = Len(b) + 1
      BY <3>1, <3>3, <2>1, <1>3, <1>4, <1>10 DEF InFlight, Increasing
    <3> QED BY <3>2, <3>3, <1>5
  <2>2. \A j \in 1 .. Len(a), k \in 1 .. Len(t) : a[j] >= 0 /\ t[k] >= 0 => a[j] < t[k]
    BY <1>4, <1>5, <1>11, <1>13 DEF Increasing
  <2> QED BY <2>1, <2>2, <1>13 DEF Increasing
\* Behind t[k] means behind s[k + 1]: the first frame does parse.
<1>15. ASSUME NEW k \in 1 .. Len(t), \A j \in 1 .. k : t[j] # Unread, NEW n \in p .. t[k]
       PROVE  In(n, b) \/ In(n, s)
  <2>1. \A j \in 1 .. k + 1 : s[j] # Unread
    <3>1. ASSUME NEW j \in 1 .. k + 1, j # 1 PROVE j - 1 \in 1 .. k /\ t[j - 1] = s[j]
      <4>1. Len(t) \in Nat
        BY <1>1
      <4>2. /\ j - 1 \in 1 .. k /\ j - 1 \in 1 .. Len(t)
            /\ (j - 1) + 1 = j
        BY <4>1, <3>1
      <4>3. t[j - 1] = s[(j - 1) + 1]
        BY <4>2, <1>1
      <4> QED BY <4>2, <4>3
    <3> QED BY <3>1, <1>15
  <2>2. n \in p .. s[k + 1]
    BY <1>1
  <2> QED BY <2>1, <2>2, <1>2 DEF InFlight, Gapless
<1>16. ASSUME open, \A j \in 1 .. Len(t) : t[j] # Unread, NEW n \in p .. d - 1
       PROVE  In(n, b) \/ In(n, s)
  <2>1. \A j \in 1 .. Len(s) : s[j] # Unread
    <3>1. \A j \in 1 .. Len(s) : j = 1 \/ (j - 1 \in 1 .. Len(t) /\ t[j - 1] = s[j])
      BY <1>1
    <3> QED BY <3>1, <1>16
  <2> QED BY <2>1, <1>16 DEF InFlight, Gapless
<1>17. ASSUME NEW n \in p .. x PROVE In(n, a)
  <2>1. In(n, b) \/ In(n, s)
    <3>1. \A j \in 1 .. 1 : s[j] # Unread
      OBVIOUS
    <3> QED BY <3>1, <1>3, <1>10 DEF InFlight, Gapless
  <2>2. n >= 0 /\ n <= x
    BY <1>1
  <2>3. ASSUME NEW k \in 1 .. Len(t), t[k] = n PROVE FALSE
    <3>1. x >= 0 /\ t[k] >= 0
      BY <2>2, <2>3, <1>1
    <3>2. x < t[k]
      BY <3>1, <1>11
    <3> QED BY <3>2, <2>2, <2>3, <1>1
  <2>4. ~In(n, t)
    BY <2>3 DEF In
  <2> QED BY <2>1, <2>4, <1>8, <1>9
<1>18. \A k \in 1 .. Len(b) : \A n \in p .. b[k] : In(n, b)
  BY DEF InFlight, Gapless
<1>19. \A k \in 1 .. Len(a) : \A n \in p .. a[k] : In(n, a)
  BY <1>4, <1>5, <1>9, <1>17, <1>18
<1>20. Gapless(a, t, p, d, open)
  BY <1>8, <1>9, <1>15, <1>16, <1>19 DEF Gapless
<1>21. ASSUME x = NoNumber PROVE Gapless(b, t, p, d, open)
  <2>1. \A n \in p .. d - 1 : n # x
    BY <1>21 DEF NoNumber
  <2>2. \A k \in 1 .. Len(t) : \A n \in p .. t[k] : n # x
    BY <1>21 DEF NoNumber
  <2> QED BY <2>1, <2>2, <1>8, <1>15, <1>16, <1>18 DEF Gapless
<1> QED BY <1>12, <1>13, <1>14, <1>20, <1>21 DEF InFlight, t, x, a

\* A text without a number is on its way back.
LEMMA Sent ==
    ASSUME NEW b \in Seq(Int), NEW s \in Seq(Int), NEW p \in Nat, NEW d \in Nat,
           NEW open \in BOOLEAN, InFlight(b, s, p, d, open)
    PROVE  InFlight(Append(b, NoNumber), s, p, d, open)
<1> DEFINE a == Append(b, NoNumber)
<1>1. NoNumber \in Int /\ NoNumber < 0
  BY DEF NoNumber
<1>2. /\ a \in Seq(Int) /\ Len(a) = Len(b) + 1 /\ a[Len(b) + 1] = NoNumber
      /\ \A k \in 1 .. Len(b) : a[k] = b[k]
      /\ Len(b) \in Nat
  BY <1>1, AppendProperties
<1>3. \A k \in 1 .. Len(a) : k \in 1 .. Len(b) \/ k = Len(b) + 1
  BY <1>2
<1>4. \A n : In(n, a) <=> In(n, b) \/ n = NoNumber
  BY <1>1, InAppend
<1> HIDE DEF a
<1>5. \A k \in 1 .. Len(a) : a[k] >= 0 => k \in 1 .. Len(b) /\ a[k] = b[k]
  BY <1>1, <1>2, <1>3
<1>6. Bounded(a, s, p, d)
  BY <1>5 DEF InFlight, Bounded
<1>7. Increasing(a, s)
  BY <1>5 DEF InFlight, Increasing
<1>8. ASSUME NEW k \in 1 .. Len(a), NEW n \in p .. a[k] PROVE In(n, a)
  <2>1. k \in 1 .. Len(b)
    BY <1>1, <1>2, <1>3
  <2>2. n \in p .. b[k]
    BY <2>1, <1>2
  <2> QED BY <2>1, <2>2, <1>4 DEF InFlight, Gapless
<1>9. Gapless(a, s, p, d, open)
  BY <1>4, <1>8 DEF InFlight, Gapless
<1> QED BY <1>6, <1>7, <1>9 DEF InFlight, a

\* The server closes, and what it has not read is gone.
LEMMA Closed ==
    ASSUME NEW b, NEW s, NEW p, NEW d, NEW open, InFlight(b, s, p, d, open)
    PROVE  InFlight(b, << >>, p, d, FALSE)
<1>1. Len(<< >>) = 0
  OBVIOUS
<1> QED BY <1>1 DEF InFlight, Bounded, Increasing, Gapless

\* On a closed connection requests are filed and not sent.
LEMMA Filed ==
    ASSUME NEW b \in Seq(Int), NEW s \in Seq(Int), NEW p \in Nat, NEW d \in Nat,
           NEW e \in Nat, d <= e, InFlight(b, s, p, d, FALSE)
    PROVE  InFlight(b, s, p, e, FALSE)
<1>1. (\A k \in 1 .. Len(b) : b[k] \in Int) /\ (\A k \in 1 .. Len(s) : s[k] \in Int)
  BY ElementOfSeq
<1> QED BY <1>1 DEF InFlight, Bounded, Gapless

\* The client takes the first text: if it has a number, it is that of the first
\* request that is not printed yet.
LEMMA Taken ==
    ASSUME NEW b \in Seq(Int), NEW s \in Seq(Int), NEW p \in Nat, NEW d \in Nat,
           NEW open \in BOOLEAN, InFlight(b, s, p, d, open), b # << >>
    PROVE  /\ b[1] < 0 => InFlight(Tail(b), s, p, d, open)
           /\ b[1] >= 0 => b[1] = p /\ p < d /\ InFlight(Tail(b), s, p + 1, d, open)
<1> DEFINE t == Tail(b)
           x == b[1]
<1>1. /\ t \in Seq(Int) /\ Len(b) \in Nat /\ Len(b) >= 1 /\ Len(t) = Len(b) - 1
      /\ \A k \in 1 .. Len(t) : t[k] = b[k + 1]
      /\ x \in Int
  <2>1. Len(b) \in Nat /\ Len(b) >= 1
    BY EmptySeq
  <2> QED BY <2>1, HeadTailProperties, ElementOfSeq
<1>2. \A k \in 1 .. Len(t) : k + 1 \in 1 .. Len(b)
  BY <1>1
<1>3. 1 \in 1 .. Len(b)
  BY <1>1
<1>4. \A n : In(n, b) <=> In(n, t) \/ n = x
  BY InTail
<1>5. \A k \in 1 .. Len(b) : b[k] \in Int
  BY ElementOfSeq
<1>6. \A k \in 1 .. Len(s) : s[k] \in Int
  BY ElementOfSeq
<1> HIDE DEF t, x
<1>7. x = b[1]
  BY DEF x
<1>8. Increasing(t, s)
  <2>1. ASSUME NEW j \in 1 .. Len(t), NEW k \in 1 .. Len(t), j < k, t[j] >= 0, t[k] >= 0
        PROVE  t[j] < t[k]
    <3>1. /\ j + 1 \in 1 .. Len(b) /\ k + 1 \in 1 .. Len(b)
          /\ t[j] = b[j + 1] /\ t[k] = b[k + 1]
      BY <1>1, <1>2
    <3>2. j + 1 < k + 1
      BY <2>1
    <3> QED BY <3>1, <3>2, <2>1 DEF InFlight, Increasing
  <2>2. ASSUME NEW j \in 1 .. Len(t), NEW k \in 1 .. Len(s), t[j] >= 0, s[k] >= 0
        PROVE  t[j] < s[k]
    <3>1. j + 1 \in 1 .. Len(b) /\ t[j] = b[j + 1]
      BY <1>1, <1>2
    <3> QED BY <3>1, <2>2 DEF InFlight, Increasing
  <2> QED BY <2>1, <2>2 DEF InFlight, Increasing
<1>9. ASSUME x < 0 PROVE InFlight(t, s, p, d, open)
  <2>1. \A n \in Nat : In(n, b) <=> In(n, t)
    BY <1>4, <1>9
  <2>2. Bounded(t, s, p, d)
    BY <1>1, <1>2, <1>5 DEF InFlight, Bounded
  <2>3. ASSUME NEW k \in 1 .. Len(t), NEW n \in p .. t[k] PROVE In(n, t)
    <3>1. k + 1 \in 1 .. Len(b) /\ t[k] = b[k + 1]
      BY <1>1, <1>2
    <3>2. b[k + 1] \in Int
      BY <3>1, ElementOfSeq
    <3>3. n \in p .. b[k + 1] /\ n \in Nat
      BY <3>1, <3>2
    <3>4. In(n, b)
      BY <3>1, <3>3 DEF InFlight, Gapless
    <3> QED BY <3>3, <3>4, <2>1
  <2>4. Gapless(t, s, p, d, open)
    <3>1. Gapless(b, s, p, d, open)
      BY DEF InFlight
    <3>2. \A k \in 1 .. Len(s) : s[k] \in Int
      BY ElementOfSeq
    <3>3. ASSUME NEW k \in 1 .. Len(s), \A j \in 1 .. k : s[j] # Unread, NEW n \in p .. s[k]
          PROVE  In(n, t) \/ In(n, s)
      <4>1. In(n, b) \/ In(n, s)
        BY <3>1, <3>3 DEF Gapless
      <4>2. n \in Nat
        BY <3>2, <3>3
      <4> QED BY <4>1, <4>2, <2>1
    <3>4. ASSUME open, \A j \in 1 .. Len(s) : s[j] # Unread, NEW n \in p .. d - 1
          PROVE  In(n, t) \/ In(n, s)
      <4>1. In(n, b) \/ In(n, s)
        BY <3>1, <3>4 DEF Gapless
      <4>2. n \in Nat
        BY <3>4
      <4> QED BY <4>1, <4>2, <2>1
    <3> QED BY <2>3, <3>3, <3>4 DEF Gapless
  <2> QED BY <2>2, <2>4, <1>8 DEF InFlight
<1>10. ASSUME x >= 0 PROVE x = p /\ p < d /\ InFlight(t, s, p + 1, d, open)
  <2>1. p <= x /\ x < d
    BY <1>3, <1>7, <1>10 DEF InFlight, Bounded
  <2>2. \A k \in 1 .. Len(t) : t[k] >= 0 => x < t[k]
    <3>1. ASSUME NEW k \in 1 .. Len(t), t[k] >= 0 PROVE x < t[k]
      <4>1. k + 1 \in 1 .. Len(b) /\ t[k] = b[k + 1] /\ 1 < k + 1
        BY <1>1, <1>2
      <4> QED BY <4>1, <3>1, <1>3, <1>7, <1>10 DEF InFlight, Increasing
    <3> QED BY <3>1
  <2>3. In(p, b)
    <3>1. p \in p .. b[1]
      BY <2>1, <1>1, <1>7
    <3> QED BY <3>1, <1>3 DEF InFlight, Gapless
  <2>4. x = p
    <3>1. CASE p = x
      BY <3>1
    <3>2. CASE In(p, t)
      <4>1. PICK k \in 1 .. Len(t) : t[k] = p
        BY <3>2 DEF In
      <4>2. p >= 0
        OBVIOUS
      <4>3. x < p
        BY <4>1, <4>2, <2>2
      <4> QED BY <4>3, <2>1, <1>1
    <3> QED BY <2>3, <1>4, <3>1, <3>2
  <2>5. Bounded(t, s, p + 1, d)
    <3>1. \A k \in 1 .. Len(s) : s[k] >= 0 => x < s[k]
      BY <1>3, <1>6, <1>7, <1>10 DEF InFlight, Increasing
    <3>2. \A k \in 1 .. Len(t) : t[k] >= 0 => t[k] < d
      BY <1>1, <1>2, <1>5 DEF InFlight, Bounded
    <3>3. \A k \in 1 .. Len(s) : s[k] >= 0 => s[k] < d
      BY DEF InFlight, Bounded
    <3>4. \A k \in 1 .. Len(t) : t[k] \in Int
      BY <1>1, <1>2, <1>5
    <3> QED BY <2>1, <2>2, <2>4, <3>1, <3>2, <3>3, <3>4, <1>6 DEF Bounded
  <2>6. \A n \in Int : n >= p + 1 => (In(n, b) <=> In(n, t))
    BY <1>4, <2>4
  <2>7. \A k \in 1 .. Len(t) : \A n \in p + 1 .. t[k] : In(n, t)
    <3> SUFFICES ASSUME NEW k \in 1 .. Len(t), NEW n \in p + 1 .. t[k] PROVE In(n, t)
      OBVIOUS
    <3>1. k + 1 \in 1 .. Len(b) /\ t[k] = b[k + 1]
      BY <1>1, <1>2
    <3>2. b[k + 1] \in Int
      BY <3>1, ElementOfSeq
    <3>3. n \in p .. b[k + 1] /\ n \in Int /\ n >= p + 1
      BY <3>1, <3>2
    <3>4. In(n, b)
      BY <3>1, <3>3 DEF InFlight, Gapless
    <3> QED BY <3>3, <3>4, <2>6
  <2>8. \A k \in 1 .. Len(s) :
          (\A j \in 1 .. k : s[j] # Unread) =>
              \A n \in p + 1 .. s[k] : In(n, t) \/ In(n, s)
    <3>1. ASSUME NEW k \in 1 .. Len(s), \A j \in 1 .. k : s[j] # Unread,
                 NEW n \in p + 1 .. s[k]
          PROVE  In(n, t) \/ In(n, s)
      <4>1. n \in p .. s[k] /\ n \in Int /\ n >= p + 1
        BY <1>6
      <4>2. In(n, b) \/ In(n, s)
        BY <4>1, <3>1 DEF InFlight, Gapless
      <4> QED BY <4>1, <4>2, <2>6
    <3> QED BY <3>1
  <2>9. open /\ (\A j \in 1 .. Len(s) : s[j] # Unread) =>
          \A n \in p + 1 .. d - 1 : In(n, t) \/ In(n, s)
    <3>1. \A n \in p + 1 .. d - 1 : n \in p .. d - 1
      OBVIOUS
    <3> QED BY <3>1, <2>6 DEF InFlight, Gapless
  <2>10. Gapless(t, s, p + 1, d, open)
    BY <2>7, <2>8, <2>9 DEF Gapless
  <2> QED BY <2>1, <2>4, <2>5, <2>10, <1>8 DEF InFlight
<1> QED BY <1>9, <1>10 DEF t, x

----------------------------------------------------------------------------
(* Types.                                                                  *)

Maps(S, T) == UNION {[D -> T] : D \in SUBSET S}

\* The numbers of subscriptions and receipts: each is taken for a line typed.
LineNumbers == 0 .. MaxLines - 1

ClientTexts ==
    {EmptyFrame}
    \cup {ConnectFrame(u, p) : u \in Users, p \in Passwords}
    \cup {SubscribeFrame(g, i, r) : g \in Games, i \in LineNumbers, r \in LineNumbers}
    \cup {UnsubscribeFrame(i, r) : i \in LineNumbers, r \in LineNumbers}
    \cup {SendFrame(u, g) : u \in Users, g \in Games}
    \cup {LogoutFrame(r) : r \in LineNumbers}

ServerTexts ==
    {ConnectedFrame}
    \cup {ReceiptFrame(r) : r \in Nat}
    \cup {MessageFrame(i, g) : i \in Nat, g \in Games}

Drafts == [text: ClientTexts, request: Requests]
Written == [text: ClientTexts, ended: BOOLEAN]

Steps == {"line", "insert", "text", "delimiter", "report", "ended"}

\* TypeOK, with the ranges of the maps, texts and queues.
Types ==
    /\ proc \in [Clients -> {"new", "running", "refused", "crashed", "aborted"}]
    /\ keyboard \in [Clients -> Steps]
    /\ socket \in [Clients -> {"read", "left"}]
    /\ login \in [Clients -> BOOLEAN]
    /\ username \in [Clients -> Users \cup {Null}]
    /\ id \in [Clients -> Nat]
    /\ recipt \in [Clients -> Nat]
    /\ channeltoUniqueID \in [Clients -> Maps(Games, LineNumbers)]
    /\ receiptToOriginalMsg \in [Clients -> Maps(Nat, Requests)]
    /\ saved \in [Clients -> Maps(Users, Maps(Games, {0, 1}))]
    /\ draft \in [Clients -> Drafts]
    /\ report \in [Clients -> [game: Games \cup {Null}, left: Nat]]
    /\ toServer \in [Clients -> Seq(Written)]
    /\ toClient \in [Clients -> Seq(ServerTexts)]
    /\ serverOpen \in [Clients -> BOOLEAN]
    /\ lines \in [Clients -> Nat]
    /\ asked \in [Clients -> Seq(Requests)]
    /\ printed \in [Clients -> Seq(Requests)]

\* A report runs only in the name of a user and about a game.
Named ==
    \A c \in Clients :
        /\ login[c] => username[c] \in Users
        /\ InReport(c) => login[c] /\ report[c].game \in Games

\* No more numbers are taken than lines typed.
Counted ==
    \A c \in Clients :
        /\ id[c] <= lines[c] /\ recipt[c] <= lines[c] /\ lines[c] <= MaxLines
        /\ keyboard[c] = "insert" => recipt[c] < lines[c]

LEMMA LineNumbersAreNat == LineNumbers \subseteq Nat
  BY ClientAssumption DEF ClientAssumption, LineNumbers

LEMMA InsertIs ==
    ASSUME NEW S, NEW T, NEW map \in Maps(S, T), NEW k \in S, NEW v \in T
    PROVE  /\ Insert(map, k, v) \in Maps(S, T)
           /\ DOMAIN Insert(map, k, v) = DOMAIN map \cup {k}
           /\ \A j \in DOMAIN map : Insert(map, k, v)[j] = map[j]
           /\ k \notin DOMAIN map => Insert(map, k, v)[k] = v
<1> DEFINE f == Insert(map, k, v)
<1>1. PICK D \in SUBSET S : map \in [D -> T]
  BY DEF Maps
<1>2. f \in [D \cup {k} -> T]
  BY <1>1 DEF Insert
<1>3. D \cup {k} \in SUBSET S
  OBVIOUS
<1> QED BY <1>2, <1>3 DEF Maps, Insert

LEMMA MapsElements ==
    ASSUME NEW S, NEW T, NEW map \in Maps(S, T)
    PROVE  DOMAIN map \subseteq S /\ \A k \in DOMAIN map : map[k] \in T
  BY DEF Maps

LEMMA NoMapIs == ASSUME NEW S, NEW T PROVE NoMap \in Maps(S, T)
<1>1. NoMap \in [{} -> T] /\ {} \in SUBSET S
  BY DEF NoMap
<1> QED BY <1>1 DEF Maps

LEMMA SaveEventIs ==
    ASSUME NEW events \in Maps(Users, Maps(Games, {0, 1})), NEW u \in Users, NEW g \in Games
    PROVE  SaveEvent(events, u, g) \in Maps(Users, Maps(Games, {0, 1}))
<1> DEFINE M == Maps(Games, {0, 1})
<1>1. CASE u \in DOMAIN events
  <2>1. Insert(events[u], g, 0) \in M
    <3>1. events[u] \in M
      BY <1>1, MapsElements
    <3>2. 0 \in {0, 1}
      OBVIOUS
    <3> QED BY <3>1, <3>2, InsertIs
  <2>2. PICK D \in SUBSET Users : events \in [D -> M]
    BY DEF Maps
  <2> HIDE DEF M
  <2>3. [events EXCEPT ![u] = Insert(@, g, 0)] \in [D -> M]
    BY <2>1, <2>2, <1>1
  <2> QED BY <2>3, <1>1 DEF SaveEvent, Maps, M
<1>2. CASE u \notin DOMAIN events
  <2>1. NoMap \in M /\ 1 \in {0, 1}
    BY NoMapIs
  <2>2. Insert(NoMap, g, 1) \in M
    BY <2>1, InsertIs
  <2> QED BY <1>2, <2>2, InsertIs DEF SaveEvent
<1> QED BY <1>1, <1>2

LEMMA RequestIs ==
    /\ NoRequest \in Requests
    /\ \A g \in Games :
          Request("SUBSCRIBE", g) \in Requests /\ Request("UNSUBSCRIBE", g) \in Requests
    /\ Request("DISCONNECT", Null) \in Requests
    /\ \A g : /\ Request("SUBSCRIBE", g) # NoRequest /\ Request("UNSUBSCRIBE", g) # NoRequest
              /\ Request("DISCONNECT", g) # NoRequest
  BY DEF Requests, Request, NoRequest

----------------------------------------------------------------------------
(* The numbers in the texts.                                               *)

\* The receipt number a text of the client asks for, and the one a text of the
\* server brings.
Number(text) ==
    IF ~JavaParses(text) THEN Unread
    ELSE IF JavaGet(text, "receipt") = Null THEN NoNumber
    ELSE JavaGet(text, "receipt")

NumberBack(text) ==
    LET t == DropLast(text) IN
    IF CppCommand(t) = "RECEIPT" THEN CppGet(t, "receipt-id") ELSE NoNumber

LEMMA NotNull ==
    /\ Word # Null /\ \A x : x \in Users \cup Passwords \cup Games \cup Nat => x # Null
  BY ClientAssumption DEF ClientAssumption

LEMMA Numbers ==
    /\ Number(EmptyFrame) = Unread
    /\ \A r : Number(LogoutFrame(r)) = Unread
    /\ \A u \in Users, p \in Passwords : Number(ConnectFrame(u, p)) = NoNumber
    /\ \A u, g : g \in Games => Number(SendFrame(u, g)) = NoNumber
    /\ \A g \in Games, i \in Nat, r \in Nat : Number(SubscribeFrame(g, i, r)) = r
    /\ \A i \in Nat, r \in Nat : Number(UnsubscribeFrame(i, r)) = r
<1>1. Number(EmptyFrame) = Unread
  BY EmptyNeverParses DEF Number
<1>2. \A r : Number(LogoutFrame(r)) = Unread
  BY LogoutNeverParses DEF Number
<1>3. ASSUME NEW u \in Users, NEW p \in Passwords PROVE Number(ConnectFrame(u, p)) = NoNumber
  BY NotNull, ConnectRead DEF Number
<1>4. ASSUME NEW u, NEW g \in Games PROVE Number(SendFrame(u, g)) = NoNumber
  BY NotNull, SendRead DEF Number
<1>5. ASSUME NEW g \in Games, NEW i \in Nat, NEW r \in Nat
      PROVE  Number(SubscribeFrame(g, i, r)) = r
  BY NotNull, SubscribeRead DEF Number
<1>6. ASSUME NEW i \in Nat, NEW r \in Nat PROVE Number(UnsubscribeFrame(i, r)) = r
  BY NotNull, UnsubscribeRead DEF Number
<1> QED BY <1>1, <1>2, <1>3, <1>4, <1>5, <1>6

LEMMA NumbersBack ==
    /\ CppParses(DropLast(ConnectedFrame)) /\ NumberBack(ConnectedFrame) = NoNumber
    /\ \A r \in Nat :
          /\ CppParses(DropLast(ReceiptFrame(r))) /\ NumberBack(ReceiptFrame(r)) = r
          /\ CppCommand(DropLast(ReceiptFrame(r))) = "RECEIPT"
    /\ \A i \in Nat, g \in Games :
          CppParses(DropLast(MessageFrame(i, g))) /\ NumberBack(MessageFrame(i, g)) = NoNumber
<1>1. CppParses(DropLast(ConnectedFrame)) /\ NumberBack(ConnectedFrame) = NoNumber
  BY NotNull, ConnectedRead DEF NumberBack
<1>2. ASSUME NEW r \in Nat
      PROVE  /\ CppParses(DropLast(ReceiptFrame(r))) /\ NumberBack(ReceiptFrame(r)) = r
             /\ CppCommand(DropLast(ReceiptFrame(r))) = "RECEIPT"
  BY NotNull, ReceiptRead DEF NumberBack
<1>3. ASSUME NEW i \in Nat, NEW g \in Games
      PROVE  /\ CppParses(DropLast(MessageFrame(i, g)))
             /\ NumberBack(MessageFrame(i, g)) = NoNumber
  BY NotNull, MessageRead DEF NumberBack
<1> QED BY <1>1, <1>2, <1>3

LEMMA ClientNumber ==
    ASSUME NEW text \in ClientTexts
    PROVE  /\ Number(text) \in Int
           /\ Number(text) >= 0 \/ Number(text) = NoNumber \/ Number(text) = Unread
           /\ JavaParses(text) <=> Number(text) # Unread
<1>1. Number(text) \in Nat \/ Number(text) = NoNumber \/ Number(text) = Unread
  BY Numbers, LineNumbersAreNat DEF ClientTexts
<1>2. JavaParses(text) <=> Number(text) # Unread
  <2>1. ASSUME JavaParses(text) PROVE Number(text) # Unread
    <3>1. CASE text \in {EmptyFrame} \cup {LogoutFrame(r) : r \in LineNumbers}
      BY <2>1, <3>1, EmptyNeverParses, LogoutNeverParses
    <3>2. CASE text \notin {EmptyFrame} \cup {LogoutFrame(r) : r \in LineNumbers}
      BY <3>2, Numbers, LineNumbersAreNat DEF ClientTexts, NoNumber, Unread
    <3> QED BY <3>1, <3>2
  <2> QED BY <2>1 DEF Number
<1> QED BY <1>1, <1>2 DEF NoNumber, Unread

LEMMA ServerNumber ==
    ASSUME NEW text \in ServerTexts
    PROVE  /\ NumberBack(text) \in Int
           /\ NumberBack(text) >= 0 \/ NumberBack(text) = NoNumber
           /\ CppParses(DropLast(text))
           /\ CppCommand(DropLast(text)) = "RECEIPT" =>
                  /\ NumberBack(text) = CppGet(DropLast(text), "receipt-id")
                  /\ NumberBack(text) >= 0
           /\ CppCommand(DropLast(text)) # "RECEIPT" => NumberBack(text) = NoNumber
<1>1. CppCommand(DropLast(text)) # "RECEIPT" => NumberBack(text) = NoNumber
  BY DEF NumberBack
<1>2. CppCommand(DropLast(text)) = "RECEIPT" =>
          NumberBack(text) = CppGet(DropLast(text), "receipt-id")
  BY DEF NumberBack
<1>3. NumberBack(text) \in Nat \/ NumberBack(text) = NoNumber
  BY NumbersBack DEF ServerTexts
<1>4. CppParses(DropLast(text))
  BY NumbersBack DEF ServerTexts
<1>5. CppCommand(DropLast(text)) = "RECEIPT" => NumberBack(text) \in Nat
  <2>1. CASE \E r \in Nat : text = ReceiptFrame(r)
    BY <2>1, NumbersBack
  <2>2. CASE text = ConnectedFrame
    BY <2>2, NotNull, ConnectedRead
  <2>3. CASE \E i \in Nat, g \in Games : text = MessageFrame(i, g)
    BY <2>3, NotNull, MessageRead
  <2> QED BY <2>1, <2>2, <2>3 DEF ServerTexts
<1> QED BY <1>1, <1>2, <1>3, <1>4, <1>5 DEF NoNumber

LEMMA ReplyIs ==
    ASSUME NEW text \in ClientTexts, JavaParses(text)
    PROVE  \/ Number(text) \in Nat /\ Reply(text) = <<ReceiptFrame(Number(text))>>
           \/ Number(text) = NoNumber /\ Reply(text) = <<ConnectedFrame>>
           \/ Number(text) = NoNumber /\ Reply(text) = << >>
<1>1. CASE JavaGet(text, "receipt") = Null
  BY <1>1 DEF Number, Reply
<1>2. CASE JavaGet(text, "receipt") # Null
  <2>1. Number(text) = JavaGet(text, "receipt")
    BY <1>2 DEF Number
  <2>2. CASE \E u \in Users, p \in Passwords : text = ConnectFrame(u, p)
    BY <2>2, <1>2, NotNull, ConnectRead
  <2>3. CASE \E u \in Users, g \in Games : text = SendFrame(u, g)
    BY <2>3, <1>2, NotNull, SendRead
  <2>4. CASE Number(text) \in Nat
    BY <2>1, <2>4, <1>2 DEF Reply
  <2>5. CASE text = EmptyFrame \/ \E r \in LineNumbers : text = LogoutFrame(r)
    BY <2>5, EmptyNeverParses, LogoutNeverParses
  <2>6. \/ \E g \in Games, i \in LineNumbers, r \in LineNumbers :
               text = SubscribeFrame(g, i, r)
        \/ \E i \in LineNumbers, r \in LineNumbers : text = UnsubscribeFrame(i, r)
        => Number(text) \in Nat
    BY Numbers, LineNumbersAreNat
  <2> QED BY <2>2, <2>3, <2>4, <2>5, <2>6 DEF ClientTexts
<1> QED BY <1>1, <1>2

----------------------------------------------------------------------------
(* Types are preserved.                                                    *)

LEMMA TypesInit == Init => Types /\ Named /\ Counted
<1> SUFFICES ASSUME Init PROVE Types /\ Named /\ Counted
  OBVIOUS
<1>1. NoDraft \in Drafts
  BY RequestIs DEF NoDraft, Drafts, ClientTexts
<1>2. NoReport \in [game: Games \cup {Null}, left: Nat]
  BY DEF NoReport
<1>3. << >> \in Seq(Written) /\ << >> \in Seq(ServerTexts) /\ << >> \in Seq(Requests)
  BY EmptySeq
<1>4. /\ NoMap \in Maps(Games, LineNumbers) /\ NoMap \in Maps(Nat, Requests)
      /\ NoMap \in Maps(Users, Maps(Games, {0, 1}))
  BY NoMapIs
<1>5. Types
  BY <1>1, <1>2, <1>3, <1>4 DEF Init, Types, Steps
<1>6. Named
  BY DEF Init, Named, InReport
<1>7. Counted
  BY ClientAssumption DEF Init, Counted, ClientAssumption
<1> QED BY <1>5, <1>6, <1>7

LEMMA StartTypes ==
    ASSUME Types, Named, NEW c \in Clients, Start(c)
    PROVE  Types' /\ Named'
<1>1. Types'
  BY DEF Types, Start, End, session, maps, network
<1>2. Named'
  BY DEF Types, Named, InReport, Start, End, session, maps, network
<1> QED BY <1>1, <1>2

LEMMA RefusedTypes ==
    ASSUME Types, Named, NEW c \in Clients, Refused(c)
    PROVE  Types' /\ Named'
<1>1. Types'
  BY DEF Types, Refused, End, session, maps, network
<1>2. Named'
  BY DEF Types, Named, InReport, Refused, End, session, maps, network
<1> QED BY <1>1, <1>2

LEMMA TerminateTypes ==
    ASSUME Types, Named, NEW c \in Clients, Terminate(c)
    PROVE  Types' /\ Named'
<1>1. Types'
  BY DEF Types, Terminate, Running, End, session, maps, network
<1>2. Named'
  BY DEF Types, Named, InReport, Terminate, Running, End, session, maps, network
<1> QED BY <1>1, <1>2

LEMMA DraftTypes ==
    ASSUME Types, NEW c \in Clients, NEW text \in ClientTexts, NEW request \in Requests,
           Draft(c, text, request)
    PROVE  draft' \in [Clients -> Drafts]
<1>1. [text |-> text, request |-> request] \in Drafts
  BY DEF Drafts
<1> QED BY <1>1 DEF Types, Draft

LEMMA AskTypes ==
    ASSUME Types, NEW c \in Clients, NEW text \in ClientTexts, NEW request \in Requests,
           Ask(c, text, request)
    PROVE  /\ draft' \in [Clients -> Drafts] /\ keyboard' \in [Clients -> Steps]
           /\ asked' \in [Clients -> Seq(Requests)]
<1>1. draft' \in [Clients -> Drafts]
  BY DraftTypes DEF Ask
<1>2. keyboard' \in [Clients -> Steps]
  BY DEF Types, Ask, KeyboardTo, Steps
<1>3. Append(asked[c], request) \in Seq(Requests)
  BY AppendProperties DEF Types
<1>4. asked' \in [Clients -> Seq(Requests)]
  BY <1>3 DEF Types, Ask
<1> QED BY <1>1, <1>2, <1>4

LEMMA TypeTypes ==
    ASSUME Types, NEW c \in Clients, Type(c)
    PROVE  lines' \in [Clients -> Nat]
  BY DEF Types, Type

\* There are numbers left when a line is typed.
LEMMA TypeCounts ==
    ASSUME Types, Counted, NEW c \in Clients, Type(c)
    PROVE  id[c] \in LineNumbers /\ recipt[c] \in LineNumbers /\ 0 \in LineNumbers
<1>1. id[c] \in Nat /\ recipt[c] \in Nat /\ lines[c] \in Nat /\ MaxLines \in Nat
  BY ClientAssumption DEF Types, ClientAssumption
<1>2. id[c] <= lines[c] /\ recipt[c] <= lines[c] /\ lines[c] < MaxLines
  BY DEF Counted, Type
<1> QED BY <1>1, <1>2 DEF LineNumbers

LEMMA TypeLoginTypes ==
    ASSUME Types, Named, NEW c \in Clients, TypeLogin(c)
    PROVE  Types' /\ Named'
<1>1. PICK u \in Users, p \in Passwords :
         /\ username' = [username EXCEPT ![c] = u]
         /\ Draft(c, ConnectFrame(u, p), NoRequest)
  BY DEF TypeLogin
<1>2. draft' \in [Clients -> Drafts]
  <2>1. ConnectFrame(u, p) \in ClientTexts
    BY DEF ClientTexts
  <2> QED BY <1>1, <2>1, DraftTypes, RequestIs
<1>3. lines' \in [Clients -> Nat]
  BY TypeTypes DEF TypeLogin
<1>4. Types'
  BY <1>1, <1>2, <1>3 DEF Types, Steps, TypeLogin, KeyboardTo, maps, network
<1>5. Named'
  BY <1>1 DEF Types, Named, InReport, TypeLogin
<1> QED BY <1>4, <1>5

LEMMA TypeJoinTypes ==
    ASSUME Types, Named, Counted, NEW c \in Clients, TypeJoin(c)
    PROVE  Types' /\ Named'
<1>0. id[c] \in LineNumbers /\ recipt[c] \in LineNumbers
  BY TypeCounts DEF TypeJoin
<1>1. PICK g \in Games, i \in LineNumbers :
         /\ channeltoUniqueID' = [channeltoUniqueID EXCEPT ![c] = Insert(@, g, i)]
         /\ id' = [id EXCEPT ![c] = IF g \in DOMAIN channeltoUniqueID[c] THEN @ ELSE @ + 1]
         /\ Ask(c, SubscribeFrame(g, i, recipt[c]), Request("SUBSCRIBE", g))
  <2>1. \A g \in Games :
           g \in DOMAIN channeltoUniqueID[c] => channeltoUniqueID[c][g] \in LineNumbers
    BY MapsElements DEF Types
  <2> QED BY <2>1, <1>0 DEF TypeJoin
<1>2. SubscribeFrame(g, i, recipt[c]) \in ClientTexts
  BY <1>0 DEF ClientTexts
<1>3. /\ draft' \in [Clients -> Drafts] /\ keyboard' \in [Clients -> Steps]
      /\ asked' \in [Clients -> Seq(Requests)]
  BY <1>1, <1>2, AskTypes, RequestIs
<1>4. Insert(channeltoUniqueID[c], g, i) \in Maps(Games, LineNumbers)
  BY InsertIs DEF Types
<1>5. channeltoUniqueID' \in [Clients -> Maps(Games, LineNumbers)] /\ id' \in [Clients -> Nat]
  BY <1>1, <1>4 DEF Types
<1>6. lines' \in [Clients -> Nat]
  BY TypeTypes DEF TypeJoin
<1>7. Types'
  BY <1>3, <1>5, <1>6 DEF Types, TypeJoin, session, network
<1>8. Named'
  BY DEF Named, InReport, TypeJoin, session
<1> QED BY <1>7, <1>8

LEMMA TypeExitTypes ==
    ASSUME Types, Named, Counted, NEW c \in Clients, TypeExit(c)
    PROVE  Types' /\ Named'
<1>0. recipt[c] \in LineNumbers /\ 0 \in LineNumbers
  BY TypeCounts DEF TypeExit
<1>1. PICK g \in Games :
         /\ channeltoUniqueID' = [channeltoUniqueID EXCEPT ![c] = Insert(@, g, 0)]
         /\ Ask(c, UnsubscribeFrame(IdOf(channeltoUniqueID[c], g), recipt[c]),
                Request("UNSUBSCRIBE", g))
  BY DEF TypeExit
<1>2. Insert(channeltoUniqueID[c], g, 0) \in Maps(Games, LineNumbers)
  BY <1>0, InsertIs DEF Types
<1>3. IdOf(channeltoUniqueID[c], g) \in LineNumbers
  <2>1. g \in DOMAIN Insert(channeltoUniqueID[c], g, 0)
    BY DEF Insert
  <2> QED BY <2>1, <1>2, MapsElements DEF IdOf
<1>4. UnsubscribeFrame(IdOf(channeltoUniqueID[c], g), recipt[c]) \in ClientTexts
  BY <1>0, <1>3 DEF ClientTexts
<1>5. /\ draft' \in [Clients -> Drafts] /\ keyboard' \in [Clients -> Steps]
      /\ asked' \in [Clients -> Seq(Requests)]
  BY <1>1, <1>4, AskTypes, RequestIs
<1>6. channeltoUniqueID' \in [Clients -> Maps(Games, LineNumbers)]
  BY <1>1, <1>2 DEF Types
<1>7. lines' \in [Clients -> Nat]
  BY TypeTypes DEF TypeExit
<1>8. Types'
  BY <1>5, <1>6, <1>7 DEF Types, TypeExit, session, network
<1>9. Named'
  BY DEF Named, InReport, TypeExit, session
<1> QED BY <1>8, <1>9

LEMMA TypeLogoutTypes ==
    ASSUME Types, Named, Counted, NEW c \in Clients, TypeLogout(c)
    PROVE  Types' /\ Named'
<1>1. LogoutFrame(recipt[c]) \in ClientTexts
  BY TypeCounts DEF TypeLogout, ClientTexts
<1>2. /\ draft' \in [Clients -> Drafts] /\ keyboard' \in [Clients -> Steps]
      /\ asked' \in [Clients -> Seq(Requests)]
  BY <1>1, AskTypes, RequestIs DEF TypeLogout
<1>3. lines' \in [Clients -> Nat]
  BY TypeTypes DEF TypeLogout
<1>4. Types'
  BY <1>2, <1>3 DEF Types, TypeLogout, session, maps, network
<1>5. Named'
  BY DEF Named, InReport, TypeLogout, session
<1> QED BY <1>4, <1>5

LEMMA TypeOtherTypes ==
    ASSUME Types, Named, NEW c \in Clients, TypeOther(c)
    PROVE  Types' /\ Named'
<1>1. draft' \in [Clients -> Drafts]
  <2>1. EmptyFrame \in ClientTexts
    BY DEF ClientTexts
  <2> QED BY <2>1, DraftTypes, RequestIs DEF TypeOther
<1>2. lines' \in [Clients -> Nat]
  BY TypeTypes DEF TypeOther
<1>3. Types'
  BY <1>1, <1>2 DEF Types, Steps, TypeOther, KeyboardTo, session, maps, network
<1>4. Named'
  BY DEF Named, InReport, TypeOther, session
<1> QED BY <1>3, <1>4

LEMMA TypeReportTypes ==
    ASSUME Types, Named, NEW c \in Clients, TypeReport(c)
    PROVE  Types' /\ Named'
<1>1. PICK file \in Files :
         /\ file.game \in DOMAIN channeltoUniqueID[c]
         /\ report' = [report EXCEPT ![c] = file]
  BY DEF TypeReport
<1>2. file.game \in Games /\ file \in [game: Games \cup {Null}, left: Nat]
  BY DEF Files
<1>3. lines' \in [Clients -> Nat]
  BY TypeTypes DEF TypeReport
<1>4. Types'
  BY <1>1, <1>2, <1>3 DEF Types, Steps, TypeReport, KeyboardTo, session, maps, network
<1>5. Named'
  BY <1>1, <1>2 DEF Types, Named, InReport, TypeReport, session
<1> QED BY <1>4, <1>5

LEMMA TypeIgnoredTypes ==
    ASSUME Types, Named, NEW c \in Clients, TypeIgnored(c)
    PROVE  Types' /\ Named'
  BY DEF TypeIgnored, vars, session, maps, network, Types, Named, InReport

LEMMA TypeBrokenTypes ==
    ASSUME Types, Named, NEW c \in Clients, TypeBroken(c)
    PROVE  Types' /\ Named'
<1>1. lines' \in [Clients -> Nat]
  BY TypeTypes DEF TypeBroken
<1>2. Types'
  BY <1>1 DEF Types, TypeBroken, End, session, maps, network
<1>3. Named'
  BY DEF Named, InReport, TypeBroken, session
<1> QED BY <1>2, <1>3

LEMMA InsertRequestTypes ==
    ASSUME Types, Named, NEW c \in Clients, InsertRequest(c)
    PROVE  Types' /\ Named'
<1>1. draft[c].request \in Requests
  BY DEF Types, Drafts
<1>2. Insert(receiptToOriginalMsg[c], recipt[c], draft[c].request) \in Maps(Nat, Requests)
  BY <1>1, InsertIs DEF Types
<1>3. receiptToOriginalMsg' \in [Clients -> Maps(Nat, Requests)]
  BY <1>2 DEF Types, InsertRequest
<1>4. Types'
  BY <1>3 DEF Types, Steps, InsertRequest, NextReceipt, KeyboardTo, session, network
<1>5. Named'
  BY DEF Named, InReport, InsertRequest, session
<1> QED BY <1>4, <1>5

LEMMA NextEventTypes ==
    ASSUME Types, Named, NEW c \in Clients, NextEvent(c)
    PROVE  Types' /\ Named'
<1>1. username[c] \in Users /\ report[c].game \in Games
  BY DEF Named, InReport, NextEvent, NoReport
<1>2. SaveEvent(saved[c], username[c], report[c].game) \in Maps(Users, Maps(Games, {0, 1}))
  BY <1>1, SaveEventIs DEF Types
<1>3. saved' \in [Clients -> Maps(Users, Maps(Games, {0, 1}))]
  BY <1>2 DEF Types, NextEvent
<1>4. draft' \in [Clients -> Drafts]
  <2>1. SendFrame(username[c], report[c].game) \in ClientTexts
    BY <1>1 DEF ClientTexts
  <2> QED BY <2>1, DraftTypes, RequestIs DEF NextEvent
<1>5. report' \in [Clients -> [game: Games \cup {Null}, left: Nat]]
  <2>1. report[c] \in [game: Games \cup {Null}, left: Nat] /\ report[c].left > 0
    BY DEF Types, NextEvent
  <2>2. [report[c] EXCEPT !.left = @ - 1] \in [game: Games \cup {Null}, left: Nat]
    BY <2>1
  <2> QED BY <2>2 DEF Types, NextEvent
<1>6. Types'
  BY <1>3, <1>4, <1>5 DEF Types, Steps, NextEvent, KeyboardTo, session, maps, network
<1>7. Named'
  <2>1. report'[c].game = report[c].game /\ \A d \in Clients : d # c => report'[d] = report[d]
    BY DEF Types, NextEvent
  <2>2. login[c]
    BY DEF Named, InReport, NextEvent, NoReport
  <2> QED BY <1>1, <2>1, <2>2 DEF Named, InReport, NextEvent, session
<1> QED BY <1>6, <1>7

LEMMA EndReportTypes ==
    ASSUME Types, Named, NEW c \in Clients, EndReport(c)
    PROVE  Types' /\ Named'
<1>1. NoReport \in [game: Games \cup {Null}, left: Nat]
  BY DEF NoReport
<1>2. Types'
  BY <1>1 DEF Types, Steps, EndReport, KeyboardTo, session, maps, network
<1>3. Named'
  BY DEF Types, Named, InReport, EndReport, session
<1> QED BY <1>2, <1>3

LEMMA WriteFailsTypes ==
    ASSUME Types, Named, NEW c \in Clients, WriteFails(c)
    PROVE  Types' /\ Named'
<1>1. NoReport \in [game: Games \cup {Null}, left: Nat]
  BY DEF NoReport
<1>2. NoDraft \in Drafts
  BY RequestIs DEF NoDraft, Drafts, ClientTexts
<1>3. Types'
  BY <1>1, <1>2 DEF Types, Steps, WriteFails, KeyboardTo, session, maps, network
<1>4. Named'
  BY DEF Types, Named, InReport, WriteFails, session
<1> QED BY <1>3, <1>4

LEMMA WriteTextTypes ==
    ASSUME Types, Named, NEW c \in Clients, WriteText(c)
    PROVE  Types' /\ Named'
<1>1. [text |-> draft[c].text, ended |-> FALSE] \in Written
  BY DEF Types, Drafts, Written
<1>2. Append(toServer[c], [text |-> draft[c].text, ended |-> FALSE]) \in Seq(Written)
  BY <1>1, AppendProperties DEF Types
<1>3. toServer' \in [Clients -> Seq(Written)]
  BY <1>2 DEF Types, WriteText
<1>4. Types'
  BY <1>3 DEF Types, Steps, WriteText, KeyboardTo, session, maps
<1>5. Named'
  BY DEF Named, InReport, WriteText, session
<1> QED BY <1>4, <1>5

LEMMA EndedIs ==
    ASSUME NEW frames \in Seq(Written)
    PROVE  /\ Ended(frames) \in Seq(Written) /\ Len(Ended(frames)) = Len(frames)
           /\ \A k \in 1 .. Len(frames) : Ended(frames)[k].text = frames[k].text
<1> DEFINE n == Len(frames)
<1>1. n \in Nat /\ frames \in [1 .. n -> Written]
  BY LenProperties
<1>2. Ended(frames) \in [1 .. n -> Written]
  BY <1>1 DEF Ended, Written
<1>3. \A k \in 1 .. n : Ended(frames)[k].text = frames[k].text
  BY <1>1 DEF Ended, Written
<1>4. Ended(frames) \in Seq(Written)
  BY <1>1, <1>2, SeqDef
<1>5. Len(Ended(frames)) = n
  BY <1>1, <1>2, <1>4, LenProperties
<1> QED BY <1>3, <1>4, <1>5

LEMMA WriteDelimiterTypes ==
    ASSUME Types, Named, NEW c \in Clients, WriteDelimiter(c)
    PROVE  Types' /\ Named'
<1>1. NoDraft \in Drafts
  BY RequestIs DEF NoDraft, Drafts, ClientTexts
<1>2. Ended(toServer[c]) \in Seq(Written)
  BY EndedIs DEF Types
<1>3. toServer' \in [Clients -> Seq(Written)]
  BY <1>2 DEF Types, WriteDelimiter
<1>4. Types'
  BY <1>1, <1>3 DEF Types, Steps, WriteDelimiter, KeyboardTo, session, maps
<1>5. Named'
  BY DEF Named, InReport, WriteDelimiter, session
<1> QED BY <1>4, <1>5

LEMMA ReceiveTypes ==
    ASSUME Types, Named, NEW c \in Clients, Receive(c)
    PROVE  Types' /\ Named'
<1>1. Tail(toClient[c]) \in Seq(ServerTexts)
  BY HeadTailProperties DEF Types, Receive
<1>2. toClient' \in [Clients -> Seq(ServerTexts)]
  BY <1>1 DEF Types, Receive
<1> DEFINE Rest ==
      /\ proc' \in [Clients -> {"new", "running", "refused", "crashed", "aborted"}]
      /\ socket' \in [Clients -> {"read", "left"}]
      /\ printed' \in [Clients -> Seq(Requests)]
<1>3. ASSUME End(c, "crashed"), UNCHANGED <<socket, printed>> PROVE Rest
  BY <1>3 DEF Types, End
<1>4. ASSUME UNCHANGED <<proc, socket, printed>> PROVE Rest
  BY <1>4 DEF Types
<1>5. ASSUME NEW r, Acknowledged(c, r) PROVE Rest
  <2>1. CASE r \in DOMAIN receiptToOriginalMsg[c]
    <3>1. receiptToOriginalMsg[c][r] \in Requests
      BY <2>1, MapsElements DEF Types
    <3>2. Append(printed[c], receiptToOriginalMsg[c][r]) \in Seq(Requests)
      BY <3>1, AppendProperties DEF Types
    <3> QED BY <2>1, <3>2, <1>5 DEF Types, Acknowledged
  <2>2. CASE r \notin DOMAIN receiptToOriginalMsg[c]
    BY <2>2, <1>3, <1>5 DEF Acknowledged
  <2> QED BY <2>1, <2>2
<1> HIDE DEF Rest
<1>6. Rest
  BY <1>3, <1>4, <1>5 DEF Receive
<1>7. Types'
  BY <1>2, <1>6 DEF Types, Rest, Receive, session, maps
<1>8. Named'
  BY DEF Named, InReport, Receive, session
<1> QED BY <1>7, <1>8

LEMMA LookupRacesTypes ==
    ASSUME Types, Named, NEW c \in Clients, LookupRaces(c)
    PROVE  Types' /\ Named'
<1>1. Types'
  BY DEF Types, LookupRaces, End, session, maps, network
<1>2. Named'
  BY DEF Types, Named, InReport, LookupRaces, End, session, maps, network
<1> QED BY <1>1, <1>2

LEMMA ConnectionLostTypes ==
    ASSUME Types, Named, NEW c \in Clients, ConnectionLost(c)
    PROVE  Types' /\ Named'
<1>1. Types'
  BY DEF Types, ConnectionLost, LeaveLoop, session, maps, network
<1>2. Named'
  BY DEF Types, Named, InReport, ConnectionLost, LeaveLoop, session, maps, network
<1> QED BY <1>1, <1>2

LEMMA AcknowledgeTypes ==
    ASSUME Types, Named, NEW c \in Clients, Acknowledge(c)
    PROVE  Types' /\ Named'
<1> DEFINE frame == Head(toServer[c])
<1>1. toServer[c] \in Seq(Written) /\ toServer[c] # << >>
  BY DEF Types, Acknowledge, HasFrame
<1>2. frame \in Written /\ Tail(toServer[c]) \in Seq(Written)
  BY <1>1, HeadTailProperties
<1>3. Reply(frame.text) \in Seq(ServerTexts)
  <2>1. frame.text \in ClientTexts
    BY <1>2 DEF Written
  <2>2. ConnectedFrame \in ServerTexts /\ \A r \in Nat : ReceiptFrame(r) \in ServerTexts
    BY DEF ServerTexts
  <2>3. /\ << >> \in Seq(ServerTexts) /\ <<ConnectedFrame>> \in Seq(ServerTexts)
        /\ \A r \in Nat : <<ReceiptFrame(r)>> \in Seq(ServerTexts)
    BY <2>2
  <2>4. JavaParses(frame.text)
    BY DEF Acknowledge
  <2> HIDE DEF frame
  <2> QED BY <2>1, <2>3, <2>4, ReplyIs
<1>4. toClient[c] \o Reply(frame.text) \in Seq(ServerTexts)
  BY <1>3, ConcatProperties DEF Types
<1>5. toClient' \in [Clients -> Seq(ServerTexts)] /\ toServer' \in [Clients -> Seq(Written)]
  BY <1>2, <1>4 DEF Types, Acknowledge
<1>6. Types'
  BY <1>5 DEF Types, Acknowledge, session, maps
<1>7. Named'
  BY DEF Named, InReport, Acknowledge, session
<1> QED BY <1>6, <1>7

LEMMA PeerMessageTypes ==
    ASSUME Types, Named, NEW c \in Clients, PeerMessage(c)
    PROVE  Types' /\ Named'
<1>1. PICK i \in 0 .. MaxLines, g \in Games :
         toClient' = [toClient EXCEPT ![c] = Append(@, MessageFrame(i, g))]
  BY DEF PeerMessage
<1>2. MessageFrame(i, g) \in ServerTexts
  BY ClientAssumption DEF ClientAssumption, ServerTexts
<1>3. Append(toClient[c], MessageFrame(i, g)) \in Seq(ServerTexts)
  BY <1>2, AppendProperties DEF Types
<1>4. toClient' \in [Clients -> Seq(ServerTexts)]
  BY <1>1, <1>3 DEF Types
<1>5. Types'
  BY <1>4 DEF Types, PeerMessage, session, maps
<1>6. Named'
  BY DEF Named, InReport, PeerMessage, session
<1> QED BY <1>5, <1>6

LEMMA PeerCloseTypes ==
    ASSUME Types, Named, NEW c \in Clients, PeerClose(c)
    PROVE  Types' /\ Named'
<1>1. << >> \in Seq(Written)
  BY EmptySeq
<1>2. Types'
  BY <1>1 DEF Types, PeerClose, session, maps
<1>3. Named'
  BY DEF Named, InReport, PeerClose, session
<1> QED BY <1>2, <1>3

LEMMA TypesStep == Types /\ Named /\ Counted /\ [Next]_vars => Types' /\ Named'
<1> SUFFICES ASSUME Types, Named, Counted, [Next]_vars PROVE Types' /\ Named'
  OBVIOUS
<1>1. CASE UNCHANGED vars
  BY <1>1 DEF vars, session, maps, network, Types, Named, InReport
<1>2. ASSUME NEW c \in Clients, ProcessStep(c) \/ PeerStep(c) PROVE Types' /\ Named'
  BY <1>2, StartTypes, RefusedTypes, TypeLoginTypes, TypeJoinTypes,
     TypeExitTypes, TypeLogoutTypes, TypeOtherTypes, TypeReportTypes,
     TypeIgnoredTypes, TypeBrokenTypes, InsertRequestTypes, NextEventTypes,
     EndReportTypes, WriteFailsTypes, WriteTextTypes, WriteDelimiterTypes,
     ReceiveTypes, LookupRacesTypes, ConnectionLostTypes, TerminateTypes,
     AcknowledgeTypes, PeerMessageTypes, PeerCloseTypes
     DEF ProcessStep, Command, KeyboardStep, SocketStep, PeerStep
<1> QED BY <1>1, <1>2 DEF Next

\* A number is taken in the step that types its line, or in a later one that is
\* due since then; every other step leaves the counts alone.
LEMMA CountedStep == Types /\ Counted /\ [Next]_vars => Counted'
<1> SUFFICES ASSUME Types, Counted, [Next]_vars PROVE Counted'
  OBVIOUS
<1> DEFINE Typed(c) ==
      /\ keyboard[c] = "line" /\ lines[c] < MaxLines
      /\ lines' = [lines EXCEPT ![c] = @ + 1] /\ recipt' = recipt
      /\ id' \in {id, [id EXCEPT ![c] = @ + 1]}
      /\ \E k \in {"line", "insert", "text", "report"} :
             keyboard' = [keyboard EXCEPT ![c] = k]
    Inserted(c) ==
      /\ keyboard[c] = "insert" /\ keyboard' = [keyboard EXCEPT ![c] = "text"]
      /\ recipt' = [recipt EXCEPT ![c] = @ + 1]
      /\ UNCHANGED <<id, lines>>
    Kept ==
      /\ UNCHANGED <<id, recipt, lines>>
      /\ \A d \in Clients : keyboard'[d] = "insert" => keyboard[d] = "insert"
<1>1. ASSUME NEW c \in Clients, Typed(c) PROVE Counted'
  <2>1. MaxLines \in Nat
    BY ClientAssumption DEF ClientAssumption
  <2>2. ASSUME NEW d \in Clients, d # c
        PROVE  /\ id'[d] = id[d] /\ recipt'[d] = recipt[d] /\ lines'[d] = lines[d]
               /\ keyboard'[d] = keyboard[d]
    BY <1>1, <2>2 DEF Types
  <2>3. /\ id'[c] \in {id[c], id[c] + 1} /\ recipt'[c] = recipt[c]
        /\ lines'[c] = lines[c] + 1
    BY <1>1 DEF Types
  <2>4. id[c] \in Nat /\ recipt[c] \in Nat /\ lines[c] \in Nat
    BY DEF Types
  <2>5. id[c] <= lines[c] /\ recipt[c] <= lines[c] /\ lines[c] < MaxLines
    BY <1>1 DEF Counted
  <2>6. /\ id'[c] <= lines'[c] /\ recipt'[c] < lines'[c] /\ recipt'[c] <= lines'[c]
        /\ lines'[c] <= MaxLines
    BY <2>1, <2>3, <2>4, <2>5
  <2> QED BY <2>2, <2>6 DEF Counted
<1>2. ASSUME NEW c \in Clients, Inserted(c) PROVE Counted'
  <2>1. ASSUME NEW d \in Clients, d # c
        PROVE  recipt'[d] = recipt[d] /\ keyboard'[d] = keyboard[d]
    BY <1>2, <2>1 DEF Types
  <2>2. recipt'[c] = recipt[c] + 1 /\ keyboard'[c] = "text"
    BY <1>2 DEF Types
  <2>3. recipt[c] < lines[c] /\ recipt[c] \in Nat /\ lines[c] \in Nat
    BY <1>2 DEF Types, Counted
  <2>4. recipt'[c] <= lines[c]
    BY <2>2, <2>3
  <2> QED BY <1>2, <2>1, <2>2, <2>4 DEF Counted
<1>3. ASSUME Kept PROVE Counted'
  BY <1>3 DEF Counted
<1>4. CASE UNCHANGED vars
  <2>1. Kept
    BY <1>4 DEF vars, maps
  <2> QED BY <2>1, <1>3
<1>5. ASSUME NEW c \in Clients, TypeIgnored(c) PROVE Counted'
  BY <1>4, <1>5 DEF TypeIgnored
<1>6. ASSUME NEW c \in Clients, TypeLogin(c) PROVE Typed(c)
  BY <1>6 DEF TypeLogin, Type, KeyboardTo, maps
<1>7. ASSUME NEW c \in Clients, TypeJoin(c) PROVE Typed(c)
  <2>1. PICK known : id' = [id EXCEPT ![c] = IF known THEN @ ELSE @ + 1]
    BY <1>7 DEF TypeJoin
  <2>2. id' \in {id, [id EXCEPT ![c] = @ + 1]}
    BY <2>1 DEF Types
  <2> QED BY <1>7, <2>2 DEF TypeJoin, Type, Ask, KeyboardTo
<1>8. ASSUME NEW c \in Clients, TypeExit(c) PROVE Typed(c)
  BY <1>8 DEF TypeExit, Type, Ask, KeyboardTo
<1>9. ASSUME NEW c \in Clients, TypeLogout(c) PROVE Typed(c)
  BY <1>9 DEF TypeLogout, Type, Ask, KeyboardTo, maps
<1>10. ASSUME NEW c \in Clients, TypeOther(c) PROVE Typed(c)
  BY <1>10 DEF TypeOther, Type, KeyboardTo, maps
<1>11. ASSUME NEW c \in Clients, TypeReport(c) PROVE Typed(c)
  BY <1>11 DEF TypeReport, Type, KeyboardTo, maps
<1>12. ASSUME NEW c \in Clients, TypeBroken(c) PROVE Typed(c)
  <2>1. keyboard' = [keyboard EXCEPT ![c] = "line"]
    BY <1>12 DEF TypeBroken, Type, Types
  <2> QED BY <1>12, <2>1 DEF TypeBroken, Type, maps
<1>13. ASSUME NEW c \in Clients, InsertRequest(c) PROVE Inserted(c)
  BY <1>13 DEF InsertRequest, NextReceipt, KeyboardTo
<1>14. ASSUME NEW c \in Clients,
              NextEvent(c) \/ EndReport(c) \/ WriteFails(c) \/ WriteText(c)
                \/ WriteDelimiter(c)
       PROVE  Kept
  <2>1. UNCHANGED <<id, recipt, lines>>
    BY <1>14 DEF NextEvent, EndReport, WriteFails, WriteText, WriteDelimiter, maps
  <2>2. PICK k \in {"line", "text", "delimiter", "report", "ended"} :
           keyboard' = [keyboard EXCEPT ![c] = k]
    BY <1>14 DEF NextEvent, EndReport, WriteFails, WriteText, WriteDelimiter, KeyboardTo
  <2> QED BY <2>1, <2>2 DEF Types
<1>15. ASSUME NEW c \in Clients, Start(c) \/ Refused(c) \/ SocketStep(c) \/ PeerStep(c)
       PROVE  Kept
  BY <1>15 DEF Start, Refused, SocketStep, Receive, LookupRaces, ConnectionLost, Terminate,
     PeerStep, Acknowledge, PeerMessage, PeerClose, maps
<1> HIDE DEF Typed, Inserted, Kept
<1>16. ASSUME NEW c \in Clients, ProcessStep(c) \/ PeerStep(c) PROVE Counted'
  BY <1>1, <1>2, <1>3, <1>5, <1>6, <1>7, <1>8, <1>9, <1>10, <1>11, <1>12, <1>13, <1>14,
     <1>15, <1>16 DEF ProcessStep, Command, KeyboardStep
<1> QED BY <1>4, <1>16 DEF Next

----------------------------------------------------------------------------
(* The invariant, client by client.                                        *)

\* The request being sent is not counted as sent before its text is written.
Pending(c) == keyboard[c] = "text" /\ draft[c].request # NoRequest
Due(c) == IF Pending(c) THEN recipt[c] - 1 ELSE recipt[c]

Out(q) == [k \in 1 .. Len(q) |-> Number(q[k].text)]
Back(q) == [k \in 1 .. Len(q) |-> NumberBack(q[k])]

\* Every request is filed under its number before its text is written.
FiledAsAsked(c) ==
    /\ DOMAIN receiptToOriginalMsg[c] = 0 .. recipt[c] - 1
    /\ \A r \in 0 .. recipt[c] - 1 : receiptToOriginalMsg[c][r] = asked[c][r + 1]
    /\ Len(asked[c]) = IF keyboard[c] = "insert" THEN recipt[c] + 1 ELSE recipt[c]
    /\ keyboard[c] = "insert" => draft[c].request = asked[c][recipt[c] + 1]

Drafted(c) ==
    /\ keyboard[c] = "insert" =>
          draft[c].request # NoRequest /\ Number(draft[c].text) \in {recipt[c], Unread}
    /\ Pending(c) => recipt[c] > 0 /\ Number(draft[c].text) \in {recipt[c] - 1, Unread}
    /\ keyboard[c] = "text" /\ ~Pending(c) => Number(draft[c].text) \in {NoNumber, Unread}
    /\ proc[c] = "new" => recipt[c] = 0 /\ keyboard[c] = "line"

PrintedAsAsked(c) == \A k \in 1 .. Len(printed[c]) : printed[c][k] = asked[c][k]

Flying(c) ==
    InFlight(Back(toClient[c]), Out(toServer[c]), Len(printed[c]), Due(c), serverOpen[c])

Sound(c) == FiledAsAsked(c) /\ Drafted(c) /\ PrintedAsAsked(c) /\ Flying(c)

\* Inductive: what every reachable state satisfies and every step preserves.
Inv == Types /\ Named /\ Counted /\ \A c \in Clients : Sound(c)

View(c) ==
    <<proc[c], keyboard[c], draft[c], recipt[c], receiptToOriginalMsg[c], asked[c],
      printed[c], toServer[c], toClient[c], serverOpen[c], login[c], username[c],
      channeltoUniqueID[c], id[c]>>

LEMMA SoundSame ==
    ASSUME NEW c, Sound(c), View(c)' = View(c)
    PROVE  Sound(c)'
<1>1. /\ proc'[c] = proc[c] /\ keyboard'[c] = keyboard[c] /\ draft'[c] = draft[c]
      /\ recipt'[c] = recipt[c] /\ receiptToOriginalMsg'[c] = receiptToOriginalMsg[c]
      /\ asked'[c] = asked[c] /\ printed'[c] = printed[c] /\ toServer'[c] = toServer[c]
      /\ toClient'[c] = toClient[c] /\ serverOpen'[c] = serverOpen[c]
  BY DEF View
<1>2. Pending(c)' = Pending(c) /\ Due(c)' = Due(c)
  BY <1>1 DEF Pending, Due
<1>3. FiledAsAsked(c)' /\ PrintedAsAsked(c)'
  BY <1>1 DEF Sound, FiledAsAsked, PrintedAsAsked
<1>4. Drafted(c)'
  BY <1>1, <1>2 DEF Sound, Drafted
<1>5. Flying(c)'
  BY <1>1, <1>2 DEF Sound, Flying
<1> QED BY <1>3, <1>4, <1>5 DEF Sound

LEMMA BackIs ==
    ASSUME NEW q \in Seq(ServerTexts)
    PROVE  /\ Back(q) \in Seq(Int) /\ Len(Back(q)) = Len(q)
           /\ \A k \in 1 .. Len(q) : Back(q)[k] = NumberBack(q[k])
<1>1. \A k \in 1 .. Len(q) : NumberBack(q[k]) \in Int
  BY ElementOfSeq, ServerNumber
<1> QED BY <1>1, LenProperties DEF Back

LEMMA OutIs ==
    ASSUME NEW q \in Seq(Written)
    PROVE  /\ Out(q) \in Seq(Int) /\ Len(Out(q)) = Len(q)
           /\ \A k \in 1 .. Len(q) : Out(q)[k] = Number(q[k].text)
<1>1. \A k \in 1 .. Len(q) : Number(q[k].text) \in Int
  <2>1. \A k \in 1 .. Len(q) : q[k] \in Written
    BY ElementOfSeq
  <2> QED BY <2>1, ClientNumber DEF Written
<1> QED BY <1>1, LenProperties DEF Out

LEMMA BackAppend ==
    ASSUME NEW q \in Seq(ServerTexts), NEW text \in ServerTexts
    PROVE  Back(Append(q, text)) = Append(Back(q), NumberBack(text))
<1> DEFINE r == Append(q, text)
           b == Append(Back(q), NumberBack(text))
<1>1. /\ r \in Seq(ServerTexts) /\ Len(r) = Len(q) + 1 /\ r[Len(q) + 1] = text
      /\ \A k \in 1 .. Len(q) : r[k] = q[k]
      /\ Len(q) \in Nat
  BY AppendProperties
<1>2. /\ b \in Seq(Int) /\ Len(b) = Len(q) + 1 /\ b[Len(q) + 1] = NumberBack(text)
      /\ \A k \in 1 .. Len(q) : b[k] = NumberBack(q[k])
  BY BackIs, ServerNumber, AppendProperties
<1> HIDE DEF r, b
<1>3. Back(r) \in Seq(Int) /\ Len(Back(r)) = Len(r)
  BY <1>1, BackIs
<1>4. ASSUME NEW k \in 1 .. Len(r) PROVE Back(r)[k] = b[k]
  <2>1. Back(r)[k] = NumberBack(r[k])
    BY <1>1, BackIs
  <2>2. CASE k \in 1 .. Len(q)
    BY <2>1, <2>2, <1>1, <1>2
  <2>3. CASE k = Len(q) + 1
    BY <2>1, <2>3, <1>1, <1>2
  <2> QED BY <2>2, <2>3, <1>1
<1>5. Back(r) = b
  BY <1>1, <1>2, <1>3, <1>4, SeqEqual
<1> QED BY <1>5 DEF r, b

LEMMA BackTail ==
    ASSUME NEW q \in Seq(ServerTexts), q # << >>
    PROVE  /\ Back(Tail(q)) = Tail(Back(q)) /\ Back(q) # << >>
           /\ Back(q)[1] = NumberBack(Head(q))
<1> DEFINE r == Tail(q)
           b == Tail(Back(q))
<1>1. /\ r \in Seq(ServerTexts) /\ Len(q) \in Nat /\ Len(q) >= 1 /\ Len(r) = Len(q) - 1
      /\ \A k \in 1 .. Len(r) : r[k] = q[k + 1]
  <2>1. Len(q) \in Nat /\ Len(q) >= 1
    BY EmptySeq
  <2> QED BY <2>1, HeadTailProperties
<1>2. /\ Back(q) \in Seq(Int) /\ Len(Back(q)) = Len(q) /\ Back(q) # << >>
      /\ \A k \in 1 .. Len(q) : Back(q)[k] = NumberBack(q[k])
  BY <1>1, BackIs, EmptySeq
<1>3. /\ b \in Seq(Int) /\ Len(b) = Len(q) - 1
      /\ \A k \in 1 .. Len(b) : b[k] = Back(q)[k + 1]
  BY <1>1, <1>2, HeadTailProperties
<1> HIDE DEF r, b
<1>4. Back(r) \in Seq(Int) /\ Len(Back(r)) = Len(r)
  BY <1>1, BackIs
<1>5. ASSUME NEW k \in 1 .. Len(r) PROVE Back(r)[k] = b[k]
  <2>1. Back(r)[k] = NumberBack(r[k])
    BY <1>1, BackIs
  <2>2. k + 1 \in 1 .. Len(q) /\ k \in 1 .. Len(b)
    BY <1>1, <1>3
  <2> QED BY <2>1, <2>2, <1>1, <1>2, <1>3
<1>6. Back(r) = b
  BY <1>1, <1>3, <1>4, <1>5, SeqEqual
<1>7. Back(q)[1] = NumberBack(Head(q))
  BY <1>1, <1>2
<1> QED BY <1>2, <1>6, <1>7 DEF r, b

LEMMA OutAppend ==
    ASSUME NEW q \in Seq(Written), NEW frame \in Written
    PROVE  Out(Append(q, frame)) = Append(Out(q), Number(frame.text))
<1> DEFINE r == Append(q, frame)
           b == Append(Out(q), Number(frame.text))
<1>1. /\ r \in Seq(Written) /\ Len(r) = Len(q) + 1 /\ r[Len(q) + 1] = frame
      /\ \A k \in 1 .. Len(q) : r[k] = q[k]
      /\ Len(q) \in Nat
  BY AppendProperties
<1>2. /\ b \in Seq(Int) /\ Len(b) = Len(q) + 1 /\ b[Len(q) + 1] = Number(frame.text)
      /\ \A k \in 1 .. Len(q) : b[k] = Number(q[k].text)
  <2>1. Number(frame.text) \in Int
    BY ClientNumber DEF Written
  <2> QED BY <2>1, OutIs, AppendProperties
<1> HIDE DEF r, b
<1>3. Out(r) \in Seq(Int) /\ Len(Out(r)) = Len(r)
  BY <1>1, OutIs
<1>4. ASSUME NEW k \in 1 .. Len(r) PROVE Out(r)[k] = b[k]
  <2>1. Out(r)[k] = Number(r[k].text)
    BY <1>1, OutIs
  <2>2. CASE k \in 1 .. Len(q)
    BY <2>1, <2>2, <1>1, <1>2
  <2>3. CASE k = Len(q) + 1
    BY <2>1, <2>3, <1>1, <1>2
  <2> QED BY <2>2, <2>3, <1>1
<1>5. Out(r) = b
  BY <1>1, <1>2, <1>3, <1>4, SeqEqual
<1> QED BY <1>5 DEF r, b

LEMMA OutTail ==
    ASSUME NEW q \in Seq(Written), q # << >>
    PROVE  /\ Out(Tail(q)) = Tail(Out(q)) /\ Out(q) # << >>
           /\ Out(q)[1] = Number(Head(q).text)
<1> DEFINE r == Tail(q)
           b == Tail(Out(q))
<1>1. /\ r \in Seq(Written) /\ Len(q) \in Nat /\ Len(q) >= 1 /\ Len(r) = Len(q) - 1
      /\ \A k \in 1 .. Len(r) : r[k] = q[k + 1]
  <2>1. Len(q) \in Nat /\ Len(q) >= 1
    BY EmptySeq
  <2> QED BY <2>1, HeadTailProperties
<1>2. /\ Out(q) \in Seq(Int) /\ Len(Out(q)) = Len(q) /\ Out(q) # << >>
      /\ \A k \in 1 .. Len(q) : Out(q)[k] = Number(q[k].text)
  BY <1>1, OutIs, EmptySeq
<1>3. /\ b \in Seq(Int) /\ Len(b) = Len(q) - 1
      /\ \A k \in 1 .. Len(b) : b[k] = Out(q)[k + 1]
  BY <1>1, <1>2, HeadTailProperties
<1> HIDE DEF r, b
<1>4. Out(r) \in Seq(Int) /\ Len(Out(r)) = Len(r)
  BY <1>1, OutIs
<1>5. ASSUME NEW k \in 1 .. Len(r) PROVE Out(r)[k] = b[k]
  <2>1. Out(r)[k] = Number(r[k].text)
    BY <1>1, OutIs
  <2>2. k + 1 \in 1 .. Len(q) /\ k \in 1 .. Len(b)
    BY <1>1, <1>3
  <2> QED BY <2>1, <2>2, <1>1, <1>2, <1>3
<1>6. Out(r) = b
  BY <1>1, <1>3, <1>4, <1>5, SeqEqual
<1>7. Out(q)[1] = Number(Head(q).text)
  BY <1>1, <1>2
<1> QED BY <1>2, <1>6, <1>7 DEF r, b

LEMMA OutEnded == ASSUME NEW q \in Seq(Written) PROVE Out(Ended(q)) = Out(q)
  BY EndedIs DEF Out

LEMMA NoneFlies == Out(<< >>) = << >> /\ Back(<< >>) = << >>
  BY DEF Out, Back

LEMMA FlightIs ==
    ASSUME Types, NEW c \in Clients
    PROVE  /\ toClient[c] \in Seq(ServerTexts) /\ toServer[c] \in Seq(Written)
           /\ Back(toClient[c]) \in Seq(Int) /\ Out(toServer[c]) \in Seq(Int)
           /\ Len(printed[c]) \in Nat /\ Len(asked[c]) \in Nat
           /\ recipt[c] \in Nat /\ serverOpen[c] \in BOOLEAN
           /\ draft[c].text \in ClientTexts /\ draft[c].request \in Requests
  BY BackIs, OutIs, LenProperties DEF Types, Drafts

----------------------------------------------------------------------------
(* The invariant holds at first and is preserved.                          *)

LEMMA SoundInit == ASSUME Init, NEW c \in Clients PROVE Sound(c)
<1>1. /\ proc[c] = "new" /\ keyboard[c] = "line" /\ recipt[c] = 0 /\ draft[c] = NoDraft
      /\ receiptToOriginalMsg[c] = NoMap /\ asked[c] = << >> /\ printed[c] = << >>
      /\ toServer[c] = << >> /\ toClient[c] = << >> /\ serverOpen[c] = FALSE
  BY DEF Init
<1>2. Due(c) = 0 /\ ~Pending(c)
  BY <1>1 DEF Due, Pending
<1>3. FiledAsAsked(c)
  BY <1>1 DEF FiledAsAsked, NoMap
<1>4. Drafted(c)
  BY <1>1, <1>2 DEF Drafted
<1>5. PrintedAsAsked(c)
  BY <1>1 DEF PrintedAsAsked
<1>6. Flying(c)
  BY <1>1, <1>2, NoneFlies DEF Flying, InFlight, Bounded, Increasing, Gapless
<1> QED BY <1>3, <1>4, <1>5, <1>6 DEF Sound

\* A step of one client is none of another.
LEMMA OthersSame ==
    ASSUME Types, NEW c \in Clients, ProcessStep(c) \/ PeerStep(c),
           NEW d \in Clients, d # c
    PROVE  View(d)' = View(d)
<1>1. ASSUME Start(c) PROVE View(d)' = View(d)
  BY <1>1 DEF Types, View, Start, End,
     session, maps, network
<1>2. ASSUME Refused(c) PROVE View(d)' = View(d)
  BY <1>2 DEF Types, View, Refused, End,
     session, maps, network
<1>3. ASSUME TypeLogin(c) PROVE View(d)' = View(d)
  BY <1>3 DEF Types, View, TypeLogin, Type, Draft, KeyboardTo,
     session, maps, network
<1>4. ASSUME TypeJoin(c) PROVE View(d)' = View(d)
  BY <1>4 DEF Types, View, TypeJoin, Type, Ask, Draft, KeyboardTo,
     session, maps, network
<1>5. ASSUME TypeExit(c) PROVE View(d)' = View(d)
  BY <1>5 DEF Types, View, TypeExit, Type, Ask, Draft, KeyboardTo,
     session, maps, network
<1>6. ASSUME TypeLogout(c) PROVE View(d)' = View(d)
  BY <1>6 DEF Types, View, TypeLogout, Type, Ask, Draft, KeyboardTo,
     session, maps, network
<1>7. ASSUME TypeOther(c) PROVE View(d)' = View(d)
  BY <1>7 DEF Types, View, TypeOther, Type, Draft, KeyboardTo,
     session, maps, network
<1>8. ASSUME TypeReport(c) PROVE View(d)' = View(d)
  BY <1>8 DEF Types, View, TypeReport, Type, KeyboardTo,
     session, maps, network
<1>9. ASSUME TypeIgnored(c) PROVE View(d)' = View(d)
  BY <1>9 DEF Types, View, TypeIgnored, vars,
     session, maps, network
<1>10. ASSUME TypeBroken(c) PROVE View(d)' = View(d)
  BY <1>10 DEF Types, View, TypeBroken, Type, End,
     session, maps, network
<1>11. ASSUME InsertRequest(c) PROVE View(d)' = View(d)
  BY <1>11 DEF Types, View, InsertRequest, KeyboardTo,
     session, maps, network
<1>12. ASSUME NextEvent(c) PROVE View(d)' = View(d)
  BY <1>12 DEF Types, View, NextEvent, Draft, KeyboardTo,
     session, maps, network
<1>13. ASSUME EndReport(c) PROVE View(d)' = View(d)
  BY <1>13 DEF Types, View, EndReport, KeyboardTo,
     session, maps, network
<1>14. ASSUME WriteFails(c) PROVE View(d)' = View(d)
  BY <1>14 DEF Types, View, WriteFails, KeyboardTo,
     session, maps, network
<1>15. ASSUME WriteText(c) PROVE View(d)' = View(d)
  BY <1>15 DEF Types, View, WriteText, KeyboardTo,
     session, maps, network
<1>16. ASSUME WriteDelimiter(c) PROVE View(d)' = View(d)
  BY <1>16 DEF Types, View, WriteDelimiter, KeyboardTo,
     session, maps, network
<1>17. ASSUME Receive(c) PROVE View(d)' = View(d)
  BY <1>17 DEF Types, View, Receive, Acknowledged, End,
     session, maps, network
<1>18. ASSUME LookupRaces(c) PROVE View(d)' = View(d)
  BY <1>18 DEF Types, View, LookupRaces, End,
     session, maps, network
<1>19. ASSUME ConnectionLost(c) PROVE View(d)' = View(d)
  BY <1>19 DEF Types, View, ConnectionLost, LeaveLoop,
     session, maps, network
<1>20. ASSUME Terminate(c) PROVE View(d)' = View(d)
  BY <1>20 DEF Types, View, Terminate, End,
     session, maps, network
<1>21. ASSUME Acknowledge(c) PROVE View(d)' = View(d)
  BY <1>21 DEF Types, View, Acknowledge,
     session, maps, network
<1>22. ASSUME PeerMessage(c) PROVE View(d)' = View(d)
  BY <1>22 DEF Types, View, PeerMessage,
     session, maps, network
<1>23. ASSUME PeerClose(c) PROVE View(d)' = View(d)
  BY <1>23 DEF Types, View, PeerClose,
     session, maps, network
<1> QED BY <1>1, <1>2, <1>3, <1>4, <1>5, <1>6, <1>7, <1>8,
     <1>9, <1>10, <1>11, <1>12, <1>13, <1>14, <1>15, <1>16,
     <1>17, <1>18, <1>19, <1>20, <1>21, <1>22, <1>23
     DEF ProcessStep, Command, KeyboardStep, SocketStep, PeerStep

\* A step that neither asks, files, sends nor takes anything.
LEMMA Quiet ==
    ASSUME NEW c \in Clients, Sound(c), proc'[c] # "new",
           keyboard[c] \notin {"insert", "text"}, keyboard'[c] \notin {"insert", "text"},
           recipt'[c] = recipt[c], receiptToOriginalMsg'[c] = receiptToOriginalMsg[c],
           asked'[c] = asked[c], printed'[c] = printed[c], toClient'[c] = toClient[c],
           serverOpen'[c] = serverOpen[c], Out(toServer'[c]) = Out(toServer[c])
    PROVE  Sound(c)'
<1>1. Due(c)' = Due(c)
  BY DEF Due, Pending
<1>2. FiledAsAsked(c)'
  BY DEF Sound, FiledAsAsked
<1>3. Drafted(c)'
  BY DEF Drafted, Pending
<1>4. PrintedAsAsked(c)' /\ Flying(c)'
  BY <1>1 DEF Sound, PrintedAsAsked, Flying
<1> QED BY <1>2, <1>3, <1>4 DEF Sound

\* A text that asks for no receipt is ready.
LEMMA NewText ==
    ASSUME NEW c \in Clients, Sound(c), proc'[c] # "new",
           keyboard[c] \notin {"insert", "text"}, keyboard'[c] = "text",
           draft'[c].request = NoRequest, Number(draft'[c].text) \in {NoNumber, Unread},
           recipt'[c] = recipt[c], receiptToOriginalMsg'[c] = receiptToOriginalMsg[c],
           asked'[c] = asked[c], printed'[c] = printed[c], toClient'[c] = toClient[c],
           serverOpen'[c] = serverOpen[c], toServer'[c] = toServer[c]
    PROVE  Sound(c)'
<1>1. Due(c)' = Due(c) /\ ~Pending(c)'
  BY DEF Due, Pending
<1>2. FiledAsAsked(c)'
  BY DEF Sound, FiledAsAsked
<1>3. Drafted(c)'
  BY <1>1 DEF Drafted
<1>4. PrintedAsAsked(c)' /\ Flying(c)'
  BY <1>1 DEF Sound, PrintedAsAsked, Flying
<1> QED BY <1>2, <1>3, <1>4 DEF Sound

LEMMA AskSound ==
    ASSUME Types, NEW c \in Clients, Sound(c), keyboard[c] = "line", proc'[c] # "new",
           NEW text \in ClientTexts, NEW request \in Requests, Ask(c, text, request),
           request # NoRequest, Number(text) \in {recipt[c], Unread},
           recipt'[c] = recipt[c], receiptToOriginalMsg'[c] = receiptToOriginalMsg[c],
           printed'[c] = printed[c], toClient'[c] = toClient[c],
           serverOpen'[c] = serverOpen[c], toServer'[c] = toServer[c]
    PROVE  Sound(c)'
<1>1. /\ keyboard'[c] = "insert" /\ asked'[c] = Append(asked[c], request)
      /\ draft'[c].text = text /\ draft'[c].request = request
  BY DEF Types, Ask, Draft, KeyboardTo
<1>2. Due(c)' = Due(c) /\ ~Pending(c)' /\ Due(c) = recipt[c]
  BY <1>1 DEF Due, Pending
<1>3. /\ Len(asked[c]) = recipt[c] /\ recipt[c] \in Nat
      /\ Len(asked'[c]) = recipt[c] + 1 /\ asked'[c][recipt[c] + 1] = request
      /\ \A k \in 1 .. recipt[c] : asked'[c][k] = asked[c][k]
  <2>1. asked[c] \in Seq(Requests) /\ Len(asked[c]) = recipt[c] /\ recipt[c] \in Nat
    BY DEF Types, Sound, FiledAsAsked
  <2> QED BY <2>1, <1>1, AppendProperties
<1>4. FiledAsAsked(c)'
  <2>1. \A r \in 0 .. recipt[c] - 1 : r + 1 \in 1 .. recipt[c]
    BY <1>3
  <2> QED BY <2>1, <1>1, <1>3 DEF Sound, FiledAsAsked
<1>5. Drafted(c)'
  BY <1>1, <1>2 DEF Drafted
<1>6. PrintedAsAsked(c)'
  <2>1. Len(printed[c]) <= recipt[c] /\ Len(printed[c]) \in Nat
    BY <1>2, FlightIs DEF Sound, Flying, InFlight, Bounded
  <2>2. \A k \in 1 .. Len(printed[c]) : k \in 1 .. recipt[c]
    BY <2>1, <1>3
  <2> QED BY <2>2, <1>3 DEF Sound, PrintedAsAsked
<1>7. Flying(c)'
  BY <1>2 DEF Sound, Flying
<1> QED BY <1>4, <1>5, <1>6, <1>7 DEF Sound

LEMMA StartSound ==
    ASSUME Types, NEW c \in Clients, Sound(c), Start(c)
    PROVE  Sound(c)'
<1>1. /\ keyboard[c] = "line" /\ recipt[c] = 0 /\ proc'[c] = "running"
      /\ serverOpen'[c] = TRUE
      /\ keyboard'[c] = keyboard[c] /\ draft'[c] = draft[c] /\ recipt'[c] = recipt[c]
      /\ receiptToOriginalMsg'[c] = receiptToOriginalMsg[c] /\ asked'[c] = asked[c]
      /\ printed'[c] = printed[c] /\ toServer'[c] = toServer[c]
      /\ toClient'[c] = toClient[c]
  BY DEF Types, Start, End, Sound, Drafted, maps
<1>2. Due(c) = 0 /\ Due(c)' = 0 /\ ~Pending(c)'
  BY <1>1 DEF Due, Pending
<1>3. FiledAsAsked(c)' /\ PrintedAsAsked(c)'
  BY <1>1 DEF Sound, FiledAsAsked, PrintedAsAsked
<1>4. Drafted(c)'
  BY <1>1, <1>2 DEF Drafted
<1>5. Flying(c)'
  <2>1. Len(printed[c]) .. 0 - 1 = {}
    BY FlightIs
  <2> QED BY <2>1, <1>1, <1>2 DEF Sound, Flying, InFlight, Gapless
<1> QED BY <1>3, <1>4, <1>5 DEF Sound

LEMMA InsertSound ==
    ASSUME Types, NEW c \in Clients, Sound(c), InsertRequest(c)
    PROVE  Sound(c)'
<1> DEFINE r == recipt[c]
<1>1. /\ keyboard[c] = "insert" /\ proc[c] = "running" /\ keyboard'[c] = "text"
      /\ proc'[c] = proc[c] /\ draft'[c] = draft[c] /\ recipt'[c] = r + 1
      /\ asked'[c] = asked[c] /\ printed'[c] = printed[c] /\ toServer'[c] = toServer[c]
      /\ toClient'[c] = toClient[c] /\ serverOpen'[c] = serverOpen[c]
      /\ receiptToOriginalMsg'[c] = Insert(receiptToOriginalMsg[c], r, draft[c].request)
      /\ r \in Nat
  BY DEF Types, InsertRequest, NextReceipt, KeyboardTo, Running, network
<1>2. draft[c].request # NoRequest
  BY <1>1 DEF Sound, Drafted
<1>3. Pending(c)' /\ Due(c)' = Due(c) /\ (r + 1) - 1 = r
  BY <1>1, <1>2 DEF Pending, Due
<1>4. FiledAsAsked(c)'
  <2>1. /\ DOMAIN receiptToOriginalMsg'[c] = DOMAIN receiptToOriginalMsg[c] \cup {r}
        /\ \A k \in DOMAIN receiptToOriginalMsg[c] :
              receiptToOriginalMsg'[c][k] = receiptToOriginalMsg[c][k]
        /\ r \notin DOMAIN receiptToOriginalMsg[c] =>
              receiptToOriginalMsg'[c][r] = draft[c].request
    <3>1. receiptToOriginalMsg'[c] = Insert(receiptToOriginalMsg[c], r, draft[c].request)
      BY <1>1
    <3> HIDE DEF r
    <3> QED BY <3>1 DEF Insert
  <2>2. DOMAIN receiptToOriginalMsg[c] = 0 .. r - 1 /\ r \notin 0 .. r - 1
    BY <1>1 DEF Sound, FiledAsAsked
  <2>3. DOMAIN receiptToOriginalMsg'[c] = 0 .. (r + 1) - 1
    BY <2>1, <2>2, <1>1
  <2>4. \A k \in 0 .. (r + 1) - 1 : k \in 0 .. r - 1 \/ k = r
    BY <1>1
  <2>5. \A k \in 0 .. (r + 1) - 1 : receiptToOriginalMsg'[c][k] = asked[c][k + 1]
    BY <2>1, <2>2, <2>4, <1>1 DEF Sound, FiledAsAsked
  <2> QED BY <2>3, <2>5, <1>1 DEF Sound, FiledAsAsked
<1>5. Drafted(c)'
  BY <1>1, <1>3 DEF Sound, Drafted
<1>6. PrintedAsAsked(c)' /\ Flying(c)'
  BY <1>1, <1>3 DEF Sound, PrintedAsAsked, Flying
<1> QED BY <1>4, <1>5, <1>6 DEF Sound

LEMMA WriteFailsSound ==
    ASSUME Types, NEW c \in Clients, Sound(c), WriteFails(c)
    PROVE  Sound(c)'
<1>1. /\ keyboard[c] \in {"text", "delimiter"} /\ keyboard'[c] \in {"line", "ended"}
      /\ proc'[c] = proc[c] /\ proc[c] = "running" /\ recipt'[c] = recipt[c]
      /\ receiptToOriginalMsg'[c] = receiptToOriginalMsg[c] /\ asked'[c] = asked[c]
      /\ printed'[c] = printed[c] /\ toServer'[c] = toServer[c]
      /\ toClient'[c] = toClient[c] /\ serverOpen'[c] = serverOpen[c]
      /\ serverOpen[c] = FALSE
  BY DEF Types, WriteFails, KeyboardTo, Running, maps, network
<1>2. ~Pending(c)' /\ Due(c)' = recipt[c]
  BY <1>1 DEF Pending, Due
<1>3. Due(c) \in Nat /\ Due(c) <= recipt[c] /\ recipt[c] \in Nat
  BY FlightIs DEF Sound, Drafted, Due
<1>4. Flying(c)'
  BY <1>1, <1>2, <1>3, FlightIs, Filed DEF Sound, Flying
<1>5. FiledAsAsked(c)' /\ PrintedAsAsked(c)'
  BY <1>1 DEF Sound, FiledAsAsked, PrintedAsAsked
<1>6. Drafted(c)'
  BY <1>1, <1>2 DEF Drafted
<1> QED BY <1>4, <1>5, <1>6 DEF Sound

LEMMA WriteTextSound ==
    ASSUME Types, NEW c \in Clients, Sound(c), WriteText(c)
    PROVE  Sound(c)'
<1> DEFINE frame == [text |-> draft[c].text, ended |-> FALSE]
           x == Number(draft[c].text)
<1>1. /\ keyboard[c] = "text" /\ keyboard'[c] = "delimiter"
      /\ proc'[c] = proc[c] /\ proc[c] = "running" /\ recipt'[c] = recipt[c]
      /\ receiptToOriginalMsg'[c] = receiptToOriginalMsg[c] /\ asked'[c] = asked[c]
      /\ printed'[c] = printed[c] /\ toClient'[c] = toClient[c]
      /\ serverOpen'[c] = serverOpen[c]
      /\ toServer'[c] = IF serverOpen[c] THEN Append(toServer[c], frame) ELSE toServer[c]
  BY DEF Types, WriteText, KeyboardTo, Running, maps
<1>2. ~Pending(c)' /\ Due(c)' = recipt[c]
  BY <1>1 DEF Pending, Due
<1>3. /\ Due(c) \in Nat /\ recipt[c] \in Nat /\ recipt[c] \in {Due(c), Due(c) + 1}
      /\ x \in Int
      /\ x >= 0 => x = Due(c) /\ recipt[c] = Due(c) + 1
      /\ recipt[c] = Due(c) + 1 => x = Due(c) \/ x = Unread
  <2>1. recipt[c] \in Nat /\ draft[c].text \in ClientTexts
    BY FlightIs
  <2>2. x \in Int /\ (x >= 0 \/ x = NoNumber \/ x = Unread)
    BY <2>1, ClientNumber
  <2>3. CASE Pending(c)
    BY <2>1, <2>2, <2>3 DEF Sound, Drafted, Due, NoNumber, Unread
  <2>4. CASE ~Pending(c)
    BY <2>1, <2>2, <2>4, <1>1 DEF Sound, Drafted, Due, NoNumber, Unread
  <2> QED BY <2>3, <2>4
<1>4. Flying(c)'
  <2>1. CASE serverOpen[c]
    <3>1. frame \in Written
      BY FlightIs DEF Written
    <3>2. Out(toServer'[c]) = Append(Out(toServer[c]), x)
      BY <2>1, <3>1, <1>1, FlightIs, OutAppend
    <3>3. InFlight(Back(toClient[c]), Out(toServer[c]), Len(printed[c]), Due(c), TRUE)
      BY <2>1, FlightIs DEF Sound, Flying
    <3> HIDE DEF x
    <3> DEFINE b == Back(toClient[c])
               s == Out(toServer[c])
               p == Len(printed[c])
               d == Due(c)
               e == recipt[c]
    <3>4. b \in Seq(Int) /\ s \in Seq(Int) /\ p \in Nat
      BY FlightIs
    <3>5. InFlight(b, Append(s, x), p, e, TRUE)
      <4>1. /\ d \in Nat /\ e \in {d, d + 1} /\ x \in Int
            /\ x >= 0 => x = d /\ e = d + 1
            /\ e = d + 1 => x = d \/ x = Unread
        BY <1>3
      <4>2. InFlight(b, s, p, d, TRUE)
        BY <3>3
      <4> HIDE DEF b, s, p, d, e
      <4> QED BY <3>4, <4>1, <4>2, Write
    <3> QED BY <3>2, <3>5, <2>1, <1>1, <1>2, FlightIs DEF Flying
  <2>2. CASE ~serverOpen[c]
    <3>1. serverOpen[c] = FALSE /\ Due(c) <= recipt[c]
      BY <2>2, <1>3, FlightIs
    <3> QED BY <3>1, <2>2, <1>1, <1>2, <1>3, FlightIs, Filed DEF Sound, Flying
  <2> QED BY <2>1, <2>2
<1>5. FiledAsAsked(c)' /\ PrintedAsAsked(c)'
  BY <1>1 DEF Sound, FiledAsAsked, PrintedAsAsked
<1>6. Drafted(c)'
  BY <1>1, <1>2 DEF Drafted
<1> QED BY <1>4, <1>5, <1>6 DEF Sound

\* A step that only moves texts.
LEMMA Moved ==
    ASSUME NEW c \in Clients, Sound(c), proc'[c] = proc[c] \/ proc'[c] # "new",
           keyboard'[c] = keyboard[c], draft'[c] = draft[c], recipt'[c] = recipt[c],
           receiptToOriginalMsg'[c] = receiptToOriginalMsg[c], asked'[c] = asked[c],
           PrintedAsAsked(c)',
           InFlight(Back(toClient'[c]), Out(toServer'[c]), Len(printed'[c]), Due(c),
                    serverOpen'[c])
    PROVE  Sound(c)'
<1>1. Due(c)' = Due(c) /\ Pending(c)' = Pending(c)
  BY DEF Due, Pending
<1>2. FiledAsAsked(c)'
  BY DEF Sound, FiledAsAsked
<1>3. Drafted(c)'
  BY <1>1 DEF Sound, Drafted
<1>4. Flying(c)'
  BY <1>1 DEF Flying
<1> QED BY <1>2, <1>3, <1>4 DEF Sound

LEMMA TypeLoginSound ==
    ASSUME Types, NEW c \in Clients, Sound(c), TypeLogin(c)
    PROVE  Sound(c)'
<1>1. PICK u \in Users, p \in Passwords :
         draft' = [draft EXCEPT ![c] = [text |-> ConnectFrame(u, p), request |-> NoRequest]]
  BY DEF TypeLogin, Draft
<1>2. Number(ConnectFrame(u, p)) = NoNumber
  BY Numbers
<1>3. draft'[c].request = NoRequest /\ Number(draft'[c].text) = NoNumber
  BY <1>1, <1>2 DEF Types
<1>4. /\ proc' = proc /\ proc[c] = "running" /\ keyboard[c] = "line" /\ keyboard'[c] = "text"
      /\ recipt' = recipt /\ receiptToOriginalMsg' = receiptToOriginalMsg
      /\ asked' = asked /\ printed' = printed /\ toClient' = toClient
      /\ serverOpen' = serverOpen /\ toServer' = toServer
  BY DEF Types, TypeLogin, Type, KeyboardTo, Running, maps, network
<1> QED BY <1>3, <1>4, NewText

LEMMA TypeOtherSound ==
    ASSUME Types, NEW c \in Clients, Sound(c), TypeOther(c)
    PROVE  Sound(c)'
<1>1. draft'[c].request = NoRequest /\ Number(draft'[c].text) = Unread
  BY Numbers DEF Types, TypeOther, Draft
<1>2. /\ proc' = proc /\ proc[c] = "running" /\ keyboard[c] = "line" /\ keyboard'[c] = "text"
      /\ recipt' = recipt /\ receiptToOriginalMsg' = receiptToOriginalMsg
      /\ asked' = asked /\ printed' = printed /\ toClient' = toClient
      /\ serverOpen' = serverOpen /\ toServer' = toServer
  BY DEF Types, TypeOther, Type, KeyboardTo, Running, maps, network
<1> QED BY <1>1, <1>2, NewText

LEMMA NextEventSound ==
    ASSUME Types, Named, NEW c \in Clients, Sound(c), NextEvent(c)
    PROVE  Sound(c)'
<1>1. report[c].game \in Games
  BY DEF NextEvent, Named, InReport, NoReport
<1>2. Number(SendFrame(username[c], report[c].game)) = NoNumber
  BY <1>1, Numbers
<1>3. draft'[c].request = NoRequest /\ Number(draft'[c].text) = NoNumber
  BY <1>2 DEF Types, NextEvent, Draft
<1>4. /\ proc' = proc /\ proc[c] = "running" /\ keyboard[c] = "report" /\ keyboard'[c] = "text"
      /\ recipt' = recipt /\ receiptToOriginalMsg' = receiptToOriginalMsg
      /\ asked' = asked /\ printed' = printed /\ toClient' = toClient
      /\ serverOpen' = serverOpen /\ toServer' = toServer
  BY DEF Types, NextEvent, KeyboardTo, Running, maps, network
<1> QED BY <1>3, <1>4, NewText

LEMMA TypeJoinSound ==
    ASSUME Types, Counted, NEW c \in Clients, Sound(c), TypeJoin(c)
    PROVE  Sound(c)'
<1>1. PICK g \in Games :
         LET known == g \in DOMAIN channeltoUniqueID[c]
             i == IF known THEN channeltoUniqueID[c][g] ELSE id[c] IN
         Ask(c, SubscribeFrame(g, i, recipt[c]), Request("SUBSCRIBE", g))
  BY DEF TypeJoin
<1> DEFINE known == g \in DOMAIN channeltoUniqueID[c]
           i == IF known THEN channeltoUniqueID[c][g] ELSE id[c]
           text == SubscribeFrame(g, i, recipt[c])
<1>2. Ask(c, text, Request("SUBSCRIBE", g))
  BY <1>1
<1>3. i \in LineNumbers /\ recipt[c] \in LineNumbers
  BY MapsElements, TypeCounts DEF Types, TypeJoin
<1> HIDE DEF i
<1>4. text \in ClientTexts /\ Number(text) = recipt[c]
  BY <1>3, Numbers, LineNumbersAreNat DEF ClientTexts
<1>5. Request("SUBSCRIBE", g) \in Requests /\ Request("SUBSCRIBE", g) # NoRequest
  BY RequestIs
<1>6. /\ proc' = proc /\ proc[c] = "running" /\ keyboard[c] = "line"
      /\ recipt' = recipt /\ receiptToOriginalMsg' = receiptToOriginalMsg
      /\ printed' = printed /\ toClient' = toClient
      /\ serverOpen' = serverOpen /\ toServer' = toServer
  BY DEF Types, TypeJoin, Type, Running, network
<1> HIDE DEF text
<1> QED BY <1>2, <1>4, <1>5, <1>6, AskSound

LEMMA TypeExitSound ==
    ASSUME Types, Counted, NEW c \in Clients, Sound(c), TypeExit(c)
    PROVE  Sound(c)'
<1>1. PICK g \in Games :
         Ask(c, UnsubscribeFrame(IdOf(channeltoUniqueID[c], g), recipt[c]),
                Request("UNSUBSCRIBE", g))
  BY DEF TypeExit
<1> DEFINE i == IdOf(channeltoUniqueID[c], g)
           text == UnsubscribeFrame(i, recipt[c])
<1>2. Ask(c, text, Request("UNSUBSCRIBE", g))
  BY <1>1
<1>3. i \in LineNumbers /\ recipt[c] \in LineNumbers
  <2>1. recipt[c] \in LineNumbers /\ 0 \in LineNumbers
    BY TypeCounts DEF TypeExit
  <2>2. channeltoUniqueID[c] \in Maps(Games, LineNumbers)
    BY DEF Types
  <2>3. Insert(channeltoUniqueID[c], g, 0) \in Maps(Games, LineNumbers)
    BY <2>1, <2>2, InsertIs
  <2>4. g \in DOMAIN Insert(channeltoUniqueID[c], g, 0)
    BY DEF Insert
  <2> QED BY <2>1, <2>3, <2>4, MapsElements DEF IdOf
<1> HIDE DEF i
<1>4. text \in ClientTexts /\ Number(text) = recipt[c]
  BY <1>3, Numbers, LineNumbersAreNat DEF ClientTexts
<1>5. Request("UNSUBSCRIBE", g) \in Requests /\ Request("UNSUBSCRIBE", g) # NoRequest
  BY RequestIs
<1>6. /\ proc' = proc /\ proc[c] = "running" /\ keyboard[c] = "line"
      /\ recipt' = recipt /\ receiptToOriginalMsg' = receiptToOriginalMsg
      /\ printed' = printed /\ toClient' = toClient
      /\ serverOpen' = serverOpen /\ toServer' = toServer
  BY DEF Types, TypeExit, Type, Running, network
<1> HIDE DEF text
<1> QED BY <1>2, <1>4, <1>5, <1>6, AskSound

LEMMA TypeLogoutSound ==
    ASSUME Types, Counted, NEW c \in Clients, Sound(c), TypeLogout(c)
    PROVE  Sound(c)'
<1> DEFINE text == LogoutFrame(recipt[c])
<1>1. Ask(c, text, Request("DISCONNECT", Null))
  BY DEF TypeLogout
<1>2. text \in ClientTexts /\ Number(text) = Unread
  BY Numbers, TypeCounts DEF TypeLogout, ClientTexts
<1>3. Request("DISCONNECT", Null) \in Requests /\ Request("DISCONNECT", Null) # NoRequest
  BY RequestIs
<1>4. /\ proc' = proc /\ proc[c] = "running" /\ keyboard[c] = "line"
      /\ recipt' = recipt /\ receiptToOriginalMsg' = receiptToOriginalMsg
      /\ printed' = printed /\ toClient' = toClient
      /\ serverOpen' = serverOpen /\ toServer' = toServer
  BY DEF Types, TypeLogout, Type, Running, maps, network
<1> HIDE DEF text
<1> QED BY <1>1, <1>2, <1>3, <1>4, AskSound

\* The steps that leave the requests and the texts alone.
LEMMA QuietSound ==
    ASSUME Types, NEW c \in Clients, Sound(c),
           TypeReport(c) \/ EndReport(c) \/ WriteDelimiter(c)
    PROVE  Sound(c)'
<1>1. /\ recipt'[c] = recipt[c] /\ receiptToOriginalMsg'[c] = receiptToOriginalMsg[c]
      /\ asked'[c] = asked[c] /\ printed'[c] = printed[c] /\ toClient'[c] = toClient[c]
      /\ serverOpen'[c] = serverOpen[c]
  BY DEF TypeReport, EndReport, WriteDelimiter, maps, network
<1>2. Out(toServer'[c]) = Out(toServer[c])
  <2>1. CASE WriteDelimiter(c) /\ serverOpen[c]
    <3>1. toServer'[c] = Ended(toServer[c]) /\ toServer[c] \in Seq(Written)
      BY <2>1 DEF Types, WriteDelimiter
    <3> QED BY <3>1, OutEnded
  <2>2. CASE ~(WriteDelimiter(c) /\ serverOpen[c])
    BY <2>2 DEF TypeReport, EndReport, WriteDelimiter, network
  <2> QED BY <2>1, <2>2
<1>3. proc'[c] # "new"
  BY DEF TypeReport, Type, EndReport, WriteDelimiter, Running
<1>4. keyboard[c] \notin {"insert", "text"} /\ keyboard'[c] \notin {"insert", "text"}
  BY DEF Types, TypeReport, Type, EndReport, WriteDelimiter, KeyboardTo
<1> QED BY <1>1, <1>2, <1>3, <1>4, Quiet

LEMMA EndSound ==
    ASSUME Types, NEW c \in Clients, Sound(c),
           Refused(c) \/ TypeBroken(c) \/ LookupRaces(c) \/ Terminate(c)
    PROVE  Sound(c)'
<1>1. /\ keyboard' = keyboard /\ draft' = draft /\ recipt' = recipt
      /\ receiptToOriginalMsg' = receiptToOriginalMsg /\ asked' = asked
      /\ printed' = printed /\ toClient' = toClient /\ toServer' = toServer
      /\ serverOpen' = serverOpen
  BY DEF Refused, TypeBroken, LookupRaces, Terminate, maps, network
<1>2. proc'[c] # "new"
  BY DEF Types, Refused, TypeBroken, LookupRaces, Terminate, End
<1>3. PrintedAsAsked(c)'
  BY <1>1 DEF Sound, PrintedAsAsked
<1>4. InFlight(Back(toClient'[c]), Out(toServer'[c]), Len(printed'[c]), Due(c),
               serverOpen'[c])
  BY <1>1 DEF Sound, Flying
<1> QED BY <1>1, <1>2, <1>3, <1>4, Moved

LEMMA UnchangedSound ==
    ASSUME NEW c \in Clients, Sound(c), ConnectionLost(c) \/ UNCHANGED vars
    PROVE  Sound(c)'
<1>1. View(c)' = View(c)
  BY DEF View, ConnectionLost, vars, maps, network, session
<1> QED BY <1>1, SoundSame

LEMMA PeerMessageSound ==
    ASSUME Types, NEW c \in Clients, Sound(c), PeerMessage(c)
    PROVE  Sound(c)'
<1>1. PICK i \in 0 .. MaxLines, g \in Games :
         toClient' = [toClient EXCEPT ![c] = Append(@, MessageFrame(i, g))]
  BY DEF PeerMessage
<1>2. MessageFrame(i, g) \in ServerTexts /\ NumberBack(MessageFrame(i, g)) = NoNumber
  BY NumbersBack, ClientAssumption DEF ClientAssumption, ServerTexts
<1>3. Back(toClient'[c]) = Append(Back(toClient[c]), NoNumber)
  BY <1>1, <1>2, BackAppend DEF Types
<1>4. /\ proc' = proc /\ keyboard' = keyboard /\ draft' = draft /\ recipt' = recipt
      /\ receiptToOriginalMsg' = receiptToOriginalMsg /\ asked' = asked
      /\ printed' = printed /\ toServer' = toServer /\ serverOpen' = serverOpen
  BY DEF PeerMessage, maps
<1>5. Due(c) \in Nat
  BY FlightIs DEF Sound, Drafted, Due
<1>6. InFlight(Append(Back(toClient[c]), NoNumber), Out(toServer[c]), Len(printed[c]),
               Due(c), serverOpen[c])
  BY <1>5, FlightIs, Sent DEF Sound, Flying
<1>7. PrintedAsAsked(c)'
  BY <1>4 DEF Sound, PrintedAsAsked
<1> QED BY <1>3, <1>4, <1>6, <1>7, Moved

LEMMA PeerCloseSound ==
    ASSUME Types, NEW c \in Clients, Sound(c), PeerClose(c)
    PROVE  Sound(c)'
<1>1. Out(toServer'[c]) = << >> /\ serverOpen'[c] = FALSE
  BY NoneFlies DEF Types, PeerClose
<1>2. /\ proc' = proc /\ keyboard' = keyboard /\ draft' = draft /\ recipt' = recipt
      /\ receiptToOriginalMsg' = receiptToOriginalMsg /\ asked' = asked
      /\ printed' = printed /\ toClient' = toClient
  BY DEF PeerClose, maps
<1>3. InFlight(Back(toClient[c]), << >>, Len(printed[c]), Due(c), FALSE)
  BY Closed DEF Sound, Flying
<1>4. PrintedAsAsked(c)'
  BY <1>2 DEF Sound, PrintedAsAsked
<1> QED BY <1>1, <1>2, <1>3, <1>4, Moved

LEMMA AcknowledgeSound ==
    ASSUME Types, NEW c \in Clients, Sound(c), Acknowledge(c)
    PROVE  Sound(c)'
<1> DEFINE text == Head(toServer[c]).text
           s == Out(toServer[c])
           b == Back(toClient[c])
<1>1. /\ toServer[c] \in Seq(Written) /\ toServer[c] # << >>
      /\ toClient[c] \in Seq(ServerTexts) /\ JavaParses(text)
      /\ toServer'[c] = Tail(toServer[c])
      /\ toClient'[c] = toClient[c] \o Reply(text)
  BY DEF Types, Acknowledge, HasFrame
<1>2. text \in ClientTexts
  <2>1. Head(toServer[c]) \in Written
    BY <1>1, HeadTailProperties
  <2> QED BY <2>1 DEF Written
<1>3. /\ proc' = proc /\ keyboard' = keyboard /\ draft' = draft /\ recipt' = recipt
      /\ receiptToOriginalMsg' = receiptToOriginalMsg /\ asked' = asked
      /\ printed' = printed /\ serverOpen' = serverOpen
  BY DEF Acknowledge, maps
<1>4. Out(toServer'[c]) = Tail(s) /\ s # << >> /\ s[1] = Number(text)
  BY <1>1, OutTail
<1>5. s[1] # Unread /\ (s[1] >= 0 \/ s[1] = NoNumber)
  BY <1>1, <1>2, <1>4, ClientNumber
<1>6. Due(c) \in Nat
  BY FlightIs DEF Sound, Drafted, Due
<1>7. /\ InFlight(Append(b, s[1]), Tail(s), Len(printed[c]), Due(c), serverOpen[c])
      /\ s[1] = NoNumber => InFlight(b, Tail(s), Len(printed[c]), Due(c), serverOpen[c])
  <2>1. /\ b \in Seq(Int) /\ s \in Seq(Int) /\ Len(printed[c]) \in Nat
        /\ serverOpen[c] \in BOOLEAN
        /\ InFlight(b, s, Len(printed[c]), Due(c), serverOpen[c])
    BY FlightIs DEF Sound, Flying
  <2> HIDE DEF b, s
  <2> QED BY <2>1, <1>4, <1>5, <1>6, Answered
<1>8. \/ Back(toClient'[c]) = Append(b, s[1])
      \/ s[1] = NoNumber /\ Back(toClient'[c]) = b
  <2>1. CASE Number(text) \in Nat /\ Reply(text) = <<ReceiptFrame(Number(text))>>
    <3>1. /\ ReceiptFrame(Number(text)) \in ServerTexts
          /\ NumberBack(ReceiptFrame(Number(text))) = Number(text)
      BY <2>1, NumbersBack DEF ServerTexts
    <3>2. toClient'[c] = Append(toClient[c], ReceiptFrame(Number(text)))
      BY <2>1, <3>1, <1>1, AppendIsConcat
    <3> QED BY <3>1, <3>2, <1>1, <1>4, BackAppend
  <2>2. CASE Number(text) = NoNumber /\ Reply(text) = <<ConnectedFrame>>
    <3>1. ConnectedFrame \in ServerTexts /\ NumberBack(ConnectedFrame) = NoNumber
      BY NumbersBack DEF ServerTexts
    <3>2. toClient'[c] = Append(toClient[c], ConnectedFrame)
      BY <2>2, <3>1, <1>1, AppendIsConcat
    <3> QED BY <2>2, <3>1, <3>2, <1>1, <1>4, BackAppend
  <2>3. CASE Number(text) = NoNumber /\ Reply(text) = << >>
    <3>1. toClient'[c] = toClient[c]
      BY <2>3, <1>1, ConcatEmptySeq
    <3> QED BY <2>3, <3>1, <1>4
  <2> HIDE DEF text
  <2> QED BY <2>1, <2>2, <2>3, <1>1, <1>2, ReplyIs
<1>9. InFlight(Back(toClient'[c]), Out(toServer'[c]), Len(printed'[c]), Due(c),
               serverOpen'[c])
  BY <1>3, <1>4, <1>7, <1>8
<1>10. PrintedAsAsked(c)'
  BY <1>3 DEF Sound, PrintedAsAsked
<1> QED BY <1>3, <1>9, <1>10, Moved

\* The receipt that comes is that of the first request that is not printed.
LEMMA ReceiveSound ==
    ASSUME Types, NEW c \in Clients, Sound(c), Receive(c)
    PROVE  Sound(c)'
<1> DEFINE head == Head(toClient[c])
           text == DropLast(head)
           b == Back(toClient[c])
           s == Out(toServer[c])
           p == Len(printed[c])
<1>1. /\ toClient[c] \in Seq(ServerTexts) /\ toClient[c] # << >>
      /\ toClient'[c] = Tail(toClient[c])
  BY DEF Types, Receive
<1>2. head \in ServerTexts
  BY <1>1, HeadTailProperties
<1>3. /\ keyboard' = keyboard /\ draft' = draft /\ recipt' = recipt
      /\ receiptToOriginalMsg' = receiptToOriginalMsg /\ asked' = asked
      /\ toServer' = toServer /\ serverOpen' = serverOpen
  BY DEF Receive, maps
<1>4. Back(toClient'[c]) = Tail(b) /\ b # << >> /\ b[1] = NumberBack(head)
  BY <1>1, BackTail
<1>5. /\ b \in Seq(Int) /\ s \in Seq(Int) /\ p \in Nat /\ serverOpen[c] \in BOOLEAN
      /\ Due(c) \in Nat /\ recipt[c] \in Nat /\ Due(c) <= recipt[c]
  BY FlightIs DEF Sound, Drafted, Due
<1>6. /\ b[1] < 0 => InFlight(Tail(b), s, p, Due(c), serverOpen[c])
      /\ b[1] >= 0 => /\ b[1] = p /\ p < Due(c)
                      /\ InFlight(Tail(b), s, p + 1, Due(c), serverOpen[c])
  <2>1. InFlight(b, s, p, Due(c), serverOpen[c])
    BY DEF Sound, Flying
  <2> HIDE DEF b, s, p
  <2> QED BY <2>1, <1>4, <1>5, Taken
<1>7. CppParses(text)
  BY <1>2, ServerNumber
<1>8. CASE CppCommand(text) # "RECEIPT"
  <2>1. b[1] = NoNumber /\ NoNumber < 0
    BY <1>2, <1>4, <1>8, ServerNumber DEF NoNumber
  <2>2. proc' = proc /\ printed' = printed
    BY <1>7, <1>8 DEF Receive
  <2>3. PrintedAsAsked(c)'
    BY <2>2, <1>3 DEF Sound, PrintedAsAsked
  <2>4. InFlight(Back(toClient'[c]), Out(toServer'[c]), Len(printed'[c]), Due(c),
                 serverOpen'[c])
    BY <2>1, <2>2, <1>3, <1>4, <1>6
  <2> QED BY <2>2, <2>3, <2>4, <1>3, Moved
<1>9. CASE CppCommand(text) = "RECEIPT"
  <2>1. /\ CppGet(text, "receipt-id") = p /\ p < Due(c)
        /\ InFlight(Tail(b), s, p + 1, Due(c), serverOpen[c])
    <3>1. NumberBack(head) = CppGet(text, "receipt-id") /\ NumberBack(head) >= 0
      BY <1>2, <1>9, ServerNumber
    <3>2. b[1] = CppGet(text, "receipt-id") /\ b[1] >= 0
      BY <3>1, <1>4
    <3> QED BY <3>2, <1>6
  <2>2. p \in DOMAIN receiptToOriginalMsg[c] /\ receiptToOriginalMsg[c][p] = asked[c][p + 1]
    <3>1. FiledAsAsked(c)
      BY DEF Sound
    <3>2. p \in 0 .. Due(c) - 1
      <4> HIDE DEF p
      <4> QED BY <2>1, <1>5
    <3> HIDE DEF p
    <3> QED BY <3>1, <3>2, <1>5 DEF FiledAsAsked
  <2>3. Acknowledged(c, p)
    BY <2>1, <1>7, <1>9 DEF Receive
  <2>4. proc' = proc /\ printed'[c] = Append(printed[c], asked[c][p + 1])
    <3>1. c \in DOMAIN printed
      BY DEF Types
    <3>2. printed' = [printed EXCEPT ![c] = Append(@, receiptToOriginalMsg[c][p])]
      BY <2>2, <2>3 DEF Acknowledged
    <3>3. proc' = proc
      BY <2>2, <2>3 DEF Acknowledged
    <3> QED BY <3>1, <3>2, <3>3, <2>2
  <2>5. /\ Len(printed'[c]) = p + 1 /\ printed'[c][p + 1] = asked[c][p + 1]
        /\ \A k \in 1 .. p : printed'[c][k] = printed[c][k]
    <3>1. printed[c] \in Seq(Requests) /\ asked[c][p + 1] \in Requests
      BY <2>2, MapsElements DEF Types
    <3> QED BY <3>1, <2>4, AppendProperties
  <2>6. PrintedAsAsked(c)'
    <3>1. \A k \in 1 .. p + 1 : k \in 1 .. p \/ k = p + 1
      BY <1>5
    <3> QED BY <3>1, <2>5, <1>3 DEF Sound, PrintedAsAsked
  <2>7. InFlight(Back(toClient'[c]), Out(toServer'[c]), Len(printed'[c]), Due(c),
                 serverOpen'[c])
    BY <2>1, <2>5, <1>3, <1>4
  <2> QED BY <2>4, <2>6, <2>7, <1>3, Moved
<1> QED BY <1>8, <1>9

LEMMA InvInit == Init => Inv
  BY TypesInit, SoundInit DEF Inv

LEMMA InvStep == Inv /\ [Next]_vars => Inv'
<1> SUFFICES ASSUME Inv, [Next]_vars PROVE Inv'
  OBVIOUS
<1>1. Types /\ Named /\ Counted /\ \A c \in Clients : Sound(c)
  BY DEF Inv
<1>2. Types' /\ Named' /\ Counted'
  BY <1>1, TypesStep, CountedStep
<1>3. ASSUME UNCHANGED vars, NEW c \in Clients PROVE Sound(c)'
  BY <1>1, <1>3, UnchangedSound
<1>4. ASSUME NEW c \in Clients, ProcessStep(c) \/ PeerStep(c) PROVE Sound(c)'
  <2>1. CASE TypeIgnored(c)
    BY <2>1, <1>3 DEF TypeIgnored
  <2>2. CASE ~TypeIgnored(c)
    BY <2>2, <1>1, <1>4, StartSound, TypeLoginSound, TypeJoinSound, TypeExitSound,
       TypeLogoutSound, TypeOtherSound, InsertSound, NextEventSound, WriteFailsSound,
       WriteTextSound, QuietSound, EndSound, UnchangedSound, ReceiveSound, AcknowledgeSound,
       PeerMessageSound, PeerCloseSound
       DEF ProcessStep, Command, KeyboardStep, SocketStep, PeerStep
  <2> QED BY <2>1, <2>2
<1>5. ASSUME NEW c \in Clients, ProcessStep(c) \/ PeerStep(c),
             NEW d \in Clients, d # c
      PROVE  Sound(d)'
  BY <1>1, <1>5, OthersSame, SoundSame
<1>6. \A c \in Clients : Sound(c)'
  BY <1>3, <1>4, <1>5 DEF Next
<1> QED BY <1>2, <1>6 DEF Inv

----------------------------------------------------------------------------
(* What the invariant gives.                                               *)

LEMMA InvTypeOK == Inv => TypeOK
<1> SUFFICES ASSUME Inv PROVE TypeOK
  OBVIOUS
<1>1. Types
  BY DEF Inv
<1>2. ASSUME NEW c \in Clients
      PROVE  /\ PartialMap(channeltoUniqueID[c], Games, Nat)
             /\ PartialMap(receiptToOriginalMsg[c], 0 .. recipt[c] - 1, Requests)
             /\ DOMAIN saved[c] \subseteq Users
             /\ \A u \in DOMAIN saved[c] : PartialMap(saved[c][u], Games, {0, 1})
             /\ draft[c].request \in Requests
  <2>1. PartialMap(channeltoUniqueID[c], Games, Nat)
    <3>1. channeltoUniqueID[c] \in Maps(Games, LineNumbers)
      BY <1>1 DEF Types
    <3> QED BY <3>1, MapsElements, LineNumbersAreNat DEF PartialMap
  <2>2. PartialMap(receiptToOriginalMsg[c], 0 .. recipt[c] - 1, Requests)
    <3>1. DOMAIN receiptToOriginalMsg[c] = 0 .. recipt[c] - 1
      BY DEF Inv, Sound, FiledAsAsked
    <3> QED BY <3>1, <1>1, MapsElements DEF Types, PartialMap
  <2>3. /\ DOMAIN saved[c] \subseteq Users
        /\ \A u \in DOMAIN saved[c] : saved[c][u] \in Maps(Games, {0, 1})
    BY <1>1, MapsElements DEF Types
  <2>4. \A u \in DOMAIN saved[c] : PartialMap(saved[c][u], Games, {0, 1})
    BY <2>3, MapsElements DEF PartialMap
  <2>5. draft[c].request \in Requests
    BY <1>1, FlightIs
  <2> QED BY <2>1, <2>2, <2>3, <2>4, <2>5
<1> QED BY <1>1, <1>2 DEF Types, TypeOK, Steps

LEMMA InvReceiptKnown == Inv => ReceiptKnown
<1> SUFFICES ASSUME Inv, NEW c \in Clients, NEW k \in 1 .. Len(toClient[c]),
                    CppCommand(DropLast(toClient[c][k])) = "RECEIPT"
             PROVE  CppGet(DropLast(toClient[c][k]), "receipt-id")
                       \in DOMAIN receiptToOriginalMsg[c]
  BY DEF ReceiptKnown
<1> DEFINE text == toClient[c][k]
           n == NumberBack(text)
<1>1. Types /\ Sound(c)
  BY DEF Inv
<1>2. toClient[c] \in Seq(ServerTexts) /\ text \in ServerTexts
  BY <1>1, FlightIs, ElementOfSeq
<1>3. n \in Int /\ n >= 0 /\ CppGet(DropLast(text), "receipt-id") = n
  BY <1>2, ServerNumber
<1>4. Back(toClient[c])[k] = n /\ k \in 1 .. Len(Back(toClient[c]))
  BY <1>2, BackIs
<1>5. n < Due(c)
  BY <1>1, <1>3, <1>4 DEF Sound, Flying, InFlight, Bounded
<1>6. recipt[c] \in Nat /\ Due(c) <= recipt[c] /\ Due(c) \in Int
  BY <1>1, FlightIs DEF Due
<1> HIDE DEF n
<1>7. n \in 0 .. recipt[c] - 1
  BY <1>3, <1>5, <1>6
<1> QED BY <1>1, <1>3, <1>7 DEF Sound, FiledAsAsked

LEMMA InvAnswersMatchRequests == Inv => AnswersMatchRequests
<1> SUFFICES ASSUME Inv, NEW c \in Clients PROVE IsPrefix(printed[c], asked[c])
  BY DEF AnswersMatchRequests
<1>1. Types /\ Sound(c)
  BY DEF Inv
<1>2. /\ printed[c] \in Seq(Requests) /\ asked[c] \in Seq(Requests)
      /\ recipt[c] \in Nat /\ Len(printed[c]) \in Nat /\ Len(asked[c]) \in Nat
  BY <1>1, FlightIs DEF Types
<1>3. Len(printed[c]) <= Len(asked[c])
  <2>1. Len(printed[c]) <= Due(c) /\ Due(c) <= recipt[c] /\ Due(c) \in Int
    BY <1>1, <1>2 DEF Sound, Flying, InFlight, Bounded, Due
  <2>2. recipt[c] <= Len(asked[c])
    BY <1>1, <1>2 DEF Sound, FiledAsAsked
  <2> QED BY <2>1, <2>2, <1>2
<1>4. \A k \in 1 .. Len(printed[c]) : printed[c][k] = asked[c][k]
  BY <1>1 DEF Sound, PrintedAsAsked
<1> DEFINE n == Len(printed[c])
           a == SubSeq(printed[c], 1, n)
           b == SubSeq(asked[c], 1, n)
<1>5. /\ a \in Seq(Requests) /\ Len(a) = n /\ \A k \in 1 .. n : a[k] = printed[c][k]
      /\ b \in Seq(Requests) /\ Len(b) = n /\ \A k \in 1 .. n : b[k] = asked[c][k]
  BY <1>2, <1>3, SubSeqProperties
<1>6. a = b
  <2> HIDE DEF a, b
  <2> QED BY <1>4, <1>5, SeqEqual
<1> QED BY <1>2, <1>3, <1>6 DEF IsPrefix

LEMMA Invariance == Spec => []Inv
  BY InvInit, InvStep, PTL DEF Spec

\* Every variable of the client keeps the range of its C++ counterpart, and the
\* map of requests holds exactly numbers that were used.
THEOREM ClientTypesHold == Spec => []TypeOK
  BY Invariance, InvTypeOK, PTL

\* Whatever the two threads, the network and the server do, a receipt on its way
\* names a request that the map holds: processServerMessage finds it, unless its
\* lookup runs into an insert of the keyboard thread (LookupRaces).
THEOREM ReceiptsAreKnown == Spec => []ReceiptKnown
  BY Invariance, InvReceiptKnown, PTL

\* What the socket thread has printed is a prefix of what the user asked for, for
\* any number of requests, any server and any schedule of the threads.
THEOREM AnswersFollowRequests == Spec => []AnswersMatchRequests
  BY Invariance, InvAnswersMatchRequests, PTL

----------------------------------------------------------------------------
(* What the requests become in the texts.  This is about the requests and  *)
(* the subscription ids of a client, and holds beside Inv.                 *)

\* The text of request q, for the game with id i, under number r.
Wording(q, i, r) ==
    IF q.command = "SUBSCRIBE" THEN SubscribeFrame(q.game, i, r) ELSE UnsubscribeFrame(i, r)

\* A text with number r is that of the request that was asked then, of those in
\* a, with the id that its game still has in ids.
Phrased(a, ids, text) ==
    LET r == Number(text)
        q == a[r + 1] IN
    r >= 0 =>
        /\ r + 1 \in 1 .. Len(a)
        /\ q \in {Request("SUBSCRIBE", q.game), Request("UNSUBSCRIBE", q.game)}
        /\ q.game \in Games /\ q.game \in DOMAIN ids
        /\ text = Wording(q, ids[q.game], r)

\* The request that is just being sent was asked last.
LastAsked(c) ==
    (keyboard[c] = "insert" \/ Pending(c)) /\ Number(draft[c].text) = Unread =>
        asked[c][Len(asked[c])].game = Null

Worded(c) ==
    /\ \A k \in 1 .. Len(toServer[c]) :
          Phrased(asked[c], channeltoUniqueID[c], toServer[c][k].text)
    /\ keyboard[c] \in {"insert", "text"} =>
          Phrased(asked[c], channeltoUniqueID[c], draft[c].text)
    /\ LastAsked(c)

\* A user who joins what he is not in and exits what he is in.
Careful(c) == \A k \in 1 .. Len(asked[c]) : Sensible(c, k)

\* His games have ids of their own: TypeExit makes no entry for him.
Distinct(c) ==
    Careful(c) =>
        /\ \A g \in DOMAIN channeltoUniqueID[c] : channeltoUniqueID[c][g] < id[c]
        /\ \A g, h \in DOMAIN channeltoUniqueID[c] :
              channeltoUniqueID[c][g] = channeltoUniqueID[c][h] => g = h
        /\ \A k \in 1 .. Len(asked[c]) :
              asked[c][k].command = "SUBSCRIBE" =>
                  asked[c][k].game \in DOMAIN channeltoUniqueID[c]

LEMMA JoinedSame ==
    ASSUME NEW a, NEW b, NEW n, NEW g, \A k \in 1 .. n : b[k] = a[k], n \in Nat
    PROVE  Joined(b, n, g) <=> Joined(a, n, g)
<1>1. \A k \in 1 .. n : \A j \in k + 1 .. n : j \in 1 .. n
  OBVIOUS
<1> QED BY <1>1 DEF Joined

\* Requests about other games do not matter.
LEMMA JoinedSkip ==
    ASSUME NEW a, NEW m \in Nat, NEW n \in Nat, m <= n, NEW g,
           \A k \in m + 1 .. n : a[k].game # g
    PROVE  Joined(a, n, g) <=> Joined(a, m, g)
<1>1. ASSUME Joined(a, n, g) PROVE Joined(a, m, g)
  <2>1. PICK k \in 1 .. n : /\ a[k] = Request("SUBSCRIBE", g)
                            /\ \A j \in k + 1 .. n : a[j].game # g
    BY <1>1 DEF Joined
  <2>2. a[k].game = g
    BY <2>1 DEF Request
  <2>3. k \in 1 .. m
    BY <2>2
  <2>4. \A j \in k + 1 .. m : j \in k + 1 .. n
    BY <2>3
  <2> QED BY <2>1, <2>3, <2>4 DEF Joined
<1>2. ASSUME Joined(a, m, g) PROVE Joined(a, n, g)
  <2>1. PICK k \in 1 .. m : /\ a[k] = Request("SUBSCRIBE", g)
                            /\ \A j \in k + 1 .. m : a[j].game # g
    BY <1>2 DEF Joined
  <2>2. \A j \in k + 1 .. n : j \in k + 1 .. m \/ j \in m + 1 .. n
    BY <2>1
  <2>3. k \in 1 .. n
    BY <2>1
  <2> QED BY <2>1, <2>2, <2>3 DEF Joined
<1> QED BY <1>1, <1>2

\* One request more.
LEMMA JoinedNext ==
    ASSUME NEW a, NEW n \in Nat, NEW g, NEW h
    PROVE  /\ a[n + 1] = Request("SUBSCRIBE", g) => Joined(a, n + 1, g)
           /\ a[n + 1] = Request("UNSUBSCRIBE", g) => ~Joined(a, n + 1, g)
           /\ a[n + 1].game # h => (Joined(a, n + 1, h) <=> Joined(a, n, h))
<1>1. ASSUME a[n + 1] = Request("SUBSCRIBE", g) PROVE Joined(a, n + 1, g)
  <2>1. n + 1 \in 1 .. n + 1 /\ (n + 1) + 1 .. n + 1 = {}
    OBVIOUS
  <2> QED BY <1>1, <2>1 DEF Joined
<1>2. ASSUME a[n + 1] = Request("UNSUBSCRIBE", g), Joined(a, n + 1, g) PROVE FALSE
  <2>1. PICK k \in 1 .. n + 1 : /\ a[k] = Request("SUBSCRIBE", g)
                                /\ \A j \in k + 1 .. n + 1 : a[j].game # g
    BY <1>2 DEF Joined
  <2>2. CASE k = n + 1
    BY <1>2, <2>1, <2>2 DEF Request
  <2>3. CASE k # n + 1
    <3>1. n + 1 \in k + 1 .. n + 1
      BY <2>1, <2>3
    <3> QED BY <1>2, <2>1, <3>1 DEF Request
  <2> QED BY <2>2, <2>3
<1>3. ASSUME a[n + 1].game # h PROVE Joined(a, n + 1, h) <=> Joined(a, n, h)
  <2>1. \A k \in n + 1 .. n + 1 : a[k].game # h
    BY <1>3
  <2>2. n + 1 \in Nat /\ n <= n + 1
    OBVIOUS
  <2> QED BY <2>1, <2>2, JoinedSkip
<1> QED BY <1>1, <1>2, <1>3

LEMMA PhrasedKept ==
    ASSUME NEW a \in Seq(Requests), NEW b \in Seq(Requests), Len(a) <= Len(b),
           \A k \in 1 .. Len(a) : b[k] = a[k],
           NEW ids, NEW more, DOMAIN ids \subseteq DOMAIN more,
           \A g \in DOMAIN ids : more[g] = ids[g],
           NEW text, Phrased(a, ids, text)
    PROVE  Phrased(b, more, text)
<1>1. \A k \in 1 .. Len(a) : k \in 1 .. Len(b)
  BY LenProperties
<1> QED BY <1>1 DEF Phrased

\* Nothing was asked, no id was given, and what is in the stream was there or
\* was the draft.
LEMMA WordedKept ==
    ASSUME NEW c \in Clients, Worded(c), asked'[c] = asked[c],
           channeltoUniqueID'[c] = channeltoUniqueID[c],
           \A k \in 1 .. Len(toServer'[c]) :
              \/ \E j \in 1 .. Len(toServer[c]) : toServer'[c][k].text = toServer[c][j].text
              \/ keyboard[c] = "text" /\ toServer'[c][k].text = draft[c].text,
           \/ keyboard'[c] \notin {"insert", "text"}
           \/ keyboard'[c] = keyboard[c] /\ draft'[c] = draft[c]
           \/ /\ keyboard[c] = "insert" /\ keyboard'[c] = "text"
              /\ draft'[c] = draft[c]
           \/ /\ keyboard'[c] = "text" /\ draft'[c].request = NoRequest
              /\ ~(Number(draft'[c].text) >= 0)
    PROVE  Worded(c)'
<1>1. \A k \in 1 .. Len(toServer'[c]) :
          Phrased(asked'[c], channeltoUniqueID'[c], toServer'[c][k].text)
  BY DEF Worded
<1>2. keyboard'[c] \in {"insert", "text"} =>
          Phrased(asked'[c], channeltoUniqueID'[c], draft'[c].text)
  BY DEF Worded, Phrased
<1>3. LastAsked(c)'
  BY DEF Worded, LastAsked, Pending
<1> QED BY <1>1, <1>2, <1>3 DEF Worded

\* A request was asked.
LEMMA WordedAsk ==
    ASSUME Types, NEW c \in Clients, Sound(c), Worded(c), keyboard[c] = "line",
           NEW request \in Requests, NEW text \in ClientTexts, Ask(c, text, request),
           toServer'[c] = toServer[c],
           DOMAIN channeltoUniqueID[c] \subseteq DOMAIN channeltoUniqueID'[c],
           \A g \in DOMAIN channeltoUniqueID[c] :
              channeltoUniqueID'[c][g] = channeltoUniqueID[c][g],
           \/ Number(text) = Unread /\ request.game = Null
           \/ /\ Number(text) = recipt[c]
              /\ request \in {Request("SUBSCRIBE", request.game),
                              Request("UNSUBSCRIBE", request.game)}
              /\ request.game \in Games /\ request.game \in DOMAIN channeltoUniqueID'[c]
              /\ text = Wording(request, channeltoUniqueID'[c][request.game], recipt[c])
    PROVE  Worded(c)'
<1>1. /\ keyboard'[c] = "insert" /\ asked'[c] = Append(asked[c], request)
      /\ draft'[c].text = text /\ draft'[c].request = request
  BY DEF Types, Ask, Draft, KeyboardTo
<1>2. /\ asked[c] \in Seq(Requests) /\ Len(asked[c]) = recipt[c] /\ recipt[c] \in Nat
      /\ asked'[c] \in Seq(Requests) /\ Len(asked'[c]) = recipt[c] + 1
      /\ asked'[c][recipt[c] + 1] = request
      /\ \A k \in 1 .. Len(asked[c]) : asked'[c][k] = asked[c][k]
  <2>1. asked[c] \in Seq(Requests) /\ Len(asked[c]) = recipt[c] /\ recipt[c] \in Nat
    BY DEF Types, Sound, FiledAsAsked
  <2> QED BY <2>1, <1>1, AppendProperties
<1>3. \A k \in 1 .. Len(toServer'[c]) :
          Phrased(asked'[c], channeltoUniqueID'[c], toServer'[c][k].text)
  <2>1. Len(asked[c]) <= Len(asked'[c])
    BY <1>2
  <2>2. \A k \in 1 .. Len(toServer'[c]) :
           Phrased(asked[c], channeltoUniqueID[c], toServer'[c][k].text)
    BY DEF Worded
  <2> QED BY <1>2, <2>1, <2>2, PhrasedKept
<1>4. Phrased(asked'[c], channeltoUniqueID'[c], text)
  <2>1. CASE Number(text) = Unread
    BY <2>1 DEF Phrased, Unread
  <2>2. CASE Number(text) = recipt[c] /\ Number(text) # Unread
    <3>1. recipt[c] + 1 \in 1 .. Len(asked'[c])
      BY <1>2
    <3>2. Number(text) # Unread
      BY <2>2
    <3> QED BY <1>2, <2>2, <3>1, <3>2 DEF Phrased
  <2> QED BY <2>1, <2>2
<1>5. LastAsked(c)'
  <2>1. CASE Number(text) = Unread /\ request.game = Null
    BY <1>1, <1>2, <2>1 DEF LastAsked
  <2>2. CASE Number(text) = recipt[c]
    BY <1>1, <1>2, <2>2 DEF LastAsked, Unread
  <2> QED BY <2>1, <2>2
<1> QED BY <1>1, <1>3, <1>4, <1>5 DEF Worded

LEMMA WordedSame ==
    ASSUME NEW c, Worded(c), View(c)' = View(c)
    PROVE  Worded(c)'
<1>1. /\ keyboard'[c] = keyboard[c] /\ draft'[c] = draft[c] /\ asked'[c] = asked[c]
      /\ toServer'[c] = toServer[c] /\ channeltoUniqueID'[c] = channeltoUniqueID[c]
  BY DEF View
<1>2. LastAsked(c)'
  BY <1>1 DEF Worded, LastAsked, Pending
<1> QED BY <1>1, <1>2 DEF Worded

LEMMA WordedInit == ASSUME Init, NEW c \in Clients PROVE Worded(c)
<1>1. keyboard[c] = "line" /\ toServer[c] = << >>
  BY DEF Init
<1> QED BY <1>1 DEF Worded, LastAsked, Pending

\* Steps that write nothing and ready no text.
LEMMA WordedStill ==
    ASSUME Types, NEW c \in Clients, Worded(c),
           \/ TypeReport(c) \/ EndReport(c) \/ TypeBroken(c) \/ WriteFails(c)
           \/ Start(c) \/ Refused(c) \/ SocketStep(c) \/ PeerMessage(c)
    PROVE  Worded(c)'
<1>1. asked' = asked /\ channeltoUniqueID' = channeltoUniqueID /\ toServer' = toServer
  BY DEF TypeReport, EndReport, TypeBroken, WriteFails, Start, Refused, SocketStep, Receive,
     LookupRaces, ConnectionLost, Terminate, PeerMessage, maps, network
<1>2. keyboard'[c] \notin {"insert", "text"} \/ (keyboard' = keyboard /\ draft' = draft)
  <2>1. CASE TypeReport(c) \/ EndReport(c) \/ WriteFails(c)
    BY <2>1 DEF Types, TypeReport, EndReport, WriteFails, KeyboardTo
  <2>2. CASE \/ TypeBroken(c) \/ Start(c) \/ Refused(c) \/ SocketStep(c) \/ PeerMessage(c)
    BY <2>2 DEF TypeBroken, Start, Refused, SocketStep, Receive, LookupRaces,
       ConnectionLost, Terminate, PeerMessage
  <2> QED BY <2>1, <2>2
<1> QED BY <1>1, <1>2, WordedKept

\* Steps that ready a text without a number.
LEMMA WordedNew ==
    ASSUME Types, Named, NEW c \in Clients, Worded(c),
           TypeLogin(c) \/ TypeOther(c) \/ NextEvent(c)
    PROVE  Worded(c)'
<1>1. /\ asked' = asked /\ channeltoUniqueID' = channeltoUniqueID /\ toServer' = toServer
      /\ keyboard'[c] = "text"
  BY DEF Types, TypeLogin, TypeOther, NextEvent, KeyboardTo, maps, network
<1>2. draft'[c].request = NoRequest /\ Number(draft'[c].text) \in {NoNumber, Unread}
  <2>1. CASE TypeLogin(c)
    <3>1. PICK u \in Users, p \in Passwords : Draft(c, ConnectFrame(u, p), NoRequest)
      BY <2>1 DEF TypeLogin
    <3> QED BY <3>1, Numbers DEF Types, Draft
  <2>2. CASE TypeOther(c)
    BY <2>2, Numbers DEF Types, TypeOther, Draft
  <2>3. CASE NextEvent(c)
    <3>1. report[c].game \in Games
      BY <2>3 DEF NextEvent, Named, InReport, NoReport
    <3>2. Number(SendFrame(username[c], report[c].game)) = NoNumber
      BY <3>1, Numbers
    <3> QED BY <2>3, <3>2 DEF Types, NextEvent, Draft
  <2> QED BY <2>1, <2>2, <2>3
<1>3. ~(Number(draft'[c].text) >= 0)
  BY <1>2 DEF NoNumber, Unread
<1> QED BY <1>1, <1>2, <1>3, WordedKept

LEMMA WordedInsert ==
    ASSUME Types, NEW c \in Clients, Worded(c), InsertRequest(c)
    PROVE  Worded(c)'
<1>1. /\ asked' = asked /\ channeltoUniqueID' = channeltoUniqueID /\ toServer' = toServer
      /\ keyboard[c] = "insert" /\ keyboard'[c] = "text" /\ draft' = draft
  BY DEF Types, InsertRequest, KeyboardTo, network
<1> QED BY <1>1, WordedKept

LEMMA WordedWrite ==
    ASSUME Types, NEW c \in Clients, Worded(c), WriteText(c)
    PROVE  Worded(c)'
<1> DEFINE frame == [text |-> draft[c].text, ended |-> FALSE]
<1>1. /\ asked' = asked /\ channeltoUniqueID' = channeltoUniqueID
      /\ keyboard[c] = "text" /\ keyboard'[c] = "delimiter"
      /\ toServer'[c] = IF serverOpen[c] THEN Append(toServer[c], frame) ELSE toServer[c]
  BY DEF Types, WriteText, KeyboardTo, maps
<1>2. ASSUME NEW k \in 1 .. Len(toServer'[c])
      PROVE  \/ \E j \in 1 .. Len(toServer[c]) : toServer'[c][k].text = toServer[c][j].text
             \/ toServer'[c][k].text = draft[c].text
  <2>1. CASE serverOpen[c]
    <3>1. toServer[c] \in Seq(Written) /\ frame \in Written
      BY FlightIs DEF Written
    <3>2. /\ Len(toServer'[c]) = Len(toServer[c]) + 1
          /\ toServer'[c][Len(toServer[c]) + 1] = frame
          /\ \A j \in 1 .. Len(toServer[c]) : toServer'[c][j] = toServer[c][j]
          /\ Len(toServer[c]) \in Nat
      BY <2>1, <3>1, <1>1, AppendProperties
    <3>3. k \in 1 .. Len(toServer[c]) \/ k = Len(toServer[c]) + 1
      BY <3>2
    <3> QED BY <3>2, <3>3
  <2>2. CASE ~serverOpen[c]
    BY <2>2, <1>1
  <2> QED BY <2>1, <2>2
<1> QED BY <1>1, <1>2, WordedKept

LEMMA WordedDelimiter ==
    ASSUME Types, NEW c \in Clients, Worded(c), WriteDelimiter(c)
    PROVE  Worded(c)'
<1>1. /\ asked' = asked /\ channeltoUniqueID' = channeltoUniqueID
      /\ keyboard'[c] \in {"report", "line"}
      /\ toServer'[c] = IF serverOpen[c] THEN Ended(toServer[c]) ELSE toServer[c]
      /\ toServer[c] \in Seq(Written)
  BY DEF Types, WriteDelimiter, KeyboardTo, maps
<1>2. ASSUME NEW k \in 1 .. Len(toServer'[c])
      PROVE  k \in 1 .. Len(toServer[c]) /\ toServer'[c][k].text = toServer[c][k].text
  BY <1>1, EndedIs
<1> QED BY <1>1, <1>2, WordedKept

\* The server takes frames away.
LEMMA WordedTaken ==
    ASSUME Types, NEW c \in Clients, Worded(c), Acknowledge(c) \/ PeerClose(c)
    PROVE  Worded(c)'
<1>1. /\ asked' = asked /\ channeltoUniqueID' = channeltoUniqueID
      /\ keyboard' = keyboard /\ draft' = draft /\ toServer[c] \in Seq(Written)
  BY DEF Types, Acknowledge, PeerClose, maps
<1>2. ASSUME NEW k \in 1 .. Len(toServer'[c])
      PROVE  \E j \in 1 .. Len(toServer[c]) : toServer'[c][k].text = toServer[c][j].text
  <2>1. CASE Acknowledge(c)
    <3>1. toServer'[c] = Tail(toServer[c]) /\ toServer[c] # << >>
      BY <2>1 DEF Types, Acknowledge, HasFrame
    <3>2. /\ Len(toServer'[c]) = Len(toServer[c]) - 1 /\ Len(toServer[c]) \in Nat
          /\ toServer'[c][k] = toServer[c][k + 1]
      BY <3>1, <1>1, HeadTailProperties
    <3>3. k + 1 \in 1 .. Len(toServer[c])
      BY <3>2
    <3> QED BY <3>2, <3>3
  <2>2. CASE PeerClose(c)
    <3>1. toServer'[c] = << >>
      BY <2>2 DEF Types, PeerClose
    <3> QED BY <3>1
  <2> QED BY <2>1, <2>2
<1> QED BY <1>1, <1>2, WordedKept

LEMMA IdInserted ==
    ASSUME NEW map \in Maps(Games, LineNumbers), NEW g \in Games, NEW i \in LineNumbers
    PROVE  /\ DOMAIN Insert(map, g, i) = DOMAIN map \cup {g}
           /\ \A h \in DOMAIN map : Insert(map, g, i)[h] = map[h]
           /\ g \notin DOMAIN map => Insert(map, g, i)[g] = i
           /\ Insert(map, g, i) \in Maps(Games, LineNumbers)
<1>1. Insert(map, g, i) \in Maps(Games, LineNumbers)
  BY InsertIs
<1>2. DOMAIN Insert(map, g, i) = DOMAIN map \cup {g}
  BY DEF Insert
<1>3. \A h \in DOMAIN map : Insert(map, g, i)[h] = map[h]
  BY DEF Insert
<1>4. g \notin DOMAIN map => Insert(map, g, i)[g] = i
  BY DEF Insert
<1> QED BY <1>1, <1>2, <1>3, <1>4

\* What a join and an exit do to the ids.
LEMMA JoinIs ==
    ASSUME Types, Counted, NEW c \in Clients, TypeJoin(c)
    PROVE  \E g \in Games, i \in LineNumbers :
              /\ Ask(c, SubscribeFrame(g, i, recipt[c]), Request("SUBSCRIBE", g))
              /\ recipt[c] \in LineNumbers
              /\ DOMAIN channeltoUniqueID'[c] = DOMAIN channeltoUniqueID[c] \cup {g}
              /\ \A h \in DOMAIN channeltoUniqueID[c] :
                    channeltoUniqueID'[c][h] = channeltoUniqueID[c][h]
              /\ channeltoUniqueID'[c][g] = i
              /\ g \in DOMAIN channeltoUniqueID[c] => id'[c] = id[c]
              /\ g \notin DOMAIN channeltoUniqueID[c] => i = id[c] /\ id'[c] = id[c] + 1
<1>1. PICK g \in Games :
         LET known == g \in DOMAIN channeltoUniqueID[c]
             i == IF known THEN channeltoUniqueID[c][g] ELSE id[c] IN
         /\ channeltoUniqueID' = [channeltoUniqueID EXCEPT ![c] = Insert(@, g, i)]
         /\ id' = [id EXCEPT ![c] = IF known THEN @ ELSE @ + 1]
         /\ Ask(c, SubscribeFrame(g, i, recipt[c]), Request("SUBSCRIBE", g))
  BY DEF TypeJoin
<1> DEFINE known == g \in DOMAIN channeltoUniqueID[c]
           i == IF known THEN channeltoUniqueID[c][g] ELSE id[c]
<1>2. i \in LineNumbers /\ recipt[c] \in LineNumbers
  BY MapsElements, TypeCounts DEF Types, TypeJoin
<1>3. channeltoUniqueID[c] \in Maps(Games, LineNumbers)
  BY DEF Types
<1>4. channeltoUniqueID'[c] = Insert(channeltoUniqueID[c], g, i)
  BY <1>1 DEF Types
<1>5. id'[c] = IF known THEN id[c] ELSE id[c] + 1
  BY <1>1 DEF Types
<1>6. Ask(c, SubscribeFrame(g, i, recipt[c]), Request("SUBSCRIBE", g))
  BY <1>1
<1>7. i = IF known THEN channeltoUniqueID[c][g] ELSE id[c]
  OBVIOUS
<1> HIDE DEF i
<1>8. /\ DOMAIN channeltoUniqueID'[c] = DOMAIN channeltoUniqueID[c] \cup {g}
      /\ \A h \in DOMAIN channeltoUniqueID[c] :
            channeltoUniqueID'[c][h] = channeltoUniqueID[c][h]
      /\ ~known => channeltoUniqueID'[c][g] = i
  <2> DEFINE map == channeltoUniqueID[c]
  <2>1. map \in Maps(Games, LineNumbers)
    BY <1>3
  <2>2. channeltoUniqueID'[c] = Insert(map, g, i)
    BY <1>4
  <2> HIDE DEF map
  <2>3. /\ DOMAIN Insert(map, g, i) = DOMAIN map \cup {g}
        /\ \A h \in DOMAIN map : Insert(map, g, i)[h] = map[h]
        /\ g \notin DOMAIN map => Insert(map, g, i)[g] = i
    BY <1>2, <2>1, IdInserted
  <2> QED BY <2>2, <2>3 DEF map
<1>9. channeltoUniqueID'[c][g] = i
  BY <1>7, <1>8
<1> QED BY <1>2, <1>5, <1>6, <1>7, <1>8, <1>9

LEMMA ExitIs ==
    ASSUME Types, Counted, NEW c \in Clients, TypeExit(c)
    PROVE  \E g \in Games, i \in LineNumbers :
              /\ Ask(c, UnsubscribeFrame(i, recipt[c]), Request("UNSUBSCRIBE", g))
              /\ recipt[c] \in LineNumbers
              /\ DOMAIN channeltoUniqueID'[c] = DOMAIN channeltoUniqueID[c] \cup {g}
              /\ \A h \in DOMAIN channeltoUniqueID[c] :
                    channeltoUniqueID'[c][h] = channeltoUniqueID[c][h]
              /\ channeltoUniqueID'[c][g] = i
              /\ id'[c] = id[c]
<1>1. PICK g \in Games :
         /\ channeltoUniqueID' = [channeltoUniqueID EXCEPT ![c] = Insert(@, g, 0)]
         /\ Ask(c, UnsubscribeFrame(IdOf(channeltoUniqueID[c], g), recipt[c]),
                   Request("UNSUBSCRIBE", g))
  BY DEF TypeExit
<1>2. recipt[c] \in LineNumbers /\ 0 \in LineNumbers
  BY TypeCounts DEF TypeExit
<1>3. channeltoUniqueID[c] \in Maps(Games, LineNumbers)
  BY DEF Types
<1>4. channeltoUniqueID'[c] = Insert(channeltoUniqueID[c], g, 0)
  BY <1>1 DEF Types
<1>5. /\ channeltoUniqueID'[c] \in Maps(Games, LineNumbers)
      /\ DOMAIN channeltoUniqueID'[c] = DOMAIN channeltoUniqueID[c] \cup {g}
      /\ \A h \in DOMAIN channeltoUniqueID[c] :
            channeltoUniqueID'[c][h] = channeltoUniqueID[c][h]
  <2> DEFINE map == channeltoUniqueID[c]
  <2>1. map \in Maps(Games, LineNumbers)
    BY <1>3
  <2>2. channeltoUniqueID'[c] = Insert(map, g, 0)
    BY <1>4
  <2> HIDE DEF map
  <2>3. /\ Insert(map, g, 0) \in Maps(Games, LineNumbers)
        /\ DOMAIN Insert(map, g, 0) = DOMAIN map \cup {g}
        /\ \A h \in DOMAIN map : Insert(map, g, 0)[h] = map[h]
    BY <1>2, <2>1, IdInserted
  <2> QED BY <2>2, <2>3 DEF map
<1>6. channeltoUniqueID'[c][g] \in LineNumbers
  BY <1>5, MapsElements
<1>7. channeltoUniqueID'[c][g] = IdOf(channeltoUniqueID[c], g)
  BY <1>4 DEF IdOf
<1>8. id'[c] = id[c]
  BY DEF TypeExit
<1> QED BY <1>1, <1>2, <1>5, <1>6, <1>7, <1>8

LEMMA WordedJoin ==
    ASSUME Types, Counted, NEW c \in Clients, Sound(c), Worded(c), TypeJoin(c)
    PROVE  Worded(c)'
<1>1. PICK g \in Games, i \in LineNumbers :
              /\ Ask(c, SubscribeFrame(g, i, recipt[c]), Request("SUBSCRIBE", g))
              /\ recipt[c] \in LineNumbers
              /\ DOMAIN channeltoUniqueID'[c] = DOMAIN channeltoUniqueID[c] \cup {g}
              /\ \A h \in DOMAIN channeltoUniqueID[c] :
                    channeltoUniqueID'[c][h] = channeltoUniqueID[c][h]
              /\ channeltoUniqueID'[c][g] = i
  BY JoinIs
<1> DEFINE text == SubscribeFrame(g, i, recipt[c])
           request == Request("SUBSCRIBE", g)
<1>2. text \in ClientTexts /\ Number(text) = recipt[c]
  BY <1>1, Numbers, LineNumbersAreNat DEF ClientTexts
<1>3. request \in Requests /\ request.game = g /\ request.command = "SUBSCRIBE"
  BY RequestIs DEF Request
<1>4. text = Wording(request, channeltoUniqueID'[c][g], recipt[c])
  BY <1>1, <1>3 DEF Wording
<1>5. toServer'[c] = toServer[c] /\ keyboard[c] = "line"
  BY DEF TypeJoin, Type, network
<1>6. Ask(c, text, request) /\ request = Request("SUBSCRIBE", request.game)
  BY <1>1, <1>3
<1> HIDE DEF text, request
<1> QED BY <1>1, <1>2, <1>3, <1>4, <1>5, <1>6, WordedAsk

LEMMA WordedExit ==
    ASSUME Types, Counted, NEW c \in Clients, Sound(c), Worded(c), TypeExit(c)
    PROVE  Worded(c)'
<1>1. PICK g \in Games, i \in LineNumbers :
              /\ Ask(c, UnsubscribeFrame(i, recipt[c]), Request("UNSUBSCRIBE", g))
              /\ recipt[c] \in LineNumbers
              /\ DOMAIN channeltoUniqueID'[c] = DOMAIN channeltoUniqueID[c] \cup {g}
              /\ \A h \in DOMAIN channeltoUniqueID[c] :
                    channeltoUniqueID'[c][h] = channeltoUniqueID[c][h]
              /\ channeltoUniqueID'[c][g] = i
  BY ExitIs
<1> DEFINE text == UnsubscribeFrame(i, recipt[c])
           request == Request("UNSUBSCRIBE", g)
<1>2. text \in ClientTexts /\ Number(text) = recipt[c]
  BY <1>1, Numbers, LineNumbersAreNat DEF ClientTexts
<1>3. request \in Requests /\ request.game = g /\ request.command = "UNSUBSCRIBE"
  BY RequestIs DEF Request
<1>4. text = Wording(request, channeltoUniqueID'[c][g], recipt[c])
  BY <1>1, <1>3 DEF Wording
<1>5. toServer'[c] = toServer[c] /\ keyboard[c] = "line"
  BY DEF TypeExit, Type, network
<1>6. Ask(c, text, request) /\ request = Request("UNSUBSCRIBE", request.game)
  BY <1>1, <1>3
<1> HIDE DEF text, request
<1> QED BY <1>1, <1>2, <1>3, <1>4, <1>5, <1>6, WordedAsk

LEMMA WordedLogout ==
    ASSUME Types, Counted, NEW c \in Clients, Sound(c), Worded(c), TypeLogout(c)
    PROVE  Worded(c)'
<1> DEFINE text == LogoutFrame(recipt[c])
           request == Request("DISCONNECT", Null)
<1>1. Ask(c, text, request)
  BY DEF TypeLogout
<1>2. text \in ClientTexts /\ Number(text) = Unread
  BY Numbers, TypeCounts DEF TypeLogout, ClientTexts
<1>3. request \in Requests /\ request.game = Null
  BY RequestIs DEF Request
<1>4. /\ toServer'[c] = toServer[c] /\ keyboard[c] = "line"
      /\ channeltoUniqueID'[c] = channeltoUniqueID[c]
  BY DEF TypeLogout, Type, network, maps
<1> HIDE DEF text, request
<1> QED BY <1>1, <1>2, <1>3, <1>4, WordedAsk

LEMMA WordedStep ==
    ASSUME Inv, \A c \in Clients : Worded(c), [Next]_vars
    PROVE  \A c \in Clients : Worded(c)'
<1>1. Types /\ Named /\ Counted /\ \A c \in Clients : Sound(c)
  BY DEF Inv
<1>2. ASSUME UNCHANGED vars, NEW c \in Clients PROVE Worded(c)'
  <2>1. View(c)' = View(c)
    BY <1>2 DEF View, vars, maps, network, session
  <2> QED BY <2>1, WordedSame
<1>3. ASSUME NEW c \in Clients, ProcessStep(c) \/ PeerStep(c) PROVE Worded(c)'
  <2>1. CASE TypeIgnored(c)
    BY <2>1, <1>2 DEF TypeIgnored
  <2>2. CASE ~TypeIgnored(c)
    BY <2>2, <1>1, <1>3, WordedStill, WordedNew, WordedInsert, WordedWrite,
       WordedDelimiter, WordedTaken, WordedJoin, WordedExit, WordedLogout
       DEF ProcessStep, Command, KeyboardStep, PeerStep
  <2> QED BY <2>1, <2>2
<1>4. ASSUME NEW c \in Clients, ProcessStep(c) \/ PeerStep(c),
             NEW d \in Clients, d # c
      PROVE  Worded(d)'
  BY <1>1, <1>4, OthersSame, WordedSame
<1> QED BY <1>2, <1>3, <1>4 DEF Next

LEMMA DistinctSame ==
    ASSUME NEW c, Distinct(c), asked'[c] = asked[c], id'[c] = id[c],
           channeltoUniqueID'[c] = channeltoUniqueID[c]
    PROVE  Distinct(c)'
<1>1. Careful(c)' <=> Careful(c)
  BY DEF Careful, Sensible
<1> QED BY <1>1 DEF Distinct

LEMMA DistinctInit == ASSUME Init, NEW c \in Clients PROVE Distinct(c)
<1>1. channeltoUniqueID[c] = NoMap /\ asked[c] = << >>
  BY DEF Init
<1> QED BY <1>1 DEF Distinct, NoMap

\* A careful user was careful before, and is with his last request.
LEMMA CarefulBefore ==
    ASSUME Types, NEW c \in Clients, NEW request \in Requests,
           asked'[c] = Append(asked[c], request), Careful(c)'
    PROVE  /\ Careful(c)
           /\ request.command = "DISCONNECT"
              \/ (Joined(asked[c], Len(asked[c]), request.game) <=>
                    request.command = "UNSUBSCRIBE")
<1> DEFINE a == asked[c]
           b == asked'[c]
           n == Len(a)
<1>1. /\ n \in Nat /\ Len(b) = n + 1 /\ b[n + 1] = request
      /\ \A k \in 1 .. n : b[k] = a[k]
  <2>1. a \in Seq(Requests)
    BY DEF Types
  <2> QED BY <2>1, AppendProperties
<1>2. \A k \in 1 .. n + 1 :
         b[k].command = "DISCONNECT"
         \/ (Joined(b, k - 1, b[k].game) <=> b[k].command = "UNSUBSCRIBE")
  BY <1>1 DEF Careful, Sensible
<1> HIDE DEF a, b, n
<1>3. ASSUME NEW k \in 1 .. n + 1, NEW g
      PROVE  Joined(b, k - 1, g) <=> Joined(a, k - 1, g)
  <2>1. k - 1 \in Nat /\ \A j \in 1 .. k - 1 : b[j] = a[j]
    BY <1>1
  <2> QED BY <2>1, JoinedSame
<1>4. Careful(c)
  <2>1. ASSUME NEW k \in 1 .. n
        PROVE  a[k].command = "DISCONNECT"
               \/ (Joined(a, k - 1, a[k].game) <=> a[k].command = "UNSUBSCRIBE")
    <3>1. k \in 1 .. n + 1 /\ b[k] = a[k]
      BY <1>1
    <3> QED BY <3>1, <1>2, <1>3
  <2> QED BY <2>1 DEF Careful, Sensible, a, n
<1>5. request.command = "DISCONNECT"
      \/ (Joined(a, n, request.game) <=> request.command = "UNSUBSCRIBE")
  <2>1. n + 1 \in 1 .. n + 1 /\ (n + 1) - 1 = n
    BY <1>1
  <2>2. Joined(b, n, request.game) <=> Joined(a, n, request.game)
    BY <2>1, <1>3
  <2> QED BY <2>1, <2>2, <1>1, <1>2
<1> QED BY <1>4, <1>5 DEF a, n

LEMMA DistinctJoin ==
    ASSUME Types, Counted, NEW c \in Clients, Distinct(c), TypeJoin(c)
    PROVE  Distinct(c)'
<1> DEFINE ids == channeltoUniqueID[c]
           more == channeltoUniqueID'[c]
<1>1. PICK g \in Games, i \in LineNumbers :
              /\ Ask(c, SubscribeFrame(g, i, recipt[c]), Request("SUBSCRIBE", g))
              /\ DOMAIN more = DOMAIN ids \cup {g}
              /\ \A h \in DOMAIN ids : more[h] = ids[h]
              /\ more[g] = i
              /\ g \in DOMAIN ids => id'[c] = id[c]
              /\ g \notin DOMAIN ids => i = id[c] /\ id'[c] = id[c] + 1
  BY JoinIs
<1> DEFINE request == Request("SUBSCRIBE", g)
<1>2. /\ request \in Requests /\ request.game = g
      /\ asked'[c] = Append(asked[c], request)
  BY <1>1, RequestIs DEF Types, Ask, Request
<1>3. /\ id[c] \in Nat /\ (\A h \in DOMAIN ids : ids[h] \in Nat) /\ asked[c] \in Seq(Requests)
  <2>1. ids \in Maps(Games, LineNumbers)
    BY DEF Types
  <2>2. \A h \in DOMAIN ids : ids[h] \in Nat
    <3> HIDE DEF ids
    <3> QED BY <2>1, MapsElements, LineNumbersAreNat
  <2> QED BY <2>2 DEF Types
<1> SUFFICES ASSUME Careful(c)'
             PROVE  /\ \A h \in DOMAIN more : more[h] < id'[c]
                    /\ \A h, k \in DOMAIN more : more[h] = more[k] => h = k
                    /\ \A k \in 1 .. Len(asked'[c]) :
                          asked'[c][k].command = "SUBSCRIBE" =>
                              asked'[c][k].game \in DOMAIN more
  BY DEF Distinct
<1>4. Careful(c)
  BY <1>2, CarefulBefore
<1>5. /\ \A h \in DOMAIN ids : ids[h] < id[c]
      /\ \A h, k \in DOMAIN ids : ids[h] = ids[k] => h = k
      /\ \A k \in 1 .. Len(asked[c]) :
            asked[c][k].command = "SUBSCRIBE" => asked[c][k].game \in DOMAIN ids
  BY <1>4 DEF Distinct
<1>6. \A k \in 1 .. Len(asked'[c]) :
          asked'[c][k].command = "SUBSCRIBE" => asked'[c][k].game \in DOMAIN more
  <2>1. /\ Len(asked[c]) \in Nat /\ Len(asked'[c]) = Len(asked[c]) + 1
        /\ asked'[c][Len(asked[c]) + 1] = request
        /\ \A k \in 1 .. Len(asked[c]) : asked'[c][k] = asked[c][k]
    BY <1>2, <1>3, AppendProperties
  <2>2. \A k \in 1 .. Len(asked'[c]) : k \in 1 .. Len(asked[c]) \/ k = Len(asked[c]) + 1
    BY <2>1
  <2> QED BY <2>1, <2>2, <1>1, <1>2, <1>5
<1> HIDE DEF ids, more
<1>7. CASE g \in DOMAIN ids
  <2>1. DOMAIN more = DOMAIN ids
    BY <1>1, <1>7
  <2> QED BY <2>1, <1>1, <1>5, <1>6, <1>7
<1>8. CASE g \notin DOMAIN ids
  <2>1. \A h \in DOMAIN more : h \in DOMAIN ids \/ h = g
    BY <1>1
  <2>2. more[g] = id[c] /\ id'[c] = id[c] + 1
    BY <1>1, <1>8
  <2>3. \A h \in DOMAIN more : more[h] < id'[c]
    BY <2>1, <2>2, <1>1, <1>3, <1>5
  <2>4. \A h \in DOMAIN ids : more[h] # more[g]
    BY <2>2, <1>1, <1>3, <1>5
  <2>5. \A h, k \in DOMAIN more : more[h] = more[k] => h = k
    BY <2>1, <2>4, <1>1, <1>5
  <2> QED BY <2>3, <2>5, <1>6
<1> QED BY <1>7, <1>8

LEMMA DistinctExit ==
    ASSUME Types, Counted, NEW c \in Clients, Distinct(c), TypeExit(c)
    PROVE  Distinct(c)'
<1> DEFINE ids == channeltoUniqueID[c]
           more == channeltoUniqueID'[c]
           a == asked[c]
           b == asked'[c]
<1>1. PICK g \in Games, i \in LineNumbers :
              /\ Ask(c, UnsubscribeFrame(i, recipt[c]), Request("UNSUBSCRIBE", g))
              /\ DOMAIN more = DOMAIN ids \cup {g}
              /\ \A h \in DOMAIN ids : more[h] = ids[h]
              /\ id'[c] = id[c]
  BY ExitIs
<1> DEFINE request == Request("UNSUBSCRIBE", g)
<1>2. /\ request \in Requests /\ request.game = g /\ request.command = "UNSUBSCRIBE"
      /\ b = Append(a, request) /\ a \in Seq(Requests)
  BY <1>1, RequestIs DEF Types, Ask, Request
<1> SUFFICES ASSUME Careful(c)'
             PROVE  /\ \A h \in DOMAIN more : more[h] < id'[c]
                    /\ \A h, k \in DOMAIN more : more[h] = more[k] => h = k
                    /\ \A k \in 1 .. Len(b) :
                          b[k].command = "SUBSCRIBE" => b[k].game \in DOMAIN more
  BY DEF Distinct
<1>3. Careful(c) /\ Joined(a, Len(a), g)
  BY <1>2, CarefulBefore
<1>4. /\ \A h \in DOMAIN ids : ids[h] < id[c]
      /\ \A h, k \in DOMAIN ids : ids[h] = ids[k] => h = k
      /\ \A k \in 1 .. Len(a) : a[k].command = "SUBSCRIBE" => a[k].game \in DOMAIN ids
  BY <1>3 DEF Distinct
<1>5. g \in DOMAIN ids
  <2>1. PICK k \in 1 .. Len(a) : a[k] = Request("SUBSCRIBE", g)
    BY <1>3 DEF Joined
  <2>2. a[k].command = "SUBSCRIBE" /\ a[k].game = g
    BY <2>1 DEF Request
  <2> QED BY <2>2, <1>4
<1>6. /\ Len(a) \in Nat /\ Len(b) = Len(a) + 1 /\ b[Len(a) + 1] = request
      /\ \A k \in 1 .. Len(a) : b[k] = a[k]
  BY <1>2, AppendProperties
<1>7. \A k \in 1 .. Len(b) : k \in 1 .. Len(a) \/ k = Len(a) + 1
  BY <1>6
<1>8. DOMAIN more = DOMAIN ids
  BY <1>1, <1>5
<1> HIDE DEF ids, more, a, b, request
<1>9. \A k \in 1 .. Len(b) : b[k].command = "SUBSCRIBE" => b[k].game \in DOMAIN more
  BY <1>2, <1>4, <1>6, <1>7, <1>8
<1> QED BY <1>1, <1>4, <1>8, <1>9

LEMMA DistinctLogout ==
    ASSUME Types, NEW c \in Clients, Distinct(c), TypeLogout(c)
    PROVE  Distinct(c)'
<1> DEFINE a == asked[c]
           b == asked'[c]
           request == Request("DISCONNECT", Null)
<1>1. /\ request \in Requests /\ request.command = "DISCONNECT"
      /\ b = Append(a, request) /\ a \in Seq(Requests)
  BY RequestIs DEF Types, TypeLogout, Ask, Request
<1>2. channeltoUniqueID'[c] = channeltoUniqueID[c] /\ id'[c] = id[c]
  BY DEF TypeLogout, maps
<1>3. /\ Len(a) \in Nat /\ Len(b) = Len(a) + 1 /\ b[Len(a) + 1] = request
      /\ \A k \in 1 .. Len(a) : b[k] = a[k]
  BY <1>1, AppendProperties
<1>4. \A k \in 1 .. Len(b) : k \in 1 .. Len(a) \/ k = Len(a) + 1
  BY <1>3
<1>5. Careful(c)' => Careful(c)
  BY <1>1, CarefulBefore
<1>6. ASSUME Careful(c), NEW k \in 1 .. Len(b), b[k].command = "SUBSCRIBE"
      PROVE  b[k].game \in DOMAIN channeltoUniqueID[c]
  <2>1. k \in 1 .. Len(a) /\ b[k] = a[k]
    BY <1>1, <1>3, <1>4, <1>6
  <2> QED BY <2>1, <1>6 DEF Distinct
<1> QED BY <1>2, <1>5, <1>6 DEF Distinct

LEMMA DistinctStep ==
    ASSUME Inv, \A c \in Clients : Distinct(c), [Next]_vars
    PROVE  \A c \in Clients : Distinct(c)'
<1>1. Types /\ Counted
  BY DEF Inv
<1>2. ASSUME UNCHANGED vars, NEW c \in Clients PROVE Distinct(c)'
  BY <1>2, DistinctSame DEF vars, maps
<1>3. ASSUME NEW c \in Clients,
             \/ Start(c) \/ Refused(c) \/ TypeLogin(c) \/ TypeOther(c) \/ TypeReport(c)
             \/ TypeBroken(c) \/ KeyboardStep(c) \/ SocketStep(c) \/ PeerStep(c)
      PROVE  Distinct(c)'
  <2>1. asked' = asked /\ channeltoUniqueID' = channeltoUniqueID /\ id' = id
    BY <1>3 DEF Start, Refused, TypeLogin, TypeOther, TypeReport, TypeBroken, KeyboardStep,
       InsertRequest, NextEvent, EndReport, WriteFails, WriteText, WriteDelimiter, SocketStep,
       Receive, LookupRaces, ConnectionLost, Terminate, PeerStep, Acknowledge, PeerMessage,
       PeerClose, maps
  <2> QED BY <2>1, DistinctSame
<1>4. ASSUME NEW c \in Clients, ProcessStep(c) \/ PeerStep(c) PROVE Distinct(c)'
  <2>1. CASE TypeIgnored(c)
    BY <2>1, <1>2 DEF TypeIgnored
  <2>2. CASE ~TypeIgnored(c)
    BY <2>2, <1>1, <1>3, <1>4, DistinctJoin, DistinctExit, DistinctLogout
       DEF ProcessStep, Command
  <2> QED BY <2>1, <2>2
<1>5. ASSUME NEW c \in Clients, ProcessStep(c) \/ PeerStep(c),
             NEW d \in Clients, d # c
      PROVE  Distinct(d)'
  <2>1. View(d)' = View(d)
    BY <1>1, <1>5, OthersSame
  <2>2. /\ asked'[d] = asked[d] /\ id'[d] = id[d]
        /\ channeltoUniqueID'[d] = channeltoUniqueID[d]
    BY <2>1 DEF View
  <2> QED BY <2>2, DistinctSame
<1> QED BY <1>2, <1>4, <1>5 DEF Next

----------------------------------------------------------------------------
(* How far the server is.                                                  *)

\* The requests before the m-th have been processed; of the others, numbers s
\* are in the stream, the rest are about no game.  d requests were sent.
Rest(s, a, m, d) ==
    /\ \A k \in 1 .. Len(s) : s[k] >= 0 => m <= s[k]
    /\ \A n \in m .. d - 1 : In(n, s) \/ a[n + 1].game = Null

Through(c, m) == Rest(Out(toServer[c]), asked[c], m, Due(c))

\* A frame is written: x is its number, or it has none and the request is about
\* no game.
LEMMA RestAppend ==
    ASSUME NEW s \in Seq(Int), NEW a, NEW d \in Nat, NEW m \in 0 .. d, Rest(s, a, m, d),
           NEW x \in Int, NEW e \in {d, d + 1}, x >= 0 => x = d,
           e = d + 1 => x = d \/ a[d + 1].game = Null
    PROVE  Rest(Append(s, x), a, m, e)
<1>1. /\ Len(Append(s, x)) = Len(s) + 1 /\ Append(s, x)[Len(s) + 1] = x
      /\ \A k \in 1 .. Len(s) : Append(s, x)[k] = s[k]
  BY AppendProperties
<1>2. \A k \in 1 .. Len(s) + 1 : k \in 1 .. Len(s) \/ k = Len(s) + 1
  OBVIOUS
<1>3. \A k \in 1 .. Len(Append(s, x)) : Append(s, x)[k] >= 0 => m <= Append(s, x)[k]
  BY <1>1, <1>2 DEF Rest
<1>4. ASSUME NEW n \in m .. e - 1 PROVE In(n, Append(s, x)) \/ a[n + 1].game = Null
  <2>1. n \in m .. d - 1 \/ (n = d /\ e = d + 1)
    OBVIOUS
  <2> QED BY <2>1, InAppend DEF Rest
<1> QED BY <1>3, <1>4 DEF Rest

\* A frame without a number has been processed.
LEMMA RestTail ==
    ASSUME NEW s \in Seq(Int), s # << >>, NEW a, NEW d \in Nat, NEW m \in 0 .. d,
           Rest(s, a, m, d), s[1] < 0
    PROVE  Rest(Tail(s), a, m, d)
<1>1. /\ Len(s) \in Nat /\ Len(s) >= 1 /\ Len(Tail(s)) = Len(s) - 1
      /\ \A k \in 1 .. Len(Tail(s)) : Tail(s)[k] = s[k + 1]
  BY HeadTailProperties, EmptySeq
<1>2. \A k \in 1 .. Len(Tail(s)) : k + 1 \in 1 .. Len(s)
  BY <1>1
<1>3. \A k \in 1 .. Len(Tail(s)) : Tail(s)[k] >= 0 => m <= Tail(s)[k]
  BY <1>1, <1>2 DEF Rest
<1>4. ASSUME NEW n \in m .. d - 1 PROVE In(n, Tail(s)) \/ a[n + 1].game = Null
  BY InTail DEF Rest
<1> QED BY <1>3, <1>4 DEF Rest

\* The first frame has a number: what is before it is about no game, and when it
\* has been processed the rest is what is behind it.
LEMMA RestHead ==
    ASSUME NEW s \in Seq(Int), s # << >>, NEW a, NEW d \in Nat, NEW m \in 0 .. d,
           Rest(s, a, m, d), s[1] >= 0, s[1] < d,
           \A j, k \in 1 .. Len(s) : j < k /\ s[j] >= 0 /\ s[k] >= 0 => s[j] < s[k]
    PROVE  /\ m <= s[1] /\ \A n \in m .. s[1] - 1 : a[n + 1].game = Null
           /\ Rest(s, a, s[1], d)
           /\ Rest(Tail(s), a, s[1] + 1, d)
<1> DEFINE x == s[1]
<1>1. /\ Len(s) \in Nat /\ Len(s) >= 1 /\ Len(Tail(s)) = Len(s) - 1
      /\ \A k \in 1 .. Len(Tail(s)) : Tail(s)[k] = s[k + 1]
  BY HeadTailProperties, EmptySeq
<1>2. \A k \in 1 .. Len(Tail(s)) : k + 1 \in 1 .. Len(s) /\ 1 < k + 1
  BY <1>1
<1>3. /\ 1 \in 1 .. Len(s) /\ x \in Int /\ m <= x
      /\ \A k \in 1 .. Len(s) : s[k] \in Int
  BY <1>1, ElementOfSeq DEF Rest
<1>4. \A k \in 1 .. Len(s) : s[k] >= 0 => x <= s[k]
  <2>1. \A k \in 1 .. Len(s) : k = 1 \/ 1 < k
    OBVIOUS
  <2> QED BY <2>1, <1>3
<1>5. ASSUME NEW n \in m .. x - 1 PROVE a[n + 1].game = Null
  <2>1. n \in m .. d - 1 /\ n >= 0 /\ n < x
    BY <1>3
  <2>2. ~In(n, s)
    BY <2>1, <1>4 DEF In
  <2> QED BY <2>1, <2>2 DEF Rest
<1>6. Rest(s, a, x, d)
  <2>1. \A n \in x .. d - 1 : n \in m .. d - 1
    BY <1>3
  <2> QED BY <2>1, <1>4 DEF Rest
<1>7. \A k \in 1 .. Len(Tail(s)) : Tail(s)[k] >= 0 => x + 1 <= Tail(s)[k]
  <2> SUFFICES ASSUME NEW k \in 1 .. Len(Tail(s)), Tail(s)[k] >= 0
               PROVE  x + 1 <= Tail(s)[k]
    OBVIOUS
  <2>1. k + 1 \in 1 .. Len(s) /\ 1 < k + 1 /\ Tail(s)[k] = s[k + 1]
    BY <1>1, <1>2
  <2>2. x < s[k + 1]
    BY <2>1, <1>3
  <2> QED BY <2>1, <2>2, <1>3
<1>8. ASSUME NEW n \in x + 1 .. d - 1 PROVE In(n, Tail(s)) \/ a[n + 1].game = Null
  <2>1. n \in m .. d - 1 /\ n # x
    BY <1>3
  <2> QED BY <2>1, InTail DEF Rest
<1> QED BY <1>3, <1>5, <1>6, <1>7, <1>8 DEF Rest

\* He can still be heard.
Alive(c) == proc[c] = "new" \/ serverOpen[c]

LEMMA AliveBefore ==
    ASSUME Types, NEW c \in Clients, ProcessStep(c), Alive(c)'
    PROVE  Alive(c)
<1>1. CASE Start(c) \/ Refused(c)
  BY <1>1 DEF Start, Refused, Alive
<1>2. CASE Command(c)
  BY <1>2 DEF Command, TypeLogin, TypeJoin, TypeExit, TypeLogout, TypeOther, TypeReport,
     TypeIgnored, TypeBroken, Type, Running, End, Types, Alive, network, vars
<1>3. CASE KeyboardStep(c)
  BY <1>3 DEF KeyboardStep, InsertRequest, NextEvent, EndReport, WriteFails, WriteText,
     WriteDelimiter, Alive, network
<1>4. CASE SocketStep(c)
  <2>1. serverOpen' = serverOpen
    BY <1>4 DEF SocketStep, Receive, LookupRaces, ConnectionLost, Terminate, network
  <2>2. proc'[c] = proc[c] \/ proc'[c] # "new"
    BY <1>4 DEF SocketStep, Receive, LookupRaces, ConnectionLost, Terminate, Acknowledged,
       End, Types
  <2> QED BY <2>1, <2>2 DEF Alive
<1> QED BY <1>1, <1>2, <1>3, <1>4 DEF ProcessStep

\* What the client's own steps do to the requests and the ids.
LEMMA AskedGrows ==
    ASSUME Types, Counted, NEW c \in Clients, ProcessStep(c)
    PROVE  /\ Len(asked[c]) \in Nat /\ Len(asked[c]) <= Len(asked'[c])
           /\ \A k \in 1 .. Len(asked[c]) : asked'[c][k] = asked[c][k]
           /\ \A g \in DOMAIN channeltoUniqueID[c] :
                 /\ g \in DOMAIN channeltoUniqueID'[c]
                 /\ channeltoUniqueID'[c][g] = channeltoUniqueID[c][g]
           /\ Careful(c)' => Careful(c)
<1> DEFINE Grown ==
      /\ Len(asked[c]) \in Nat /\ Len(asked[c]) <= Len(asked'[c])
      /\ \A k \in 1 .. Len(asked[c]) : asked'[c][k] = asked[c][k]
      /\ Careful(c)' => Careful(c)
    Kept ==
      \A g \in DOMAIN channeltoUniqueID[c] :
          /\ g \in DOMAIN channeltoUniqueID'[c]
          /\ channeltoUniqueID'[c][g] = channeltoUniqueID[c][g]
<1>1. asked[c] \in Seq(Requests) /\ Len(asked[c]) \in Nat
  BY LenProperties DEF Types
<1>2. ASSUME asked' = asked PROVE Grown
  <2>1. Careful(c)' <=> Careful(c)
    BY <1>2 DEF Careful, Sensible
  <2> QED BY <1>1, <1>2, <2>1
<1>3. ASSUME NEW text, NEW request \in Requests, Ask(c, text, request) PROVE Grown
  <2>1. asked'[c] = Append(asked[c], request)
    BY <1>3 DEF Types, Ask
  <2>2. Careful(c)' => Careful(c)
    BY <2>1, CarefulBefore
  <2> QED BY <1>1, <2>1, <2>2, AppendProperties
<1>4. ASSUME channeltoUniqueID' = channeltoUniqueID PROVE Kept
  BY <1>4
<1>5. ASSUME ~TypeJoin(c), ~TypeExit(c) PROVE channeltoUniqueID' = channeltoUniqueID
  BY <1>5 DEF ProcessStep, Command, Start, Refused, TypeLogin, TypeLogout, TypeOther,
     TypeReport, TypeIgnored, TypeBroken, KeyboardStep, InsertRequest, NextEvent, EndReport,
     WriteFails, WriteText, WriteDelimiter, SocketStep, Receive, LookupRaces,
     ConnectionLost, Terminate, maps, vars
<1>6. ASSUME ~TypeJoin(c), ~TypeExit(c), ~TypeLogout(c) PROVE asked' = asked
  BY <1>6 DEF ProcessStep, Command, Start, Refused, TypeLogin, TypeOther,
     TypeReport, TypeIgnored, TypeBroken, KeyboardStep, InsertRequest, NextEvent, EndReport,
     WriteFails, WriteText, WriteDelimiter, SocketStep, Receive, LookupRaces,
     ConnectionLost, Terminate, vars
<1> HIDE DEF Grown, Kept
<1>7. CASE TypeJoin(c)
  <2>1. PICK g \in Games, i \in LineNumbers :
              /\ Ask(c, SubscribeFrame(g, i, recipt[c]), Request("SUBSCRIBE", g))
              /\ DOMAIN channeltoUniqueID'[c] = DOMAIN channeltoUniqueID[c] \cup {g}
              /\ \A h \in DOMAIN channeltoUniqueID[c] :
                    channeltoUniqueID'[c][h] = channeltoUniqueID[c][h]
    BY <1>7, JoinIs
  <2>2. Request("SUBSCRIBE", g) \in Requests
    BY RequestIs
  <2>3. Kept
    BY <2>1 DEF Kept
  <2>4. Grown
    BY <2>1, <2>2, <1>3
  <2> QED BY <2>3, <2>4 DEF Kept, Grown
<1>8. CASE TypeExit(c)
  <2>1. PICK g \in Games, i \in LineNumbers :
              /\ Ask(c, UnsubscribeFrame(i, recipt[c]), Request("UNSUBSCRIBE", g))
              /\ DOMAIN channeltoUniqueID'[c] = DOMAIN channeltoUniqueID[c] \cup {g}
              /\ \A h \in DOMAIN channeltoUniqueID[c] :
                    channeltoUniqueID'[c][h] = channeltoUniqueID[c][h]
    BY <1>8, ExitIs
  <2>2. Request("UNSUBSCRIBE", g) \in Requests
    BY RequestIs
  <2>3. Kept
    BY <2>1 DEF Kept
  <2>4. Grown
    BY <2>1, <2>2, <1>3
  <2> QED BY <2>3, <2>4 DEF Kept, Grown
<1>9. CASE ~TypeJoin(c) /\ ~TypeExit(c)
  <2>1. Kept
    BY <1>9, <1>4, <1>5
  <2>2. Grown
    <3>1. CASE TypeLogout(c)
      <4>1. Ask(c, LogoutFrame(recipt[c]), Request("DISCONNECT", Null))
        BY <3>1 DEF TypeLogout
      <4>2. Request("DISCONNECT", Null) \in Requests
        BY RequestIs
      <4> QED BY <4>1, <4>2, <1>3
    <3>2. CASE ~TypeLogout(c)
      BY <3>2, <1>9, <1>2, <1>6
    <3> QED BY <3>1, <3>2
  <2> QED BY <2>1, <2>2 DEF Kept, Grown
<1> QED BY <1>7, <1>8, <1>9

LEMMA DueIs ==
    ASSUME Types, NEW c \in Clients, Sound(c)
    PROVE  /\ Due(c) \in Nat /\ Due(c) <= recipt[c] /\ recipt[c] \in Nat
           /\ Len(asked[c]) \in Nat /\ recipt[c] <= Len(asked[c])
<1>1. recipt[c] \in Nat /\ Len(asked[c]) \in Nat
  BY FlightIs
<1>2. Pending(c) => recipt[c] > 0
  BY DEF Sound, Drafted
<1>3. recipt[c] <= Len(asked[c])
  BY <1>1 DEF Sound, FiledAsAsked
<1> QED BY <1>1, <1>2, <1>3 DEF Due

\* More was asked.
LEMMA RestKept ==
    ASSUME NEW s, NEW a, NEW b, NEW d \in Nat, NEW m \in 0 .. d, Rest(s, a, m, d),
           \A k \in 1 .. d : b[k] = a[k]
    PROVE  Rest(s, b, m, d)
<1>1. \A n \in m .. d - 1 : n + 1 \in 1 .. d
  OBVIOUS
<1> QED BY <1>1 DEF Rest

\* Of the client's own steps only the writing of a text counts a request as sent.
LEMMA DueKept ==
    ASSUME Types, NEW c \in Clients, Sound(c), Alive(c), ProcessStep(c), ~WriteText(c)
    PROVE  Due(c)' = Due(c) /\ Out(toServer'[c]) = Out(toServer[c])
<1>1. CASE Start(c) \/ Refused(c) \/ TypeBroken(c) \/ SocketStep(c) \/ TypeIgnored(c)
  <2>1. /\ keyboard' = keyboard /\ draft' = draft /\ recipt' = recipt
        /\ toServer' = toServer
    BY <1>1 DEF Start, Refused, TypeBroken, TypeIgnored, SocketStep, Receive, LookupRaces,
       ConnectionLost, Terminate, maps, network, vars
  <2> QED BY <2>1 DEF Due, Pending
<1>2. CASE TypeLogin(c) \/ TypeOther(c) \/ NextEvent(c)
  <2>1. /\ keyboard[c] # "text" /\ recipt' = recipt /\ toServer' = toServer
        /\ draft'[c].request = NoRequest
    BY <1>2 DEF Types, TypeLogin, TypeOther, NextEvent, Type, Draft, maps, network
  <2> QED BY <2>1 DEF Due, Pending
<1>3. CASE TypeJoin(c) \/ TypeExit(c) \/ TypeLogout(c) \/ TypeReport(c) \/ EndReport(c)
  <2>1. recipt' = recipt /\ toServer' = toServer /\ keyboard[c] # "text"
    BY <1>3 DEF TypeJoin, TypeExit, TypeLogout, TypeReport, EndReport, Type, maps, network
  <2>2. keyboard'[c] # "text"
    BY <1>3 DEF Types, TypeJoin, TypeExit, TypeLogout, TypeReport, EndReport, Ask, KeyboardTo
  <2> QED BY <2>1, <2>2 DEF Due, Pending
<1>4. CASE InsertRequest(c)
  <2>1. /\ keyboard[c] = "insert" /\ keyboard'[c] = "text" /\ draft' = draft
        /\ recipt'[c] = recipt[c] + 1 /\ toServer' = toServer /\ recipt[c] \in Nat
    BY <1>4 DEF Types, InsertRequest, NextReceipt, KeyboardTo, network
  <2>2. draft[c].request # NoRequest
    BY <2>1 DEF Sound, Drafted
  <2> QED BY <2>1, <2>2 DEF Due, Pending
<1>5. CASE WriteDelimiter(c)
  <2>1. /\ keyboard[c] = "delimiter" /\ keyboard'[c] \in {"report", "line"}
        /\ recipt' = recipt /\ toServer[c] \in Seq(Written)
        /\ toServer'[c] = IF serverOpen[c] THEN Ended(toServer[c]) ELSE toServer[c]
    BY <1>5 DEF Types, WriteDelimiter, KeyboardTo, maps
  <2>2. Out(toServer'[c]) = Out(toServer[c])
    BY <2>1, OutEnded
  <2> QED BY <2>1, <2>2 DEF Due, Pending
<1>6. ~WriteFails(c)
  BY DEF WriteFails, Running, Alive
<1> QED BY <1>1, <1>2, <1>3, <1>4, <1>5, <1>6 DEF ProcessStep, Command, KeyboardStep

LEMMA WrittenThrough ==
    ASSUME Types, NEW c \in Clients, Sound(c), LastAsked(c), Alive(c), WriteText(c),
           NEW m \in 0 .. Due(c), Through(c, m)
    PROVE  Due(c) <= Due(c)' /\ Through(c, m)'
<1> DEFINE frame == [text |-> draft[c].text, ended |-> FALSE]
           x == Number(draft[c].text)
<1>1. /\ keyboard[c] = "text" /\ keyboard'[c] = "delimiter"
      /\ recipt'[c] = recipt[c] /\ asked'[c] = asked[c] /\ serverOpen[c]
      /\ toServer'[c] = Append(toServer[c], frame)
  BY DEF Types, WriteText, KeyboardTo, Running, Alive, maps
<1>2. ~Pending(c)' /\ Due(c)' = recipt[c]
  BY <1>1 DEF Pending, Due
<1>3. /\ Due(c) \in Nat /\ recipt[c] \in {Due(c), Due(c) + 1} /\ x \in Int
      /\ x >= 0 => x = Due(c)
      /\ recipt[c] = Due(c) + 1 => x = Due(c) \/ (x = Unread /\ Pending(c))
  <2>1. recipt[c] \in Nat /\ draft[c].text \in ClientTexts
    BY FlightIs
  <2>2. x \in Int /\ (x >= 0 \/ x = NoNumber \/ x = Unread)
    BY <2>1, ClientNumber
  <2>3. CASE Pending(c)
    BY <2>1, <2>2, <2>3 DEF Sound, Drafted, Due, NoNumber, Unread
  <2>4. CASE ~Pending(c)
    BY <2>1, <2>2, <2>4, <1>1 DEF Sound, Drafted, Due, NoNumber, Unread
  <2> QED BY <2>3, <2>4
<1>4. recipt[c] = Due(c) + 1 => x = Due(c) \/ asked[c][Due(c) + 1].game = Null
  <2>1. Len(asked[c]) = recipt[c]
    BY <1>1 DEF Sound, FiledAsAsked
  <2> QED BY <2>1, <1>3 DEF LastAsked
<1>5. Out(toServer'[c]) = Append(Out(toServer[c]), x) /\ Out(toServer[c]) \in Seq(Int)
  <2>1. frame \in Written
    BY FlightIs DEF Written
  <2> QED BY <2>1, <1>1, FlightIs, OutAppend
<1> HIDE DEF x, frame
<1>6. Rest(Append(Out(toServer[c]), x), asked[c], m, recipt[c])
  <2> DEFINE s == Out(toServer[c])
             a == asked[c]
             d == Due(c)
             e == recipt[c]
  <2>1. /\ s \in Seq(Int) /\ d \in Nat /\ m \in 0 .. d /\ Rest(s, a, m, d) /\ x \in Int
        /\ e \in {d, d + 1} /\ (x >= 0 => x = d)
        /\ (e = d + 1 => x = d \/ a[d + 1].game = Null)
    BY <1>3, <1>4, <1>5 DEF Through
  <2> HIDE DEF s, a, d, e
  <2>2. Rest(Append(s, x), a, m, e)
    BY <2>1, RestAppend
  <2> QED BY <2>2 DEF s, a, e
<1> QED BY <1>1, <1>2, <1>3, <1>5, <1>6 DEF Through

\* A client's own step leaves the server as far as it was.
LEMMA ThroughStep ==
    ASSUME Inv, NEW c \in Clients, Worded(c), Alive(c), ProcessStep(c),
           NEW m \in 0 .. Due(c), Through(c, m)
    PROVE  m \in 0 .. Due(c)' /\ Through(c, m)'
<1>1. Types /\ Counted /\ Sound(c) /\ LastAsked(c)
  BY DEF Inv, Worded
<1>2. Due(c) \in Nat /\ Due(c) <= Len(asked[c]) /\ Len(asked[c]) \in Nat
  BY <1>1, DueIs
<1>3. CASE WriteText(c)
  <2>1. Due(c) <= Due(c)' /\ Through(c, m)'
    BY <1>1, <1>3, WrittenThrough
  <2>2. Due(c)' = recipt[c] /\ recipt[c] \in Nat
    <3>1. keyboard'[c] = "delimiter" /\ recipt' = recipt
      BY <1>1, <1>3 DEF Types, WriteText, KeyboardTo, maps
    <3> QED BY <3>1, <1>1, DueIs DEF Due, Pending
  <2> QED BY <2>1, <2>2, <1>2
<1>4. CASE ~WriteText(c)
  <2>1. Due(c)' = Due(c) /\ Out(toServer'[c]) = Out(toServer[c])
    BY <1>1, <1>4, DueKept
  <2>2. \A k \in 1 .. Len(asked[c]) : asked'[c][k] = asked[c][k]
    BY <1>1, AskedGrows
  <2>3. \A k \in 1 .. Due(c) : asked'[c][k] = asked[c][k]
    BY <2>2, <1>2
  <2>4. Rest(Out(toServer[c]), asked'[c], m, Due(c))
    <3> DEFINE s == Out(toServer[c])
               a == asked[c]
               b == asked'[c]
               d == Due(c)
    <3>1. /\ d \in Nat /\ m \in 0 .. d /\ Rest(s, a, m, d)
          /\ \A k \in 1 .. d : b[k] = a[k]
      BY <2>3, <1>2 DEF Through
    <3> HIDE DEF s, a, b, d
    <3>2. Rest(s, b, m, d)
      BY <3>1, RestKept
    <3> QED BY <3>2 DEF s, b, d
  <2> QED BY <2>1, <2>4 DEF Through
<1> QED BY <1>3, <1>4
=============================================================================
