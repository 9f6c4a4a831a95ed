---------------------------- MODULE BaseCopyProofs ----------------------------
(***************************************************************************)
(* The baseline's copy, for any file, block and way the stream is cut: it  *)
(* is of the type it should be, it is damaged only at the front of a line, *)
(* and it is the first lines of the file when no read came short: all of   *)
(* them when nothing failed.                                               *)
(***************************************************************************)
EXTENDS BaseCopy, SequenceTheorems, TLAPS

Positions == 0 .. Total - 1

-----------------------------------------------------------------------------
(* Positions and lines.                                                    *)

LEMMA Sizes ==
    /\ Lines \in Nat /\ Block \in Nat \ {0} /\ Text \in Nat \ {0} /\ Text < Block
    /\ Total \in Nat
<1>1. Lines \in Nat /\ Block \in Nat \ {0} /\ Text \in Nat \ {0} /\ Text < Block
  BY CopyAssumption
<1>2. Lines * Block \in Nat
  BY <1>1
<1> QED
  BY <1>1, <1>2 DEF Total

\* Within a line the text comes first: what lies before a byte of the text of a
\* line, in that line, is text.
LEMMA TextIsFront ==
    ASSUME NEW p \in Nat, NEW q \in Nat, NEW r \in Nat, p <= r, r <= q,
           p \div Block = q \div Block, IsText(q)
    PROVE  IsText(r)
<1>1. r % Block <= q % Block /\ r % Block \in Nat /\ q % Block \in Nat
  BY Sizes
<1>2. q % Block < Text
  BY DEF IsText
<1> QED
  BY <1>1, <1>2, Sizes DEF IsText

\* A block that starts with a line holds that line, and the zeros at its end.
LEMMA BlockIsLine ==
    ASSUME NEW line \in Nat, NEW p \in Nat,
           line * Block <= p, p < line * Block + Block
    PROVE  /\ p \div Block = line
           /\ p = line * Block + Block - 1 => ~ IsText(p)
<1> DEFINE r == p - line * Block
<1>1. line * Block \in Nat
  BY Sizes
<1>2. r \in 0 .. Block - 1 /\ p = line * Block + r
  BY <1>1, Sizes
<1>3. (line * Block + r) \div Block = line /\ (line * Block + r) % Block = r
  BY <1>2, Sizes
<1>4. p = line * Block + Block - 1 => r = Block - 1
  BY <1>1, Sizes
<1> QED
  BY <1>2, <1>3, <1>4, Sizes DEF IsText

LEMMA SpanFacts ==
    ASSUME NEW S, NEW first \in Nat, NEW last \in Int, first <= last + 1,
           first .. last \subseteq S
    PROVE  /\ Span(first, last) \in Seq(S)
           /\ Len(Span(first, last)) = last - first + 1
           /\ \A i \in 1 .. last - first + 1 : Span(first, last)[i] = first + i - 1
<1> DEFINE n == last - first + 1
<1>1. n \in Nat
  OBVIOUS
<1>2. \A i \in 1 .. n : first + i - 1 \in first .. last
  BY <1>1
<1>3. Span(first, last) \in [1 .. n -> S]
  BY <1>2 DEF Span
<1>4. Span(first, last) \in Seq(S) /\ Len(Span(first, last)) = n
  BY <1>1, <1>3, IsASeq, LenProperties
<1> QED
  BY <1>4 DEF Span

-----------------------------------------------------------------------------
(* What one recv adds to the copy.                                         *)

CopyTypes ==
    /\ received \in Nat
    /\ copy \in Seq(Positions \cup {Garbage})

\* The text that was received before the first zero, or all of it and perhaps
\* what an uninitialised byte prints.
LEMMA Printed ==
    ASSUME CopyTypes, NEW n \in 1 .. Block, Prints(n)
    PROVE  \E m \in 0 .. n, rest \in {<<>>, <<Garbage>>} :
               /\ copy' = copy \o Span(received, received + m - 1) \o rest
               /\ \A p \in received .. received + m - 1 : IsText(p)
               /\ m < n => ~ IsText(received + m) /\ rest = <<>>
<1>1. received \in Nat /\ n \in Nat
  BY Sizes DEF CopyTypes
<1>2. CASE \E p \in received .. received + n - 1 : ~ IsText(p)
  <2>1. PICK stop \in received .. received + n - 1 :
            /\ ~ IsText(stop)
            /\ \A p \in received .. stop - 1 : IsText(p)
            /\ copy' = copy \o Span(received, stop - 1)
    BY <1>2 DEF Prints
  <2> DEFINE m == stop - received
  <2>2. m \in 0 .. n /\ m < n /\ received + m = stop
    BY <1>1, <2>1
  <2>3. \A p \in received .. received + m - 1 : IsText(p)
    <3>1. received + m - 1 = stop - 1
      BY <1>1, <2>2
    <3> QED
      BY <2>1, <3>1, Zenon
  <2>4. received .. received + m - 1 \subseteq Nat
    BY <1>1
  <2>5. Span(received, received + m - 1) \in Seq(Nat)
        /\ copy \in Seq(Positions \cup {Garbage})
    BY <1>1, <2>2, <2>4, SpanFacts DEF CopyTypes
  <2>6. copy \o Span(received, received + m - 1) \o <<>>
            = copy \o Span(received, received + m - 1)
    BY <2>5, ConcatEmptySeq, ConcatProperties
  <2>7. stop - 1 = received + m - 1
    BY <1>1, <2>2
  <2>8. copy' = copy \o Span(received, received + m - 1) \o <<>>
    BY <2>1, <2>6, <2>7, Zenon
  <2> QED
    BY <2>1, <2>2, <2>3, <2>8
<1>3. CASE \A p \in received .. received + n - 1 : IsText(p)
  <2>1. PICK rest \in {<<>>, <<Garbage>>} :
            copy' = copy \o Span(received, received + n - 1) \o rest
    BY <1>3 DEF Prints
  <2>2. n \in 0 .. n /\ ~ (n < n)
    BY <1>1
  <2> QED
    BY <1>3, <2>1, <2>2
<1> QED
  BY <1>2, <1>3

\* Two sequences one after the other.
LEMMA ConcatParts ==
    ASSUME NEW S, NEW a \in Seq(S), NEW b \in Seq(S), NEW c, c = a \o b
    PROVE  /\ c \in Seq(S)
           /\ Len(a) \in Nat
           /\ Len(c) = Len(a) + Len(b)
           /\ \A i \in 1 .. Len(a) : c[i] = a[i]
           /\ \A i \in 1 .. Len(b) : c[Len(a) + i] = b[i]
<1>1. Len(a) \in Nat /\ Len(b) \in Nat
  BY LenProperties
<1>2. /\ c \in Seq(S)
      /\ Len(c) = Len(a) + Len(b)
      /\ \A i \in 1 .. Len(a) + Len(b) :
             c[i] = IF i <= Len(a) THEN a[i] ELSE b[i - Len(a)]
  BY ConcatProperties
<1>3. \A i \in 1 .. Len(a) : c[i] = a[i]
  BY <1>1, <1>2
<1>4. \A i \in 1 .. Len(b) : c[Len(a) + i] = b[i]
  BY <1>1, <1>2
<1> QED
  BY <1>1, <1>2, <1>3, <1>4

\* So the copy keeps its bytes, and the positions received go behind them.
LEMMA CopyGrows ==
    ASSUME CopyTypes, NEW m \in Nat, NEW rest \in {<<>>, <<Garbage>>},
           NEW front, front = copy \o Span(received, received + m - 1),
           copy' = front \o rest
    PROVE  /\ copy' \in Seq(Positions \cup {Garbage} \cup received .. received + m - 1)
           /\ Len(copy) \in Nat
           /\ Len(copy') = Len(copy) + m + Len(rest)
           /\ \A i \in 1 .. Len(copy) : copy'[i] = copy[i]
           /\ \A i \in 1 .. m : copy'[Len(copy) + i] = received + i - 1
           /\ rest = <<Garbage>> => copy'[Len(copy) + m + 1] = Garbage
<1> DEFINE S == Positions \cup {Garbage} \cup received .. received + m - 1
           last == received + m - 1
           new == Span(received, last)
<1>1. copy \in Seq(S)
  BY DEF CopyTypes
<1>2. rest \in Seq(S)
  <2>1. Garbage \in S
    OBVIOUS
  <2> HIDE DEF S
  <2>2. <<>> \in Seq(S) /\ <<Garbage>> \in Seq(S)
    BY <2>1
  <2> QED
    BY <2>2
<1>3. new \in Seq(S) /\ Len(new) = m /\ \A i \in 1 .. m : new[i] = received + i - 1
  <2>1. received \in Nat
    BY DEF CopyTypes
  <2>2. last \in Int /\ received <= last + 1 /\ last - received + 1 = m
    BY <2>1
  <2>3. received .. last \subseteq S
    OBVIOUS
  <2> HIDE DEF last, S
  <2>4. /\ Span(received, last) \in Seq(S)
        /\ Len(Span(received, last)) = m
        /\ \A i \in 1 .. m : Span(received, last)[i] = received + i - 1
    BY <2>1, <2>2, <2>3, SpanFacts
  <2> QED
    BY <2>4
<1>4. front = copy \o new
  OBVIOUS
<1>5. new \in Seq(S)
  BY <1>3
<1> HIDE DEF S, new
<1>6. front \in Seq(S) /\ Len(copy) \in Nat
  BY <1>1, <1>4, <1>5, ConcatParts
<1>7. Len(front) = Len(copy) + m
  <2>1. Len(copy \o new) = Len(copy) + Len(new)
    BY <1>1, <1>5, ConcatProperties
  <2> QED
    BY <1>3, <1>4, <2>1, Zenon
<1>8. \A i \in 1 .. Len(copy) : front[i] = copy[i]
  BY <1>1, <1>4, <1>5, ConcatParts
<1>9. \A i \in 1 .. m : front[Len(copy) + i] = new[i]
  BY <1>1, <1>3, <1>4, <1>5, ConcatParts
<1>10. copy' \in Seq(S)
  BY <1>2, <1>6, ConcatParts
<1>11. Len(copy') = Len(front) + Len(rest)
  BY <1>2, <1>6, ConcatParts
<1>12. \A i \in 1 .. Len(front) : copy'[i] = front[i]
  BY <1>2, <1>6, ConcatParts
<1>13. \A i \in 1 .. Len(rest) : copy'[Len(front) + i] = rest[i]
  BY <1>2, <1>6, ConcatParts
<1>14. \A i \in 1 .. Len(copy) : copy'[i] = copy[i]
  BY <1>6, <1>7, <1>8, <1>12
<1>15. ASSUME NEW i \in 1 .. m PROVE copy'[Len(copy) + i] = received + i - 1
  <2>1. Len(copy) + i \in 1 .. Len(front)
    BY <1>6, <1>7
  <2>2. copy'[Len(copy) + i] = front[Len(copy) + i]
    BY <1>12, <2>1, Zenon
  <2> QED
    BY <1>3, <1>9, <2>2
<1>16. ASSUME rest = <<Garbage>> PROVE copy'[Len(copy) + m + 1] = Garbage
  <2>1. Len(rest) = 1 /\ rest[1] = Garbage
    BY <1>16
  <2>2. 1 \in 1 .. Len(rest)
    BY <2>1
  <2>3. copy'[Len(front) + 1] = Garbage
    BY <1>13, <2>1, <2>2, Zenon
  <2> QED
    BY <1>7, <2>3, Zenon
<1> QED
  BY <1>6, <1>7, <1>10, <1>11, <1>14, <1>15, <1>16 DEF S

\* One recv: the text that it adds ends before the first zero received, and
\* what an uninitialised byte prints can only follow text.
LEMMA Added ==
    ASSUME CopyTypes, NEW n \in 1 .. Block, Prints(n)
    PROVE  \E m \in 0 .. n :
               /\ \A p \in received .. received + m - 1 : IsText(p)
               /\ m < n => ~ IsText(received + m)
               /\ copy' \in Seq(Positions \cup {Garbage} \cup received .. received + m - 1)
               /\ Len(copy) \in Nat
               /\ Len(copy') \in {Len(copy) + m, Len(copy) + m + 1}
               /\ m < n => Len(copy') = Len(copy) + m
               /\ \A i \in 1 .. Len(copy) : copy'[i] = copy[i]
               /\ \A i \in 1 .. m : copy'[Len(copy) + i] = received + i - 1
               /\ Len(copy') > Len(copy) + m => copy'[Len(copy) + m + 1] = Garbage
<1>1. PICK m \in 0 .. n, rest \in {<<>>, <<Garbage>>} :
          /\ copy' = copy \o Span(received, received + m - 1) \o rest
          /\ \A p \in received .. received + m - 1 : IsText(p)
          /\ m < n => ~ IsText(received + m) /\ rest = <<>>
  BY Printed
<1> DEFINE front == copy \o Span(received, received + m - 1)
<1>2. copy' = front \o rest
  BY <1>1, Zenon
<1>3. front = copy \o Span(received, received + m - 1)
  OBVIOUS
<1>4. m \in Nat /\ n \in Nat
  BY Sizes
<1> HIDE DEF front
<1>5. /\ copy' \in Seq(Positions \cup {Garbage} \cup received .. received + m - 1)
      /\ Len(copy) \in Nat
      /\ Len(copy') = Len(copy) + m + Len(rest)
      /\ \A i \in 1 .. Len(copy) : copy'[i] = copy[i]
      /\ \A i \in 1 .. m : copy'[Len(copy) + i] = received + i - 1
      /\ rest = <<Garbage>> => copy'[Len(copy) + m + 1] = Garbage
  BY <1>2, <1>3, <1>4, CopyGrows, Zenon
<1>6. \/ rest = <<>> /\ Len(rest) = 0
      \/ rest = <<Garbage>> /\ Len(rest) = 1
  <2>1. Len(<<>>) = 0 /\ Len(<<Garbage>>) = 1
    OBVIOUS
  <2> QED
    BY <2>1
<1>7. /\ Len(copy') \in {Len(copy) + m, Len(copy) + m + 1}
      /\ m < n => Len(copy') = Len(copy) + m
      /\ Len(copy') > Len(copy) + m => rest = <<Garbage>>
  <2>1. Len(copy') = Len(copy) + m + Len(rest) /\ Len(copy) \in Nat
    BY <1>5
  <2>2. CASE rest = <<>>
    BY <1>4, <1>6, <2>1, <2>2
  <2>3. CASE rest = <<Garbage>>
    <3>1. Len(rest) = 1 /\ ~ (m < n)
      BY <1>1, <1>6, <2>3
    <3> QED
      BY <1>4, <2>1, <2>3, <3>1
  <2> QED
    BY <2>2, <2>3
<1> QED
  BY <1>1, <1>5, <1>7

\* The positions that are copied are those that were, and the text received.
LEMMA CopiedAfter ==
    ASSUME CopyTypes, NEW n \in 1 .. Block, Prints(n)
    PROVE  \E m \in 0 .. n :
               /\ \A p \in received .. received + m - 1 : IsText(p)
               /\ m < n => ~ IsText(received + m)
               /\ \A p \in Nat :
                      Copied(p)' <=> Copied(p) \/ p \in received .. received + m - 1
<1>1. PICK m \in 0 .. n :
          /\ \A p \in received .. received + m - 1 : IsText(p)
          /\ m < n => ~ IsText(received + m)
          /\ Len(copy) \in Nat
          /\ Len(copy') \in {Len(copy) + m, Len(copy) + m + 1}
          /\ \A i \in 1 .. Len(copy) : copy'[i] = copy[i]
          /\ \A i \in 1 .. m : copy'[Len(copy) + i] = received + i - 1
          /\ Len(copy') > Len(copy) + m => copy'[Len(copy) + m + 1] = Garbage
  BY Added
<1>2. received \in Nat /\ m \in Nat
  BY Sizes DEF CopyTypes
<1>3. ASSUME NEW p \in Nat
      PROVE  Copied(p)' <=> Copied(p) \/ p \in received .. received + m - 1
  <2>1. ASSUME Copied(p) PROVE Copied(p)'
    BY <1>1, <1>2, <2>1 DEF Copied
  <2>2. ASSUME p \in received .. received + m - 1 PROVE Copied(p)'
    <3> DEFINE i == p - received + 1
    <3>1. i \in 1 .. m /\ Len(copy) + i \in 1 .. Len(copy') /\ received + i - 1 = p
      BY <1>1, <1>2, <2>2
    <3>2. copy'[Len(copy) + i] = p
      BY <1>1, <3>1
    <3> QED
      BY <3>1, <3>2 DEF Copied
  <2>3. ASSUME Copied(p)' PROVE Copied(p) \/ p \in received .. received + m - 1
    <3>1. PICK i \in 1 .. Len(copy') : copy'[i] = p
      BY <2>3 DEF Copied
    <3>2. CASE i \in 1 .. Len(copy)
      BY <1>1, <3>1, <3>2 DEF Copied
    <3>3. CASE i - Len(copy) \in 1 .. m
      <4>1. Len(copy) + (i - Len(copy)) = i /\ i \in Nat
        BY <1>1, <3>1
      <4>2. copy'[i] = received + (i - Len(copy)) - 1
        BY <1>1, <3>3, <4>1
      <4> QED
        BY <1>1, <1>2, <3>1, <3>3, <4>1, <4>2
    <3>4. CASE i = Len(copy) + m + 1
      <4>1. copy'[i] = Garbage
        BY <1>1, <1>2, <3>1, <3>4
      <4> QED
        BY <3>1, <4>1, CopyAssumption
    <3> QED
      BY <1>1, <1>2, <3>1, <3>2, <3>3, <3>4
  <2> QED
    BY <2>1, <2>2, <2>3
<1> QED
  BY <1>1, <1>3

-----------------------------------------------------------------------------
(* The types.                                                              *)

LEMMA TypesGiveCopy == ASSUME TypeOK PROVE CopyTypes
BY Sizes DEF TypeOK, CopyTypes, Positions

LEMMA TypeInit == Init => TypeOK
<1>1. 0 % Block = 0 /\ 0 \in 0 .. Total /\ 0 \in 0 .. 0
  BY Sizes
<1>2. <<>> \in Seq((0 .. Total - 1) \cup {Garbage})
  OBVIOUS
<1> QED
  BY <1>1, <1>2 DEF Init, TypeOK

\* Between two blocks there is room for another, until the last line is sent.
LEMMA RoomForLine ==
    ASSUME NEW n \in 0 .. Total, n % Block = 0, n < Total
    PROVE  n + Block \in 0 .. Total /\ (n + Block) % Block = 0
<1> DEFINE line == n \div Block
<1>1. n \in Nat /\ line \in Nat /\ n = Block * line
  BY Sizes
<1> HIDE DEF line
<1>2. line < Lines
  <2> SUFFICES ASSUME Lines <= line PROVE FALSE
    BY <1>1, Sizes
  <2>1. Lines * Block <= line * Block
    BY <1>1, Sizes
  <2> QED
    BY <1>1, <2>1, Sizes DEF Total
<1>3. (line + 1) * Block <= Lines * Block
  BY <1>1, <1>2, Sizes
<1>4. (line + 1) * Block = n + Block
  BY <1>1, Sizes
<1>5. (n + Block) % Block = 0
  BY <1>1, Sizes
<1> QED
  BY <1>1, <1>3, <1>4, <1>5, Sizes DEF Total

LEMMA TypeStep == TypeOK /\ [Next]_vars => TypeOK'
<1> SUFFICES ASSUME TypeOK, [Next]_vars PROVE TypeOK'
  OBVIOUS
<1>1. CASE SendLine
  <2>1. sent' = sent + Block /\ sent + Block \in 0 .. Total /\ (sent + Block) % Block = 0
    BY <1>1, RoomForLine DEF SendLine, TypeOK
  <2>2. received' \in 0 .. sent'
    BY <1>1, <2>1, Sizes DEF SendLine, TypeOK
  <2> QED
    BY <1>1, <2>1, <2>2 DEF SendLine, TypeOK
<1>2. CASE Receive
  <2>1. PICK n \in 1 .. Block : /\ received + n <= sent
                                /\ Prints(n)
                                /\ received' = received + n
                                /\ cut' = (cut \/ n < Block)
    BY <1>2 DEF Receive
  <2>2. PICK m \in 0 .. n :
            copy' \in Seq(Positions \cup {Garbage} \cup received .. received + m - 1)
    BY <2>1, TypesGiveCopy, Added
  <2>3. received .. received + m - 1 \subseteq Positions
    BY <2>1, Sizes DEF TypeOK, Positions
  <2>4. Positions \cup {Garbage} \cup received .. received + m - 1 = Positions \cup {Garbage}
    BY <2>3
  <2>5. copy' \in Seq(Positions \cup {Garbage})
    BY <2>2, <2>4, Zenon
  <2>6. received' \in 0 .. sent'
    BY <1>2, <2>1, Sizes DEF Receive, TypeOK
  <2>7. cut' \in BOOLEAN
    BY <2>1
  <2> QED
    BY <1>2, <2>5, <2>6, <2>7 DEF Receive, TypeOK, Positions
<1>3. CASE SendFails
  <2>1. PICK part \in 0 .. Block - 1 : sent + part <= Total /\ sent' = sent + part
    BY <1>3 DEF SendFails
  <2>2. sent' \in 0 .. Total /\ received' \in 0 .. sent'
    BY <1>3, <2>1, Sizes DEF SendFails, TypeOK
  <2> QED
    BY <1>3, <2>2 DEF SendFails, TypeOK
<1>4. CASE SendEnd
  <2>1. sending' = FALSE /\ UNCHANGED <<sent, received, clear, copy, done, cut, failed>>
    BY <1>4 DEF SendEnd
  <2> QED
    BY <2>1 DEF TypeOK
<1>5. CASE ReceiveEnd
  <2>1. done' = TRUE /\ UNCHANGED <<sent, sending, received, clear, copy, cut, failed>>
    BY <1>5 DEF ReceiveEnd
  <2> QED
    BY <2>1 DEF TypeOK
<1>6. CASE ReceiveFails
  <2>1. /\ done' = TRUE /\ failed' = TRUE
        /\ UNCHANGED <<sent, sending, received, clear, copy, cut>>
    BY <1>6 DEF ReceiveFails
  <2> QED
    BY <2>1 DEF TypeOK
<1>7. CASE UNCHANGED vars
  BY <1>7 DEF vars, TypeOK
<1> QED
  BY <1>1, <1>2, <1>3, <1>4, <1>5, <1>6, <1>7 DEF Next

\* No more is received than was sent, whole lines are sent until something fails,
\* and the copy holds bytes of the file and what an uninitialised byte prints
\* (server_base.cpp, client_base.cpp).
THEOREM CopyTypeCorrect == Spec => []TypeOK
BY TypeInit, TypeStep, PTL DEF Spec

-----------------------------------------------------------------------------
(* Where a line can be damaged.                                            *)

\* Only what was received is copied, and of a line no byte is missing behind one
\* that is there.
CopiedReceived == \A p \in Nat : Copied(p) => p < received

FrontInv == CopiedReceived /\ LostAtFrontOnly

\* When a byte of a line has come, a recv copies all it brings of the text of
\* that line: it meets no zero before.
LEMMA FrontReceive ==
    ASSUME TypeOK, FrontInv, Receive PROVE FrontInv'
<1>1. PICK n \in 1 .. Block : Prints(n) /\ received' = received + n
  BY DEF Receive
<1>2. PICK m \in 0 .. n :
          /\ \A p \in received .. received + m - 1 : IsText(p)
          /\ m < n => ~ IsText(received + m)
          /\ \A p \in Nat :
                 Copied(p)' <=> Copied(p) \/ p \in received .. received + m - 1
  BY <1>1, TypesGiveCopy, CopiedAfter
<1>3. received \in Nat /\ n \in Nat /\ m \in Nat
  BY <1>1, Sizes, TypesGiveCopy DEF CopyTypes
<1>4. CopiedReceived'
  <2> SUFFICES ASSUME NEW p \in Nat, Copied(p)' PROVE p < received'
    BY DEF CopiedReceived
  <2>1. p < received \/ p \in received .. received + m - 1
    BY <1>2 DEF FrontInv, CopiedReceived
  <2> QED
    BY <1>1, <1>3, <2>1
<1> SUFFICES ASSUME NEW p \in 0 .. received' - 1, NEW q \in 0 .. received' - 1,
                    p < q, p \div Block = q \div Block, IsText(q), Copied(p)'
             PROVE  Copied(q)'
  BY <1>4 DEF FrontInv, LostAtFrontOnly
<1>5. p \in Nat /\ q \in Nat /\ q < received + n
  BY <1>1, <1>3
<1>6. CASE q < received
  <2>1. Copied(p)
    BY <1>2, <1>3, <1>5, <1>6
  <2>2. p \in 0 .. received - 1 /\ q \in 0 .. received - 1
    BY <1>3, <1>5, <1>6
  <2>3. Copied(q)
    BY <2>1, <2>2 DEF FrontInv, LostAtFrontOnly
  <2> QED
    BY <1>2, <1>5, <2>3
<1>7. CASE received <= q
  <2>1. ~ (m < n /\ received + m <= q)
    <3> SUFFICES ASSUME m < n, received + m <= q PROVE FALSE
      OBVIOUS
    <3>1. ~ IsText(received + m) /\ received + m \in Nat
      BY <1>2, <1>3
    <3>2. p <= received + m
      <4>1. p < received \/ p \in received .. received + m - 1
        BY <1>2, <1>5 DEF FrontInv, CopiedReceived
      <4> QED
        BY <1>3, <1>5, <4>1
    <3> QED
      BY <1>5, <3>1, <3>2, TextIsFront
  <2>2. q \in received .. received + m - 1
    BY <1>3, <1>5, <1>7, <2>1
  <2> QED
    BY <1>2, <1>5, <2>2
<1> QED
  BY <1>3, <1>5, <1>6, <1>7

LEMMA FrontStep == TypeOK /\ FrontInv /\ [Next]_vars => FrontInv'
<1>1. ASSUME FrontInv, UNCHANGED <<received, copy>> PROVE FrontInv'
  BY <1>1 DEF FrontInv, CopiedReceived, LostAtFrontOnly, Copied
<1>2. SendLine \/ SendEnd \/ SendFails \/ ReceiveEnd \/ ReceiveFails \/ UNCHANGED vars
          => UNCHANGED <<received, copy>>
  BY DEF SendLine, SendEnd, SendFails, ReceiveEnd, ReceiveFails, vars
<1> QED
  BY <1>1, <1>2, FrontReceive DEF Next

\* A line is only ever damaged at its front, for any file, block and way the
\* stream is cut (client_base.cpp:18-42).
THEOREM LinesLostAtFrontOnly == Spec => []LostAtFrontOnly
<1>1. Init => FrontInv
  <2>1. ASSUME Init PROVE \A p : ~ Copied(p)
    BY <2>1 DEF Init, Copied
  <2> QED
    BY <2>1 DEF FrontInv, CopiedReceived, LostAtFrontOnly
<1>2. FrontInv => LostAtFrontOnly
  BY DEF FrontInv
<1> QED
  BY <1>1, <1>2, FrontStep, CopyTypeCorrect, PTL DEF Spec

-----------------------------------------------------------------------------
(* When nothing is damaged.                                                *)

\* Whole lines are received as long as no recv is cut, and unless something fails
\* the sender closes after the last line and the receiver stops only then.
WholeInv ==
    /\ ~ failed => /\ ~ sending => sent = Total
                   /\ done => received = Total
    /\ ~ cut => IsTextOf(received) /\ \E line \in Nat : received = line * Block

\* No recv that leaves the stream uncut brings less than a block.
LEMMA UncutReceive ==
    ASSUME Receive, ~ cut'
    PROVE  Prints(Block) /\ received' = received + Block /\ ~ cut
<1>1. PICK n \in 1 .. Block : /\ Prints(n)
                              /\ received' = received + n
                              /\ cut' = (cut \/ n < Block)
  BY DEF Receive
<1>2. ~ cut /\ ~ (n < Block)
  BY <1>1, Zenon
<1>3. n = Block
  BY <1>2, Sizes
<1> QED
  BY <1>1, <1>2, <1>3

\* A recv that starts with a line and brings its block meets the zeros of that
\* line, and copies the text before them.
LEMMA WholeReceive ==
    ASSUME TypeOK, WholeInv, Receive, ~ cut' PROVE IsTextOf(received)'
<1>1. /\ Prints(Block) /\ received' = received + Block
      /\ ~ cut
  BY UncutReceive
<1>2. PICK line \in Nat : received = line * Block
  BY <1>1 DEF WholeInv
<1>3. received \in Nat /\ Block \in 1 .. Block
  BY Sizes, TypesGiveCopy DEF CopyTypes
<1>4. PICK m \in 0 .. Block :
          /\ \A p \in received .. received + m - 1 : IsText(p)
          /\ m < Block => ~ IsText(received + m)
          /\ Len(copy) \in Nat
          /\ m < Block => Len(copy') = Len(copy) + m
          /\ \A i \in 1 .. Len(copy) : copy'[i] = copy[i]
          /\ \A i \in 1 .. m : copy'[Len(copy) + i] = received + i - 1
  BY <1>1, <1>3, TypesGiveCopy, Added
<1>5. m \in Nat /\ Block \in Nat \ {0}
  BY Sizes
<1>6. m < Block
  <2> SUFFICES ASSUME m = Block PROVE FALSE
    BY <1>5
  <2>1. received + Block - 1 \in received .. received + m - 1
        /\ received + Block - 1 \in Nat
    BY <1>3, <1>5
  <2>2. /\ line * Block <= received + Block - 1
        /\ received + Block - 1 < line * Block + Block
        /\ received + Block - 1 = line * Block + Block - 1
    BY <1>2, <1>3, <1>5
  <2> QED
    BY <1>4, <2>1, <2>2, BlockIsLine
<1>7. ASSUME NEW p \in received .. received + Block - 1, IsText(p)
      PROVE  p \in received .. received + m - 1
  <2> SUFFICES ASSUME received + m <= p PROVE FALSE
    BY <1>3, <1>5
  <2>1. p \in Nat /\ received + m \in Nat /\ ~ IsText(received + m)
    BY <1>3, <1>4, <1>5, <1>6
  <2>2. /\ line * Block <= received + m /\ received + m < line * Block + Block
        /\ line * Block <= p /\ p < line * Block + Block
    BY <1>2, <1>3, <1>5, <1>6
  <2>3. (received + m) \div Block = line /\ p \div Block = line
    BY <2>1, <2>2, BlockIsLine
  <2>4. (received + m) \div Block = p \div Block
    BY <2>3
  <2> QED
    BY <1>7, <2>1, <2>4, TextIsFront
<1>8. Len(copy') = Len(copy) + m /\ IsTextOf(received)
  BY <1>1, <1>4, <1>6 DEF WholeInv
<1>9. ASSUME NEW p \in 0 .. received' - 1, IsText(p) PROVE Copied(p)'
  <2>1. CASE p < received
    <3>1. Copied(p)
      BY <1>3, <1>8, <1>9, <2>1 DEF IsTextOf
    <3> QED
      BY <1>4, <1>5, <1>8, <3>1 DEF Copied
  <2>2. CASE received <= p
    <3> DEFINE i == p - received + 1
    <3>1. p \in received .. received + m - 1
      BY <1>1, <1>3, <1>7, <1>9, <2>2
    <3>2. i \in 1 .. m /\ Len(copy) + i \in 1 .. Len(copy') /\ received + i - 1 = p
      BY <1>3, <1>4, <1>5, <1>8, <3>1
    <3>3. copy'[Len(copy) + i] = p
      BY <1>4, <3>2
    <3> QED
      BY <3>2, <3>3 DEF Copied
  <2> QED
    BY <1>1, <1>3, <2>1, <2>2
<1>10. ASSUME NEW i \in 1 .. Len(copy')
       PROVE  \/ i \in 1 .. Len(copy) /\ copy'[i] = copy[i]
              \/ /\ i - Len(copy) \in 1 .. m
                 /\ copy'[i] = received + (i - Len(copy)) - 1
  <2>1. CASE i \in 1 .. Len(copy)
    BY <1>4, <2>1
  <2>2. CASE i - Len(copy) \in 1 .. m
    <3>1. Len(copy) + (i - Len(copy)) = i
      BY <1>4
    <3>2. copy'[Len(copy) + (i - Len(copy))] = received + (i - Len(copy)) - 1
      BY <1>4, <2>2
    <3> QED
      BY <2>2, <3>1, <3>2
  <2> QED
    BY <1>4, <1>5, <1>8, <2>1, <2>2
<1>11. ASSUME NEW i \in 1 .. Len(copy')
       PROVE  copy'[i] \in 0 .. received' - 1 /\ IsText(copy'[i])
  <2>1. CASE i \in 1 .. Len(copy) /\ copy'[i] = copy[i]
    <3>1. copy[i] \in 0 .. received - 1 /\ IsText(copy[i])
      BY <1>8, <2>1 DEF IsTextOf
    <3> QED
      BY <1>1, <1>3, <1>5, <2>1, <3>1
  <2>2. CASE i - Len(copy) \in 1 .. m /\ copy'[i] = received + (i - Len(copy)) - 1
    <3>1. received + (i - Len(copy)) - 1 \in received .. received + m - 1
      BY <1>3, <1>4, <1>5, <2>2
    <3>2. copy'[i] \in received .. received + m - 1
      BY <2>2, <3>1
    <3> QED
      BY <1>1, <1>3, <1>4, <1>5, <1>6, <3>2
  <2> QED
    BY <1>10, <2>1, <2>2
<1>12. ASSUME NEW i \in 1 .. Len(copy'), NEW j \in 1 .. Len(copy'), i < j
       PROVE  copy'[i] < copy'[j]
  <2>1. CASE j \in 1 .. Len(copy) /\ copy'[j] = copy[j]
    <3>1. i \in 1 .. Len(copy) /\ copy'[i] = copy[i]
      BY <1>4, <1>12, <2>1
    <3> QED
      BY <1>8, <1>12, <2>1, <3>1 DEF IsTextOf
  <2>2. CASE j - Len(copy) \in 1 .. m /\ copy'[j] = received + (j - Len(copy)) - 1
    <3>1. CASE i \in 1 .. Len(copy) /\ copy'[i] = copy[i]
      <4>1. copy[i] \in 0 .. received - 1
        BY <1>8, <3>1 DEF IsTextOf
      <4> QED
        BY <1>3, <1>4, <2>2, <3>1, <4>1
    <3>2. CASE i - Len(copy) \in 1 .. m /\ copy'[i] = received + (i - Len(copy)) - 1
      BY <1>3, <1>4, <1>12, <2>2, <3>2
    <3> QED
      BY <1>10, <3>1, <3>2
  <2> QED
    BY <1>10, <2>1, <2>2
<1> QED
  BY <1>9, <1>11, <1>12 DEF IsTextOf

LEMMA WholeStep == TypeOK /\ WholeInv /\ [Next]_vars => WholeInv'
<1> SUFFICES ASSUME TypeOK, WholeInv, [Next]_vars PROVE WholeInv'
  OBVIOUS
<1>1. ASSUME UNCHANGED <<received, copy, cut>>, ~ failed' => ~ failed,
             ~ failed' => (~ sending' => sent' = Total) /\ (done' => received = Total)
      PROVE  WholeInv'
  BY <1>1 DEF WholeInv, IsTextOf, Copied
<1>2. CASE Receive
  <2>1. ~ done' /\ (cut => cut') /\ UNCHANGED <<sent, sending, failed>>
    BY <1>2 DEF Receive, TypeOK
  <2>2. ASSUME ~ cut' PROVE \E line \in Nat : received' = line * Block
    <3>1. ~ cut /\ received' = received + Block
      BY <1>2, <2>2, UncutReceive
    <3>2. PICK line \in Nat : received = line * Block
      BY <3>1 DEF WholeInv
    <3>3. received' = (line + 1) * Block /\ line + 1 \in Nat
      BY <3>1, <3>2, Sizes
    <3> QED
      BY <3>3
  <2> QED
    BY <1>2, <2>1, <2>2, WholeReceive DEF WholeInv
<1>3. CASE SendLine
  BY <1>1, <1>3 DEF SendLine, WholeInv
<1>4. CASE SendEnd
  BY <1>1, <1>4 DEF SendEnd, WholeInv
<1>5. CASE SendFails
  BY <1>1, <1>5 DEF SendFails
<1>6. CASE ReceiveEnd
  BY <1>1, <1>6 DEF ReceiveEnd, WholeInv
<1>7. CASE ReceiveFails
  BY <1>1, <1>7 DEF ReceiveFails
<1>8. CASE UNCHANGED vars
  BY <1>1, <1>8 DEF vars, WholeInv
<1> QED
  BY <1>2, <1>3, <1>4, <1>5, <1>6, <1>7, <1>8 DEF Next

LEMMA WholeAlways == Spec => [](TypeOK /\ WholeInv)
<1>1. Init => WholeInv
  <2>1. 0 = 0 * Block
    BY Sizes
  <2> QED
    BY <2>1 DEF Init, WholeInv, IsTextOf
<1> QED
  BY <1>1, WholeStep, CopyTypeCorrect, PTL DEF Spec

\* As long as every recv returned the block of a line, the copy is the first lines
\* of the file in their order and nothing else, whoever fails and whenever
\* (client_base.cpp:21-26).
THEOREM FirstLinesAlwaysWhole == Spec => []FirstLinesWhole
<1>1. TypeOK /\ WholeInv => FirstLinesWhole
  <2> SUFFICES ASSUME TypeOK, WholeInv, ~ cut PROVE received % Block = 0
    BY DEF WholeInv, FirstLinesWhole
  <2>1. PICK line \in Nat : received = line * Block
    BY DEF WholeInv
  <2>2. line * Block = Block * line
    BY Sizes
  <2>3. (Block * line) % Block = 0
    BY Sizes
  <2> QED
    BY <2>1, <2>2, <2>3
<1> QED
  BY <1>1, WholeAlways, PTL

\* It is the whole file when moreover no send and no recv failed and the sender was
\* not killed (server_base.cpp:16-22, client_base.cpp:21-24).
THEOREM CopyWholeUnlessCut == Spec => []WholeUnlessCut
<1>1. WholeInv => WholeUnlessCut
  BY DEF WholeInv, WholeUnlessCut
<1> QED
  BY <1>1, WholeAlways, PTL

=============================================================================
