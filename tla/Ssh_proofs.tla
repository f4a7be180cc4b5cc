----------------------------- MODULE Ssh_proofs -----------------------------
(***************************************************************************)
(* Proofs about one terminal session (TerminalSession), for channels of    *)
(* any size and any amount of output and input, and about the pool of      *)
(* shared connections (SshRegistry), for any number of clients and of      *)
(* connections.                                                            *)
(***************************************************************************)
EXTENDS TerminalSession, SshRegistry, SequenceTheorems, TLAPS

(* Sequences of pieces, and of messages made of them.                       *)
Pieces == Seq(Nat)
Below(S, T) == \A x \in S, y \in T : x < y
NoMark(ms) == \A i \in DOMAIN ms : ms[i] # Mark
MarkAtEnd(ms) == \A i \in DOMAIN ms : ms[i] = Mark => i = Len(ms)

(* One sequence of pieces after another.                                    *)
LEMMA JoinedPieces ==
  ASSUME NEW s \in Pieces, NEW t \in Pieces
  PROVE  /\ s \o t \in Pieces /\ Range(s \o t) = Range(s) \cup Range(t)
         /\ s # <<>> => s \o t # <<>>
         /\ InOrder(s) /\ InOrder(t) /\ Below(Range(s), Range(t)) => InOrder(s \o t)
<1>1. /\ Len(s) \in Nat /\ DOMAIN s = 1 .. Len(s)
      /\ Len(t) \in Nat /\ DOMAIN t = 1 .. Len(t)
      /\ \A i \in DOMAIN s : s[i] \in Nat /\ s[i] \in Range(s)
      /\ \A i \in DOMAIN t : t[i] \in Nat /\ t[i] \in Range(t)
  BY DEF Pieces, Range
<1>2. /\ s \o t \in Pieces /\ Len(s \o t) = Len(s) + Len(t)
      /\ DOMAIN (s \o t) = 1 .. Len(s) + Len(t)
      /\ \A i \in 1 .. Len(s) + Len(t) :
            (s \o t)[i] = IF i <= Len(s) THEN s[i] ELSE t[i - Len(s)]
  BY <1>1 DEF Pieces
<1>3. Range(s \o t) = Range(s) \cup Range(t)
  <2>1. ASSUME NEW x \in Range(s \o t)
        PROVE  x \in Range(s) \cup Range(t)
    <3>1. PICK i \in 1 .. Len(s) + Len(t) : x = (s \o t)[i]
      BY <1>2 DEF Range
    <3>2. CASE i <= Len(s)
      BY <3>1, <3>2, <1>1, <1>2
    <3>3. CASE ~(i <= Len(s))
      <4>1. i - Len(s) \in DOMAIN t
        BY <3>1, <3>3, <1>1
      <4> QED
        BY <3>1, <3>3, <4>1, <1>1, <1>2
    <3> QED
      BY <3>2, <3>3
  <2>2. ASSUME NEW x \in Range(s)
        PROVE  x \in Range(s \o t)
    <3>1. PICK i \in 1 .. Len(s) : x = s[i]
      BY <1>1 DEF Range
    <3>2. i \in DOMAIN (s \o t) /\ (s \o t)[i] = x
      BY <3>1, <1>1, <1>2
    <3> QED
      BY <3>2 DEF Range
  <2>3. ASSUME NEW x \in Range(t)
        PROVE  x \in Range(s \o t)
    <3>1. PICK i \in 1 .. Len(t) : x = t[i]
      BY <1>1 DEF Range
    <3>2. Len(s) + i \in DOMAIN (s \o t) /\ (s \o t)[Len(s) + i] = x
      BY <3>1, <1>1, <1>2
    <3> QED
      BY <3>2 DEF Range
  <2> QED
    BY <2>1, <2>2, <2>3
<1>4. s # <<>> => s \o t # <<>>
  <2> SUFFICES ASSUME s # <<>>
               PROVE  s \o t # <<>>
    OBVIOUS
  <2>1. Len(s) # 0
    BY EmptySeq DEF Pieces
  <2>2. Len(s \o t) # 0 /\ Len(<<>>) = 0
    BY <2>1, <1>1, <1>2
  <2> QED
    BY <2>2
<1>5. ASSUME InOrder(s), InOrder(t), Below(Range(s), Range(t))
      PROVE  InOrder(s \o t)
  <2> SUFFICES ASSUME NEW i \in 1 .. Len(s) + Len(t), NEW j \in 1 .. Len(s) + Len(t),
                      i < j
               PROVE  (s \o t)[i] < (s \o t)[j]
    BY <1>2 DEF InOrder
  <2>1. CASE j <= Len(s)
    BY <2>1, <1>1, <1>2, <1>5 DEF InOrder
  <2>2. CASE i <= Len(s) /\ ~(j <= Len(s))
    <3>1. i \in DOMAIN s /\ j - Len(s) \in DOMAIN t
      BY <2>2, <1>1
    <3> QED
      BY <2>2, <3>1, <1>1, <1>2, <1>5 DEF Below
  <2>3. CASE ~(i <= Len(s))
    <3>1. i - Len(s) \in DOMAIN t /\ j - Len(s) \in DOMAIN t /\ i - Len(s) < j - Len(s)
      BY <2>3, <1>1
    <3>2. t[i - Len(s)] < t[j - Len(s)]
      BY <3>1, <1>5 DEF InOrder
    <3> QED
      BY <2>3, <3>2, <1>1, <1>2
  <2> QED
    BY <2>1, <2>2, <2>3, <1>1
<1> QED
  BY <1>2, <1>3, <1>4, <1>5

(* One sequence of messages after another.                                  *)
LEMMA JoinedMessages ==
  ASSUME NEW s \in Seq(Pieces), NEW t \in Seq(Pieces)
  PROVE  /\ s \o t \in Seq(Pieces) /\ PiecesOf(s \o t) = PiecesOf(s) \cup PiecesOf(t)
         /\ Len(s \o t) = Len(s) + Len(t)
         /\ AllInOrder(s) /\ AllInOrder(t) /\ Below(PiecesOf(s), PiecesOf(t))
               => AllInOrder(s \o t)
         /\ NoMark(s) /\ NoMark(t) => NoMark(s \o t)
         /\ NoMark(s) /\ MarkAtEnd(t) => MarkAtEnd(s \o t)
         /\ MarkAtEnd(s) /\ t = <<>> => MarkAtEnd(s \o t)
<1>1. /\ Len(s) \in Nat /\ DOMAIN s = 1 .. Len(s)
      /\ Len(t) \in Nat /\ DOMAIN t = 1 .. Len(t)
      /\ \A i \in DOMAIN s : Range(s[i]) \subseteq PiecesOf(s)
      /\ \A i \in DOMAIN t : Range(t[i]) \subseteq PiecesOf(t)
  BY DEF PiecesOf
<1>2. /\ s \o t \in Seq(Pieces) /\ Len(s \o t) = Len(s) + Len(t)
      /\ DOMAIN (s \o t) = 1 .. Len(s) + Len(t)
      /\ \A i \in 1 .. Len(s) + Len(t) :
            (s \o t)[i] = IF i <= Len(s) THEN s[i] ELSE t[i - Len(s)]
  BY <1>1
<1>3. \A i \in 1 .. Len(s) + Len(t) :
         \/ i \in DOMAIN s /\ i <= Len(s) /\ (s \o t)[i] = s[i]
         \/ i - Len(s) \in DOMAIN t /\ i > Len(s) /\ (s \o t)[i] = t[i - Len(s)]
  BY <1>1, <1>2
<1>4. PiecesOf(s \o t) = PiecesOf(s) \cup PiecesOf(t)
  <2>1. ASSUME NEW x \in PiecesOf(s \o t)
        PROVE  x \in PiecesOf(s) \cup PiecesOf(t)
    <3>1. PICK i \in 1 .. Len(s) + Len(t) : x \in Range((s \o t)[i])
      BY <1>2 DEF PiecesOf
    <3> QED
      BY <3>1, <1>1, <1>3
  <2>2. ASSUME NEW x \in PiecesOf(s)
        PROVE  x \in PiecesOf(s \o t)
    <3>1. PICK i \in 1 .. Len(s) : x \in Range(s[i])
      BY <1>1 DEF PiecesOf
    <3>2. i \in DOMAIN (s \o t) /\ (s \o t)[i] = s[i]
      BY <3>1, <1>1, <1>2
    <3> QED
      BY <3>1, <3>2 DEF PiecesOf
  <2>3. ASSUME NEW x \in PiecesOf(t)
        PROVE  x \in PiecesOf(s \o t)
    <3>1. PICK i \in 1 .. Len(t) : x \in Range(t[i])
      BY <1>1 DEF PiecesOf
    <3>2. Len(s) + i \in DOMAIN (s \o t) /\ (s \o t)[Len(s) + i] = t[i]
      BY <3>1, <1>1, <1>2
    <3> QED
      BY <3>1, <3>2 DEF PiecesOf
  <2> QED
    BY <2>1, <2>2, <2>3
<1>5. ASSUME AllInOrder(s), AllInOrder(t), Below(PiecesOf(s), PiecesOf(t))
      PROVE  AllInOrder(s \o t)
  <2>1. \A i \in DOMAIN (s \o t) : InOrder((s \o t)[i])
    BY <1>2, <1>3, <1>5 DEF AllInOrder
  <2>2. ASSUME NEW i \in 1 .. Len(s) + Len(t), NEW j \in 1 .. Len(s) + Len(t), i < j,
               NEW x \in Range((s \o t)[i]), NEW y \in Range((s \o t)[j])
        PROVE  x < y
    <3>1. CASE j <= Len(s)
      BY <3>1, <2>2, <1>1, <1>2, <1>5 DEF AllInOrder
    <3>2. CASE i <= Len(s) /\ ~(j <= Len(s))
      <4>1. x \in PiecesOf(s) /\ y \in PiecesOf(t)
        BY <3>2, <2>2, <1>1, <1>3
      <4> QED
        BY <4>1, <1>5 DEF Below
    <3>3. CASE ~(i <= Len(s))
      <4>1. /\ i - Len(s) \in DOMAIN t /\ j - Len(s) \in DOMAIN t
            /\ i - Len(s) < j - Len(s)
            /\ x \in Range(t[i - Len(s)]) /\ y \in Range(t[j - Len(s)])
        BY <3>3, <2>2, <1>1, <1>2
      <4> QED
        BY <4>1, <1>5 DEF AllInOrder
    <3> QED
      BY <3>1, <3>2, <3>3, <1>1
  <2> QED
    BY <2>1, <2>2, <1>2 DEF AllInOrder
<1>6. NoMark(s) /\ NoMark(t) => NoMark(s \o t)
  BY <1>2, <1>3 DEF NoMark
<1>7. NoMark(s) /\ MarkAtEnd(t) => MarkAtEnd(s \o t)
  <2> SUFFICES ASSUME NoMark(s), MarkAtEnd(t),
                      NEW i \in 1 .. Len(s) + Len(t), (s \o t)[i] = Mark
               PROVE  i = Len(s) + Len(t)
    BY <1>2 DEF MarkAtEnd
  <2>1. i - Len(s) \in DOMAIN t /\ t[i - Len(s)] = Mark
    BY <1>3 DEF NoMark
  <2>2. i - Len(s) = Len(t)
    BY <2>1 DEF MarkAtEnd
  <2> QED
    BY <2>2, <1>1
<1>8. MarkAtEnd(s) /\ t = <<>> => MarkAtEnd(s \o t)
  <2> SUFFICES ASSUME MarkAtEnd(s), t = <<>>
               PROVE  MarkAtEnd(s \o t)
    OBVIOUS
  <2>1. s \o t = s
    BY ConcatEmptySeq
  <2> QED
    BY <2>1
<1> QED
  BY <1>2, <1>4, <1>5, <1>6, <1>7, <1>8

(* A message alone, and none.                                               *)
LEMMA OneMessage ==
  ASSUME NEW m \in Pieces
  PROVE  /\ <<m>> \in Seq(Pieces) /\ PiecesOf(<<m>>) = Range(m)
         /\ InOrder(m) => AllInOrder(<<m>>)
         /\ m # Mark => NoMark(<<m>>)
         /\ MarkAtEnd(<<m>>)
<1>1. DOMAIN <<m>> = {1} /\ <<m>>[1] = m /\ Len(<<m>>) = 1 /\ <<m>> \in Seq(Pieces)
  <2>1. <<m>> \in Seq(Pieces) /\ Len(<<m>>) = 1 /\ <<m>>[1] = m
    OBVIOUS
  <2>2. DOMAIN <<m>> = 1 .. 1
    BY <2>1
  <2> QED
    BY <2>1, <2>2
<1>2. PiecesOf(<<m>>) = Range(m)
  <2>1. \A x : x \in PiecesOf(<<m>>) <=> x \in Range(m)
    BY <1>1 DEF PiecesOf
  <2> QED
    BY <2>1
<1> QED
  BY <1>1, <1>2 DEF AllInOrder, NoMark, MarkAtEnd

LEMMA NoMessage ==
  /\ <<>> \in Seq(Pieces) /\ PiecesOf(<<>>) = {} /\ AllInOrder(<<>>)
  /\ NoMark(<<>>) /\ MarkAtEnd(<<>>)
  /\ Mark \in Pieces /\ Range(Mark) = {} /\ InOrder(Mark)
  BY DEF PiecesOf, AllInOrder, NoMark, MarkAtEnd, Pieces, Range, InOrder, Mark

LEMMA TwoMessages ==
  ASSUME NEW S, NEW a \in S, NEW b \in S
  PROVE  <<a>> \o <<b>> = <<a, b>>
<1> DEFINE s == <<a>> \o <<b>>
           t == <<a, b>>
<1>1. t \in Seq(S) /\ Len(t) = 2 /\ t[1] = a /\ t[2] = b
  OBVIOUS
<1>2. /\ <<a>> \in Seq(S) /\ Len(<<a>>) = 1 /\ <<a>>[1] = a
      /\ <<b>> \in Seq(S) /\ Len(<<b>>) = 1 /\ <<b>>[1] = b
  OBVIOUS
<1>3. s \in Seq(S) /\ Len(s) = 2 /\ s[1] = a /\ s[2] = b
  <2>1. s \in Seq(S) /\ Len(s) = 2
    BY <1>2
  <2>2. s[1] = a
    BY <1>2, ConcatProperties
  <2>3. s[2] = b
    BY <1>2, ConcatProperties
  <2> QED
    BY <2>1, <2>2, <2>3
<1> HIDE DEF s, t
<1>4. \A i \in 1 .. Len(s) : s[i] = t[i]
  BY <1>1, <1>3
<1>5. s = t
  BY <1>1, <1>3, <1>4, SeqEqual
<1> QED
  BY <1>5 DEF s, t

(* The mark after some messages.                                            *)
LEMMA MarkedMessages ==
  ASSUME NEW s \in Seq(Pieces), AllInOrder(s), NoMark(s)
  PROVE  /\ s \o <<Mark>> \in Seq(Pieces) /\ AllInOrder(s \o <<Mark>>)
         /\ MarkAtEnd(s \o <<Mark>>) /\ PiecesOf(s \o <<Mark>>) = PiecesOf(s)
         /\ Len(s \o <<Mark>>) = Len(s) + 1
<1>1. /\ <<Mark>> \in Seq(Pieces) /\ PiecesOf(<<Mark>>) = {} /\ Len(<<Mark>>) = 1
      /\ AllInOrder(<<Mark>>) /\ MarkAtEnd(<<Mark>>)
  BY NoMessage, OneMessage
<1>2. Below(PiecesOf(s), PiecesOf(<<Mark>>))
  BY <1>1 DEF Below
<1>3. PiecesOf(s \o <<Mark>>) = PiecesOf(s) \cup PiecesOf(<<Mark>>)
  BY <1>1, JoinedMessages
<1>4. PiecesOf(s \o <<Mark>>) = PiecesOf(s)
  BY <1>1, <1>3
<1> QED
  BY <1>1, <1>2, <1>4, JoinedMessages

(* The first message taken from the others.                                 *)
LEMMA TakenMessage ==
  ASSUME NEW s \in Seq(Pieces), s # <<>>
  PROVE  /\ Head(s) \in Pieces /\ Tail(s) \in Seq(Pieces) /\ Len(Tail(s)) = Len(s) - 1
         /\ PiecesOf(s) = Range(Head(s)) \cup PiecesOf(Tail(s))
         /\ AllInOrder(s) => /\ InOrder(Head(s)) /\ AllInOrder(Tail(s))
                             /\ Below(Range(Head(s)), PiecesOf(Tail(s)))
         /\ MarkAtEnd(s) => MarkAtEnd(Tail(s)) /\ (Head(s) = Mark => Tail(s) = <<>>)
<1>1. /\ Head(s) \in Pieces /\ Tail(s) \in Seq(Pieces) /\ Len(Tail(s)) = Len(s) - 1
      /\ Head(s) = s[1] /\ Len(s) \in Nat /\ Len(s) >= 1 /\ DOMAIN s = 1 .. Len(s)
      /\ DOMAIN Tail(s) = 1 .. Len(s) - 1
      /\ \A i \in 1 .. Len(s) - 1 : Tail(s)[i] = s[i + 1]
  <2>1. Len(s) \in Nat /\ Len(s) # 0
    BY EmptySeq
  <2> QED
    BY <2>1
<1>2. PiecesOf(s) = Range(Head(s)) \cup PiecesOf(Tail(s))
  <2>1. ASSUME NEW x \in PiecesOf(s)
        PROVE  x \in Range(Head(s)) \cup PiecesOf(Tail(s))
    <3>1. PICK i \in 1 .. Len(s) : x \in Range(s[i])
      BY <1>1 DEF PiecesOf
    <3>2. CASE i = 1
      BY <3>1, <3>2, <1>1
    <3>3. CASE i # 1
      <4>1. i - 1 \in DOMAIN Tail(s) /\ Tail(s)[i - 1] = s[i]
        BY <3>1, <3>3, <1>1
      <4> QED
        BY <3>1, <4>1 DEF PiecesOf
    <3> QED
      BY <3>2, <3>3
  <2>2. Range(Head(s)) \subseteq PiecesOf(s)
    <3>1. 1 \in DOMAIN s
      BY <1>1
    <3> QED
      BY <3>1, <1>1 DEF PiecesOf
  <2>3. ASSUME NEW x \in PiecesOf(Tail(s))
        PROVE  x \in PiecesOf(s)
    <3>1. PICK i \in 1 .. Len(s) - 1 : x \in Range(Tail(s)[i])
      BY <1>1 DEF PiecesOf
    <3>2. i + 1 \in DOMAIN s /\ s[i + 1] = Tail(s)[i]
      BY <3>1, <1>1
    <3> QED
      BY <3>1, <3>2 DEF PiecesOf
  <2> QED
    BY <2>1, <2>2, <2>3
<1>3. \A i \in DOMAIN Tail(s) : i + 1 \in DOMAIN s /\ 1 < i + 1 /\ Tail(s)[i] = s[i + 1]
  BY <1>1
<1>4. ASSUME AllInOrder(s)
      PROVE  /\ InOrder(Head(s)) /\ AllInOrder(Tail(s))
             /\ Below(Range(Head(s)), PiecesOf(Tail(s)))
  <2>1. InOrder(Head(s))
    BY <1>1, <1>4 DEF AllInOrder
  <2>2. AllInOrder(Tail(s))
    <3>1. \A i, j \in DOMAIN Tail(s) : i < j => i + 1 < j + 1
      BY <1>1
    <3> QED
      BY <3>1, <1>3, <1>4 DEF AllInOrder
  <2>3. ASSUME NEW x \in Range(Head(s)), NEW y \in PiecesOf(Tail(s))
        PROVE  x < y
    <3>1. PICK i \in DOMAIN Tail(s) : y \in Range(Tail(s)[i])
      BY DEF PiecesOf
    <3>2. 1 \in DOMAIN s /\ i + 1 \in DOMAIN s /\ 1 < i + 1 /\ y \in Range(s[i + 1])
      BY <3>1, <1>1, <1>3
    <3> QED
      BY <3>2, <1>1, <1>4 DEF AllInOrder
  <2> QED
    BY <2>1, <2>2, <2>3 DEF Below
<1>5. ASSUME MarkAtEnd(s)
      PROVE  MarkAtEnd(Tail(s)) /\ (Head(s) = Mark => Tail(s) = <<>>)
  <2>1. MarkAtEnd(Tail(s))
    BY <1>1, <1>3, <1>5 DEF MarkAtEnd
  <2>2. Head(s) = Mark => Len(s) = 1
    BY <1>1, <1>5 DEF MarkAtEnd
  <2>3. Len(s) = 1 => Tail(s) = <<>>
    BY <1>1, EmptySeq
  <2> QED
    BY <2>1, <2>2, <2>3
<1> QED
  BY <1>1, <1>2, <1>4, <1>5

(* What is left of a sequence when its first n elements are gone.           *)
LEMMA RestOfSequence ==
  ASSUME NEW S, NEW s \in Seq(S), NEW n \in 0 .. Len(s)
  PROVE  LET rest == SubSeq(s, n + 1, Len(s))
         IN  /\ rest \in Seq(S) /\ Len(rest) = Len(s) - n
             /\ DOMAIN rest = 1 .. Len(s) - n
             /\ \A i \in 1 .. Len(s) - n : rest[i] = s[n + i]
<1> DEFINE rest == SubSeq(s, n + 1, Len(s))
<1>1. /\ Len(s) \in Nat /\ DOMAIN s = 1 .. Len(s) /\ n \in Nat /\ n <= Len(s)
      /\ \A i \in DOMAIN s : s[i] \in S
  BY ElementOfSeq
<1>2. n + 1 \in Int /\ Len(s) \in Int
  BY <1>1
<1>3. \A i \in (n + 1) .. Len(s) : s[i] \in S
  BY <1>1
<1>4. /\ rest \in Seq(S)
      /\ Len(rest) = IF n + 1 <= Len(s) THEN Len(s) - (n + 1) + 1 ELSE 0
      /\ \A i \in 1 .. Len(s) - (n + 1) + 1 : rest[i] = s[n + 1 + i - 1]
  BY <1>2, <1>3, SubSeqProperties
<1> HIDE DEF rest
<1>5. CASE n = Len(s)
  <2>1. Len(rest) = 0 /\ Len(s) - n = 0
    BY <1>1, <1>4, <1>5
  <2>2. DOMAIN rest = 1 .. 0
    BY <2>1, <1>4, LenProperties
  <2> QED
    BY <2>1, <2>2, <1>4 DEF rest
<1>6. CASE n # Len(s)
  <2> DEFINE L == Len(s)
  <2>1. L \in Nat /\ n \in Nat /\ n <= L /\ n # L
    BY <1>1, <1>6
  <2> HIDE DEF L
  <2>2. n + 1 <= L /\ L - (n + 1) + 1 = L - n
    BY <2>1
  <2>3. Len(rest) = Len(s) - n
    BY <2>2, <1>4 DEF L
  <2>4. DOMAIN rest = 1 .. Len(s) - n
    BY <2>3, <1>4, LenProperties
  <2>5. ASSUME NEW i \in 1 .. Len(s) - n
        PROVE  rest[i] = s[n + i]
    <3>1. i \in 1 .. Len(s) - (n + 1) + 1 /\ n + 1 + i - 1 = n + i
      BY <1>1
    <3> QED
      BY <3>1, <1>4
  <2> QED
    BY <2>3, <2>4, <2>5, <1>4 DEF rest
<1> QED
  BY <1>5, <1>6

(* A part of the messages, and the first of them before the others.         *)
LEMMA PartOfMessages ==
  ASSUME NEW s \in Seq(Pieces), NEW n \in 0 .. Len(s)
  PROVE  /\ SubSeq(s, 1, n) \in Seq(Pieces) /\ SubSeq(s, n + 1, Len(s)) \in Seq(Pieces)
         /\ Len(SubSeq(s, 1, n)) = n
         /\ \A i \in 1 .. n : SubSeq(s, 1, n)[i] = s[i]
         /\ PiecesOf(s) = PiecesOf(SubSeq(s, 1, n)) \cup PiecesOf(SubSeq(s, n + 1, Len(s)))
         /\ AllInOrder(s) =>
               /\ AllInOrder(SubSeq(s, 1, n)) /\ AllInOrder(SubSeq(s, n + 1, Len(s)))
               /\ Below(PiecesOf(SubSeq(s, 1, n)), PiecesOf(SubSeq(s, n + 1, Len(s))))
         /\ MarkAtEnd(s) => MarkAtEnd(SubSeq(s, n + 1, Len(s)))
<1> DEFINE a == SubSeq(s, 1, n)
           b == SubSeq(s, n + 1, Len(s))
<1>1. /\ Len(s) \in Nat /\ DOMAIN s = 1 .. Len(s) /\ n \in Nat /\ n <= Len(s)
      /\ a \in Seq(Pieces) /\ Len(a) = n /\ DOMAIN a = 1 .. n
      /\ \A i \in 1 .. n : a[i] = s[i]
      /\ b \in Seq(Pieces) /\ Len(b) = Len(s) - n /\ DOMAIN b = 1 .. Len(s) - n
      /\ \A i \in 1 .. Len(s) - n : b[i] = s[n + i]
  <2>1. Len(s) \in Nat /\ DOMAIN s = 1 .. Len(s) /\ n \in Nat /\ n <= Len(s)
    OBVIOUS
  <2>2. /\ a \in Seq(Pieces) /\ Len(a) = n /\ DOMAIN a = 1 .. n
        /\ \A i \in 1 .. n : a[i] = s[i]
    BY <2>1
  <2>3. /\ b \in Seq(Pieces) /\ Len(b) = Len(s) - n /\ DOMAIN b = 1 .. Len(s) - n
        /\ \A i \in 1 .. Len(s) - n : b[i] = s[n + i]
    BY RestOfSequence
  <2> QED
    BY <2>1, <2>2, <2>3
<1> HIDE DEF a, b
<1>2. /\ \A i \in DOMAIN a : i \in DOMAIN s /\ a[i] = s[i] /\ i <= n
      /\ \A i \in DOMAIN b : n + i \in DOMAIN s /\ b[i] = s[n + i] /\ n < n + i
  BY <1>1
<1>3. PiecesOf(s) = PiecesOf(a) \cup PiecesOf(b)
  <2>1. ASSUME NEW x \in PiecesOf(s)
        PROVE  x \in PiecesOf(a) \cup PiecesOf(b)
    <3>1. PICK i \in 1 .. Len(s) : x \in Range(s[i])
      BY <1>1 DEF PiecesOf
    <3>2. CASE i <= n
      <4>1. i \in DOMAIN a /\ a[i] = s[i]
        BY <3>1, <3>2, <1>1
      <4> QED
        BY <3>1, <4>1 DEF PiecesOf
    <3>3. CASE ~(i <= n)
      <4>1. i - n \in DOMAIN b /\ b[i - n] = s[i]
        BY <3>1, <3>3, <1>1
      <4> QED
        BY <3>1, <4>1 DEF PiecesOf
    <3> QED
      BY <3>2, <3>3
  <2>2. \A x \in PiecesOf(a) : x \in PiecesOf(s)
    BY <1>2 DEF PiecesOf
  <2>3. \A x \in PiecesOf(b) : x \in PiecesOf(s)
    BY <1>2 DEF PiecesOf
  <2> QED
    BY <2>1, <2>2, <2>3
<1>4. ASSUME AllInOrder(s)
      PROVE  AllInOrder(a) /\ AllInOrder(b) /\ Below(PiecesOf(a), PiecesOf(b))
  <2>1. AllInOrder(a)
    BY <1>2, <1>4 DEF AllInOrder
  <2>2. AllInOrder(b)
    <3>1. \A i, j \in DOMAIN b : i < j => n + i < n + j
      BY <1>1
    <3> QED
      BY <3>1, <1>2, <1>4 DEF AllInOrder
  <2>3. ASSUME NEW x \in PiecesOf(a), NEW y \in PiecesOf(b)
        PROVE  x < y
    <3>1. PICK i \in DOMAIN a : x \in Range(a[i])
      BY DEF PiecesOf
    <3>2. PICK j \in DOMAIN b : y \in Range(b[j])
      BY DEF PiecesOf
    <3>3. i < n + j
      BY <1>1
    <3> QED
      BY <3>1, <3>2, <3>3, <1>2, <1>4 DEF AllInOrder
  <2> QED
    BY <2>1, <2>2, <2>3 DEF Below
<1>5. MarkAtEnd(s) => MarkAtEnd(b)
  BY <1>1, <1>2 DEF MarkAtEnd
<1> QED
  BY <1>1, <1>3, <1>4, <1>5 DEF a, b

-----------------------------------------------------------------------------
(* Output.  Where a piece may be, on its way from the shell to the pane.    *)
OutTypes ==
    /\ far \in {"open", "closed"} /\ reader \in {"reads", "marks", "over"}
    /\ pump \in {"idle", "joins", "over"} /\ pane \in {"none", "open", "gone"}
    /\ told \in BOOLEAN /\ pieces \in Nat
    /\ batch \in Pieces /\ buffer \in Pieces
    /\ emitter \in Seq(Pieces) /\ stream \in Seq(Pieces) /\ shown \in Seq(Pieces)
    /\ Len(emitter) <= EmitterCap
    /\ (pump = "joins" <=> buffer # <<>>)

(* Each place has its pieces in order, and older ones than the places that  *)
(* are farther from the pane.                                               *)
PlacesInOrder ==
    /\ AllInOrder(shown) /\ AllInOrder(stream) /\ InOrder(buffer)
    /\ AllInOrder(emitter) /\ InOrder(batch)
    /\ Below(PiecesOf(shown), PiecesOf(stream)) /\ Below(PiecesOf(shown), Range(buffer))
    /\ Below(PiecesOf(shown), PiecesOf(emitter)) /\ Below(PiecesOf(shown), Range(batch))
    /\ Below(PiecesOf(stream), Range(buffer)) /\ Below(PiecesOf(stream), PiecesOf(emitter))
    /\ Below(PiecesOf(stream), Range(batch)) /\ Below(Range(buffer), PiecesOf(emitter))
    /\ Below(Range(buffer), Range(batch)) /\ Below(PiecesOf(emitter), Range(batch))

Everywhere == PiecesOf(shown) \cup PiecesOf(stream) \cup Range(buffer)
                  \cup PiecesOf(emitter) \cup Range(batch)

(* No piece is anywhere that was not read, and none is lost but where it is *)
(* said to be.                                                              *)
PiecesAreSomewhere ==
    /\ Everywhere \subseteq 1 .. pieces
    /\ pane # "gone" => 1 .. pieces = Everywhere \cup lost

(* The mark is the last thing sent, and it is sent when the output is over. *)
MarkRule ==
    /\ MarkAtEnd(stream) /\ MarkAtEnd(emitter)
    /\ ~NoMark(stream) => buffer = <<>> /\ emitter = <<>> /\ reader = "over"
    /\ ~NoMark(emitter) => reader = "over"
    /\ reader # "reads" => batch = <<>> /\ far = "closed"
    /\ told => stream = <<>> /\ buffer = <<>> /\ emitter = <<>> /\ reader = "over"

OutInv == OutTypes /\ PlacesInOrder /\ PiecesAreSomewhere /\ MarkRule

(* The reader: one more piece, a flush, the mark.                           *)
LEMMA ReadKeepsOut ==
  ASSUME OutInv, ReadPiece
  PROVE  OutInv'
<1>1. /\ OutTypes /\ PlacesInOrder /\ PiecesAreSomewhere /\ MarkRule
      /\ UNCHANGED <<far, reader, emitter, pump, buffer, stream, lost, paneVars>>
      /\ reader = "reads" /\ pieces' = pieces + 1 /\ batch' = batch \o <<pieces + 1>>
  BY AppendIsConcat DEF OutInv, ReadPiece, OutTypes, Pieces
<1>2. /\ <<pieces + 1>> \in Pieces /\ Range(<<pieces + 1>>) = {pieces + 1}
      /\ InOrder(<<pieces + 1>>)
  BY <1>1 DEF OutTypes, Pieces, Range, InOrder
<1>3. Everywhere \subseteq 1 .. pieces /\ pieces \in Nat
  BY <1>1 DEF PiecesAreSomewhere, OutTypes
<1>4. Below(Range(batch), Range(<<pieces + 1>>))
  BY <1>2, <1>3 DEF Below, Everywhere
<1>5. /\ batch' \in Pieces /\ Range(batch') = Range(batch) \cup {pieces + 1}
      /\ InOrder(batch')
  BY <1>1, <1>2, <1>4, JoinedPieces DEF OutTypes, PlacesInOrder
<1>6. OutTypes'
  BY <1>1, <1>5 DEF OutTypes, paneVars
<1>7. PlacesInOrder'
  BY <1>1, <1>3, <1>5 DEF PlacesInOrder, Below, Everywhere, paneVars
<1>8. PiecesAreSomewhere'
  BY <1>1, <1>3, <1>5 DEF PiecesAreSomewhere, Everywhere, paneVars
<1>9. MarkRule'
  BY <1>1 DEF MarkRule, paneVars
<1> QED
  BY <1>6, <1>7, <1>8, <1>9 DEF OutInv

LEMMA FlushKeepsOut ==
  ASSUME OutInv, FlushBatch, reader = "reads", reader' \in {"reads", "marks"},
         reader' = "marks" => far = "closed",
         UNCHANGED <<far, pieces, pump, buffer, stream, paneVars>>
  PROVE  OutInv'
<1>1. /\ OutTypes /\ PlacesInOrder /\ PiecesAreSomewhere /\ MarkRule
      /\ UNCHANGED <<shown, told, pane>> /\ batch' = <<>>
  BY DEF OutInv, FlushBatch, paneVars
<1>2. /\ batch' \in Pieces /\ Range(batch') = {} /\ InOrder(batch')
  BY <1>1, NoMessage DEF Mark
<1>3. CASE batch # <<>> /\ Len(emitter) < EmitterCap
  <2>1. emitter' = emitter \o <<batch>> /\ lost' = lost
    BY <1>1, <1>3, AppendIsConcat DEF FlushBatch, OutTypes
  <2>2. /\ <<batch>> \in Seq(Pieces) /\ PiecesOf(<<batch>>) = Range(batch)
        /\ AllInOrder(<<batch>>) /\ NoMark(<<batch>>) /\ Len(<<batch>>) = 1
    BY <1>1, <1>3, OneMessage DEF OutTypes, PlacesInOrder, Mark
  <2>3. NoMark(emitter)
    BY <1>1 DEF MarkRule
  <2>4. /\ emitter' \in Seq(Pieces) /\ PiecesOf(emitter') = PiecesOf(emitter) \cup Range(batch)
        /\ AllInOrder(emitter') /\ NoMark(emitter') /\ Len(emitter') = Len(emitter) + 1
    <3>1. /\ emitter \in Seq(Pieces) /\ AllInOrder(emitter)
          /\ Below(PiecesOf(emitter), PiecesOf(<<batch>>))
      BY <2>2, <1>1 DEF OutTypes, PlacesInOrder
    <3> QED
      BY <3>1, <2>1, <2>2, <2>3, JoinedMessages
  <2>5. OutTypes'
    <3>1. Len(emitter') <= EmitterCap
      BY <2>4, <1>1, <1>3, SessionAssumption DEF OutTypes
    <3> QED
      BY <3>1, <2>4, <1>1, <1>2 DEF OutTypes
  <2>6. PlacesInOrder'
    BY <2>4, <1>1, <1>2 DEF PlacesInOrder, Below
  <2>7. PiecesAreSomewhere'
    BY <2>1, <2>4, <1>1, <1>2 DEF PiecesAreSomewhere, Everywhere
  <2>8. MarkRule'
    BY <2>4, <1>1 DEF MarkRule, NoMark, MarkAtEnd
  <2> QED
    BY <2>5, <2>6, <2>7, <2>8 DEF OutInv
<1>4. CASE ~(batch # <<>> /\ Len(emitter) < EmitterCap)
  <2>1. emitter' = emitter /\ lost' = lost \cup Range(batch)
    BY <1>4 DEF FlushBatch
  <2>2. OutTypes'
    BY <2>1, <1>1, <1>2 DEF OutTypes
  <2>3. PlacesInOrder'
    BY <2>1, <1>1, <1>2 DEF PlacesInOrder, Below
  <2>4. PiecesAreSomewhere'
    BY <2>1, <1>1, <1>2 DEF PiecesAreSomewhere, Everywhere
  <2>5. MarkRule'
    BY <2>1, <1>1 DEF MarkRule
  <2> QED
    BY <2>2, <2>3, <2>4, <2>5 DEF OutInv
<1> QED
  BY <1>3, <1>4

LEMMA MarkKeepsOut ==
  ASSUME OutInv, SendMark
  PROVE  OutInv'
<1>1. /\ OutTypes /\ PlacesInOrder /\ PiecesAreSomewhere /\ MarkRule
      /\ UNCHANGED <<far, pieces, batch, pump, buffer, stream, lost, shown, told, pane>>
      /\ reader = "marks" /\ reader' = "over" /\ batch = <<>> /\ ~told
  BY DEF OutInv, SendMark, paneVars, MarkRule
<1>2. CASE Len(emitter) < EmitterCap
  <2>1. emitter' = emitter \o <<Mark>>
    BY <1>1, <1>2, AppendIsConcat, NoMessage DEF SendMark, OutTypes
  <2>2. emitter \in Seq(Pieces) /\ AllInOrder(emitter)
    BY <1>1 DEF OutTypes, PlacesInOrder
  <2>3. NoMark(emitter) /\ NoMark(stream)
    BY <1>1 DEF MarkRule
  <2>4. /\ emitter' \in Seq(Pieces) /\ PiecesOf(emitter') = PiecesOf(emitter)
        /\ AllInOrder(emitter') /\ MarkAtEnd(emitter') /\ Len(emitter') = Len(emitter) + 1
    BY <2>1, <2>2, <2>3, MarkedMessages
  <2>5. OutTypes'
    <3>1. Len(emitter') <= EmitterCap
      BY <2>4, <1>1, <1>2, SessionAssumption DEF OutTypes
    <3> QED
      BY <3>1, <2>4, <1>1 DEF OutTypes
  <2>6. PlacesInOrder' /\ PiecesAreSomewhere'
    BY <2>4, <1>1 DEF PlacesInOrder, PiecesAreSomewhere, Everywhere
  <2>7. MarkRule'
    BY <2>3, <2>4, <1>1 DEF MarkRule
  <2> QED
    BY <2>5, <2>6, <2>7 DEF OutInv
<1>3. CASE ~(Len(emitter) < EmitterCap)
  <2>1. emitter' = emitter
    BY <1>3 DEF SendMark
  <2> QED
    BY <2>1, <1>1
       DEF OutInv, OutTypes, PlacesInOrder, PiecesAreSomewhere, Everywhere, MarkRule
<1> QED
  BY <1>2, <1>3

(* What the pump takes from its channel is older than what is left there.   *)
LEMMA PumpTakesOldest ==
  ASSUME OutInv, PumpTakes
  PROVE  /\ UNCHANGED <<far, pieces, reader, batch, lost, shown, told, pane>>
         /\ emitter' = Tail(emitter) /\ emitter' \in Seq(Pieces)
         /\ Len(emitter') <= EmitterCap
         /\ Head(emitter) \in Pieces /\ InOrder(Head(emitter))
         /\ PiecesOf(emitter) = Range(Head(emitter)) \cup PiecesOf(emitter')
         /\ AllInOrder(emitter') /\ Below(Range(Head(emitter)), PiecesOf(emitter'))
         /\ MarkAtEnd(emitter') /\ (Head(emitter) = Mark => emitter' = <<>>)
         /\ ~NoMark(emitter') => ~NoMark(emitter)
         /\ NoMark(stream) /\ ~told
<1>1. /\ emitter # <<>> /\ emitter' = Tail(emitter)
      /\ UNCHANGED <<far, pieces, reader, batch, lost, shown, told, pane>>
  BY DEF PumpTakes, paneVars
<1>2. /\ emitter \in Seq(Pieces) /\ Len(emitter) <= EmitterCap /\ AllInOrder(emitter)
      /\ MarkAtEnd(emitter) /\ NoMark(stream) /\ ~told
  BY <1>1 DEF OutInv, OutTypes, PlacesInOrder, MarkRule
<1>3. /\ Head(emitter) \in Pieces /\ emitter' \in Seq(Pieces)
      /\ Len(emitter') = Len(emitter) - 1
      /\ InOrder(Head(emitter)) /\ AllInOrder(emitter')
      /\ PiecesOf(emitter) = Range(Head(emitter)) \cup PiecesOf(emitter')
      /\ Below(Range(Head(emitter)), PiecesOf(emitter'))
      /\ MarkAtEnd(emitter') /\ (Head(emitter) = Mark => emitter' = <<>>)
  BY <1>1, <1>2, TakenMessage
<1>4. Len(emitter') <= EmitterCap
  BY <1>2, <1>3, SessionAssumption
<1>5. NoMark(emitter) => NoMark(emitter')
  <2>1. \A i \in DOMAIN emitter' : i + 1 \in DOMAIN emitter /\ emitter'[i] = emitter[i + 1]
    BY <1>1, <1>2
  <2> QED
    BY <2>1 DEF NoMark
<1> QED
  BY <1>1, <1>2, <1>3, <1>4, <1>5

(* What the pump puts on the stream: a message of pieces, or nothing.       *)
LEMMA EmittedMessage ==
  ASSUME stream \in Seq(Pieces), AllInOrder(stream), NoMark(stream),
         NEW m \in Pieces, m # Mark, InOrder(m), Below(PiecesOf(stream), Range(m)),
         Emit(<<m>>)
  PROVE  /\ stream' \in Seq(Pieces) /\ AllInOrder(stream') /\ NoMark(stream')
         /\ PiecesOf(stream') \subseteq PiecesOf(stream) \cup Range(m)
         /\ pane # "gone" => PiecesOf(stream') = PiecesOf(stream) \cup Range(m)
<1>1. /\ <<m>> \in Seq(Pieces) /\ PiecesOf(<<m>>) = Range(m) /\ AllInOrder(<<m>>)
      /\ NoMark(<<m>>)
  BY OneMessage
<1>2. CASE pane = "gone"
  BY <1>2 DEF Emit
<1>3. CASE pane # "gone"
  <2>1. stream' = stream \o <<m>>
    BY <1>3 DEF Emit
  <2> QED
    BY <2>1, <1>1, JoinedMessages
<1> QED
  BY <1>2, <1>3

(* The pump's steps.                                                        *)
LEMMA PumpKeepsOut ==
  ASSUME OutInv, PumpStep
  PROVE  OutInv'
<1>0. OutTypes /\ PlacesInOrder /\ PiecesAreSomewhere /\ MarkRule
  BY DEF OutInv
<1> DEFINE h == Head(emitter)
<1>1. ASSUME PumpTakes
      PROVE  /\ UNCHANGED <<far, pieces, reader, batch, lost, shown, told, pane>>
             /\ emitter' \in Seq(Pieces) /\ Len(emitter') <= EmitterCap
             /\ h \in Pieces /\ InOrder(h) /\ AllInOrder(emitter')
             /\ PiecesOf(emitter) = Range(h) \cup PiecesOf(emitter')
             /\ Below(Range(h), PiecesOf(emitter'))
             /\ MarkAtEnd(emitter') /\ (h = Mark => emitter' = <<>>)
             /\ ~NoMark(emitter') => ~NoMark(emitter)
             /\ NoMark(stream) /\ ~told
  BY <1>1, PumpTakesOldest
<1>2. Mark = <<>> /\ Range(Mark) = {} /\ InOrder(Mark) /\ Mark \in Pieces
  BY NoMessage DEF Mark
<1>3. CASE PumpBegins
  <2>1. /\ h # <<>> /\ buffer = <<>> /\ buffer' = h /\ pump' = "joins" /\ stream' = stream
        /\ pump = "idle" /\ PumpTakes
    BY <1>0, <1>3, <1>2 DEF PumpBegins, OutTypes
  <2> HIDE DEF h
  <2>2. OutTypes'
    BY <2>1, <1>0, <1>1 DEF OutTypes
  <2>3. PlacesInOrder'
    BY <2>1, <1>0, <1>1 DEF PlacesInOrder, Below
  <2>4. PiecesAreSomewhere'
    BY <2>1, <1>0, <1>1, <1>2 DEF PiecesAreSomewhere, Everywhere
  <2>5. MarkRule'
    BY <2>1, <1>0, <1>1 DEF MarkRule
  <2> QED
    BY <2>2, <2>3, <2>4, <2>5 DEF OutInv
<1>4. CASE PumpPassesMark
  <2>1. /\ h = Mark /\ buffer = <<>> /\ buffer' = <<>> /\ pump' = "idle" /\ pump = "idle"
        /\ PumpTakes /\ Emit(<<Mark>>)
    BY <1>0, <1>4 DEF PumpPassesMark, OutTypes
  <2>2. ~NoMark(emitter)
    <3>1. emitter # <<>> /\ emitter \in Seq(Pieces)
      BY <2>1, <1>0 DEF PumpTakes, OutTypes
    <3>2. 1 \in DOMAIN emitter /\ Head(emitter) = emitter[1]
      BY <3>1
    <3> QED
      BY <2>1, <3>2 DEF NoMark
  <2>3. reader = "over" /\ batch = <<>> /\ emitter' = <<>>
    BY <2>1, <2>2, <1>0, <1>1 DEF MarkRule
  <2>4. /\ stream' \in Seq(Pieces) /\ AllInOrder(stream') /\ MarkAtEnd(stream')
        /\ PiecesOf(stream') = PiecesOf(stream)
    <3>1. stream \in Seq(Pieces) /\ AllInOrder(stream) /\ NoMark(stream) /\ MarkAtEnd(stream)
      BY <2>1, <1>0, <1>1 DEF OutTypes, PlacesInOrder, MarkRule
    <3>2. CASE pane = "gone"
      BY <2>1, <3>1, <3>2 DEF Emit
    <3>3. CASE pane # "gone"
      <4>1. stream' = stream \o <<Mark>>
        BY <2>1, <3>3 DEF Emit
      <4> QED
        BY <4>1, <3>1, MarkedMessages
    <3> QED
      BY <3>2, <3>3
  <2> HIDE DEF h
  <2>5. OutTypes'
    BY <2>1, <2>4, <1>0, <1>1 DEF OutTypes
  <2>6. PlacesInOrder'
    BY <2>1, <2>4, <1>0, <1>1 DEF PlacesInOrder, Below
  <2>7. PiecesAreSomewhere'
    BY <2>1, <2>4, <1>0, <1>1, <1>2 DEF PiecesAreSomewhere, Everywhere
  <2>8. MarkRule'
    BY <2>1, <2>3, <2>4, <1>0, <1>1 DEF MarkRule
  <2> QED
    BY <2>5, <2>6, <2>7, <2>8 DEF OutInv
<1>5. CASE PumpJoins
  <2> DEFINE joined == buffer \o h
  <2>1. /\ PumpTakes /\ h # Mark /\ pump = "joins" /\ buffer # <<>>
        /\ \/ buffer' = joined /\ UNCHANGED <<pump, stream>>
           \/ Emit(<<joined>>) /\ buffer' = <<>> /\ pump' = "idle"
    BY <1>0, <1>5 DEF PumpJoins, OutTypes
  <2>2. /\ joined \in Pieces /\ Range(joined) = Range(buffer) \cup Range(h)
        /\ joined # <<>> /\ InOrder(joined)
    <3>1. buffer \in Pieces /\ InOrder(buffer) /\ Below(Range(buffer), Range(h))
      BY <2>1, <1>0, <1>1 DEF OutTypes, PlacesInOrder, Below
    <3> QED
      BY <3>1, <2>1, <1>1, JoinedPieces
  <2> HIDE DEF h, joined
  <2>3. CASE buffer' = joined /\ UNCHANGED <<pump, stream>>
    <3>1. OutTypes'
      BY <2>1, <2>2, <2>3, <1>0, <1>1 DEF OutTypes
    <3>2. PlacesInOrder'
      BY <2>1, <2>2, <2>3, <1>0, <1>1 DEF PlacesInOrder, Below
    <3>3. PiecesAreSomewhere'
      BY <2>1, <2>2, <2>3, <1>0, <1>1 DEF PiecesAreSomewhere, Everywhere
    <3>4. MarkRule'
      BY <2>1, <2>3, <1>0, <1>1 DEF MarkRule
    <3> QED
      BY <3>1, <3>2, <3>3, <3>4 DEF OutInv
  <2>4. CASE Emit(<<joined>>) /\ buffer' = <<>> /\ pump' = "idle"
    <3>1. /\ stream' \in Seq(Pieces) /\ AllInOrder(stream') /\ NoMark(stream')
          /\ PiecesOf(stream') \subseteq PiecesOf(stream) \cup Range(joined)
          /\ pane # "gone" => PiecesOf(stream') = PiecesOf(stream) \cup Range(joined)
      <4>1. /\ stream \in Seq(Pieces) /\ AllInOrder(stream) /\ NoMark(stream)
            /\ Below(PiecesOf(stream), Range(joined)) /\ joined # Mark
        BY <2>1, <2>2, <1>0, <1>1, <1>2 DEF OutTypes, PlacesInOrder, Below
      <4> QED
        BY <4>1, <2>2, <2>4, EmittedMessage
    <3>2. OutTypes'
      BY <2>1, <2>4, <3>1, <1>0, <1>1, <1>2 DEF OutTypes
    <3>3. PlacesInOrder'
      BY <2>1, <2>2, <2>4, <3>1, <1>0, <1>1, <1>2 DEF PlacesInOrder, Below
    <3>4. PiecesAreSomewhere'
      BY <2>1, <2>2, <2>4, <3>1, <1>0, <1>1, <1>2 DEF PiecesAreSomewhere, Everywhere
    <3>5. MarkRule'
      BY <2>1, <3>1, <1>0, <1>1 DEF MarkRule, NoMark, MarkAtEnd
    <3> QED
      BY <3>2, <3>3, <3>4, <3>5 DEF OutInv
  <2> QED
    BY <2>1, <2>3, <2>4
<1>6. CASE PumpEnds
  <2>1. /\ h = Mark /\ pump = "joins" /\ buffer # <<>> /\ PumpTakes
        /\ Emit(<<buffer, Mark>>) /\ buffer' = <<>> /\ pump' = "idle"
    BY <1>0, <1>6 DEF PumpEnds, OutTypes
  <2>2. ~NoMark(emitter)
    <3>1. emitter # <<>> /\ emitter \in Seq(Pieces)
      BY <2>1, <1>0 DEF PumpTakes, OutTypes
    <3>2. 1 \in DOMAIN emitter /\ Head(emitter) = emitter[1]
      BY <3>1
    <3> QED
      BY <2>1, <3>2 DEF NoMark
  <2>3. reader = "over" /\ batch = <<>> /\ emitter' = <<>>
    BY <2>1, <2>2, <1>0, <1>1 DEF MarkRule
  <2> HIDE DEF h
  <2>4. /\ stream' \in Seq(Pieces) /\ AllInOrder(stream') /\ MarkAtEnd(stream')
        /\ PiecesOf(stream') \subseteq PiecesOf(stream) \cup Range(buffer)
        /\ pane # "gone" => PiecesOf(stream') = PiecesOf(stream) \cup Range(buffer)
    <3>1. /\ stream \in Seq(Pieces) /\ AllInOrder(stream) /\ NoMark(stream)
          /\ MarkAtEnd(stream) /\ buffer \in Pieces /\ buffer # Mark /\ InOrder(buffer)
          /\ Below(PiecesOf(stream), Range(buffer))
      BY <2>1, <1>0, <1>1, <1>2 DEF OutTypes, PlacesInOrder, MarkRule
    <3>2. CASE pane = "gone"
      BY <2>1, <3>1, <3>2 DEF Emit
    <3>3. CASE pane # "gone"
      <4> DEFINE more == stream \o <<buffer>>
      <4>1. /\ <<buffer>> \in Seq(Pieces) /\ PiecesOf(<<buffer>>) = Range(buffer)
            /\ AllInOrder(<<buffer>>) /\ NoMark(<<buffer>>)
        BY <3>1, OneMessage
      <4>2. /\ more \in Seq(Pieces) /\ AllInOrder(more) /\ NoMark(more)
            /\ PiecesOf(more) = PiecesOf(stream) \cup Range(buffer)
        BY <3>1, <4>1, JoinedMessages
      <4>3. stream' = more \o <<Mark>>
        <5>1. <<buffer>> \o <<Mark>> = <<buffer, Mark>>
          BY <3>1, <1>2, TwoMessages
        <5>2. <<Mark>> \in Seq(Pieces) /\ <<buffer>> \in Seq(Pieces)
          BY <4>1, <1>2
        <5>3. stream \o (<<buffer>> \o <<Mark>>) = more \o <<Mark>>
          BY <3>1, <5>2, ConcatAssociative
        <5>4. stream' = stream \o <<buffer, Mark>>
          BY <2>1, <3>3 DEF Emit
        <5> QED
          BY <5>1, <5>3, <5>4
      <4> HIDE DEF more
      <4> QED
        BY <4>2, <4>3, MarkedMessages
    <3> QED
      BY <3>2, <3>3
  <2>5. OutTypes'
    BY <2>1, <2>4, <1>0, <1>1, <1>2 DEF OutTypes
  <2>6. PlacesInOrder'
    BY <2>1, <2>3, <2>4, <1>0, <1>1, <1>2, NoMessage DEF PlacesInOrder, Below
  <2>7. PiecesAreSomewhere'
    BY <2>1, <2>4, <1>0, <1>1, <1>2 DEF PiecesAreSomewhere, Everywhere
  <2>8. MarkRule'
    BY <2>1, <2>3, <2>4, <1>0, <1>1 DEF MarkRule
  <2> QED
    BY <2>5, <2>6, <2>7, <2>8 DEF OutInv
<1>7. CASE PumpStops
  BY <1>0, <1>7
     DEF PumpStops, paneVars, OutInv, OutTypes, PlacesInOrder, PiecesAreSomewhere,
         Everywhere, MarkRule
<1>8. CASE PumpEmits
  <2>1. /\ pump = "joins" /\ buffer # <<>> /\ Emit(<<buffer>>) /\ buffer' = <<>>
        /\ pump' = "idle"
        /\ UNCHANGED <<far, pieces, reader, batch, emitter, lost, shown, told, pane>>
    BY <1>0, <1>8 DEF PumpEmits, OutTypes, paneVars
  <2>2. NoMark(stream) /\ ~told
    BY <2>1, <1>0 DEF MarkRule
  <2>3. /\ stream' \in Seq(Pieces) /\ AllInOrder(stream') /\ NoMark(stream')
        /\ PiecesOf(stream') \subseteq PiecesOf(stream) \cup Range(buffer)
        /\ pane # "gone" => PiecesOf(stream') = PiecesOf(stream) \cup Range(buffer)
    <3>1. /\ stream \in Seq(Pieces) /\ AllInOrder(stream)
          /\ Below(PiecesOf(stream), Range(buffer)) /\ buffer # Mark
          /\ buffer \in Pieces /\ InOrder(buffer)
      BY <2>1, <1>0, <1>2 DEF OutTypes, PlacesInOrder
    <3> QED
      BY <3>1, <2>1, <2>2, EmittedMessage
  <2>4. OutTypes'
    BY <2>1, <2>3, <1>0, <1>2 DEF OutTypes
  <2>5. PlacesInOrder'
    BY <2>1, <2>3, <1>0, <1>2 DEF PlacesInOrder, Below
  <2>6. PiecesAreSomewhere'
    BY <2>1, <2>3, <1>0, <1>2 DEF PiecesAreSomewhere, Everywhere
  <2>7. MarkRule'
    BY <2>1, <2>2, <2>3, <1>0 DEF MarkRule, NoMark, MarkAtEnd
  <2> QED
    BY <2>4, <2>5, <2>6, <2>7 DEF OutInv
<1> QED
  BY <1>3, <1>4, <1>5, <1>6, <1>7, <1>8 DEF PumpStep

(* The pane's steps.                                                        *)
LEMMA FirstOfTaken ==
  ASSUME NEW s \in Seq(Pieces), NEW n \in 0 .. Len(s), NEW k \in 0 .. n
  PROVE  SubSeq(SubSeq(s, 1, n), 1, k) = SubSeq(s, 1, k)
<1> DEFINE a == SubSeq(s, 1, n)
           b == SubSeq(s, 1, k)
           c == SubSeq(a, 1, k)
<1>1. Len(s) \in Nat /\ n \in Nat /\ n <= Len(s) /\ k \in Nat /\ k <= n
  OBVIOUS
<1>2. k \in 0 .. Len(s)
  BY <1>1
<1>3. /\ a \in Seq(Pieces) /\ Len(a) = n /\ \A i \in 1 .. n : a[i] = s[i]
      /\ b \in Seq(Pieces) /\ Len(b) = k /\ \A i \in 1 .. k : b[i] = s[i]
  BY <1>2, PartOfMessages
<1> HIDE DEF a, b
<1>4. c \in Seq(Pieces) /\ Len(c) = k /\ \A i \in 1 .. k : c[i] = a[i]
  BY <1>1, <1>3, PartOfMessages
<1> HIDE DEF c
<1>5. \A i \in 1 .. Len(c) : c[i] = b[i]
  BY <1>1, <1>3, <1>4
<1>6. c = b
  BY <1>3, <1>4, <1>5, SeqEqual
<1> QED
  BY <1>6 DEF a, b, c

LEMMA PaneReadKeepsOut ==
  ASSUME OutInv, NEW n \in 1 .. Len(stream), OnOutput(n)
  PROVE  OutInv'
<1> DEFINE taken == SubSeq(stream, 1, n)
           ends == {i \in 1 .. n : taken[i] = Mark}
           last == IF ends = {} THEN n
                   ELSE (CHOOSE i \in ends : \A j \in ends : i <= j) - 1
<1>1. /\ OutTypes /\ PlacesInOrder /\ PiecesAreSomewhere /\ MarkRule
      /\ UNCHANGED <<far, pieces, reader, batch, emitter, pump, buffer, lost, pane>>
      /\ stream' = SubSeq(stream, n + 1, Len(stream))
      /\ shown' = shown \o SubSeq(taken, 1, last)
      /\ told' = (told \/ ends # {}) /\ pane = "open"
  BY DEF OutInv, OnOutput
<1>2. /\ stream \in Seq(Pieces) /\ Len(stream) \in Nat /\ DOMAIN stream = 1 .. Len(stream)
      /\ n \in Nat /\ 1 <= n /\ n <= Len(stream) /\ AllInOrder(stream) /\ MarkAtEnd(stream)
  BY <1>1 DEF OutTypes, PlacesInOrder, MarkRule
<1>3. \A i \in 1 .. n : taken[i] = stream[i] /\ i \in DOMAIN stream
  BY <1>2, PartOfMessages
<1>4. ~told
  <2>1. Len(stream) # 0
    BY <1>2
  <2>2. stream # <<>>
    BY <2>1, EmptySeq
  <2> QED
    BY <2>2, <1>1 DEF MarkRule
<1>5. CASE ends = {}
  <2> DEFINE read == SubSeq(stream, 1, n)
             rest == SubSeq(stream, n + 1, Len(stream))
  <2>1. last = n
    BY <1>5
  <2>2. rest = stream' /\ told' = FALSE
    BY <1>1, <1>4, <1>5 DEF OutTypes
  <2> HIDE DEF ends, last
  <2>3. SubSeq(taken, 1, last) = read
    <3>1. n \in 0 .. Len(stream) /\ n \in 0 .. n
      BY <1>2
    <3>2. SubSeq(taken, 1, n) = read
      BY <3>1, <1>2, FirstOfTaken
    <3> QED
      BY <3>2, <2>1
  <2>4. /\ read \in Seq(Pieces) /\ rest \in Seq(Pieces)
        /\ PiecesOf(stream) = PiecesOf(read) \cup PiecesOf(rest)
        /\ AllInOrder(read) /\ AllInOrder(rest) /\ Below(PiecesOf(read), PiecesOf(rest))
        /\ MarkAtEnd(rest)
    <3>1. n \in 0 .. Len(stream)
      BY <1>2
    <3> QED
      BY <3>1, <1>2, PartOfMessages
  <2>5. NoMark(stream) => NoMark(rest)
    <3>1. /\ DOMAIN rest = 1 .. Len(stream) - n
          /\ \A i \in 1 .. Len(stream) - n : rest[i] = stream[n + i]
      <4>1. n \in 0 .. Len(stream)
        BY <1>2
      <4> QED
        BY <4>1, <1>2, RestOfSequence
    <3>2. \A i \in 1 .. Len(stream) - n : n + i \in DOMAIN stream
      BY <1>2
    <3> QED
      BY <3>1, <3>2 DEF NoMark
  <2> HIDE DEF taken, read, rest
  <2>6. /\ shown' \in Seq(Pieces) /\ AllInOrder(shown')
        /\ PiecesOf(shown') = PiecesOf(shown) \cup PiecesOf(read)
    <3>1. shown \in Seq(Pieces) /\ AllInOrder(shown) /\ Below(PiecesOf(shown), PiecesOf(read))
      BY <1>1, <2>4 DEF OutTypes, PlacesInOrder, Below
    <3> QED
      BY <3>1, <2>3, <2>4, <1>1, JoinedMessages
  <2>7. OutTypes'
    BY <1>1, <2>2, <2>4, <2>6 DEF OutTypes
  <2>8. PlacesInOrder'
    BY <1>1, <2>2, <2>4, <2>6 DEF PlacesInOrder, Below
  <2>9. PiecesAreSomewhere'
    BY <1>1, <2>2, <2>4, <2>6 DEF PiecesAreSomewhere, Everywhere
  <2>10. MarkRule'
    BY <1>1, <2>2, <2>4, <2>5 DEF MarkRule
  <2> QED
    BY <2>7, <2>8, <2>9, <2>10 DEF OutInv
<1>6. CASE ends # {}
  <2> DEFINE k == n - 1
             read == SubSeq(stream, 1, k)
             rest == SubSeq(stream, k + 1, Len(stream))
  <2>1. PICK m \in 1 .. n : taken[m] = Mark
    BY <1>6
  <2>2. n = Len(stream) /\ stream[n] = Mark
    <3>1. m \in DOMAIN stream /\ stream[m] = Mark
      BY <2>1, <1>3
    <3>2. m = Len(stream)
      BY <3>1, <1>2 DEF MarkAtEnd
    <3> HIDE DEF taken, ends, last
    <3> QED
      BY <3>1, <3>2, <1>2
  <2>3. ends = {n}
    <3>1. \A i \in 1 .. n : taken[i] = Mark <=> i = n
      <4> HIDE DEF taken, ends, last
      <4> QED
        BY <2>2, <1>2, <1>3 DEF MarkAtEnd
    <3>2. n \in 1 .. n
      BY <1>2
    <3> QED
      BY <3>1, <3>2
  <2>4. last = k
    <3>1. n <= n
      BY <1>2
    <3>2. (CHOOSE i \in {n} : \A j \in {n} : i <= j) = n
      BY <3>1
    <3> QED
      BY <2>3, <3>2
  <2> HIDE DEF ends, last
  <2>5. k \in 0 .. n /\ n \in 0 .. Len(stream) /\ k \in 0 .. Len(stream)
        /\ k + 1 = n /\ Len(stream) - k = 1
    <3> HIDE DEF taken
    <3> QED
      BY <1>2, <2>2
  <2> HIDE DEF k
  <2>6. SubSeq(taken, 1, last) = read
    <3>1. SubSeq(taken, 1, k) = read
      BY <2>5, <1>2, FirstOfTaken
    <3> QED
      BY <3>1, <2>4
  <2>7. /\ read \in Seq(Pieces) /\ rest \in Seq(Pieces)
        /\ PiecesOf(stream) = PiecesOf(read) \cup PiecesOf(rest)
        /\ AllInOrder(read)
    BY <1>2, <2>5, PartOfMessages
  <2> HIDE DEF taken
  <2>8. PiecesOf(rest) = {}
    <3>1. /\ DOMAIN rest = 1 .. Len(stream) - k
          /\ \A i \in 1 .. Len(stream) - k : rest[i] = stream[k + i]
      BY <2>5, <1>2, RestOfSequence
    <3> HIDE DEF rest
    <3>2. DOMAIN rest = {1} /\ rest[1] = stream[n]
      BY <3>1, <2>5
    <3>3. \A i \in DOMAIN rest : Range(rest[i]) = {}
      BY <3>2, <2>2, NoMessage
    <3> QED
      BY <3>3 DEF PiecesOf
  <2>9. stream' = <<>>
    <3>1. Len(stream) \in 0 .. Len(stream) /\ Len(stream) - Len(stream) = 0
      BY <1>2
    <3>2. stream' \in Seq(Pieces) /\ Len(stream') = 0
      BY <3>1, <1>1, <1>2, <2>2, RestOfSequence
    <3> QED
      BY <3>2, EmptySeq
  <2>10. told' = TRUE
    BY <1>1, <1>6 DEF OutTypes
  <2>11. buffer = <<>> /\ emitter = <<>> /\ reader = "over"
    <3>1. ~NoMark(stream)
      BY <2>2, <1>2 DEF NoMark
    <3> QED
      BY <3>1, <1>1 DEF MarkRule
  <2> HIDE DEF read, rest
  <2>12. /\ shown' \in Seq(Pieces) /\ AllInOrder(shown')
         /\ PiecesOf(shown') = PiecesOf(shown) \cup PiecesOf(read)
    <3>1. shown \in Seq(Pieces) /\ AllInOrder(shown) /\ Below(PiecesOf(shown), PiecesOf(read))
      BY <1>1, <2>7 DEF OutTypes, PlacesInOrder, Below
    <3> QED
      BY <3>1, <2>6, <2>7, <1>1, JoinedMessages
  <2>13. PiecesOf(shown') = PiecesOf(shown) \cup PiecesOf(stream)
    BY <2>7, <2>8, <2>12
  <2>14. OutTypes'
    BY <1>1, <2>9, <2>10, <2>12, NoMessage DEF OutTypes
  <2>15. PlacesInOrder'
    BY <1>1, <2>9, <2>12, <2>13, NoMessage DEF PlacesInOrder, Below
  <2>16. PiecesAreSomewhere'
    BY <1>1, <2>9, <2>13, NoMessage DEF PiecesAreSomewhere, Everywhere
  <2>17. MarkRule'
    BY <1>1, <2>9, <2>11, NoMessage DEF MarkRule
  <2> QED
    BY <2>14, <2>15, <2>16, <2>17 DEF OutInv
<1> QED
  BY <1>5, <1>6

LEMMA PaneKeepsOut ==
  ASSUME OutInv, ClaimStream \/ PaneReads \/ ClosePane
  PROVE  OutInv'
<1>1. OutTypes /\ PlacesInOrder /\ PiecesAreSomewhere /\ MarkRule
  BY DEF OutInv
<1>2. CASE ClaimStream
  BY <1>1, <1>2
     DEF ClaimStream, outVars, OutInv, OutTypes, PlacesInOrder, PiecesAreSomewhere,
         Everywhere, MarkRule
<1>3. CASE PaneReads
  BY <1>3, PaneReadKeepsOut DEF PaneReads
<1>4. CASE ClosePane
  <2>1. /\ UNCHANGED <<far, pieces, reader, batch, emitter, pump, buffer, lost, shown, told>>
        /\ pane' = "gone" /\ stream' = <<>>
    BY <1>4 DEF ClosePane
  <2>2. OutTypes' /\ PlacesInOrder'
    BY <2>1, <1>1, NoMessage DEF OutTypes, PlacesInOrder, Below
  <2>3. PiecesAreSomewhere'
    BY <2>1, <1>1, NoMessage DEF PiecesAreSomewhere, Everywhere
  <2>4. MarkRule'
    BY <2>1, <1>1, NoMessage DEF MarkRule
  <2> QED
    BY <2>2, <2>3, <2>4 DEF OutInv
<1> QED
  BY <1>2, <1>3, <1>4

(* The input's steps touch the output only by closing the other end.        *)
LEMMA OthersKeepOut ==
  ASSUME OutInv, UNCHANGED <<outVars, paneVars>>, far' \in {far, "closed"}
  PROVE  OutInv'
BY DEF OutInv, outVars, paneVars, OutTypes, PlacesInOrder, PiecesAreSomewhere,
       Everywhere, MarkRule

LEMMA OutIsTrue ==
  ASSUME OutInv
  PROVE  OutputIsTrue /\ ClosedIsLast
<1> DEFINE B == IF buffer = <<>> THEN <<>> ELSE <<buffer>>
           C == IF batch = <<>> THEN <<>> ELSE <<batch>>
           s1 == stream \o B
           s2 == s1 \o emitter
           s3 == s2 \o C
           out == shown \o s3
<1>1. /\ OutTypes /\ PlacesInOrder /\ PiecesAreSomewhere /\ MarkRule
      /\ shown \in Seq(Pieces) /\ stream \in Seq(Pieces) /\ emitter \in Seq(Pieces)
      /\ AllInOrder(shown) /\ AllInOrder(stream) /\ AllInOrder(emitter)
  BY DEF OutInv, OutTypes, PlacesInOrder
<1>2. /\ B \in Seq(Pieces) /\ PiecesOf(B) = Range(buffer) /\ AllInOrder(B) /\ NoMark(B)
      /\ buffer = <<>> => B = <<>>
  <2>1. buffer \in Pieces /\ InOrder(buffer) /\ Mark = <<>>
    BY <1>1 DEF OutTypes, PlacesInOrder, Mark
  <2>2. CASE buffer = <<>>
    BY <2>1, <2>2, NoMessage
  <2>3. CASE buffer # <<>>
    BY <2>1, <2>3, OneMessage
  <2> QED
    BY <2>2, <2>3
<1>3. /\ C \in Seq(Pieces) /\ PiecesOf(C) = Range(batch) /\ AllInOrder(C) /\ NoMark(C)
      /\ batch = <<>> => C = <<>>
  <2>1. batch \in Pieces /\ InOrder(batch) /\ Mark = <<>>
    BY <1>1 DEF OutTypes, PlacesInOrder, Mark
  <2>2. CASE batch = <<>>
    BY <2>1, <2>2, NoMessage
  <2>3. CASE batch # <<>>
    BY <2>1, <2>3, OneMessage
  <2> QED
    BY <2>2, <2>3
<1>4. Messages = s3
  BY DEF Messages
<1> HIDE DEF B, C
<1>5. /\ s1 \in Seq(Pieces) /\ AllInOrder(s1)
      /\ PiecesOf(s1) = PiecesOf(stream) \cup Range(buffer)
  <2>1. Below(PiecesOf(stream), PiecesOf(B))
    BY <1>1, <1>2 DEF PlacesInOrder
  <2> QED
    BY <2>1, <1>1, <1>2, JoinedMessages
<1>6. /\ s2 \in Seq(Pieces) /\ AllInOrder(s2)
      /\ PiecesOf(s2) = PiecesOf(s1) \cup PiecesOf(emitter)
  <2> HIDE DEF s1
  <2>1. Below(PiecesOf(s1), PiecesOf(emitter))
    BY <1>1, <1>5 DEF PlacesInOrder, Below
  <2> QED
    BY <2>1, <1>1, <1>5, JoinedMessages
<1>7. /\ s3 \in Seq(Pieces) /\ AllInOrder(s3)
      /\ PiecesOf(s3) = PiecesOf(s2) \cup Range(batch)
  <2> HIDE DEF s1, s2
  <2>1. Below(PiecesOf(s2), PiecesOf(C))
    BY <1>1, <1>3, <1>5, <1>6 DEF PlacesInOrder, Below
  <2> QED
    BY <2>1, <1>3, <1>6, JoinedMessages
<1>8. MarkAtEnd(s3)
  <2>1. CASE NoMark(stream) /\ NoMark(emitter)
    <3>1. NoMark(s1)
      BY <2>1, <1>1, <1>2, JoinedMessages
    <3> HIDE DEF s1
    <3>2. NoMark(s2)
      BY <2>1, <3>1, <1>1, <1>5, JoinedMessages
    <3> HIDE DEF s2
    <3>3. NoMark(s3)
      BY <3>2, <1>3, <1>6, JoinedMessages
    <3> QED
      BY <3>3 DEF NoMark, MarkAtEnd
  <2>2. CASE NoMark(stream) /\ ~NoMark(emitter)
    <3>1. MarkAtEnd(emitter) /\ C = <<>>
      BY <2>2, <1>1, <1>3 DEF MarkRule
    <3>2. NoMark(s1)
      BY <2>2, <1>1, <1>2, JoinedMessages
    <3> HIDE DEF s1
    <3>3. MarkAtEnd(s2)
      BY <3>1, <3>2, <1>1, <1>5, JoinedMessages
    <3> HIDE DEF s2
    <3> QED
      BY <3>1, <3>3, <1>3, <1>6, JoinedMessages
  <2>3. CASE ~NoMark(stream)
    <3>1. MarkAtEnd(stream) /\ B = <<>> /\ emitter = <<>> /\ C = <<>>
      BY <2>3, <1>1, <1>2, <1>3 DEF MarkRule
    <3>2. MarkAtEnd(s1)
      BY <3>1, <1>1, <1>2, JoinedMessages
    <3> HIDE DEF s1
    <3>3. MarkAtEnd(s2)
      BY <3>1, <3>2, <1>1, <1>5, JoinedMessages
    <3> HIDE DEF s2
    <3> QED
      BY <3>1, <3>3, <1>3, <1>6, JoinedMessages
  <2> QED
    BY <2>1, <2>2, <2>3
<1> HIDE DEF s1, s2, s3
<1>9. AllInOrder(out) /\ PiecesOf(out) = PiecesOf(shown) \cup PiecesOf(s3)
  <2>1. Below(PiecesOf(shown), PiecesOf(s3))
    BY <1>1, <1>5, <1>6, <1>7 DEF PlacesInOrder, Below
  <2> QED
    BY <2>1, <1>1, <1>7, JoinedMessages
<1> HIDE DEF out
<1>10. PiecesOf(out) = Everywhere
  BY <1>5, <1>6, <1>7, <1>9 DEF Everywhere
<1>11. OutputIsTrue
  <2>1. pane # "gone" => 1 .. pieces = PiecesOf(out) \cup lost
    BY <1>1, <1>10 DEF PiecesAreSomewhere
  <2>2. out = shown \o Messages
    BY <1>4 DEF out
  <2> QED
    BY <2>1, <2>2, <1>9 DEF OutputIsTrue
<1>12. \A i \in DOMAIN Messages : Messages[i] = Mark => i = Len(Messages)
  BY <1>4, <1>8 DEF MarkAtEnd
<1>13. ASSUME told
       PROVE  /\ far = "closed" /\ reader = "over"
              /\ stream = <<>> /\ buffer = <<>> /\ emitter = <<>>
              /\ pane = "open" => 1 .. pieces = PiecesOf(shown) \cup lost
  <2>1. /\ far = "closed" /\ reader = "over" /\ batch = <<>>
        /\ stream = <<>> /\ buffer = <<>> /\ emitter = <<>>
    BY <1>1, <1>13 DEF MarkRule
  <2>2. Everywhere = PiecesOf(shown)
    BY <2>1, NoMessage DEF Everywhere, Mark
  <2> QED
    BY <2>1, <2>2, <1>1 DEF PiecesAreSomewhere
<1> QED
  BY <1>11, <1>12, <1>13 DEF ClosedIsLast

-----------------------------------------------------------------------------
(* Input.  A sequence in which the members of S come in order.              *)
Among(s, S) == \A i, j \in DOMAIN s : i < j /\ s[i] \in S /\ s[j] \in S => s[i] < s[j]

LEMMA OneMore ==
  ASSUME NEW S, NEW s \in Seq(Nat), NEW x \in Nat
  PROVE  /\ Append(s, x) \in Seq(Nat) /\ Len(Append(s, x)) = Len(s) + 1
         /\ Range(Append(s, x)) = Range(s) \cup {x}
         /\ s # <<>> => Append(s, x) # <<>> /\ Head(Append(s, x)) = Head(s)
         /\ Among(s, S) /\ (x \in S => \A y \in Range(s) : y \in S => y < x)
               => Among(Append(s, x), S)
<1> DEFINE t == Append(s, x)
<1>1. /\ Len(s) \in Nat /\ DOMAIN s = 1 .. Len(s) /\ \A i \in DOMAIN s : s[i] \in Range(s)
      /\ t \in Seq(Nat) /\ Len(t) = Len(s) + 1 /\ DOMAIN t = 1 .. Len(s) + 1
      /\ \A i \in 1 .. Len(s) : t[i] = s[i]
      /\ t[Len(s) + 1] = x
  BY DEF Range
<1> HIDE DEF t
<1>2. ASSUME NEW i \in DOMAIN t
      PROVE  (i \in DOMAIN s /\ t[i] = s[i]) \/ (i = Len(s) + 1 /\ t[i] = x)
  <2>1. i \in 1 .. Len(s) \/ i = Len(s) + 1
    BY <1>1
  <2> QED
    BY <2>1, <1>1
<1>3. Range(t) = Range(s) \cup {x}
  <2>1. \A y \in Range(t) : y \in Range(s) \cup {x}
    BY <1>2 DEF Range
  <2>2. \A y \in Range(s) : y \in Range(t)
    <3>1. \A i \in DOMAIN s : i \in DOMAIN t /\ t[i] = s[i]
      BY <1>1
    <3> QED
      BY <3>1 DEF Range
  <2>3. x \in Range(t)
    <3>1. Len(s) + 1 \in DOMAIN t
      BY <1>1
    <3> QED
      BY <3>1, <1>1 DEF Range
  <2> QED
    BY <2>1, <2>2, <2>3
<1>4. s # <<>> => t # <<>> /\ Head(t) = Head(s)
  <2> SUFFICES ASSUME s # <<>>
               PROVE  t # <<>> /\ Head(t) = Head(s)
    OBVIOUS
  <2>1. Len(s) # 0 /\ Len(<<>>) = 0
    BY EmptySeq
  <2>2. Len(t) # 0 /\ 1 \in 1 .. Len(s) /\ t[1] = s[1]
    BY <2>1, <1>1
  <2>3. t # <<>>
    BY <2>1, <2>2
  <2>4. Head(t) = t[1] /\ Head(s) = s[1]
    BY <1>1, <2>3
  <2> QED
    BY <2>2, <2>3, <2>4
<1>5. ASSUME Among(s, S), x \in S => \A y \in Range(s) : y \in S => y < x
      PROVE  Among(t, S)
  <2> SUFFICES ASSUME NEW i \in DOMAIN t, NEW j \in DOMAIN t, i < j, t[i] \in S, t[j] \in S
               PROVE  t[i] < t[j]
    BY DEF Among
  <2>1. i \in DOMAIN s /\ t[i] = s[i]
    BY <1>1, <1>2
  <2>2. CASE j \in DOMAIN s /\ t[j] = s[j]
    BY <2>1, <2>2, <1>5 DEF Among
  <2>3. CASE j = Len(s) + 1 /\ t[j] = x
    BY <2>1, <2>3, <1>1, <1>5
  <2> QED
    BY <2>2, <2>3, <1>2
<1> QED
  BY <1>1, <1>3, <1>4, <1>5 DEF t

LEMMA OneLess ==
  ASSUME NEW S, NEW s \in Seq(Nat), s # <<>>
  PROVE  /\ Head(s) \in Nat /\ Tail(s) \in Seq(Nat) /\ Len(Tail(s)) = Len(s) - 1
         /\ Range(s) = {Head(s)} \cup Range(Tail(s))
         /\ Among(s, S) => /\ Among(Tail(s), S)
                           /\ Head(s) \in S => \A y \in Range(Tail(s)) : y \in S => Head(s) < y
<1> DEFINE t == Tail(s)
           h == Head(s)
<1>1. Len(s) \in Nat /\ Len(s) # 0
  BY EmptySeq
<1>2. /\ h \in Nat /\ h = s[1] /\ t \in Seq(Nat) /\ Len(t) = Len(s) - 1
      /\ DOMAIN s = 1 .. Len(s) /\ DOMAIN t = 1 .. Len(s) - 1
      /\ \A i \in 1 .. Len(s) - 1 : t[i] = s[i + 1]
  BY <1>1
<1> HIDE DEF t, h
<1>3. \A i \in DOMAIN t : i + 1 \in DOMAIN s /\ 1 < i + 1 /\ t[i] = s[i + 1]
  BY <1>1, <1>2
<1>4. 1 \in DOMAIN s /\ \A i \in DOMAIN s : i = 1 \/ (i - 1 \in DOMAIN t /\ t[i - 1] = s[i])
  BY <1>1, <1>2
<1>5. Range(s) = {h} \cup Range(t)
  <2>1. ASSUME NEW y \in Range(s)
        PROVE  y = h \/ y \in Range(t)
    <3>1. PICK i \in DOMAIN s : y = s[i]
      BY DEF Range
    <3> QED
      BY <3>1, <1>2, <1>4 DEF Range
  <2>2. h \in Range(s)
    BY <1>2, <1>4 DEF Range
  <2>3. \A y \in Range(t) : y \in Range(s)
    BY <1>3 DEF Range
  <2> QED
    BY <2>1, <2>2, <2>3
<1>6. ASSUME Among(s, S)
      PROVE  /\ Among(t, S)
             /\ h \in S => \A y \in Range(t) : y \in S => h < y
  <2>1. Among(t, S)
    <3>1. \A i, j \in DOMAIN t : i < j => i + 1 < j + 1
      BY <1>2
    <3> QED
      BY <3>1, <1>3, <1>6 DEF Among
  <2>2. ASSUME h \in S, NEW y \in Range(t), y \in S
        PROVE  h < y
    <3>1. PICK i \in DOMAIN t : y = t[i]
      BY DEF Range
    <3>2. 1 \in DOMAIN s /\ i + 1 \in DOMAIN s /\ 1 < i + 1 /\ s[1] = h /\ s[i + 1] = y
      BY <3>1, <1>2, <1>3, <1>4
    <3> QED
      BY <3>2, <2>2, <1>6 DEF Among
  <2> QED
    BY <2>1, <2>2
<1> QED
  BY <1>2, <1>5, <1>6 DEF t, h

(* Where an item may be, on its way from the pane to the shell.             *)
Items == 1 .. Len(typed)
Waiting == {i \in Range(queue) : i # Disconnect}
Writing == IF actor = "writes" THEN {item} ELSE {}
Reached == {i \in Range(applied) : ByActor(i)}

InTypes ==
    /\ kind \in {"ssh", "local"} /\ typed \in Seq({"write", "resize"})
    /\ pty \in Seq(Nat) /\ queue \in Seq(Nat) /\ applied \in Seq(Nat)
    /\ item \in Nat /\ Len(queue) <= ActorCap
    /\ forwarder \in {"looks", "sends", "over"} /\ actor \in {"waits", "writes", "over"}
    /\ cleanup \in {"none", "kill", "join", "over"}

(* Each place has its items in order, and older ones than the places that   *)
(* are farther from the shell.                                              *)
ItemsInOrder ==
    /\ Among(pty, Nat) /\ Among(queue, Nat \ {Disconnect}) /\ InputInOrder
    /\ Below(Range(applied), Range(pty)) /\ Below(Waiting, Range(pty))
    /\ Below(Writing, Range(pty)) /\ Below(Writing, Waiting)
    /\ Below(Reached, Waiting) /\ Below(Reached, Writing)

(* Every item was typed, and the sizes of a local terminal pass the actor.  *)
ItemsAreTyped ==
    /\ Range(pty) \subseteq Items /\ Range(applied) \subseteq Items
    /\ Waiting \subseteq Items /\ Writing \subseteq Items
    /\ \A i \in Waiting \cup Writing : ByActor(i)
    /\ forwarder = "sends" => pty # <<>> /\ ByActor(Head(pty))

InInv == InTypes /\ ItemsInOrder /\ ItemsAreTyped

(* A new item is the greatest.                                              *)
LEMMA TypeKeepsIn ==
  ASSUME InInv, NEW what \in {"write", "resize"}, Type(what)
  PROVE  InInv'
<1> DEFINE N == Len(typed)
<1>1. /\ InTypes /\ ItemsInOrder /\ ItemsAreTyped
      /\ UNCHANGED <<kind, forwarder, queue, actor, item, applied, cleanup>>
      /\ typed' = Append(typed, what) /\ pty' = Append(pty, Len(typed'))
      /\ typed \in Seq({"write", "resize"}) /\ N \in Nat
  BY DEF InInv, InTypes, Type, endVars
<1>2. /\ typed' \in Seq({"write", "resize"}) /\ Len(typed') = N + 1
      /\ \A i \in 1 .. N : typed'[i] = typed[i]
  BY <1>1
<1>3. Items' = 1 .. N + 1 /\ Items = 1 .. N /\ Items \subseteq Nat
      /\ \A i \in Items : i \in Items' /\ i < N + 1
  BY <1>1, <1>2 DEF Items
<1>4. \A i \in Items : ByActor(i)' <=> ByActor(i)
  BY <1>1, <1>2 DEF ByActor, Items
<1> HIDE DEF N
<1>5. /\ pty' = Append(pty, N + 1) /\ N + 1 \in Nat /\ N + 1 \in Items'
      /\ pty \in Seq(Nat) /\ Range(pty) \subseteq Items
  BY <1>1, <1>2, <1>3 DEF InTypes, ItemsAreTyped, N
<1>6. \A y \in Range(pty) : y < N + 1
  BY <1>3, <1>5
<1>7. /\ pty' \in Seq(Nat) /\ Range(pty') = Range(pty) \cup {N + 1} /\ Among(pty', Nat)
      /\ pty # <<>> => pty' # <<>> /\ Head(pty') = Head(pty)
  <2>1. Among(pty, Nat)
    BY <1>1 DEF ItemsInOrder
  <2> QED
    BY <2>1, <1>5, <1>6, OneMore
<1>8. Waiting' = Waiting /\ Writing' = Writing /\ Reached' = Reached
  <2>1. Range(applied) \subseteq Items
    BY <1>1 DEF ItemsAreTyped
  <2> QED
    BY <2>1, <1>1, <1>4 DEF Waiting, Writing, Reached
<1>9. \A i \in Range(applied) \cup Waiting \cup Writing : i < N + 1
  BY <1>1, <1>3 DEF ItemsAreTyped
<1>10. InTypes'
  BY <1>1, <1>2, <1>7 DEF InTypes
<1>11. InputInOrder'
  <2>1. \A i \in DOMAIN applied : applied[i] \in Items
    BY <1>1 DEF ItemsAreTyped, Range
  <2> QED
    BY <2>1, <1>1, <1>4 DEF ItemsInOrder, InputInOrder
<1>12. ItemsInOrder'
  BY <1>1, <1>7, <1>8, <1>9, <1>11 DEF ItemsInOrder, Below
<1>13. ItemsAreTyped'
  <2>1. forwarder = "sends" => Head(pty) \in Items
    <3>1. pty # <<>> => Head(pty) \in Range(pty)
      BY <1>5, OneLess
    <3> QED
      BY <3>1, <1>1, <1>5 DEF ItemsAreTyped
  <2> QED
    BY <2>1, <1>1, <1>3, <1>4, <1>5, <1>7, <1>8 DEF ItemsAreTyped
<1> QED
  BY <1>10, <1>12, <1>13 DEF InInv

(* The forwarder takes the oldest item from the pane.                       *)
LEMMA ForwarderKeepsIn ==
  ASSUME InInv, ForwarderStep
  PROVE  InInv'
<1> DEFINE h == Head(pty)
<1>1. InTypes /\ ItemsInOrder /\ ItemsAreTyped /\ pty \in Seq(Nat)
  BY DEF InInv, InTypes
<1>2. UNCHANGED <<kind, typed, actor, item, cleanup>>
  BY DEF ForwarderStep, LookUp, NotFound, ResizeLocal, SendItem, ForwarderStops,
         ForwarderVars
<1>3. Items' = Items /\ Writing' = Writing /\ \A i : ByActor(i)' <=> ByActor(i)
  BY <1>2 DEF Items, Writing, ByActor
<1>4. ASSUME pty # <<>>, pty' = Tail(pty)
      PROVE  /\ pty' \in Seq(Nat) /\ Range(pty') \subseteq Range(pty)
             /\ h \in Range(pty) /\ h \in Nat /\ h \in Items /\ h # Disconnect
             /\ Among(pty', Nat) /\ \A y \in Range(pty') : y \in Nat /\ h < y
  <2>1. Among(pty, Nat) /\ Range(pty) \subseteq Items
    BY <1>1 DEF ItemsInOrder, ItemsAreTyped
  <2>2. /\ h \in Nat /\ pty' \in Seq(Nat) /\ Range(pty) = {h} \cup Range(pty')
        /\ Among(pty', Nat) /\ (h \in Nat => \A y \in Range(pty') : y \in Nat => h < y)
    BY <2>1, <1>1, <1>4, OneLess
  <2>3. \A y \in Range(pty') : y \in Nat
    BY <2>2 DEF Range
  <2> QED
    BY <2>1, <2>2, <2>3 DEF Items, Disconnect
<1> HIDE DEF h
<1>5. CASE LookUp
  <2>1. /\ UNCHANGED <<pty, queue, applied>> /\ pty # <<>> /\ forwarder' = "sends"
        /\ kind = "ssh" \/ typed[h] = "write"
    BY <1>5 DEF LookUp, h
  <2>2. Waiting' = Waiting /\ Reached' = Reached /\ (InputInOrder' <=> InputInOrder)
    BY <2>1, <1>3 DEF Waiting, Reached, InputInOrder
  <2>3. Head(pty)' = h /\ ByActor(h)
    BY <2>1 DEF h, ByActor
  <2> QED
    BY <2>1, <2>2, <2>3, <1>1, <1>2, <1>3 DEF InInv, InTypes, ItemsInOrder, ItemsAreTyped
<1>6. CASE NotFound
  <2>1. /\ UNCHANGED <<queue, applied>> /\ pty # <<>> /\ pty' = Tail(pty)
        /\ forwarder' = "over"
    BY <1>6 DEF NotFound
  <2>2. Waiting' = Waiting /\ Reached' = Reached /\ (InputInOrder' <=> InputInOrder)
    BY <2>1, <1>3 DEF Waiting, Reached, InputInOrder
  <2>3. InTypes' /\ ItemsAreTyped'
    BY <2>1, <2>2, <1>1, <1>2, <1>3, <1>4 DEF InTypes, ItemsAreTyped
  <2>4. ItemsInOrder'
    BY <2>1, <2>2, <1>1, <1>3, <1>4 DEF ItemsInOrder, Below
  <2> QED
    BY <2>3, <2>4 DEF InInv
<1>7. CASE ResizeLocal
  <2>1. /\ UNCHANGED <<queue, forwarder>> /\ pty # <<>> /\ pty' = Tail(pty)
        /\ applied' = Append(applied, h) /\ ~ByActor(h) /\ forwarder = "looks"
    BY <1>7 DEF ResizeLocal, ByActor, h
  <2> DEFINE S == {i \in Nat : ByActor(i)}
  <2>2. Among(applied, S) /\ applied \in Seq(Nat) /\ h \notin S
    BY <2>1, <1>1 DEF ItemsInOrder, InputInOrder, Among, InTypes
  <2>3. /\ applied' \in Seq(Nat) /\ Range(applied') = Range(applied) \cup {h}
        /\ Among(applied', S)
    BY <2>1, <2>2, <1>4, OneMore
  <2>4. InputInOrder'
    <3>1. \A i \in DOMAIN applied' : applied'[i] \in Nat
      BY <2>3
    <3> QED
      BY <2>3, <3>1, <1>3 DEF Among, InputInOrder
  <2>5. Waiting' = Waiting /\ Reached' = Reached
    BY <2>1, <2>3, <1>3 DEF Waiting, Reached
  <2>6. InTypes' /\ ItemsAreTyped'
    BY <2>1, <2>3, <2>5, <1>1, <1>2, <1>3, <1>4 DEF InTypes, ItemsAreTyped
  <2>7. ItemsInOrder'
    BY <2>1, <2>3, <2>4, <2>5, <1>1, <1>3, <1>4 DEF ItemsInOrder, Below
  <2> QED
    BY <2>6, <2>7 DEF InInv
<1>8. CASE SendItem
  <2>1. /\ applied' = applied /\ pty # <<>> /\ pty' = Tail(pty) /\ ByActor(h)
        /\ forwarder' = "looks"
        /\ queue' = IF actor # "over" /\ Len(queue) < ActorCap
                    THEN Append(queue, h) ELSE queue
    BY <1>8, <1>1 DEF SendItem, ItemsAreTyped, h
  <2>2. Reached' = Reached /\ (InputInOrder' <=> InputInOrder)
    BY <2>1, <1>3 DEF Reached, InputInOrder
  <2>3. /\ Below(Range(applied), {h}) /\ Below(Waiting, {h}) /\ Below(Writing, {h})
        /\ Below(Reached, {h})
    BY <2>1, <1>1, <1>4 DEF ItemsInOrder, Below, Reached
  <2>4. /\ queue' \in Seq(Nat) /\ Len(queue') <= ActorCap
        /\ Among(queue', Nat \ {Disconnect})
        /\ Waiting' \subseteq Waiting \cup {h}
    <3>1. CASE queue' = queue
      BY <3>1, <1>1 DEF InTypes, ItemsInOrder, Waiting
    <3>2. CASE queue' = Append(queue, h) /\ Len(queue) < ActorCap
      <4>1. /\ queue \in Seq(Nat) /\ Among(queue, Nat \ {Disconnect}) /\ Len(queue) \in Nat
        BY <1>1 DEF InTypes, ItemsInOrder
      <4>2. \A y \in Range(queue) : y \in Nat \ {Disconnect} => y < h
        BY <2>3 DEF Below, Waiting
      <4>3. /\ queue' \in Seq(Nat) /\ Len(queue') = Len(queue) + 1
            /\ Range(queue') = Range(queue) \cup {h} /\ Among(queue', Nat \ {Disconnect})
        <5>1. h \in Nat
          BY <2>1, <1>4
        <5> QED
          BY <3>2, <4>1, <4>2, <5>1, OneMore
      <4>4. Len(queue') <= ActorCap
        BY <3>2, <4>1, <4>3, SessionAssumption
      <4> QED
        BY <4>3, <4>4 DEF Waiting
    <3> QED
      BY <3>1, <3>2, <2>1
  <2>5. InTypes' /\ ItemsAreTyped'
    BY <2>1, <2>4, <1>1, <1>2, <1>3, <1>4 DEF InTypes, ItemsAreTyped
  <2>6. ItemsInOrder'
    BY <2>1, <2>2, <2>3, <2>4, <1>1, <1>3, <1>4 DEF ItemsInOrder, Below
  <2> QED
    BY <2>5, <2>6 DEF InInv
<1>9. CASE ForwarderStops
  <2>1. UNCHANGED <<pty, queue, applied>> /\ forwarder' = "over"
    BY <1>9 DEF ForwarderStops
  <2>2. Waiting' = Waiting /\ Reached' = Reached /\ (InputInOrder' <=> InputInOrder)
    BY <2>1, <1>3 DEF Waiting, Reached, InputInOrder
  <2> QED
    BY <2>1, <2>2, <1>1, <1>2, <1>3 DEF InInv, InTypes, ItemsInOrder, ItemsAreTyped
<1> QED
  BY <1>5, <1>6, <1>7, <1>8, <1>9 DEF ForwarderStep

(* The actor takes the oldest item that was sent.                           *)
LEMMA ActorTakesOldest ==
  ASSUME InInv, queue # <<>>, queue' = Tail(queue)
  PROVE  /\ Head(queue) \in Nat /\ queue' \in Seq(Nat) /\ Len(queue') <= ActorCap
         /\ Among(queue', Nat \ {Disconnect}) /\ Waiting' \subseteq Waiting
         /\ Head(queue) # Disconnect =>
               Head(queue) \in Waiting /\ Below({Head(queue)}, Waiting')
<1>1. /\ queue \in Seq(Nat) /\ Len(queue) <= ActorCap /\ Len(queue) \in Nat
      /\ Among(queue, Nat \ {Disconnect})
  BY DEF InInv, InTypes, ItemsInOrder
<1>2. /\ Head(queue) \in Nat /\ queue' \in Seq(Nat) /\ Len(queue') = Len(queue) - 1
      /\ Range(queue) = {Head(queue)} \cup Range(queue')
      /\ Among(queue', Nat \ {Disconnect})
      /\ Head(queue) \in Nat \ {Disconnect} =>
            \A y \in Range(queue') : y \in Nat \ {Disconnect} => Head(queue) < y
  BY <1>1, OneLess
<1>3. Len(queue') <= ActorCap
  BY <1>1, <1>2, SessionAssumption
<1>4. \A y \in Range(queue') : y \in Nat
  BY <1>2 DEF Range
<1> QED
  BY <1>2, <1>3, <1>4 DEF Waiting, Below

LEMMA ActorKeepsIn ==
  ASSUME InInv, ActorStep
  PROVE  InInv'
<1>1. /\ InTypes /\ ItemsInOrder /\ ItemsAreTyped
      /\ UNCHANGED <<kind, typed, pty, forwarder, cleanup>>
  BY DEF InInv, ActorStep, ActorTakes, ActorWrites, ActorDisconnects, ActorIsAlone,
         ActorVars, endVars
<1>2. Items' = Items /\ \A i : ByActor(i)' <=> ByActor(i)
  BY <1>1 DEF Items, ByActor
<1>3. CASE ActorTakes
  <2>1. /\ queue # <<>> /\ queue' = Tail(queue) /\ applied' = applied
        /\ actor' = "writes" /\ item' = Head(queue) /\ Head(queue) # Disconnect
    BY <1>3 DEF ActorTakes
  <2>2. /\ Head(queue) \in Nat /\ queue' \in Seq(Nat) /\ Len(queue') <= ActorCap
        /\ Among(queue', Nat \ {Disconnect}) /\ Waiting' \subseteq Waiting
        /\ Head(queue) \in Waiting /\ Below({Head(queue)}, Waiting')
    BY <2>1, ActorTakesOldest
  <2>3. Writing' = {Head(queue)} /\ Reached' = Reached /\ (InputInOrder' <=> InputInOrder)
    BY <2>1, <1>2 DEF Writing, Reached, InputInOrder
  <2>4. InTypes' /\ ItemsAreTyped'
    BY <2>1, <2>2, <2>3, <1>1, <1>2 DEF InTypes, ItemsAreTyped
  <2>5. ItemsInOrder'
    BY <2>1, <2>2, <2>3, <1>1 DEF ItemsInOrder, Below
  <2> QED
    BY <2>4, <2>5 DEF InInv
<1>4. CASE ActorWrites
  <2>1. /\ queue' = queue /\ item' = Disconnect /\ Writing = {item} /\ actor' # "writes"
        /\ actor' \in {"waits", "over"}
        /\ applied' = Append(applied, item) \/ applied' = applied
    BY <1>4 DEF ActorWrites, Writing
  <2>2. Waiting' = Waiting /\ Writing' = {}
    BY <2>1 DEF Waiting, Writing
  <2>3. CASE applied' = applied
    <3>1. Reached' = Reached /\ (InputInOrder' <=> InputInOrder)
      BY <2>3, <1>2 DEF Reached, InputInOrder
    <3>2. InTypes' /\ ItemsAreTyped'
      BY <2>1, <2>2, <2>3, <1>1, <1>2 DEF InTypes, ItemsAreTyped, Disconnect
    <3>3. ItemsInOrder'
      BY <2>1, <2>2, <2>3, <3>1, <1>1 DEF ItemsInOrder, Below
    <3> QED
      BY <3>2, <3>3 DEF InInv
  <2>4. CASE applied' = Append(applied, item)
    <3> DEFINE S == {i \in Nat : ByActor(i)}
    <3>1. /\ applied \in Seq(Nat) /\ item \in Nat /\ item \in Items /\ ByActor(item)
          /\ Below(Reached, {item})
      BY <2>1, <1>1 DEF InTypes, ItemsAreTyped, ItemsInOrder
    <3>2. Among(applied, S)
      BY <3>1, <1>1 DEF ItemsInOrder, InputInOrder, Among
    <3>3. \A y \in Range(applied) : y \in S => y < item
      BY <3>1 DEF Below, Reached
    <3>4. /\ applied' \in Seq(Nat) /\ Range(applied') = Range(applied) \cup {item}
          /\ Among(applied', S)
      BY <2>4, <3>1, <3>2, <3>3, OneMore
    <3>5. InputInOrder'
      <4>1. \A i \in DOMAIN applied' : applied'[i] \in Nat
        BY <3>4
      <4> QED
        BY <3>4, <4>1, <1>2 DEF Among, InputInOrder
    <3>6. Reached' = Reached \cup {item}
      BY <3>1, <3>4, <1>2 DEF Reached
    <3>7. InTypes' /\ ItemsAreTyped'
      BY <2>1, <2>2, <3>1, <3>4, <1>1, <1>2 DEF InTypes, ItemsAreTyped, Disconnect
    <3>8. ItemsInOrder'
      BY <2>1, <2>2, <3>4, <3>5, <3>6, <1>1 DEF ItemsInOrder, Below
    <3> QED
      BY <3>7, <3>8 DEF InInv
  <2> QED
    BY <2>1, <2>3, <2>4
<1>5. CASE ActorDisconnects \/ ActorIsAlone
  <2>1. /\ actor' = "over" /\ UNCHANGED <<item, applied>> /\ Writing' = {}
        /\ queue' = queue \/ (queue # <<>> /\ queue' = Tail(queue))
    BY <1>5 DEF ActorDisconnects, ActorIsAlone, Writing
  <2>2. /\ queue' \in Seq(Nat) /\ Len(queue') <= ActorCap
        /\ Among(queue', Nat \ {Disconnect}) /\ Waiting' \subseteq Waiting
    <3>1. CASE queue' = queue
      BY <3>1, <1>1 DEF InTypes, ItemsInOrder, Waiting
    <3>2. CASE queue # <<>> /\ queue' = Tail(queue)
      BY <3>2, ActorTakesOldest
    <3> QED
      BY <2>1, <3>1, <3>2
  <2>3. Reached' = Reached /\ (InputInOrder' <=> InputInOrder)
    BY <2>1, <1>2 DEF Reached, InputInOrder
  <2>4. InTypes' /\ ItemsAreTyped'
    BY <2>1, <2>2, <1>1, <1>2 DEF InTypes, ItemsAreTyped
  <2>5. ItemsInOrder'
    BY <2>1, <2>2, <2>3, <1>1 DEF ItemsInOrder, Below
  <2> QED
    BY <2>4, <2>5 DEF InInv
<1> QED
  BY <1>3, <1>4, <1>5 DEF ActorStep

(* The end of a session puts no item anywhere.                              *)
LEMMA HangUpKeepsIn ==
  ASSUME InInv, HangUp
  PROVE  InInv'
<1>1. /\ InTypes /\ ItemsInOrder /\ ItemsAreTyped
      /\ UNCHANGED <<kind, typed, pty, forwarder, actor, item, applied>>
      /\ cleanup' \in {"kill", "join"}
      /\ queue' = queue \/ (queue' = Append(queue, Disconnect) /\ Len(queue) < ActorCap)
  BY DEF InInv, HangUp
<1>2. /\ Items' = Items /\ Writing' = Writing /\ Reached' = Reached
      /\ (InputInOrder' <=> InputInOrder) /\ \A i : ByActor(i)' <=> ByActor(i)
  BY <1>1 DEF Items, Writing, Reached, ByActor, InputInOrder
<1>3. /\ queue' \in Seq(Nat) /\ Len(queue') <= ActorCap
      /\ Among(queue', Nat \ {Disconnect}) /\ Waiting' = Waiting
  <2>1. CASE queue' = queue
    BY <2>1, <1>1 DEF InTypes, ItemsInOrder, Waiting
  <2>2. CASE queue' = Append(queue, Disconnect) /\ Len(queue) < ActorCap
    <3>1. /\ queue \in Seq(Nat) /\ Among(queue, Nat \ {Disconnect}) /\ Len(queue) \in Nat
          /\ Disconnect \in Nat /\ Disconnect \notin Nat \ {Disconnect}
      BY <1>1 DEF InTypes, ItemsInOrder, Disconnect
    <3>2. /\ queue' \in Seq(Nat) /\ Len(queue') = Len(queue) + 1
          /\ Range(queue') = Range(queue) \cup {Disconnect}
          /\ Among(queue', Nat \ {Disconnect})
      BY <3>1, <2>2, OneMore
    <3>3. Len(queue') <= ActorCap
      BY <2>2, <3>1, <3>2, SessionAssumption
    <3> QED
      BY <3>2, <3>3 DEF Waiting
  <2> QED
    BY <2>1, <2>2, <1>1
<1>4. InTypes' /\ ItemsAreTyped'
  BY <1>1, <1>2, <1>3 DEF InTypes, ItemsAreTyped
<1>5. ItemsInOrder'
  BY <1>1, <1>2, <1>3 DEF ItemsInOrder
<1> QED
  BY <1>4, <1>5 DEF InInv

LEMMA OthersKeepIn ==
  ASSUME InInv, UNCHANGED <<kind, inVars>>,
         cleanup' \in {"none", "kill", "join", "over"}
  PROVE  InInv'
<1>1. /\ InTypes /\ ItemsInOrder /\ ItemsAreTyped
      /\ UNCHANGED <<kind, typed, pty, forwarder, queue, actor, item, applied>>
  BY DEF InInv, inVars
<1>2. /\ Items' = Items /\ Writing' = Writing /\ Reached' = Reached /\ Waiting' = Waiting
      /\ (InputInOrder' <=> InputInOrder) /\ \A i : ByActor(i)' <=> ByActor(i)
  BY <1>1 DEF Items, Writing, Reached, Waiting, ByActor, InputInOrder
<1> QED
  BY <1>1, <1>2 DEF InInv, InTypes, ItemsInOrder, ItemsAreTyped

-----------------------------------------------------------------------------
SessionIInv == OutInv /\ InInv

LEMMA SessionInitIInv == SessionInit => SessionIInv
<1> SUFFICES ASSUME SessionInit
             PROVE  SessionIInv
  OBVIOUS
<1>1. OutInv
  <2>1. /\ <<>> \in Seq(Pieces) /\ PiecesOf(<<>>) = {} /\ AllInOrder(<<>>)
        /\ NoMark(<<>>) /\ MarkAtEnd(<<>>) /\ Len(<<>>) = 0
        /\ <<>> \in Pieces /\ Range(<<>>) = {} /\ InOrder(<<>>) /\ 1 .. 0 = {}
    BY NoMessage, EmptySeq DEF Mark
  <2>2. OutTypes
    <3>1. 0 <= EmitterCap
      BY SessionAssumption
    <3>2. Len(emitter) <= EmitterCap
      BY <2>1, <3>1 DEF SessionInit
    <3> QED
      BY <2>1, <3>2 DEF SessionInit, OutTypes
  <2>3. PlacesInOrder
    BY <2>1 DEF SessionInit, PlacesInOrder, Below
  <2>4. PiecesAreSomewhere
    BY <2>1 DEF SessionInit, PiecesAreSomewhere, Everywhere
  <2>5. MarkRule
    BY <2>1 DEF SessionInit, MarkRule
  <2> QED
    BY <2>2, <2>3, <2>4, <2>5 DEF OutInv
<1>2. Range(<<>>) = {} /\ <<>> \in Seq(Nat) /\ Len(<<>>) = 0 /\ DOMAIN <<>> = {}
      /\ <<>> \in Seq({"write", "resize"})
  BY DEF Range
<1>3. Waiting = {} /\ Writing = {} /\ Reached = {} /\ InputInOrder
      /\ Among(pty, Nat) /\ Among(queue, Nat \ {Disconnect})
  BY <1>2 DEF SessionInit, Waiting, Writing, Reached, InputInOrder, Among
<1>4. InInv
  BY <1>2, <1>3, SessionAssumption
     DEF SessionInit, InInv, InTypes, ItemsInOrder, ItemsAreTyped, Below, Disconnect
<1> QED
  BY <1>1, <1>4 DEF SessionIInv

LEMMA SessionStepKeepsIInv == SessionIInv /\ [SessionNext]_sessionVars => SessionIInv'
<1> SUFFICES ASSUME OutInv, InInv, [SessionNext]_sessionVars
             PROVE  OutInv' /\ InInv'
  BY DEF SessionIInv
<1>0. cleanup \in {"none", "kill", "join", "over"}
  BY DEF InInv, InTypes
<1>1. CASE ReadPiece
  BY <1>0, <1>1, ReadKeepsOut, OthersKeepIn DEF ReadPiece, endVars
<1>2. CASE Flush \/ ReadEnd
  <2>1. /\ FlushBatch /\ reader = "reads" /\ reader' \in {"reads", "marks"}
        /\ reader' = "marks" => far = "closed"
        /\ UNCHANGED <<far, pieces, pump, buffer, stream, paneVars>>
        /\ UNCHANGED <<kind, inVars>> /\ cleanup' = cleanup
    BY <1>2 DEF Flush, ReadEnd, endVars
  <2> QED
    BY <2>1, <1>0, FlushKeepsOut, OthersKeepIn
<1>3. CASE SendMark
  BY <1>0, <1>3, MarkKeepsOut, OthersKeepIn DEF SendMark, endVars
<1>4. CASE PumpStep
  <2>1. UNCHANGED <<kind, inVars>> /\ cleanup' = cleanup
    BY <1>4 DEF PumpStep, PumpBegins, PumpPassesMark, PumpJoins, PumpEnds, PumpEmits,
                PumpStops, PumpTakes, endVars
  <2> QED
    BY <1>0, <1>4, <2>1, PumpKeepsOut, OthersKeepIn
<1>5. CASE ClaimStream \/ PaneReads \/ ClosePane
  <2>1. UNCHANGED <<kind, inVars>> /\ cleanup' = cleanup
    BY <1>5 DEF ClaimStream, PaneReads, OnOutput, ClosePane, endVars
  <2> QED
    BY <1>0, <1>5, <2>1, PaneKeepsOut, OthersKeepIn
<1>6. ASSUME NEW what \in {"write", "resize"}, Type(what)
      PROVE  OutInv' /\ InInv'
  <2>1. UNCHANGED <<outVars, paneVars>> /\ far' = far
    BY <1>6 DEF Type
  <2> QED
    BY <1>6, <2>1, TypeKeepsIn, OthersKeepOut
<1>7. CASE ForwarderStep
  <2>1. UNCHANGED <<outVars, paneVars>> /\ far' = far
    BY <1>7 DEF ForwarderStep, LookUp, NotFound, ResizeLocal, SendItem, ForwarderStops,
                ForwarderVars
  <2> QED
    BY <1>7, <2>1, ForwarderKeepsIn, OthersKeepOut
<1>8. CASE ActorStep
  <2>1. UNCHANGED <<outVars, paneVars>> /\ far' \in {far, "closed"}
    BY <1>8 DEF ActorStep, ActorTakes, ActorWrites, ActorDisconnects, ActorIsAlone,
                ActorVars
  <2> QED
    BY <1>8, <2>1, ActorKeepsIn, OthersKeepOut
<1>9. CASE HangUp
  <2>1. UNCHANGED <<outVars, paneVars>> /\ far' = far
    BY <1>9 DEF HangUp
  <2> QED
    BY <1>9, <2>1, HangUpKeepsIn, OthersKeepOut
<1>10. CASE Kill \/ Join \/ FarCloses
  <2>1. /\ UNCHANGED <<outVars, paneVars, kind, inVars>> /\ far' \in {far, "closed"}
        /\ cleanup' \in {cleanup, "join", "over"}
    BY <1>10 DEF Kill, Join, FarCloses, endVars
  <2> QED
    BY <1>0, <2>1, OthersKeepIn, OthersKeepOut
<1>11. CASE UNCHANGED sessionVars
  <2>1. UNCHANGED <<outVars, paneVars, kind, inVars, cleanup>> /\ far' = far
    BY <1>11 DEF sessionVars, endVars
  <2> QED
    BY <1>0, <2>1, OthersKeepIn, OthersKeepOut
<1> QED
  BY <1>1, <1>2, <1>3, <1>4, <1>5, <1>6, <1>7, <1>8, <1>9, <1>10, <1>11 DEF SessionNext

(* However large the channels and however much is written: what the pane    *)
(* shows is what the shell wrote, in order and once, less what a full       *)
(* channel refused; "closed" is the last word and is told when the output   *)
(* has ended; and what is typed reaches the shell in its order              *)
(* (TerminalOutputEmitter and the pump of terminal.rs, on_output of         *)
(* pane.rs).                                                                *)
THEOREM SessionIsTrue == SessionSpec => []SessionInv
<1>1. SessionIInv => SessionInv
  <2> SUFFICES ASSUME OutInv, InInv
               PROVE  SessionInv
    BY DEF SessionIInv
  <2>1. OutputIsTrue /\ ClosedIsLast
    BY OutIsTrue
  <2>2. InputInOrder /\ SessionTypeOK
    BY DEF OutInv, InInv, OutTypes, InTypes, ItemsInOrder, SessionTypeOK
  <2> QED
    BY <2>1, <2>2 DEF SessionInv
<1> QED
  BY <1>1, SessionInitIInv, SessionStepKeepsIInv, PTL DEF SessionSpec

(* Nothing takes Disconnect out of the channel but the actor that obeys it. *)
LEMMA DisconnectStays ==
  ASSUME InInv, DisconnectArrives, [SessionNext]_sessionVars
  PROVE  DisconnectArrives'
<1>0. /\ queue \in Seq(Nat) /\ pty \in Seq(Nat) /\ Disconnect \in Nat
      /\ forwarder = "sends" => pty # <<>>
  BY DEF InInv, InTypes, ItemsAreTyped, Disconnect
<1>1. CASE SendItem
  <2>1. /\ UNCHANGED <<actor, cleanup, missed>>
        /\ queue' = queue \/ queue' = Append(queue, Head(pty))
        /\ ~registered' /\ registered => actor = "over"
    BY <1>1 DEF SendItem, ForwarderVars
  <2>2. Head(pty) \in Nat
    BY <1>0, <1>1, OneLess DEF SendItem
  <2>3. Range(Append(queue, Head(pty))) = Range(queue) \cup {Head(pty)}
    BY <1>0, <2>2, OneMore
  <2>4. Range(queue) \subseteq Range(queue')
    BY <2>1, <2>3
  <2> QED
    BY <2>1, <2>4 DEF DisconnectArrives
<1>2. CASE ActorTakes
  <2>1. /\ UNCHANGED <<registered, cleanup, missed>> /\ actor # "over"
        /\ queue # <<>> /\ queue' = Tail(queue) /\ Head(queue) # Disconnect
    BY <1>2 DEF ActorTakes, ActorVars, endVars
  <2>2. Range(queue) = {Head(queue)} \cup Range(queue')
    BY <1>0, <2>1, OneLess
  <2> QED
    BY <2>1, <2>2 DEF DisconnectArrives
<1>3. CASE ActorWrites \/ ActorDisconnects \/ ActorIsAlone
  BY <1>3 DEF ActorWrites, ActorDisconnects, ActorIsAlone, ActorVars, endVars, DisconnectArrives
<1>4. CASE HangUp
  <2>1. Range(Append(queue, Disconnect)) = Range(queue) \cup {Disconnect}
    BY <1>0, OneMore
  <2> QED
    BY <1>4, <2>1 DEF HangUp, DisconnectArrives
<1>5. CASE Kill \/ Join
  BY <1>5 DEF Kill, Join, inVars, DisconnectArrives
<1>6. ASSUME UNCHANGED <<registered, actor, queue, cleanup, missed>>
      PROVE  DisconnectArrives'
  BY <1>6 DEF DisconnectArrives
<1>7. CASE ReadPiece \/ Flush \/ ReadEnd \/ SendMark
  BY <1>6, <1>7 DEF ReadPiece, Flush, ReadEnd, SendMark, inVars, endVars
<1>8. CASE PumpStep
  BY <1>6, <1>8
     DEF PumpStep, PumpBegins, PumpPassesMark, PumpJoins, PumpEnds, PumpEmits,
         PumpStops, PumpTakes, inVars, endVars
<1>9. CASE ClaimStream \/ PaneReads \/ ClosePane \/ FarCloses
  BY <1>6, <1>9 DEF ClaimStream, PaneReads, OnOutput, ClosePane, FarCloses, inVars, endVars
<1>10. CASE LookUp \/ NotFound \/ ResizeLocal \/ ForwarderStops
  BY <1>6, <1>10 DEF LookUp, NotFound, ResizeLocal, ForwarderStops, ForwarderVars
<1>11. CASE (\E what \in {"write", "resize"} : Type(what)) \/ UNCHANGED sessionVars
  BY <1>6, <1>11 DEF Type, sessionVars, inVars, endVars
<1> QED
  BY <1>1, <1>2, <1>3, <1>4, <1>5, <1>7, <1>8, <1>9, <1>10, <1>11
     DEF SessionNext, ForwarderStep, ActorStep

(* The core of ActorEnds: once a session is hung up its actor has ended,    *)
(* has the order to, or a cleanup thread is to drop its sender, however     *)
(* full its channel is (terminal_disconnect).                               *)
THEOREM DisconnectIsNotLost == SessionSpec => []DisconnectArrives
<1>1. SessionInit => DisconnectArrives
  BY DEF SessionInit, DisconnectArrives
<1>2. SessionIInv /\ DisconnectArrives /\ [SessionNext]_sessionVars => DisconnectArrives'
  BY DisconnectStays DEF SessionIInv
<1> QED
  BY <1>1, <1>2, SessionInitIInv, SessionStepKeepsIInv, PTL DEF SessionSpec

-----------------------------------------------------------------------------
(* The pool of shared connections.                                          *)
LEMMA InitInv == Init => PoolBooks
  BY RegistryAssumption
     DEF Init, PoolBooks, TypeOK, LockRule, ConnectOnlyWhenGone, StoreRule,
         AttemptRule, RetryIsFresh, Looking, Connecting, Fresh, Stale, Idle,
         Connection, Place, Gone, Down

LEMMA SomeConnections == MaxConnections \in Nat \ {0}
  BY RegistryAssumption

USE SomeConnections
USE DEF Gone, Down, Looking, Connecting, Connection, Fresh, Stale, Idle,
        SeenDead, SeenAlive, Goto, Writable, Release, Place

(* Looking into the map, probing, waiting for the lock. *)
LEMMA AskKeepsInv ==
  ASSUME PoolBooks, NEW c \in Client, AskStep(c)
  PROVE  PoolBooks'
<1>0. /\ TypeOK /\ LockRule /\ ConnectOnlyWhenGone
      /\ StoreRule /\ AttemptRule /\ RetryIsFresh
  BY DEF PoolBooks
<1>1. CASE Look(c)
  <2>1. TypeOK'
    <3>1. pc' \in [Client -> Place]
      BY <1>0, <1>1 DEF TypeOK, Look, Miss, poolVars, reaperVars
    <3>2. conn' \in [Client -> 0..made'] /\ first' \in [Client -> 0..made']
      <4>1. /\ UNCHANGED <<made, first>>
            /\ conn' = conn \/ conn' = [conn EXCEPT ![c] = pool]
        BY <1>1 DEF Look
      <4> QED
        BY <1>0, <4>1 DEF TypeOK
    <3>3. attempt' \in [Client -> 0..2]
      BY <1>0, <1>1 DEF TypeOK, AttemptRule, Look, Miss, poolVars, reaperVars
    <3>4. guards' \subseteq Client \cup {"reaper"} /\ lock' \subseteq Client
      BY <1>0, <1>1 DEF TypeOK, Look, Miss, poolVars, reaperVars
    <3> QED
      BY <1>0, <3>1, <3>2, <3>3, <3>4, <1>1 DEF TypeOK, Look, Miss, poolVars, reaperVars
  <2>2. LockRule'
    BY <1>0, <1>1 DEF TypeOK, LockRule, ConnectOnlyWhenGone, Look, Miss, poolVars, reaperVars
  <2>3. ConnectOnlyWhenGone'
    BY <1>0, <1>1 DEF TypeOK, ConnectOnlyWhenGone, LockRule, Look, Miss, poolVars, reaperVars
  <2>4. StoreRule'
    BY <1>0, <1>1 DEF TypeOK, StoreRule, ConnectOnlyWhenGone, LockRule, Look, Miss, poolVars, reaperVars
  <2>5. AttemptRule'
    BY <1>0, <1>1 DEF TypeOK, AttemptRule, StoreRule, Look, Miss, poolVars, reaperVars
  <2>6. RetryIsFresh'
    BY <1>0, <1>1 DEF TypeOK, RetryIsFresh, AttemptRule, StoreRule, Look, Miss, poolVars, reaperVars
  <2> QED
    BY <2>1, <2>2, <2>3, <2>4, <2>5, <2>6 DEF PoolBooks
<1>2. CASE Probe(c)
  <2>1. TypeOK'
    <3>1. pc' \in [Client -> Place]
      BY <1>0, <1>2 DEF TypeOK, Probe, poolVars, reaperVars
    <3>2. conn' \in [Client -> 0..made'] /\ first' \in [Client -> 0..made']
      BY <1>0, <1>2 DEF TypeOK, Probe, poolVars, reaperVars
    <3>3. attempt' \in [Client -> 0..2]
      BY <1>0, <1>2 DEF TypeOK, AttemptRule, Probe, poolVars, reaperVars
    <3>4. guards' \subseteq Client \cup {"reaper"} /\ lock' \subseteq Client
      BY <1>0, <1>2 DEF TypeOK, Probe, poolVars, reaperVars
    <3> QED
      BY <1>0, <3>1, <3>2, <3>3, <3>4, <1>2 DEF TypeOK, Probe, poolVars, reaperVars
  <2>2. LockRule'
    BY <1>0, <1>2 DEF TypeOK, LockRule, ConnectOnlyWhenGone, Probe, poolVars, reaperVars
  <2>3. ConnectOnlyWhenGone'
    BY <1>0, <1>2 DEF TypeOK, ConnectOnlyWhenGone, LockRule, Probe, poolVars, reaperVars
  <2>4. StoreRule'
    BY <1>0, <1>2 DEF TypeOK, StoreRule, ConnectOnlyWhenGone, LockRule, Probe, poolVars, reaperVars
  <2>5. AttemptRule'
    BY <1>0, <1>2 DEF TypeOK, AttemptRule, StoreRule, Probe, poolVars, reaperVars
  <2>6. RetryIsFresh'
    BY <1>0, <1>2 DEF TypeOK, RetryIsFresh, AttemptRule, StoreRule, Probe, poolVars, reaperVars
  <2> QED
    BY <2>1, <2>2, <2>3, <2>4, <2>5, <2>6 DEF PoolBooks
<1>3. CASE DropDead(c)
  <2>1. TypeOK'
    BY <1>0, <1>3 DEF TypeOK, DropDead, Miss, Remove, poolVars, reaperVars
  <2>2. LockRule'
    BY <1>0, <1>3 DEF TypeOK, LockRule, ConnectOnlyWhenGone, DropDead, Miss, Remove, poolVars, reaperVars
  <2>3. ConnectOnlyWhenGone'
    BY <1>0, <1>3 DEF TypeOK, ConnectOnlyWhenGone, LockRule, DropDead, Miss, Remove, poolVars, reaperVars
  <2>4. StoreRule'
    BY <1>0, <1>3 DEF TypeOK, StoreRule, ConnectOnlyWhenGone, LockRule, DropDead, Miss, Remove, poolVars, reaperVars
  <2>5. AttemptRule'
    BY <1>0, <1>3 DEF TypeOK, AttemptRule, StoreRule, DropDead, Miss, Remove, poolVars, reaperVars
  <2>6. RetryIsFresh'
    BY <1>0, <1>3 DEF TypeOK, RetryIsFresh, AttemptRule, StoreRule, DropDead, Miss, Remove, poolVars, reaperVars
  <2> QED
    BY <2>1, <2>2, <2>3, <2>4, <2>5, <2>6 DEF PoolBooks
<1>4. CASE DropProbed(c)
  <2>1. TypeOK'
    BY <1>0, <1>4 DEF TypeOK, DropProbed, Miss, Remove, poolVars, reaperVars
  <2>2. LockRule'
    BY <1>0, <1>4 DEF TypeOK, LockRule, ConnectOnlyWhenGone, DropProbed, Miss, Remove, poolVars, reaperVars
  <2>3. ConnectOnlyWhenGone'
    BY <1>0, <1>4 DEF TypeOK, ConnectOnlyWhenGone, LockRule, DropProbed, Miss, Remove, poolVars, reaperVars
  <2>4. StoreRule'
    BY <1>0, <1>4 DEF TypeOK, StoreRule, ConnectOnlyWhenGone, LockRule, DropProbed, Miss, Remove, poolVars, reaperVars
  <2>5. AttemptRule'
    BY <1>0, <1>4 DEF TypeOK, AttemptRule, StoreRule, DropProbed, Miss, Remove, poolVars, reaperVars
  <2>6. RetryIsFresh'
    BY <1>0, <1>4 DEF TypeOK, RetryIsFresh, AttemptRule, StoreRule, DropProbed, Miss, Remove, poolVars, reaperVars
  <2> QED
    BY <2>1, <2>2, <2>3, <2>4, <2>5, <2>6 DEF PoolBooks
<1>5. CASE Touch(c)
  <2>1. TypeOK'
    <3>1. pc' \in [Client -> Place]
      BY <1>0, <1>5 DEF TypeOK, Touch, Miss, UseConnection, poolVars, reaperVars
    <3>2. conn' \in [Client -> 0..made'] /\ first' \in [Client -> 0..made']
      <4>1. CASE pool = 0
        BY <1>0, <1>5, <4>1 DEF TypeOK, Touch, reaperVars
      <4>2. CASE pool # 0
        <5>1. conn' = [conn EXCEPT ![c] = pool] /\ made' = made
          BY <1>5, <4>2 DEF Touch, UseConnection
        <5>2. first' = first \/ first' = [first EXCEPT ![c] = pool]
          BY <1>5, <4>2 DEF Touch, UseConnection
        <5> QED
          BY <1>0, <5>1, <5>2 DEF TypeOK
      <4> QED
        BY <4>1, <4>2
    <3>3. attempt' \in [Client -> 0..2]
      BY <1>0, <1>5 DEF TypeOK, AttemptRule, Touch, Miss, UseConnection, poolVars, reaperVars
    <3>4. guards' \subseteq Client \cup {"reaper"} /\ lock' \subseteq Client
      BY <1>0, <1>5 DEF TypeOK, Touch, Miss, UseConnection, poolVars, reaperVars
    <3> QED
      BY <1>0, <3>1, <3>2, <3>3, <3>4, <1>5 DEF TypeOK, Touch, Miss, UseConnection, poolVars, reaperVars
  <2>2. LockRule'
    BY <1>0, <1>5 DEF TypeOK, LockRule, ConnectOnlyWhenGone, Touch, Miss, UseConnection, poolVars, reaperVars
  <2>3. ConnectOnlyWhenGone'
    BY <1>0, <1>5 DEF TypeOK, ConnectOnlyWhenGone, LockRule, Touch, Miss, UseConnection, poolVars, reaperVars
  <2>4. StoreRule'
    BY <1>0, <1>5 DEF TypeOK, StoreRule, ConnectOnlyWhenGone, LockRule, Touch, Miss, UseConnection, poolVars, reaperVars
  <2>5. AttemptRule'
    BY <1>0, <1>5 DEF TypeOK, AttemptRule, StoreRule, Touch, Miss, UseConnection, poolVars, reaperVars
  <2>6. RetryIsFresh'
    BY <1>0, <1>5 DEF TypeOK, RetryIsFresh, AttemptRule, StoreRule, Touch, Miss, UseConnection, poolVars, reaperVars
  <2> QED
    BY <2>1, <2>2, <2>3, <2>4, <2>5, <2>6 DEF PoolBooks
<1>6. CASE Acquire(c)
  <2>1. TypeOK'
    BY <1>0, <1>6 DEF TypeOK, Acquire, poolVars, reaperVars
  <2>2. LockRule'
    BY <1>0, <1>6 DEF TypeOK, LockRule, ConnectOnlyWhenGone, Acquire, poolVars, reaperVars
  <2>3. ConnectOnlyWhenGone'
    BY <1>0, <1>6 DEF TypeOK, ConnectOnlyWhenGone, LockRule, Acquire, poolVars, reaperVars
  <2>4. StoreRule'
    BY <1>0, <1>6 DEF TypeOK, StoreRule, ConnectOnlyWhenGone, LockRule, Acquire, poolVars, reaperVars
  <2>5. AttemptRule'
    BY <1>0, <1>6 DEF TypeOK, AttemptRule, StoreRule, Acquire, poolVars, reaperVars
  <2>6. RetryIsFresh'
    BY <1>0, <1>6 DEF TypeOK, RetryIsFresh, AttemptRule, StoreRule, Acquire, poolVars, reaperVars
  <2> QED
    BY <2>1, <2>2, <2>3, <2>4, <2>5, <2>6 DEF PoolBooks
<1> QED
  BY <1>1, <1>2, <1>3, <1>4, <1>5, <1>6 DEF AskStep

(* Connecting and storing, under the lock. *)
LEMMA ConnectKeepsInv ==
  ASSUME PoolBooks, NEW c \in Client, ConnectStep(c)
  PROVE  PoolBooks'
<1>0. /\ TypeOK /\ LockRule /\ ConnectOnlyWhenGone
      /\ StoreRule /\ AttemptRule /\ RetryIsFresh
  BY DEF PoolBooks
<1>1. CASE Connect(c)
  <2>1. TypeOK'
    BY <1>0, <1>1 DEF TypeOK, Connect, poolVars, reaperVars
  <2>2. LockRule'
    BY <1>0, <1>1 DEF TypeOK, LockRule, ConnectOnlyWhenGone, Connect, poolVars, reaperVars
  <2>3. ConnectOnlyWhenGone'
    BY <1>0, <1>1 DEF TypeOK, ConnectOnlyWhenGone, LockRule, Connect, poolVars, reaperVars
  <2>31. \A d \in Client : pc[d] \in Connecting => d = c
    <3>1. lock = {c}
      BY <1>0, <1>1 DEF ConnectOnlyWhenGone, Connect
    <3>2. \A d \in Client : pc[d] \in Connecting => lock = {d}
      BY <1>0 DEF ConnectOnlyWhenGone
    <3> QED
      BY <3>1, <3>2
  <2>4. StoreRule'
    <3>1. made \in Nat /\ pool \in 0..made /\ \A d \in Client : first[d] \in 0..made
      BY <1>0 DEF TypeOK
    <3>2. /\ made' = made + 1 /\ made' # 0 /\ pool' # made'
          /\ \A d \in Client : first'[d] # made'
      BY <1>1, <3>1 DEF Connect, poolVars
    <3>3. conn'[c] = made'
      BY <1>0, <1>1 DEF TypeOK, Connect
    <3>4. \A d \in Client : pc'[d] = "store" => d = c
      BY <1>0, <1>1, <2>31 DEF TypeOK, Connect
    <3> QED
      BY <3>2, <3>3, <3>4 DEF StoreRule
  <2>5. AttemptRule'
    BY <1>0, <1>1 DEF TypeOK, AttemptRule, StoreRule, Connect, poolVars, reaperVars
  <2>6. RetryIsFresh'
    BY <1>0, <1>1 DEF TypeOK, RetryIsFresh, AttemptRule, StoreRule, Connect, poolVars, reaperVars
  <2> QED
    BY <2>1, <2>2, <2>3, <2>4, <2>5, <2>6 DEF PoolBooks
<1>2. CASE ConnectFails(c)
  <2>1. TypeOK'
    BY <1>0, <1>2 DEF TypeOK, ConnectFails, Finish, poolVars, reaperVars
  <2>2. LockRule'
    BY <1>0, <1>2 DEF TypeOK, LockRule, ConnectOnlyWhenGone, ConnectFails, Finish, poolVars, reaperVars
  <2>3. ConnectOnlyWhenGone'
    BY <1>0, <1>2 DEF TypeOK, ConnectOnlyWhenGone, LockRule, ConnectFails, Finish, poolVars, reaperVars
  <2>4. StoreRule'
    BY <1>0, <1>2 DEF TypeOK, StoreRule, ConnectOnlyWhenGone, LockRule, ConnectFails, Finish, poolVars, reaperVars
  <2>5. AttemptRule'
    BY <1>0, <1>2 DEF TypeOK, AttemptRule, StoreRule, ConnectFails, Finish, poolVars, reaperVars
  <2>6. RetryIsFresh'
    BY <1>0, <1>2 DEF TypeOK, RetryIsFresh, AttemptRule, StoreRule, ConnectFails, Finish, poolVars, reaperVars
  <2> QED
    BY <2>1, <2>2, <2>3, <2>4, <2>5, <2>6 DEF PoolBooks
<1>3. CASE Store(c) /\ KeepExisting(c)
  <2>1. TypeOK'
    BY <1>0, <1>3 DEF TypeOK, Store, KeepExisting, UseConnection, poolVars, reaperVars
  <2>2. LockRule'
    BY <1>0, <1>3 DEF TypeOK, LockRule, ConnectOnlyWhenGone, Store, KeepExisting, UseConnection, poolVars, reaperVars
  <2>3. ConnectOnlyWhenGone'
    BY <1>0, <1>3 DEF TypeOK, ConnectOnlyWhenGone, LockRule, Store, KeepExisting, UseConnection, poolVars, reaperVars
  <2>4. StoreRule'
    BY <1>0, <1>3 DEF TypeOK, StoreRule, ConnectOnlyWhenGone, LockRule, AttemptRule, Store, KeepExisting, UseConnection, poolVars, reaperVars
  <2>5. AttemptRule'
    BY <1>0, <1>3 DEF TypeOK, AttemptRule, StoreRule, Store, KeepExisting, UseConnection, poolVars, reaperVars
  <2>6. RetryIsFresh'
    BY <1>0, <1>3 DEF TypeOK, RetryIsFresh, AttemptRule, StoreRule, Store, KeepExisting, UseConnection, poolVars, reaperVars
  <2> QED
    BY <2>1, <2>2, <2>3, <2>4, <2>5, <2>6 DEF PoolBooks
<1>4. CASE Store(c) /\ StoreNew(c)
  <2>1. TypeOK'
    BY <1>0, <1>4 DEF TypeOK, Store, StoreNew, Insert, UseConnection, reaperVars
  <2>2. LockRule'
    BY <1>0, <1>4 DEF TypeOK, LockRule, ConnectOnlyWhenGone, Store, StoreNew, Insert, UseConnection, reaperVars
  <2>21. \A d \in Client : pc[d] \in Connecting => d = c
    <3>1. lock = {c}
      BY <1>0, <1>4 DEF ConnectOnlyWhenGone, Store
    <3>2. \A d \in Client : pc[d] \in Connecting => lock = {d}
      BY <1>0 DEF ConnectOnlyWhenGone
    <3> QED
      BY <3>1, <3>2
  <2>22. \A d \in Client : pc'[d] \notin Connecting
    BY <1>0, <1>4, <2>21 DEF TypeOK, Store, StoreNew, UseConnection
  <2>3. ConnectOnlyWhenGone'
    BY <2>22 DEF ConnectOnlyWhenGone
  <2>4. StoreRule'
    BY <2>22 DEF StoreRule
  <2>5. AttemptRule'
    BY <1>0, <1>4 DEF TypeOK, AttemptRule, StoreRule, Store, StoreNew, Insert, UseConnection, reaperVars
  <2>6. RetryIsFresh'
    BY <1>0, <1>4 DEF TypeOK, RetryIsFresh, AttemptRule, StoreRule, Store, StoreNew, Insert, UseConnection, reaperVars
  <2> QED
    BY <2>1, <2>2, <2>3, <2>4, <2>5, <2>6 DEF PoolBooks
<1> QED
  BY <1>1, <1>2, <1>3, <1>4 DEF ConnectStep, Store

(* Using the connection, and giving it up for a second attempt. *)
LEMMA UseKeepsInv ==
  ASSUME PoolBooks, NEW c \in Client, Request(c) \/ Use(c) \/ Evict(c)
  PROVE  PoolBooks'
<1>0. /\ TypeOK /\ LockRule /\ ConnectOnlyWhenGone
      /\ StoreRule /\ AttemptRule /\ RetryIsFresh
  BY DEF PoolBooks
<1>1. CASE Request(c)
  <2>1. TypeOK'
    BY <1>0, <1>1 DEF TypeOK, Request, poolVars, reaperVars
  <2>2. LockRule'
    BY <1>0, <1>1 DEF TypeOK, LockRule, ConnectOnlyWhenGone, Request, poolVars, reaperVars
  <2>3. ConnectOnlyWhenGone'
    BY <1>0, <1>1 DEF TypeOK, ConnectOnlyWhenGone, LockRule, Request, poolVars, reaperVars
  <2>4. StoreRule'
    BY <1>0, <1>1 DEF TypeOK, StoreRule, ConnectOnlyWhenGone, LockRule, Request, poolVars, reaperVars
  <2>5. AttemptRule'
    BY <1>0, <1>1 DEF TypeOK, AttemptRule, StoreRule, Request, poolVars, reaperVars
  <2>6. RetryIsFresh'
    BY <1>0, <1>1 DEF TypeOK, RetryIsFresh, AttemptRule, StoreRule, Request, poolVars, reaperVars
  <2> QED
    BY <2>1, <2>2, <2>3, <2>4, <2>5, <2>6 DEF PoolBooks
<1>2. ASSUME pc[c] = "use", NEW a \in {"done", "failed"}, Finish(c, a),
             UNCHANGED <<viaJump, link, poolVars, guards, lock, reaperVars, made>>
      PROVE  PoolBooks'
  <2>1. TypeOK'
    BY <1>0, <1>2 DEF TypeOK, Finish, poolVars, reaperVars
  <2>2. LockRule'
    BY <1>0, <1>2 DEF TypeOK, LockRule, ConnectOnlyWhenGone, Finish, poolVars, reaperVars
  <2>3. ConnectOnlyWhenGone'
    BY <1>0, <1>2 DEF TypeOK, ConnectOnlyWhenGone, LockRule, Finish, poolVars, reaperVars
  <2>4. StoreRule'
    BY <1>0, <1>2 DEF TypeOK, StoreRule, ConnectOnlyWhenGone, LockRule, Finish, poolVars, reaperVars
  <2>5. AttemptRule'
    BY <1>0, <1>2 DEF TypeOK, AttemptRule, StoreRule, Finish, poolVars, reaperVars
  <2>6. RetryIsFresh'
    BY <1>0, <1>2 DEF TypeOK, RetryIsFresh, AttemptRule, StoreRule, Finish, poolVars, reaperVars
  <2> QED
    BY <2>1, <2>2, <2>3, <2>4, <2>5, <2>6 DEF PoolBooks
<1>21. ASSUME pc[c] = "use", attempt[c] = 1, Goto(c, "evict"),
              UNCHANGED <<conn, first, attempt>>,
              UNCHANGED <<viaJump, link, poolVars, guards, lock, reaperVars, made>>
       PROVE  PoolBooks'
  <2>1. TypeOK'
    BY <1>0, <1>21 DEF TypeOK, poolVars, reaperVars
  <2>2. LockRule'
    BY <1>0, <1>21 DEF TypeOK, LockRule, ConnectOnlyWhenGone, poolVars, reaperVars
  <2>3. ConnectOnlyWhenGone'
    BY <1>0, <1>21 DEF TypeOK, ConnectOnlyWhenGone, LockRule, poolVars, reaperVars
  <2>4. StoreRule'
    BY <1>0, <1>21 DEF TypeOK, StoreRule, ConnectOnlyWhenGone, LockRule, poolVars, reaperVars
  <2>5. AttemptRule'
    BY <1>0, <1>21 DEF TypeOK, AttemptRule, StoreRule, poolVars, reaperVars
  <2>6. RetryIsFresh'
    BY <1>0, <1>21 DEF TypeOK, RetryIsFresh, AttemptRule, StoreRule, poolVars, reaperVars
  <2> QED
    BY <2>1, <2>2, <2>3, <2>4, <2>5, <2>6 DEF PoolBooks
<1>22. CASE Use(c)
  BY <1>2, <1>21, <1>22 DEF Use
<1>3. CASE Evict(c)
  <2>1. TypeOK'
    BY <1>0, <1>3 DEF TypeOK, AttemptRule, Evict, Remove, poolVars, reaperVars
  <2>2. LockRule'
    BY <1>0, <1>3 DEF TypeOK, LockRule, ConnectOnlyWhenGone, Evict, Remove, poolVars, reaperVars
  <2>3. ConnectOnlyWhenGone'
    BY <1>0, <1>3 DEF TypeOK, ConnectOnlyWhenGone, LockRule, Evict, Remove, poolVars, reaperVars
  <2>4. StoreRule'
    BY <1>0, <1>3 DEF TypeOK, StoreRule, ConnectOnlyWhenGone, LockRule, Evict, Remove, poolVars, reaperVars
  <2>5. AttemptRule'
    BY <1>0, <1>3 DEF TypeOK, AttemptRule, StoreRule, Evict, Remove, poolVars, reaperVars
  <2>6. RetryIsFresh'
    BY <1>0, <1>3 DEF TypeOK, RetryIsFresh, AttemptRule, StoreRule, Evict, Remove, poolVars, reaperVars
  <2> QED
    BY <2>1, <2>2, <2>3, <2>4, <2>5, <2>6 DEF PoolBooks
<1> QED
  BY <1>1, <1>22, <1>3

USE DEF PoolBooks, TypeOK, LockRule, ConnectOnlyWhenGone, StoreRule, AttemptRule,
        RetryIsFresh

(* The reaper only ever removes, and so does the environment. *)
LEMMA OthersKeepInv ==
  ASSUME PoolBooks, ReaperStep \/ Environment
  PROVE  PoolBooks'
<1>1. CASE ReapLook
  BY <1>1 DEF ReapLook, poolVars, clientVars
<1>2. CASE ReapAgain
  BY <1>2 DEF ReapAgain, poolVars, clientVars
<1>3. CASE ReapProbe
  BY <1>3 DEF ReapProbe, poolVars, clientVars
<1>4. CASE ReapDrop
  BY <1>4 DEF ReapDrop, Remove, clientVars
<1>5. ASSUME NEW t \in Connection, LinkFails(t) PROVE PoolBooks'
  BY <1>5 DEF LinkFails, poolVars, clientVars, reaperVars
<1>6. CASE TimePasses
  BY <1>6 DEF TimePasses, clientVars, reaperVars
<1>7. CASE TouchConnection
  BY <1>7 DEF TouchConnection, clientVars, reaperVars
<1>8. CASE RemoveConnection
  BY <1>8 DEF RemoveConnection, Remove, clientVars, reaperVars
<1> QED
  BY <1>1, <1>2, <1>3, <1>4, <1>5, <1>6, <1>7, <1>8 DEF ReaperStep, Environment

LEMMA NextKeepsInv == PoolBooks /\ [Next]_vars => PoolBooks'
<1> SUFFICES ASSUME PoolBooks, [Next]_vars PROVE PoolBooks'
  OBVIOUS
<1>1. CASE UNCHANGED vars
  BY <1>1 DEF vars, poolVars, clientVars, reaperVars
<1>2. ASSUME NEW c \in Client, Request(c) \/ ClientStep(c) PROVE PoolBooks'
  BY <1>2, AskKeepsInv, ConnectKeepsInv, UseKeepsInv DEF ClientStep
<1>3. CASE ReaperStep \/ Environment
  BY <1>3, OthersKeepInv
<1> QED
  BY <1>1, <1>2, <1>3 DEF Next

(* The map's guard is that of a probe.                                      *)
LEMMA ProbesHoldGuards ==
  ASSUME PoolBooks, ProbeRule, [Next]_vars PROVE ProbeRule'
<1>0. TypeOK
  BY DEF PoolBooks
<1>1. ASSUME NEW c \in Client, Request(c) \/ ClientStep(c) PROVE ProbeRule'
  <2>1. c # "reaper" /\ pc \in [Client -> Place]
    BY <1>0, RegistryAssumption DEF TypeOK
  <2>2. UNCHANGED reaper /\ \A d \in Client : d # c => pc'[d] = pc[d]
    BY <1>1, <2>1
       DEF Request, ClientStep, AskStep, Look, Probe, DropDead, DropProbed, Touch,
           Acquire, ConnectStep, Connect, ConnectFails, Store, KeepExisting, StoreNew,
           Use, Evict, Miss, UseConnection, Finish, reaperVars
  <2>3. CASE Look(c)
    BY <1>0, <2>1, <2>2, <2>3 DEF Look, Miss, ProbeRule, Probing, TypeOK
  <2>4. CASE Probe(c)
    BY <1>0, <2>1, <2>2, <2>4 DEF Probe, ProbeRule, Probing, TypeOK
  <2>5. ASSUME ~Look(c), ~Probe(c) PROVE ProbeRule'
    <3>1. UNCHANGED guards /\ pc[c] # "probe" /\ pc'[c] # "probe"
      BY <1>1, <2>1, <2>5
         DEF Request, ClientStep, AskStep, DropDead, DropProbed, Touch,
             Acquire, ConnectStep, Connect, ConnectFails, Store, KeepExisting, StoreNew,
             Use, Evict, Miss, UseConnection, Finish
    <3> QED
      BY <2>2, <3>1 DEF ProbeRule, Probing
  <2> QED
    BY <2>3, <2>4, <2>5
<1>2. CASE ReaperStep
  BY <1>0, <1>2, RegistryAssumption
     DEF ReaperStep, ReapLook, ReapAgain, ReapProbe, ReapDrop, Remove, ProbeRule,
         Probing, TypeOK, clientVars
<1>3. CASE Environment \/ UNCHANGED vars
  BY <1>3
     DEF Environment, LinkFails, TimePasses, TouchConnection, RemoveConnection, Remove,
         ProbeRule, Probing, vars, clientVars, reaperVars
<1> QED
  BY <1>1, <1>2, <1>3 DEF Next

(* Who holds the lock does not wait for it, and a probe is answered.        *)
LEMMA LocksAreGivenBack == PoolBooks /\ ProbeRule => NobodyHangs
<1> SUFFICES ASSUME PoolBooks, ProbeRule, NEW c \in Client, UnderWay(c), Probing = {}
             PROVE  GoesOn(c) \/ (pc[c] = "lock" /\ \E d \in lock : GoesOn(d))
  BY DEF NobodyHangs
<1>1. Writable /\ lock \subseteq Client
  BY DEF ProbeRule, PoolBooks, TypeOK
<1>2. CASE pc[c] = "lock" /\ lock # {}
  <2>1. PICK d \in lock : TRUE
    BY <1>2
  <2>2. d \in Client /\ pc[d] # "lock"
    BY <1>1 DEF PoolBooks, LockRule
  <2> QED
    BY <1>1, <1>2, <2>1, <2>2 DEF GoesOn
<1>3. CASE ~(pc[c] = "lock" /\ lock # {})
  BY <1>1, <1>3 DEF GoesOn
<1> QED
  BY <1>2, <1>3

(* The invariant of the pool: one holder of the lock, nothing but a dead    *)
(* connection under a thread that connects, a connection about to be stored *)
(* newer than all others, the first connection of a failed attempt out of   *)
(* the map, and nobody who waits for what is not given back.                *)
THEOREM PoolIsConsistent == Spec => []Inv
<1>1. Init => PoolBooks /\ ProbeRule
  BY InitInv DEF Init, ProbeRule, Probing
<1>2. PoolBooks /\ ProbeRule /\ [Next]_vars => (PoolBooks /\ ProbeRule)'
  BY NextKeepsInv, ProbesHoldGuards
<1>3. PoolBooks /\ ProbeRule => Inv
  BY LocksAreGivenBack DEF Inv
<1> QED
  BY <1>1, <1>2, <1>3, PTL DEF Spec

(* connect_and_store_locked: a thread connects alone and only when the map  *)
(* holds no working connection.                                             *)
THEOREM ConnectOnlyWhenGoneHolds == Spec => []ConnectOnlyWhenGone
<1>1. Inv => ConnectOnlyWhenGone
  BY DEF Inv, PoolBooks
<1> QED
  BY <1>1, PoolIsConsistent, PTL

(* execute and its siblings: the second attempt runs on another connection. *)
THEOREM RetryIsFreshHolds == Spec => []RetryIsFresh
<1>1. Inv => RetryIsFresh
  BY DEF Inv, PoolBooks
<1> QED
  BY <1>1, PoolIsConsistent, PTL

(* The map of connections: only the newest connection is stored, over none  *)
(* or a dead one.                                                           *)
THEOREM OnlyNewOverGoneHolds == Spec => OnlyNewOverGone
<1> DEFINE A == pool' # pool /\ pool' # 0 => pool' = made /\ Gone
<1>1. ASSUME Inv, Next PROVE A
  <2>1. ASSUME NEW c \in Client, Store(c) PROVE A
    <3>0. PoolBooks
      BY <1>1 DEF Inv
    <3>1. pc[c] = "store" /\ Gone /\ conn[c] = made
      BY <2>1, <3>0 DEF Store, PoolBooks
    <3>2. CASE KeepExisting(c)
      BY <3>2 DEF KeepExisting, poolVars
    <3>3. CASE StoreNew(c)
      BY <3>1, <3>3 DEF StoreNew, Insert
    <3> QED
      BY <2>1, <3>2, <3>3 DEF Store
  <2>2. ASSUME NEW c \in Client,
               Request(c) \/ AskStep(c) \/ Connect(c) \/ ConnectFails(c) \/ Use(c) \/ Evict(c)
        PROVE  A
    BY <2>2 DEF Request, AskStep, Look, Probe, DropDead, DropProbed, Touch, Acquire,
                Connect, ConnectFails, Use, Evict, Remove, poolVars
  <2>3. CASE ReaperStep \/ Environment
    BY <2>3 DEF ReaperStep, ReapLook, ReapAgain, ReapProbe, ReapDrop, Environment,
                LinkFails, TimePasses, TouchConnection, RemoveConnection, Remove, poolVars
  <2> QED
    BY <1>1, <2>1, <2>2, <2>3 DEF Next, ClientStep, ConnectStep
<1>2. ASSUME Inv, [Next]_vars PROVE [A]_vars
  BY <1>1, <1>2
<1> QED
  BY <1>2, PoolIsConsistent, PTL DEF Spec, OnlyNewOverGone

(* What is left of a request is a natural number, by where it stands.       *)
LEMMA StepsLeftAre ==
  ASSUME TypeOK, NEW c \in Client
  PROVE  /\ StepsLeft(c) \in Nat
         /\ UnderWay(c) => StepsLeft(c) \in 1 .. 22
<1>1. pc[c] \in Place /\ attempt[c] \in 0 .. 2
  BY DEF TypeOK
<1>2. UnderWay(c) => Left[pc[c]] \in 1 .. 8
  BY <1>1 DEF UnderWay, Left
<1>3. UnderWay(c) /\ pc[c] \in Looking => Left[pc[c]] \in 1 .. 7
  BY <1>1 DEF UnderWay, Left
<1>4. CASE UnderWay(c)
  <2>1. PICK n \in 1 .. 8 : n = Left[pc[c]]
    BY <1>2, <1>4
  <2>2. PICK k \in {0, 4} : k = IF pc[c] \in Looking /\ c \notin lock THEN 4 ELSE 0
    OBVIOUS
  <2>3. PICK m \in {0, 11} : m = IF attempt[c] = 1 THEN 11 ELSE 0
    OBVIOUS
  <2>4. k = 4 => n <= 7
    BY <1>3, <1>4, <2>1, <2>2
  <2>5. StepsLeft(c) = n + k + m
    BY <1>4, <2>1, <2>2, <2>3 DEF StepsLeft
  <2> QED
    BY <2>4, <2>5
<1>5. CASE ~UnderWay(c)
  BY <1>5 DEF StepsLeft
<1> QED
  BY <1>4, <1>5

(* A step of a request takes it on.                                         *)
LEMMA OwnStepsTakeOn ==
  ASSUME PoolBooks, NEW c \in Client, Request(c) \/ ClientStep(c)
  PROVE  StepsLeft(c)' < StepsLeft(c)
<1>0. TypeOK /\ AttemptRule /\ LockRule
  BY DEF PoolBooks
<1>1. /\ pc \in [Client -> Place] /\ attempt \in [Client -> 0 .. 2]
      /\ lock \subseteq Client
  BY <1>0 DEF TypeOK
<1> USE DEF StepsLeft, UnderWay, Left
<1>2. CASE Request(c)
  BY <1>0, <1>1, <1>2 DEF Request, LockRule
<1>3. CASE Look(c)
  BY <1>1, <1>3 DEF Look, Miss
<1>4. CASE Probe(c)
  BY <1>1, <1>4 DEF Probe
<1>5. CASE DropDead(c) \/ DropProbed(c)
  BY <1>1, <1>5 DEF DropDead, DropProbed, Miss
<1>6. CASE Touch(c)
  BY <1>1, <1>6 DEF Touch, Miss, UseConnection
<1>7. CASE Acquire(c)
  BY <1>1, <1>7 DEF Acquire
<1>8. CASE Connect(c) \/ ConnectFails(c)
  BY <1>1, <1>8 DEF Connect, ConnectFails, Finish
<1>9. CASE Store(c)
  BY <1>1, <1>9 DEF Store, KeepExisting, StoreNew, UseConnection
<1>10. CASE Use(c)
  BY <1>0, <1>1, <1>10 DEF Use, Finish, AttemptRule
<1>11. CASE Evict(c)
  <2>1. attempt[c] = 1 /\ pc[c] = "evict"
    BY <1>0, <1>11 DEF Evict, AttemptRule
  <2> QED
    BY <1>1, <1>11, <2>1 DEF Evict
<1> QED
  BY <1>2, <1>3, <1>4, <1>5, <1>6, <1>7, <1>8, <1>9, <1>10, <1>11
     DEF ClientStep, AskStep, ConnectStep

(* Nobody else moves it.                                                    *)
LEMMA OthersLeaveRequests ==
  ASSUME PoolBooks, [Next]_vars, NEW c \in Client, ~(Request(c) \/ ClientStep(c))
  PROVE  StepsLeft(c)' = StepsLeft(c)
<1>1. TypeOK
  BY DEF PoolBooks
<1> DEFINE Same == pc'[c] = pc[c] /\ attempt'[c] = attempt[c] /\ (c \in lock' <=> c \in lock)
<1>2. Same
  <2>1. ASSUME NEW d \in Client, d # c, Request(d) \/ ClientStep(d) PROVE Same
    BY <1>1, <2>1
       DEF Request, ClientStep, AskStep, Look, Probe, DropDead, DropProbed, Touch,
           Acquire, ConnectStep, Connect, ConnectFails, Store, KeepExisting, StoreNew,
           Use, Evict, Miss, UseConnection, Finish, TypeOK
  <2>2. CASE ReaperStep \/ Environment \/ UNCHANGED vars
    BY <2>2
       DEF ReaperStep, ReapLook, ReapAgain, ReapProbe, ReapDrop, Environment, LinkFails,
           TimePasses, TouchConnection, RemoveConnection, vars, clientVars
  <2> QED
    BY <2>1, <2>2 DEF Next
<1> QED
  BY <1>2 DEF StepsLeft, UnderWay

(* The core of RequestsEnd: each request has at most 23 steps to take, only *)
(* its own steps take it on, and (NobodyHangs) it never waits for one who   *)
(* waits.                                                                   *)
THEOREM RequestsAreFinite ==
  Spec => [](\A c \in Client : StepsLeft(c) \in 0 .. 23) /\ RequestsAreShort
<1>1. ASSUME Inv, NEW c \in Client PROVE StepsLeft(c) \in 0 .. 23
  <2>1. CASE UnderWay(c)
    <3>1. TypeOK
      BY <1>1 DEF Inv, PoolBooks
    <3>2. StepsLeft(c) \in 1 .. 22
      BY <1>1, <2>1, <3>1, StepsLeftAre
    <3> QED
      BY <3>2
  <2>2. CASE ~UnderWay(c)
    BY <2>2 DEF StepsLeft
  <2> QED
    BY <2>1, <2>2
<1>2. Inv => \A c \in Client : StepsLeft(c) \in 0 .. 23
  BY <1>1
<1> DEFINE Shorter ==
      \A c \in Client :
        /\ Request(c) \/ ClientStep(c) => StepsLeft(c)' < StepsLeft(c)
        /\ ~(Request(c) \/ ClientStep(c)) => StepsLeft(c)' = StepsLeft(c)
<1>3. Inv /\ [Next]_vars => Shorter
  BY OwnStepsTakeOn, OthersLeaveRequests DEF Inv
<1> HIDE DEF Shorter
<1>4. Spec => [][Shorter]_vars
  BY <1>3, PoolIsConsistent, PTL DEF Spec
<1> USE DEF Shorter
<1> QED
  BY <1>2, <1>4, PoolIsConsistent, PTL DEF RequestsAreShort
=============================================================================
