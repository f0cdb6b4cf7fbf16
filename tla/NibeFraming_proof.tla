------------------------- MODULE NibeFraming_proof -------------------------
(***************************************************************************)
(* Proofs about NibeFraming, for all messages the pump may send that fit a *)
(* frame, however the line is damaged and the bytes are cut up.            *)
(***************************************************************************)
EXTENDS NibeFraming, Lemmas_proof

-----------------------------------------------------------------------------
LEMMA SomeBytes ==
  /\ 0 \in Byte /\ Start \in Byte /\ Swap \in Byte /\ Byte \subseteq Nat
  /\ \A n \in Nat : n <= MaxLen => n \in Byte
  BY DEF Byte, Start, Swap, MaxLen

(* Exclusive or stays within a byte.                                       *)

LEMMA XorIsByte == ByteXor \in [Byte -> [Byte -> Byte]]
<1>. SUFFICES ASSUME NEW x \in Byte, NEW y \in Byte PROVE ByteXor[x][y] \in Byte
  BY DEF ByteXor
<1>1. ASSUME NEW w \in {1, 2, 4, 8, 16, 32, 64, 128} PROVE XorAt(x, y, w) \in {0, w}
  <2>1. (x \div w + y \div w) % 2 \in {0, 1}
    BY DEF Byte
  <2>. QED  BY <2>1 DEF XorAt
<1>2. ByteXor[x][y] =
        XorAt(x, y, 1) + XorAt(x, y, 2) + XorAt(x, y, 4) + XorAt(x, y, 8)
          + XorAt(x, y, 16) + XorAt(x, y, 32) + XorAt(x, y, 64) + XorAt(x, y, 128)
  BY DEF ByteXor
<1>3. /\ XorAt(x, y, 1) \in {0, 1} /\ XorAt(x, y, 2) \in {0, 2}
      /\ XorAt(x, y, 4) \in {0, 4} /\ XorAt(x, y, 8) \in {0, 8}
      /\ XorAt(x, y, 16) \in {0, 16} /\ XorAt(x, y, 32) \in {0, 32}
      /\ XorAt(x, y, 64) \in {0, 64} /\ XorAt(x, y, 128) \in {0, 128}
  BY <1>1
<1>. QED  BY <1>2, <1>3 DEF Byte

(* calc_crc_5c gives a byte.                                               *)
LEMMA SumIsByte == ASSUME NEW s \in Seq(Byte) PROVE Sum(s) \in Byte
<1>. DEFINE body(c) == [n \in 0..Len(s) |-> IF n = 0 THEN 0 ELSE ByteXor[c[n - 1]][s[n]]]
            c == CHOOSE c : c = body(c)
            h == [i \in 1..Len(s) |-> [x \in Byte |-> ByteXor[x][s[i]]]]
<1>1. Len(s) \in Nat /\ \A i \in 1..Len(s) : s[i] \in Byte
  BY LenProperties, ElementOfSeq
<1>2. h \in [1..Len(s) -> [Byte -> Byte]]
  BY <1>1, XorIsByte
<1>3. PICK g : Follows(g, Len(s), Byte, 0, h)
  <2>1. 0 \in Byte
    BY DEF Byte
  <2>. HIDE DEF h
  <2>. QED  BY <1>1, <1>2, <2>1, Recursion
<1>4. g = body(g)
  <2>1. ASSUME NEW n \in 0..Len(s)
        PROVE  g[n] = IF n = 0 THEN 0 ELSE ByteXor[g[n - 1]][s[n]]
    <3>1. CASE n = 0
      BY <1>3, <3>1 DEF Follows
    <3>2. CASE n # 0
      <4>1. n \in 1..Len(s) /\ n - 1 \in 0..Len(s)
        BY <1>1, <3>2
      <4>2. g[n - 1] \in Byte /\ g[n] = h[n][g[n - 1]]
        BY <1>3, <4>1 DEF Follows
      <4>. QED  BY <3>2, <4>1, <4>2
    <3>. QED  BY <3>1, <3>2
  <2>2. g \in [0..Len(s) -> Byte]
    BY ZenonT(30), <1>3 DEF Follows
  <2>. QED  BY <2>1, <2>2
<1>5. c = body(c)
  <2>1. \E d : d = body(d)
    BY <1>4
  <2>. QED  BY <2>1
<1>6. Sum(s) = c[Len(s)]
  BY DEF Sum
<1>. HIDE DEF c
<1>7. c[0] \in Byte
  BY <1>1, <1>5 DEF Byte
<1>8. ASSUME NEW n \in 1..Len(s), c[n - 1] \in Byte PROVE c[n] \in Byte
  <2>1. c[n] = ByteXor[c[n - 1]][s[n]]
    BY <1>1, <1>5
  <2>. QED  BY <1>1, <1>8, <2>1, XorIsByte
<1>9. \A n \in 0..Len(s) : c[n] \in Byte
  BY <1>1, <1>7, <1>8, Carries
<1>. QED  BY <1>1, <1>6, <1>9

-----------------------------------------------------------------------------
(* The squeeze and the pump's doubling, prefix by prefix.                  *)

SqueezedUpTo(d, s) ==
  /\ d[0] = <<>>
  /\ \A n \in 1..Len(s) :
       d[n] = IF n > 1 /\ s[n] = Start /\ s[n - 1] = Start THEN d[n - 1]
              ELSE Append(d[n - 1], s[n])

EscapedUpTo(e, s) ==
  /\ e[0] = <<>>
  /\ \A n \in 1..Len(s) : e[n] = e[n - 1] \o Sent(s[n])

LEMMA SqueezeSteps ==
  ASSUME NEW s \in Seq(Byte)
  PROVE  \E d : /\ SqueezedUpTo(d, s) /\ Squeezed(s) = d[Len(s)]
               /\ \A n \in 0..Len(s) : d[n] \in Seq(Byte)
<1>. DEFINE Goes(n) == n > 1 /\ s[n] = Start /\ s[n - 1] = Start
            body(d) == [n \in 0..Len(s) |->
                          IF n = 0 THEN <<>>
                          ELSE IF Goes(n) THEN d[n - 1] ELSE Append(d[n - 1], s[n])]
            d == CHOOSE d : d = body(d)
            h == [i \in 1..Len(s) |-> [x \in Seq(Byte) |-> IF Goes(i) THEN x ELSE Append(x, s[i])]]
<1>1. Len(s) \in Nat /\ (\A i \in 1..Len(s) : s[i] \in Byte) /\ <<>> \in Seq(Byte)
  BY LenProperties, ElementOfSeq, EmptySeq
<1>2. \A x \in Seq(Byte), i \in 1..Len(s) : Append(x, s[i]) \in Seq(Byte)
  BY <1>1, AppendProperties
<1>3. h \in [1..Len(s) -> [Seq(Byte) -> Seq(Byte)]]
  BY <1>2
<1>4. PICK g : Follows(g, Len(s), Seq(Byte), <<>>, h)
  <2>. HIDE DEF h
  <2>. QED  BY <1>1, <1>3, Recursion
<1>5. g = body(g)
  <2>1. ASSUME NEW n \in 0..Len(s)
        PROVE  g[n] = IF n = 0 THEN <<>>
                      ELSE IF Goes(n) THEN g[n - 1] ELSE Append(g[n - 1], s[n])
    <3>. HIDE DEF Goes
    <3>1. CASE n = 0
      BY <1>4, <3>1 DEF Follows
    <3>2. CASE n # 0
      <4>1. n \in 1..Len(s) /\ n - 1 \in 0..Len(s)
        BY <1>1, <3>2
      <4>2. g[n - 1] \in Seq(Byte) /\ g[n] = h[n][g[n - 1]]
        BY <1>4, <4>1 DEF Follows
      <4>. QED  BY <3>2, <4>1, <4>2
    <3>. QED  BY <3>1, <3>2
  <2>2. g \in [0..Len(s) -> Seq(Byte)]
    BY ZenonT(30), <1>4 DEF Follows
  <2>. HIDE DEF Goes
  <2>. QED  BY <2>1, <2>2
<1>6. d = body(d)
  <2>1. \E f : f = body(f)
    BY <1>5
  <2>. QED  BY <2>1
<1>7. Squeezed(s) = d[Len(s)]
  BY DEF Squeezed
<1>. HIDE DEF d
<1>8. d[0] = <<>> /\ \A n \in 1..Len(s) : d[n] = IF Goes(n) THEN d[n - 1] ELSE Append(d[n - 1], s[n])
  <2>. HIDE DEF Goes
  <2>1. d[0] = <<>>
    BY <1>1, <1>6
  <2>2. ASSUME NEW n \in 1..Len(s)
        PROVE  d[n] = IF Goes(n) THEN d[n - 1] ELSE Append(d[n - 1], s[n])
    <3>1. n \in 0..Len(s) /\ n # 0
      BY <1>1
    <3>2. body(d)[n] = IF Goes(n) THEN d[n - 1] ELSE Append(d[n - 1], s[n])
      BY <3>1
    <3>. HIDE DEF body
    <3>. QED  BY <1>6, <3>2
  <2>. QED  BY <2>1, <2>2
<1>9. \A n \in 0..Len(s) : d[n] \in Seq(Byte)
  <2>1. d[0] \in Seq(Byte)
    BY <1>1, <1>8
  <2>2. ASSUME NEW n \in 1..Len(s), d[n - 1] \in Seq(Byte) PROVE d[n] \in Seq(Byte)
    BY <1>2, <1>8, <2>2
  <2>. QED  BY <1>1, <2>1, <2>2, Carries
<1>. QED  BY <1>7, <1>8, <1>9 DEF SqueezedUpTo

LEMMA EscapeSteps ==
  ASSUME NEW s \in Seq(Byte)
  PROVE  \E e : /\ EscapedUpTo(e, s) /\ Escaped(s) = e[Len(s)]
               /\ \A n \in 0..Len(s) : e[n] \in Seq(Byte)
<1>. DEFINE body(e) == [n \in 0..Len(s) |-> IF n = 0 THEN <<>> ELSE e[n - 1] \o Sent(s[n])]
            e == CHOOSE e : e = body(e)
            h == [i \in 1..Len(s) |-> [x \in Seq(Byte) |-> x \o Sent(s[i])]]
<1>1. Len(s) \in Nat /\ (\A i \in 1..Len(s) : s[i] \in Byte) /\ <<>> \in Seq(Byte)
  BY LenProperties, ElementOfSeq, EmptySeq
<1>2. \A x \in Seq(Byte), i \in 1..Len(s) : x \o Sent(s[i]) \in Seq(Byte)
  <2>1. \A i \in 1..Len(s) : Sent(s[i]) \in Seq(Byte)
    BY <1>1 DEF Sent
  <2>. QED  BY <2>1, ConcatProperties
<1>3. h \in [1..Len(s) -> [Seq(Byte) -> Seq(Byte)]]
  BY <1>2
<1>4. PICK g : Follows(g, Len(s), Seq(Byte), <<>>, h)
  <2>. HIDE DEF h
  <2>. QED  BY <1>1, <1>3, Recursion
<1>5. g = body(g)
  <2>1. ASSUME NEW n \in 0..Len(s)
        PROVE  g[n] = IF n = 0 THEN <<>> ELSE g[n - 1] \o Sent(s[n])
    <3>1. CASE n = 0
      BY <1>4, <3>1 DEF Follows
    <3>2. CASE n # 0
      <4>1. n \in 1..Len(s) /\ n - 1 \in 0..Len(s)
        BY <1>1, <3>2
      <4>2. g[n - 1] \in Seq(Byte) /\ g[n] = h[n][g[n - 1]]
        BY <1>4, <4>1 DEF Follows
      <4>. QED  BY <3>2, <4>1, <4>2
    <3>. QED  BY <3>1, <3>2
  <2>2. g \in [0..Len(s) -> Seq(Byte)]
    BY ZenonT(30), <1>4 DEF Follows
  <2>. QED  BY <2>1, <2>2
<1>6. e = body(e)
  <2>1. \E f : f = body(f)
    BY <1>5
  <2>. QED  BY <2>1
<1>7. Escaped(s) = e[Len(s)]
  BY DEF Escaped
<1>. HIDE DEF e
<1>8. e[0] = <<>> /\ \A n \in 1..Len(s) : e[n] = e[n - 1] \o Sent(s[n])
  BY <1>1, <1>6
<1>9. \A n \in 0..Len(s) : e[n] \in Seq(Byte)
  <2>1. e[0] \in Seq(Byte)
    BY <1>1, <1>8
  <2>2. ASSUME NEW n \in 1..Len(s), e[n - 1] \in Seq(Byte) PROVE e[n] \in Seq(Byte)
    BY <1>2, <1>8, <2>2
  <2>. QED  BY <1>1, <2>1, <2>2, Carries
<1>. QED  BY <1>7, <1>8, <1>9 DEF EscapedUpTo

LEMMA SqueezedIsBytes == ASSUME NEW s \in Seq(Byte) PROVE Squeezed(s) \in Seq(Byte)
  BY SqueezeSteps, LenProperties

LEMMA EscapedIsBytes == ASSUME NEW s \in Seq(Byte) PROVE Escaped(s) \in Seq(Byte)
  BY EscapeSteps, LenProperties

-----------------------------------------------------------------------------
(* What the sequence operators make of bytes.                              *)

LEMMA Part ==
  ASSUME NEW S, NEW s \in Seq(S), NEW m \in Nat, m >= 1, NEW n \in Int, n <= Len(s)
  PROVE  /\ SubSeq(s, m, n) \in Seq(S)
         /\ Len(SubSeq(s, m, n)) = IF m <= n THEN n - m + 1 ELSE 0
         /\ \A i \in 1..n - m + 1 : SubSeq(s, m, n)[i] = s[m + i - 1]
<1>1. \A i \in m..n : i \in 1..Len(s) /\ s[i] \in S
  BY LenProperties, ElementOfSeq
<1>. QED  BY <1>1, SubSeqProperties

\* After Aligned, the bytes begin with a 5C, if any are left.
LEMMA AlignedFacts ==
  ASSUME NEW s \in Seq(Byte)
  PROVE  /\ Aligned(s) \in Seq(Byte) /\ Len(Aligned(s)) <= Len(s)
         /\ s # <<>> /\ s[1] = Start => Aligned(s) = s
         /\ s = <<>> => Aligned(s) = <<>>
         /\ Aligned(s) # <<>> => Aligned(s)[1] = Start
<1>. DEFINE starts == {i \in DOMAIN s : s[i] = Start}
            i == CHOOSE i \in starts : \A j \in starts : i <= j
<1>1. DOMAIN s = 1..Len(s) /\ Len(s) \in Nat /\ <<>> \in Seq(Byte) /\ Len(<<>>) = 0
  BY LenProperties, EmptySeq
<1>2. CASE starts = {}
  <2>1. Aligned(s) = <<>>
    BY <1>2 DEF Aligned
  <2>2. s # <<>> => s[1] # Start
    BY <1>1, <1>2, EmptySeq
  <2>. QED  BY <1>1, <2>1, <2>2
<1>3. CASE starts # {}
  <2>1. Aligned(s) = SubSeq(s, i, Len(s))
    BY <1>3 DEF Aligned
  <2>2. i \in starts /\ \A j \in starts : i <= j
    <3>1. starts \in SUBSET Nat
      BY <1>1
    <3>. HIDE DEF starts
    <3>2. \E k \in starts : \A j \in starts : k <= j
      BY <1>3, <3>1, SmallestExists
    <3>. QED  BY <3>2
  <2>. HIDE DEF i
  <2>3. i \in 1..Len(s)
    BY <1>1, <2>2
  <2>4. s[1] = Start => i = 1
    BY <1>1, <2>2, <2>3
  <2>5. s # <<>>
    BY <1>1, <2>3
  <2>6. SubSeq(s, i, Len(s))[1] = Start
    BY <1>1, <2>2, <2>3, Part
  <2>. QED  BY <1>1, <2>1, <2>3, <2>4, <2>5, <2>6, Part, SubSeqFull
<1>. QED  BY <1>2, <1>3

LEMMA NewestFacts ==
  ASSUME NEW s \in Seq(Byte), NEW n \in Nat
  PROVE  /\ Newest(s, n) \in Seq(Byte) /\ Len(Newest(s, n)) <= n
         /\ Len(s) <= n => Newest(s, n) = s
<1>1. Len(s) \in Nat
  BY LenProperties
<1>2. CASE Len(s) > n
  <2>1. Len(s) - n + 1 \in Nat /\ Len(s) - n + 1 >= 1
    BY <1>1, <1>2
  <2>. QED  BY <1>1, <1>2, <2>1, Part DEF Newest
<1>. QED  BY <1>1, <1>2 DEF Newest

LEMMA Messaging ==
  /\ Len(Messages) \in Nat \ {0}
  /\ \A i \in 1..Len(Messages) : Messages[i] \in [to : Byte, cmd : Byte, data : Seq(Byte)]
  /\ \A i \in 1..Len(Messages) : Len(Escaped(Messages[i].data)) <= MaxLen
  /\ \A i \in Nat : Following(i) \in 1..Len(Messages)
<1>1. Len(Messages) \in Nat \ {0} /\ DOMAIN Messages = 1..Len(Messages)
  BY FramingAssumption, EmptySeq, LenProperties
<1>2. \A i \in Nat : Following(i) \in 1..Len(Messages)
  BY <1>1 DEF Following
<1>. QED  BY <1>1, <1>2, FramingAssumption, ElementOfSeq

(* What the pump puts on the line for a message, place by place.           *)
LEMMA OnWireFacts ==
  ASSUME NEW m \in [to : Byte, cmd : Byte, data : Seq(Byte)], Len(Escaped(m.data)) <= MaxLen
  PROVE  LET w == OnWire(m)
             e == Escaped(m.data)
         IN  /\ w \in Seq(Byte) /\ Len(w) = Len(e) + 6
             /\ w[1] = Start /\ w[2] = 0 /\ w[3] = m.to /\ w[4] = m.cmd /\ w[5] = Len(e)
             /\ SubSeq(w, 6, Len(e) + 5) = e
             /\ SumOk(Sum(SubSeq(w, 3, Len(e) + 5)), w[Len(e) + 6])
<1>. DEFINE w    == OnWire(m)
            e    == Escaped(m.data)
            body == <<m.to, m.cmd, Len(e)>> \o e
            chk  == IF Sum(body) = Start THEN Swap ELSE Sum(body)
<1>1. e \in Seq(Byte) /\ Len(e) \in Nat /\ Len(e) <= MaxLen
  BY EscapedIsBytes, LenProperties
<1>. HIDE DEF e
<1>2. <<m.to, m.cmd, Len(e)>> \in Seq(Byte) /\ <<Start, 0>> \in Seq(Byte)
  <2>1. m.to \in Byte /\ m.cmd \in Byte
    OBVIOUS
  <2>2. Len(e) \in Byte /\ Start \in Byte /\ 0 \in Byte
    BY <1>1, SomeBytes
  <2>. QED  BY <2>1, <2>2
<1>3. /\ body \in Seq(Byte) /\ Len(body) = Len(e) + 3
      /\ body[1] = m.to /\ body[2] = m.cmd /\ body[3] = Len(e)
      /\ \A i \in 1..Len(e) : body[i + 3] = e[i]
  BY <1>1, <1>2, ConcatProperties
<1>4. w = <<Start, 0>> \o body \o <<chk>>
  BY DEF OnWire, e
<1>. HIDE DEF body
<1>5. chk \in Byte
  BY <1>3, SumIsByte DEF Swap, Byte
<1>6. SumOk(Sum(body), chk)
  BY DEF SumOk
<1>. HIDE DEF chk, w
<1>7. /\ <<Start, 0>> \o body \in Seq(Byte) /\ Len(<<Start, 0>> \o body) = Len(e) + 5
      /\ \A i \in 1..Len(e) + 5 : (<<Start, 0>> \o body)[i] = IF i <= 2 THEN <<Start, 0>>[i] ELSE body[i - 2]
  BY <1>1, <1>2, <1>3, ConcatProperties
<1>8. /\ w \in Seq(Byte) /\ Len(w) = Len(e) + 6 /\ w[Len(e) + 6] = chk
      /\ \A i \in 1..Len(e) + 5 : w[i] = IF i <= 2 THEN <<Start, 0>>[i] ELSE body[i - 2]
  <2>1. <<chk>> \in Seq(Byte) /\ Len(<<chk>>) = 1 /\ <<chk>>[1] = chk
    BY <1>5
  <2>. QED  BY <1>1, <1>4, <1>7, <2>1, ConcatProperties
<1>9. SubSeq(w, 3, Len(e) + 5) = body
  <2>1. /\ SubSeq(w, 3, Len(e) + 5) \in Seq(Byte) /\ Len(SubSeq(w, 3, Len(e) + 5)) = Len(e) + 3
        /\ \A i \in 1..Len(e) + 3 : SubSeq(w, 3, Len(e) + 5)[i] = w[3 + i - 1]
    BY <1>1, <1>8, Part
  <2>2. \A i \in 1..Len(e) + 3 : w[3 + i - 1] = body[i]
    BY <1>1, <1>8
  <2>. QED  BY <1>3, <2>1, <2>2, SeqEqual
<1>10. SubSeq(w, 6, Len(e) + 5) = e
  <2>1. /\ SubSeq(w, 6, Len(e) + 5) \in Seq(Byte) /\ Len(SubSeq(w, 6, Len(e) + 5)) = Len(e)
        /\ \A i \in 1..Len(e) : SubSeq(w, 6, Len(e) + 5)[i] = w[6 + i - 1]
    BY <1>1, <1>8, Part
  <2>2. ASSUME NEW i \in 1..Len(e) PROVE w[6 + i - 1] = e[i]
    <3>1. 6 + i - 1 \in 1..Len(e) + 5 /\ ~(6 + i - 1 <= 2) /\ 6 + i - 1 - 2 = i + 3
      BY <1>1
    <3>2. w[6 + i - 1] = body[i + 3]
      BY <1>8, <3>1
    <3>. QED  BY <1>3, <3>2
  <2>. QED  BY <1>1, <2>1, <2>2, SeqEqual
<1>11. w[1] = Start /\ w[2] = 0 /\ w[3] = m.to /\ w[4] = m.cmd /\ w[5] = Len(e)
  <2>1. /\ 1 \in 1..Len(e) + 5 /\ 2 \in 1..Len(e) + 5 /\ 3 \in 1..Len(e) + 5
        /\ 4 \in 1..Len(e) + 5 /\ 5 \in 1..Len(e) + 5
    BY <1>1
  <2>2. w[1] = Start /\ w[2] = 0
    BY <1>8, <2>1
  <2>3. w[3] = body[1] /\ w[4] = body[2] /\ w[5] = body[3]
    BY <1>8, <2>1
  <2>. QED  BY <1>3, <2>2, <2>3
<1>. QED  BY <1>6, <1>8, <1>9, <1>10, <1>11 DEF w, e

-----------------------------------------------------------------------------
(* Types, and the room in rx_.                                             *)

LEMMA FrameOf ==
  ASSUME NEW i \in 1..Len(Messages)
  PROVE  OnWire(Messages[i]) \in Seq(Byte)
  BY Messaging, OnWireFacts

LEMMA InitTypes == Init => TypeOK
<1>. SUFFICES ASSUME Init PROVE TypeOK
  OBVIOUS
<1>1. line \in Seq(Byte) /\ rx \in Seq(Byte) /\ Len(line) = 0 /\ Len(rx) = 0
  BY EmptySeq DEF Init
<1>2. Len(line) <= LineCap /\ Len(rx) <= RxCap /\ damaged \in 0..MaxDamaged
  BY <1>1, FramingAssumption DEF Init, RxCap
<1>3. /\ turn \in 1..Len(Messages) /\ count \in 1..Len(Messages)
      /\ last \in [to : Byte, cmd : Byte, data : Seq(Byte)]
  <2>1. 1 \in 1..Len(Messages) /\ Len(Messages) \in 1..Len(Messages)
    BY Messaging
  <2>2. Messages[Len(Messages)] \in [to : Byte, cmd : Byte, data : Seq(Byte)]
    BY Messaging, <2>1
  <2>. QED  BY <2>1, <2>2 DEF Init
<1>4. rx = <<>>
  BY DEF Init
<1>. QED  BY <1>1, <1>2, <1>3, <1>4 DEF TypeOK, Init

LEMMA DrainTypes ==
  ASSUME TypeOK, NEW k \in 0..Len(line), Drain(k)
  PROVE  TypeOK'
<1>1. k \in Nat /\ Len(line) \in Nat
  BY LenProperties DEF TypeOK
<1>2. SubSeq(line, 1, k) \in Seq(Byte)
  BY <1>1, Part DEF TypeOK
<1>3. line' \in Seq(Byte) /\ Len(line') <= LineCap
  <2>1. k + 1 \in Nat /\ k + 1 >= 1
    BY <1>1
  <2>2. line \in Seq(Byte) /\ Len(line) <= LineCap /\ LineCap \in Nat
    BY FramingAssumption DEF TypeOK
  <2>3. /\ SubSeq(line, k + 1, Len(line)) \in Seq(Byte)
        /\ Len(SubSeq(line, k + 1, Len(line)))
             = IF k + 1 <= Len(line) THEN Len(line) - (k + 1) + 1 ELSE 0
    BY <1>1, <2>1, <2>2, Part
  <2>4. Len(SubSeq(line, k + 1, Len(line))) <= LineCap
    BY <1>1, <2>2, <2>3
  <2>. QED  BY <2>3, <2>4 DEF Drain
<1>4. rx' \in Seq(Byte) /\ Len(rx') <= RxCap
  <2>1. rx \o SubSeq(line, 1, k) \in Seq(Byte)
    BY <1>2, ConcatProperties DEF TypeOK
  <2>2. RxCap \in Nat
    BY DEF RxCap
  <2>. QED  BY <2>1, <2>2, NewestFacts DEF Drain
<1>. QED  BY <1>3, <1>4 DEF TypeOK, Drain

\* The parts of a complete frame at the front of r.
LEMMA CompleteFrame ==
  ASSUME NEW r \in Seq(Byte), Len(r) >= 5, Complete(r)
  PROVE  /\ LenField(r) \in Nat /\ Len(r) \in Nat /\ LenField(r) + 6 <= Len(r)
         /\ SubSeq(r, LenField(r) + 7, Len(r)) \in Seq(Byte)
         /\ Len(SubSeq(r, LenField(r) + 7, Len(r))) = Len(r) - (LenField(r) + 6)
         /\ Received(r) \in [to : Byte, cmd : Byte, data : Seq(Byte)]
<1>1. Len(r) \in Nat
  BY LenProperties
<1>2. r[3] \in Byte /\ r[4] \in Byte /\ r[5] \in Byte
  BY <1>1, ElementOfSeq
<1>3. LenField(r) \in Nat /\ LenField(r) + 6 <= Len(r)
  <2>1. LenField(r) \in Nat
    BY <1>2, SomeBytes DEF LenField
  <2>. QED  BY <1>1, <2>1 DEF Complete
<1>4. SubSeq(r, 6, LenField(r) + 5) \in Seq(Byte)
  BY <1>1, <1>3, Part
<1>5. Received(r) \in [to : Byte, cmd : Byte, data : Seq(Byte)]
  BY <1>2, <1>4, SqueezedIsBytes DEF Received
<1>6. LenField(r) + 7 \in Nat /\ LenField(r) + 7 >= 1 /\ LenField(r) + 7 <= Len(r) + 1
  BY <1>1, <1>3
<1>7. /\ SubSeq(r, LenField(r) + 7, Len(r)) \in Seq(Byte)
      /\ Len(SubSeq(r, LenField(r) + 7, Len(r))) = Len(r) - (LenField(r) + 6)
  BY <1>1, <1>3, <1>6, Part
<1>. QED  BY <1>1, <1>3, <1>5, <1>7

LEMMA ScanTypes == ASSUME TypeOK, Scan PROVE TypeOK'
<1>. DEFINE r == Aligned(rx)
<1>1. /\ r \in Seq(Byte) /\ Len(r) \in Nat /\ Len(r) <= RxCap
      /\ r # <<>> => r[1] = Start
  BY AlignedFacts, LenProperties DEF TypeOK, RxCap
<1>2. CASE Await(r)
  BY <1>1, <1>2 DEF TypeOK, Scan, Await
<1>3. CASE Reject(r)
  <2>1. r # <<>>
    BY <1>1, <1>3, EmptySeq DEF Reject
  <2>2. Tail(r) \in Seq(Byte) /\ Len(Tail(r)) <= RxCap
    BY <1>1, <2>1, HeadTailProperties DEF RxCap
  <2>. QED  BY <1>3, <2>2 DEF TypeOK, Scan, Reject
<1>4. CASE HandOver(r)
  <2>1. rx' \in Seq(Byte) /\ Len(rx') <= RxCap /\ last' \in [to : Byte, cmd : Byte, data : Seq(Byte)]
    BY <1>1, <1>4, CompleteFrame DEF HandOver, RxCap
  <2>2. count' \in 1..Len(Messages)
    BY <1>4, Messaging DEF HandOver, TypeOK
  <2>. QED  BY <1>4, <2>1, <2>2 DEF TypeOK, Scan, HandOver
<1>. QED  BY <1>2, <1>3, <1>4 DEF Scan

LEMMA SendTypes ==
  ASSUME TypeOK, NEW bytes \in Seq(Byte), Send(bytes), damaged' \in 0..MaxDamaged
  PROVE  TypeOK'
<1>1. line' \in Seq(Byte) /\ Len(line') <= LineCap
  BY ConcatProperties DEF TypeOK, Send
<1>2. turn' \in 1..Len(Messages)
  BY Messaging DEF TypeOK, Send
<1>. QED  BY <1>1, <1>2 DEF TypeOK, Send

LEMMA PumpTypes == ASSUME TypeOK, PumpSends \/ PumpSendsDamaged PROVE TypeOK'
<1>. DEFINE f == OnWire(Messages[turn])
<1>1. f \in Seq(Byte) /\ DOMAIN f = 1..Len(f) /\ Len(f) \in Nat
  BY FrameOf, LenProperties DEF TypeOK
<1>. HIDE DEF f
<1>2. CASE PumpSends
  BY <1>1, <1>2, SendTypes DEF PumpSends, TypeOK, f
<1>3. CASE PumpSendsDamaged
  <2>1. damaged' \in 0..MaxDamaged
    BY SMTT(30), <1>3, FramingAssumption DEF PumpSendsDamaged, TypeOK
  <2>2. PICK i \in DOMAIN f : \/ \E b \in DamagedTo \ {f[i]} : Send([f EXCEPT ![i] = b])
                             \/ Send(RemoveAt(f, i))
    BY <1>3 DEF PumpSendsDamaged, f
  <2>3. ASSUME NEW b \in DamagedTo, Send([f EXCEPT ![i] = b]) PROVE TypeOK'
    <3>1. b \in Byte /\ i \in 1..Len(f)
      BY <1>1, FramingAssumption
    <3>2. [f EXCEPT ![i] = b] \in Seq(Byte)
      BY <1>1, <3>1, ExceptSeq
    <3>. QED  BY <2>1, <2>3, <3>2, SendTypes
  <2>4. ASSUME Send(RemoveAt(f, i)) PROVE TypeOK'
    <3>1. i \in 1..Len(f)
      BY <1>1
    <3>2. i - 1 \in Int /\ i - 1 <= Len(f) /\ i + 1 \in Nat /\ i + 1 >= 1
      BY <1>1, <3>1
    <3>3. SubSeq(f, 1, i - 1) \in Seq(Byte) /\ SubSeq(f, i + 1, Len(f)) \in Seq(Byte)
      BY <1>1, <3>2, Part
    <3>4. RemoveAt(f, i) \in Seq(Byte)
      BY <3>3, ConcatProperties DEF RemoveAt
    <3>. QED  BY <2>1, <2>4, <3>4, SendTypes
  <2>. QED  BY <2>2, <2>3, <2>4
<1>. QED  BY <1>2, <1>3

LEMMA NextTypes == ASSUME TypeOK, [Next]_vars PROVE TypeOK'
<1>1. CASE UNCHANGED vars
  BY <1>1 DEF vars, TypeOK
<1>. QED  BY <1>1, DrainTypes, ScanTypes, PumpTypes DEF Next

(* Whatever the line does to the bytes, rx_ keeps within its 512, what     *)
(* waits in it begins with a 5C, and what on_frame_() is called with is    *)
(* made of bytes: no length byte makes the scan read outside rx_.          *)
THEOREM Types == Spec => []TypeOK
<1>1. Init => TypeOK
  BY InitTypes
<1>2. TypeOK /\ [Next]_vars => TypeOK'
  BY NextTypes
<1>. QED  BY <1>1, <1>2, PTL DEF Spec

(* Whatever the line does to the bytes, less than one frame of the         *)
(* greatest length waits in rx_ between two calls of loop().               *)
THEOREM BufferStaysSmall == Spec => []BufferBounded
<1>1. Init => BufferBounded
  BY EmptySeq DEF Init, BufferBounded, MaxLen
<1>2. TypeOK /\ BufferBounded /\ [Next]_vars => BufferBounded'
  <2>. SUFFICES ASSUME TypeOK, BufferBounded, [Next]_vars, ~scanning'
                PROVE  Len(rx') < MaxLen + 6
    BY DEF BufferBounded
  <2>1. CASE UNCHANGED <<rx, scanning>>
    BY <2>1 DEF BufferBounded
  <2>2. CASE Scan
    <3>. DEFINE r == Aligned(rx)
    <3>1. r \in Seq(Byte) /\ Len(r) \in Nat
      BY AlignedFacts, LenProperties DEF TypeOK
    <3>2. Await(r)
      BY <2>2 DEF Scan, Reject, HandOver
    <3>3. Len(r) >= 5 => LenField(r) \in Nat
      <4>. SUFFICES ASSUME Len(r) >= 5 PROVE LenField(r) \in Nat
        OBVIOUS
      <4>1. r[5] \in Byte
        BY <3>1, ElementOfSeq
      <4>. QED  BY <4>1, SomeBytes DEF LenField
    <3>. HIDE DEF r
    <3>4. CASE Len(r) < 5
      BY <3>1, <3>2, <3>4 DEF Await, MaxLen
    <3>5. CASE Len(r) >= 5
      BY <3>1, <3>2, <3>3, <3>5 DEF Await, Plausible, HeaderOk, Complete, MaxLen
    <3>. QED  BY <3>1, <3>4, <3>5
  <2>. QED  BY <2>1, <2>2 DEF Next, vars, Drain, PumpSends, PumpSendsDamaged, Send
<1>. QED  BY <1>1, <1>2, Types, PTL DEF Spec

-----------------------------------------------------------------------------
(* Data without two 5C in a row survives the doubling and the squeeze.     *)

NoPairs(s) == \A n \in 2..Len(s) : ~(s[n - 1] = Start /\ s[n] = Start)

Begins(t, u) == Len(t) <= Len(u) /\ \A i \in 1..Len(t) : u[i] = t[i]

LEMMA SentFacts ==
  ASSUME NEW t \in Seq(Byte), NEW b \in Byte
  PROVE  LET u == t \o Sent(b)
             m == Len(t)
         IN  /\ m \in Nat /\ Len(u) \in Nat /\ Len(u) = IF b = Start THEN m + 2 ELSE m + 1
             /\ Begins(t, u)
             /\ u[m + 1] = b /\ u[Len(u)] = b
<1>. DEFINE u == t \o Sent(b)
<1>1. Len(t) \in Nat
  BY LenProperties
<1>2. CASE b = Start
  <2>1. Sent(b) \in Seq(Byte) /\ Len(Sent(b)) = 2 /\ Sent(b)[1] = b /\ Sent(b)[2] = b
    BY <1>2 DEF Sent
  <2>2. /\ Len(u) = Len(t) + 2
        /\ \A i \in 1..Len(t) + 2 : u[i] = IF i <= Len(t) THEN t[i] ELSE Sent(b)[i - Len(t)]
    <3>. DEFINE e == Sent(b)
    <3>1. e \in Seq(Byte) /\ Len(e) = 2
      BY <2>1
    <3>. HIDE DEF e
    <3>2. /\ Len(t \o e) = Len(t) + Len(e)
          /\ \A i \in 1..Len(t) + Len(e) : (t \o e)[i] = IF i <= Len(t) THEN t[i] ELSE e[i - Len(t)]
      BY <3>1, ConcatProperties
    <3>3. /\ Len(t \o e) = Len(t) + 2
          /\ \A i \in 1..Len(t) + 2 : (t \o e)[i] = IF i <= Len(t) THEN t[i] ELSE e[i - Len(t)]
      BY <3>1, <3>2
    <3>. QED  BY <3>3 DEF e
  <2>. HIDE DEF u
  <2>3. u[Len(t) + 1] = b /\ u[Len(t) + 2] = b
    BY <1>1, <2>1, <2>2
  <2>4. Begins(t, u)
    BY <1>1, <2>2 DEF Begins
  <2>. QED  BY <1>1, <1>2, <2>2, <2>3, <2>4 DEF u
<1>3. CASE b # Start
  <2>1. Sent(b) \in Seq(Byte) /\ Len(Sent(b)) = 1 /\ Sent(b)[1] = b
    BY <1>3 DEF Sent
  <2>2. /\ Len(u) = Len(t) + 1
        /\ \A i \in 1..Len(t) + 1 : u[i] = IF i <= Len(t) THEN t[i] ELSE Sent(b)[i - Len(t)]
    <3>. DEFINE e == Sent(b)
    <3>1. e \in Seq(Byte) /\ Len(e) = 1
      BY <2>1
    <3>. HIDE DEF e
    <3>2. /\ Len(t \o e) = Len(t) + Len(e)
          /\ \A i \in 1..Len(t) + Len(e) : (t \o e)[i] = IF i <= Len(t) THEN t[i] ELSE e[i - Len(t)]
      BY <3>1, ConcatProperties
    <3>3. /\ Len(t \o e) = Len(t) + 1
          /\ \A i \in 1..Len(t) + 1 : (t \o e)[i] = IF i <= Len(t) THEN t[i] ELSE e[i - Len(t)]
      BY <3>1, <3>2
    <3>. QED  BY <3>3 DEF e
  <2>. HIDE DEF u
  <2>3. u[Len(t) + 1] = b
    BY <1>1, <2>1, <2>2
  <2>4. Begins(t, u)
    BY <1>1, <2>2 DEF Begins
  <2>. QED  BY <1>1, <1>3, <2>2, <2>3, <2>4 DEF u
<1>. QED  BY <1>2, <1>3

LEMMA EscapedBegins ==
  ASSUME NEW s \in Seq(Byte), NEW e, EscapedUpTo(e, s),
         \A n \in 0..Len(s) : e[n] \in Seq(Byte)
  PROVE  \A n \in 0..Len(s) : Begins(e[n], e[Len(s)])
<1>. DEFINE T == {k \in Nat : k <= Len(s) => \A n \in 0..k : Begins(e[n], e[k])}
<1>1. Len(s) \in Nat /\ \A n \in 0..Len(s) : Len(e[n]) \in Nat
  BY LenProperties
<1>2. 0 \in T
  BY <1>1 DEF Begins
<1>3. ASSUME NEW k \in Nat, k \in T PROVE k + 1 \in T
  <2>. SUFFICES ASSUME k + 1 <= Len(s), NEW n \in 0..k + 1 PROVE Begins(e[n], e[k + 1])
    OBVIOUS
  <2>1. s[k + 1] \in Byte /\ e[k] \in Seq(Byte) /\ e[k + 1] = e[k] \o Sent(s[k + 1])
    <3>1. k + 1 \in 1..Len(s) /\ k \in 0..Len(s) /\ (k + 1) - 1 = k
      BY <1>1
    <3>. QED  BY <3>1, ElementOfSeq DEF EscapedUpTo
  <2>2. Begins(e[k], e[k + 1])
    BY <2>1, SentFacts
  <2>3. CASE n = k + 1
    BY <1>1, <2>3 DEF Begins
  <2>4. CASE n <= k
    <3>1. Begins(e[n], e[k])
      BY <1>3, <2>4
    <3>2. Len(e[n]) \in Nat /\ Len(e[k]) \in Nat /\ Len(e[k + 1]) \in Nat
      BY <1>1, <2>4
    <3>. QED  BY <2>2, <3>1, <3>2 DEF Begins
  <2>. QED  BY <2>3, <2>4
<1>4. Len(s) \in T
  <2>. HIDE DEF T
  <2>. QED  BY <1>1, <1>2, <1>3, SetInduction
<1>. QED  BY <1>1, <1>4

LEMMA OneLonger ==
  ASSUME NEW s \in Seq(Byte), NEW n \in Nat, n + 1 <= Len(s)
  PROVE  SubSeq(s, 1, n + 1) = Append(SubSeq(s, 1, n), s[n + 1])
<1>1. Len(s) \in Nat
  BY LenProperties
<1>2. 1 \in 1..Len(s) /\ n + 1 \in 1..Len(s) /\ (n + 1) - 1 = n
  BY <1>1
<1>3. SubSeq(s, 1, n + 1) = SubSeq(s, 1, n) \o <<s[n + 1]>>
  BY <1>2, SubSeqRecursiveSecond
<1>4. SubSeq(s, 1, n) \in Seq(Byte) /\ s[n + 1] \in Byte
  BY <1>1, <1>2, Part, ElementOfSeq
<1>. QED  BY <1>3, <1>4, AppendIsConcat

(* The squeeze of loop() undoes the pump's doubling, if no two bytes of    *)
(* the data in a row are 5C.                                               *)
THEOREM SqueezeRestores ==
  ASSUME NEW s \in Seq(Byte), NoPairs(s)
  PROVE  Squeezed(Escaped(s)) = s
<1>1. PICK e : /\ EscapedUpTo(e, s) /\ Escaped(s) = e[Len(s)]
               /\ \A n \in 0..Len(s) : e[n] \in Seq(Byte)
  BY EscapeSteps
<1>. DEFINE E == Escaped(s)
<1>2. E \in Seq(Byte) /\ Len(s) \in Nat
  BY EscapedIsBytes, LenProperties
<1>3. PICK d : /\ SqueezedUpTo(d, E) /\ Squeezed(E) = d[Len(E)]
               /\ \A n \in 0..Len(E) : d[n] \in Seq(Byte)
  BY <1>2, SqueezeSteps
<1>4. \A n \in 0..Len(s) : Begins(e[n], E) /\ Len(e[n]) \in Nat
  BY <1>1, EscapedBegins, LenProperties
<1>5. Len(E) \in Nat
  BY <1>2, LenProperties
<1>. HIDE DEF E
<1>. DEFINE Holds(n) == /\ d[Len(e[n])] = SubSeq(s, 1, n)
                        /\ Len(e[n]) = 0 <=> n = 0
                        /\ n > 0 => e[n][Len(e[n])] = s[n]
            T == {n \in Nat : n <= Len(s) => Holds(n)}
<1>6. 0 \in T
  <2>1. e[0] = <<>> /\ d[0] = <<>> /\ SubSeq(s, 1, 0) = <<>>
    BY <1>1, <1>3, SubSeqEmpty DEF EscapedUpTo, SqueezedUpTo
  <2>2. Len(e[0]) = 0 /\ d[Len(e[0])] = SubSeq(s, 1, 0)
    BY <2>1, EmptySeq
  <2>. QED  BY <2>2
<1>7. ASSUME NEW n \in Nat, n \in T PROVE n + 1 \in T
  <2>. SUFFICES ASSUME n + 1 <= Len(s) PROVE Holds(n + 1)
    OBVIOUS
  <2>. DEFINE m == Len(e[n])
              x == s[n + 1]
              u == e[n + 1]
  <2>1. Holds(n)
    BY <1>7
  <2>. HIDE DEF Holds
  <2>2. /\ n \in 0..Len(s) /\ n + 1 \in 0..Len(s) /\ n + 1 \in 1..Len(s)
        /\ (n + 1) - 1 = n
    BY <1>2
  <2>3. e[n] \in Seq(Byte) /\ x \in Byte /\ u = e[n] \o Sent(x)
    BY <1>1, <2>2, ElementOfSeq DEF EscapedUpTo
  <2>. HIDE DEF x, u
  <2>4. /\ m \in Nat /\ Len(u) \in Nat /\ Len(u) = (IF x = Start THEN m + 2 ELSE m + 1)
        /\ Begins(e[n], u) /\ u[m + 1] = x /\ u[Len(u)] = x
    BY <2>3, SentFacts
  <2>5. Len(u) <= Len(E) /\ \A i \in 1..Len(u) : E[i] = u[i]
    BY <1>4, <2>2 DEF Begins, u
  <2>. HIDE DEF m
  <2>6. m + 1 \in 1..Len(E) /\ (m + 1) - 1 = m /\ E[m + 1] = x
    BY <1>5, <2>4, <2>5
  <2>7. d[m + 1] = Append(d[m], x)
    <3>1. ~(m + 1 > 1 /\ E[m + 1] = Start /\ E[m] = Start)
      <4>. SUFFICES ASSUME m + 1 > 1, x = Start, E[m] = Start PROVE FALSE
        BY <2>6
      <4>1. n > 0 /\ e[n][m] = s[n] /\ m \in 1..Len(e[n])
        BY <2>1, <2>4 DEF Holds, m
      <4>2. E[m] = s[n]
        BY <1>4, <2>2, <4>1 DEF Begins
      <4>3. n + 1 \in 2..Len(s)
        BY <1>2, <4>1
      <4>. QED  BY <2>2, <4>2, <4>3 DEF NoPairs, x
    <3>. QED  BY <1>3, <2>6, <3>1 DEF SqueezedUpTo
  <2>8. d[Len(u)] = d[m + 1]
    <3>1. CASE x # Start
      BY <2>4, <3>1
    <3>2. CASE x = Start
      <4>1. /\ Len(u) = m + 2 /\ m + 2 \in 1..Len(E) /\ m + 2 \in 1..Len(u)
            /\ (m + 2) - 1 = m + 1 /\ m + 2 > 1
        BY <1>5, <2>4, <2>5, <3>2
      <4>2. E[m + 2] = Start /\ E[m + 1] = Start
        BY <2>4, <2>5, <2>6, <3>2, <4>1
      <4>. QED  BY <1>3, <4>1, <4>2 DEF SqueezedUpTo
    <3>. QED  BY <3>1, <3>2
  <2>9. d[Len(u)] = SubSeq(s, 1, n + 1)
    BY <2>1, <2>7, <2>8, OneLonger DEF Holds, m, x
  <2>10. Len(u) # 0 /\ u[Len(u)] = s[n + 1]
    BY <2>4 DEF x
  <2>. QED  BY <2>2, <2>9, <2>10 DEF Holds, u
<1>8. Holds(Len(s))
  <2>1. Len(s) \in T
    <3>. HIDE DEF T
    <3>. QED  BY <1>2, <1>6, <1>7, SetInduction
  <2>. HIDE DEF Holds
  <2>. QED  BY <1>2, <2>1
<1>9. d[Len(E)] = SubSeq(s, 1, Len(s))
  BY <1>1, <1>8 DEF E
<1>. QED  BY <1>3, <1>9, SubSeqFull DEF E

-----------------------------------------------------------------------------
(* Undamaged frames in a row.                                              *)

Idx == 1..Len(Messages)
Wire(i) == OnWire(Messages[i])

Runs == Seq(Byte) \X Idx \X Idx

Closed(R) ==
  /\ \A i \in Idx : <<<<>>, i, i>> \in R
  /\ \A u \in Seq(Byte), i, j \in Idx :
       <<u, i, j>> \in R => <<u \o Wire(j), i, Following(j)>> \in R

\* <<u, i, j>>: u is the frames of the messages from i on, up to the one
\* before j.  It is the least set that holds the empty runs and is closed
\* under one more frame at the end.
Framed == {t \in Runs : \A R \in SUBSET Runs : Closed(R) => t \in R}

LEMMA WireFacts ==
  ASSUME NEW i \in Idx
  PROVE  /\ Wire(i) \in Seq(Byte) /\ Len(Wire(i)) \in Nat /\ Len(Wire(i)) >= 6
         /\ Following(i) \in Idx
<1>1. /\ Messages[i] \in [to : Byte, cmd : Byte, data : Seq(Byte)]
      /\ Len(Escaped(Messages[i].data)) <= MaxLen /\ Following(i) \in Idx
  BY Messaging DEF Idx
<1>2. Len(Escaped(Messages[i].data)) \in Nat
  BY <1>1, EscapedIsBytes, LenProperties
<1>. QED  BY <1>1, <1>2, OnWireFacts DEF Wire

LEMMA FramedIsClosed == Closed(Framed)
<1>1. \A i \in Idx : <<<<>>, i, i>> \in Framed
  BY EmptySeq DEF Framed, Runs, Closed
<1>2. ASSUME NEW u \in Seq(Byte), NEW i \in Idx, NEW j \in Idx, <<u, i, j>> \in Framed
      PROVE  <<u \o Wire(j), i, Following(j)>> \in Framed
  <2>1. <<u \o Wire(j), i, Following(j)>> \in Runs
    BY WireFacts, ConcatProperties DEF Runs
  <2>2. ASSUME NEW R \in SUBSET Runs, Closed(R)
        PROVE  <<u \o Wire(j), i, Following(j)>> \in R
    <3>1. <<u, i, j>> \in R
      BY <1>2, <2>2 DEF Framed
    <3>. QED  BY <2>2, <3>1 DEF Closed
  <2>. QED  BY <2>1, <2>2 DEF Framed
<1>. QED  BY <1>1, <1>2 DEF Closed

\* A run is empty or begins with the frame of its first message.
LEMMA FirstOfFramed ==
  ASSUME NEW u \in Seq(Byte), NEW i \in Idx, NEW j \in Idx, <<u, i, j>> \in Framed
  PROVE  \/ u = <<>> /\ i = j
         \/ \E v \in Seq(Byte) : u = Wire(i) \o v /\ <<v, Following(i), j>> \in Framed
<1>. DEFINE Cases(x, k, l) ==
              \/ x = <<>> /\ k = l
              \/ \E v \in Seq(Byte) : x = Wire(k) \o v /\ <<v, Following(k), l>> \in Framed
            G == {t \in Framed : Cases(t[1], t[2], t[3])}
<1>1. G \in SUBSET Runs
  BY DEF Framed
<1>2. \A k \in Idx : <<<<>>, k, k>> \in G
  BY FramedIsClosed DEF Closed
<1>3. ASSUME NEW x \in Seq(Byte), NEW k \in Idx, NEW l \in Idx, <<x, k, l>> \in G
      PROVE  <<x \o Wire(l), k, Following(l)>> \in G
  <2>1. /\ Wire(k) \in Seq(Byte) /\ Wire(l) \in Seq(Byte)
        /\ Following(k) \in Idx /\ Following(l) \in Idx
    BY WireFacts
  <2>2. <<x \o Wire(l), k, Following(l)>> \in Framed
    BY <1>3, FramedIsClosed DEF Closed
  <2>3. Cases(x \o Wire(l), k, Following(l))
    <3>1. CASE x = <<>> /\ k = l
      <4>1. x \o Wire(l) = Wire(k) \o <<>> /\ <<>> \in Seq(Byte)
        BY <2>1, <3>1, ConcatEmptySeq, EmptySeq
      <4>2. <<<<>>, Following(k), Following(l)>> \in Framed
        BY <2>1, <3>1, FramedIsClosed DEF Closed
      <4>. QED  BY <4>1, <4>2
    <3>2. ASSUME NEW v \in Seq(Byte), x = Wire(k) \o v, <<v, Following(k), l>> \in Framed
          PROVE  Cases(x \o Wire(l), k, Following(l))
      <4>1. x \o Wire(l) = Wire(k) \o (v \o Wire(l)) /\ v \o Wire(l) \in Seq(Byte)
        <5>. DEFINE p == Wire(k)
                    q == Wire(l)
        <5>1. p \in Seq(Byte) /\ q \in Seq(Byte)
          BY <2>1
        <5>. HIDE DEF p, q
        <5>2. (p \o v) \o q = p \o (v \o q)
          BY SMTT(30), <5>1, ConcatAssociative
        <5>3. v \o q \in Seq(Byte)
          BY <5>1, ConcatProperties
        <5>. QED  BY <3>2, <5>2, <5>3 DEF p, q
      <4>2. <<v \o Wire(l), Following(k), Following(l)>> \in Framed
        BY <2>1, <3>2, FramedIsClosed DEF Closed
      <4>. QED  BY <4>1, <4>2
    <3>3. Cases(x, k, l)
      BY <1>3
    <3>. QED  BY <3>1, <3>2, <3>3
  <2>. HIDE DEF Cases
  <2>. QED  BY <2>2, <2>3
<1>4. Closed(G)
  <2>. HIDE DEF G
  <2>. QED  BY <1>2, <1>3 DEF Closed
<1>5. <<u, i, j>> \in G
  <2>. HIDE DEF G
  <2>. QED  BY <1>1, <1>4 DEF Framed
<1>. QED  BY <1>5

-----------------------------------------------------------------------------
(* The same bytes, cut in two at two places.                               *)

\* What a holds beyond the length of w.
Beyond(a, w) == SubSeq(a, Len(w) + 1, Len(a))

Covers(a, b, w, v) ==
  /\ a \in Seq(Byte) /\ b \in Seq(Byte) /\ w \in Seq(Byte) /\ v \in Seq(Byte)
  /\ a \o b = w \o v /\ Len(a) >= Len(w)

LEMMA CutLater ==
  ASSUME NEW a, NEW b, NEW w, NEW v, Covers(a, b, w, v)
  PROVE  /\ Beyond(a, w) \in Seq(Byte)
         /\ v = Beyond(a, w) \o b
         /\ \A i \in 1..Len(w) : a[i] = w[i]
<1>. DEFINE rest == SubSeq(a, Len(w) + 1, Len(a))
<1>. /\ a \in Seq(Byte) /\ b \in Seq(Byte) /\ w \in Seq(Byte) /\ v \in Seq(Byte)
     /\ a \o b = w \o v /\ Len(a) >= Len(w)
  BY DEF Covers
<1>1. Len(a) \in Nat /\ Len(b) \in Nat /\ Len(w) \in Nat /\ Len(v) \in Nat
  BY LenProperties
<1>2. /\ Len(a) + Len(b) = Len(w) + Len(v)
      /\ \A i \in 1..Len(a) + Len(b) : (a \o b)[i] = IF i <= Len(a) THEN a[i] ELSE b[i - Len(a)]
      /\ \A i \in 1..Len(w) + Len(v) : (a \o b)[i] = IF i <= Len(w) THEN w[i] ELSE v[i - Len(w)]
  BY ConcatProperties
<1>3. /\ rest \in Seq(Byte) /\ Len(rest) = Len(a) - Len(w)
      /\ \A i \in 1..Len(a) - Len(w) : rest[i] = a[Len(w) + i]
  <2>1. /\ Len(w) + 1 \in Nat /\ Len(w) + 1 >= 1 /\ Len(a) - (Len(w) + 1) + 1 = Len(a) - Len(w)
        /\ \A i \in 1..Len(a) - Len(w) : Len(w) + 1 + i - 1 = Len(w) + i
    BY <1>1
  <2>2. /\ rest \in Seq(Byte)
        /\ Len(rest) = IF Len(w) + 1 <= Len(a) THEN Len(a) - (Len(w) + 1) + 1 ELSE 0
        /\ \A i \in 1..Len(a) - (Len(w) + 1) + 1 : rest[i] = a[Len(w) + 1 + i - 1]
    BY <1>1, <2>1, Part
  <2>. HIDE DEF rest
  <2>3. Len(rest) = Len(a) - Len(w)
    BY <1>1, <2>2
  <2>4. ASSUME NEW i \in 1..Len(a) - Len(w) PROVE rest[i] = a[Len(w) + i]
    <3>1. i \in 1..Len(a) - (Len(w) + 1) + 1 /\ Len(w) + 1 + i - 1 = Len(w) + i
      BY <2>1
    <3>. QED  BY <2>2, <3>1
  <2>. QED  BY <2>2, <2>3, <2>4
<1>. HIDE DEF rest
<1>4. /\ rest \o b \in Seq(Byte) /\ Len(rest \o b) = Len(a) - Len(w) + Len(b)
      /\ \A i \in 1..Len(a) - Len(w) + Len(b) :
           (rest \o b)[i] = IF i <= Len(a) - Len(w) THEN rest[i] ELSE b[i - (Len(a) - Len(w))]
  BY SMTT(30), <1>1, <1>3, ConcatProperties
<1>5. ASSUME NEW i \in 1..Len(v) PROVE v[i] = (rest \o b)[i]
  <2>1. /\ Len(w) + i \in 1..Len(a) + Len(b) /\ ~(Len(w) + i <= Len(w))
        /\ (Len(w) + i) - Len(w) = i /\ i \in 1..Len(a) - Len(w) + Len(b)
    BY <1>1, <1>2
  <2>2. v[i] = (a \o b)[Len(w) + i]
    BY <1>2, <2>1
  <2>3. CASE i <= Len(a) - Len(w)
    BY <1>1, <1>2, <1>3, <1>4, <2>1, <2>2, <2>3
  <2>4. CASE ~(i <= Len(a) - Len(w))
    <3>1. ~(Len(w) + i <= Len(a)) /\ (Len(w) + i) - Len(a) = i - (Len(a) - Len(w))
      BY <1>1, <2>4
    <3>. QED  BY <1>2, <1>4, <2>1, <2>2, <2>4, <3>1
  <2>. QED  BY <2>3, <2>4
<1>6. v = rest \o b
  <2>1. Len(v) = Len(rest \o b)
    BY <1>1, <1>2, <1>4
  <2>. QED  BY <1>4, <1>5, <2>1, SeqEqual
<1>7. \A i \in 1..Len(w) : a[i] = w[i]
  BY <1>1, <1>2
<1>. QED  BY <1>3, <1>6, <1>7 DEF rest, Beyond

LEMMA CutSooner ==
  ASSUME NEW a \in Seq(Byte), NEW b \in Seq(Byte), NEW w \in Seq(Byte), NEW v \in Seq(Byte),
         a \o b = w \o v, Len(a) < Len(w)
  PROVE  \A i \in 1..Len(a) : a[i] = w[i]
<1>1. Len(a) \in Nat /\ Len(b) \in Nat /\ Len(w) \in Nat /\ Len(v) \in Nat
  BY LenProperties
<1>2. /\ Len(a) + Len(b) = Len(w) + Len(v)
      /\ \A i \in 1..Len(a) + Len(b) : (a \o b)[i] = IF i <= Len(a) THEN a[i] ELSE b[i - Len(a)]
      /\ \A i \in 1..Len(w) + Len(v) : (a \o b)[i] = IF i <= Len(w) THEN w[i] ELSE v[i - Len(w)]
  BY ConcatProperties
<1>. QED  BY <1>1, <1>2

-----------------------------------------------------------------------------
(* What the scan does with a frame, whole or in part, at the front of rx_. *)

LEMMA PartOfFrame ==
  ASSUME NEW i \in Idx, NEW r \in Seq(Byte), Len(r) < Len(Wire(i)),
         \A n \in 1..Len(r) : r[n] = Wire(i)[n]
  PROVE  /\ ~Reject(r) /\ ~HandOver(r)
         /\ r # <<>> => r[1] = Start
<1>. DEFINE e == Escaped(Messages[i].data)
            w == Wire(i)
<1>1. /\ Messages[i] \in [to : Byte, cmd : Byte, data : Seq(Byte)] /\ Len(e) <= MaxLen
  BY Messaging DEF Idx
<1>2. w[1] = Start /\ w[2] = 0 /\ w[5] = Len(e) /\ Len(w) = Len(e) + 6
  BY <1>1, OnWireFacts DEF Wire
<1>3. Len(r) \in Nat
  BY LenProperties
<1>4. Len(e) \in Nat
  BY <1>1, EscapedIsBytes, LenProperties
<1>. HIDE DEF e, w
<1>5. ASSUME Len(r) >= 5 PROVE Plausible(r) /\ ~Complete(r)
  <2>1. r[2] = 0 /\ LenField(r) = Len(e)
    BY <1>2, <1>3, <1>5 DEF LenField, w
  <2>. QED  BY <1>1, <1>2, <1>3, <1>4, <2>1 DEF Plausible, HeaderOk, Complete, w
<1>6. r # <<>> => r[1] = Start
  BY <1>2, EmptySeq DEF w
<1>. QED  BY <1>5, <1>6 DEF Reject, HandOver

LEMMA WholeFrame ==
  ASSUME NEW i \in Idx, NoPairs(Messages[i].data),
         NEW r \in Seq(Byte), Len(r) >= Len(Wire(i)),
         \A n \in 1..Len(Wire(i)) : r[n] = Wire(i)[n]
  PROVE  /\ Len(r) >= 5 /\ Plausible(r) /\ Complete(r)
         /\ Received(r) = Messages[i]
         /\ LenField(r) + 7 = Len(Wire(i)) + 1
         /\ r[1] = Start
<1>. DEFINE m == Messages[i]
            e == Escaped(m.data)
            w == Wire(i)
<1>1. m \in [to : Byte, cmd : Byte, data : Seq(Byte)] /\ Len(e) <= MaxLen
  BY Messaging DEF Idx
<1>2. /\ w \in Seq(Byte) /\ Len(w) = Len(e) + 6
      /\ w[1] = Start /\ w[2] = 0 /\ w[3] = m.to /\ w[4] = m.cmd /\ w[5] = Len(e)
      /\ SubSeq(w, 6, Len(e) + 5) = e
      /\ SumOk(Sum(SubSeq(w, 3, Len(e) + 5)), w[Len(e) + 6])
  BY <1>1, OnWireFacts DEF Wire
<1>3. Len(r) \in Nat /\ Len(e) \in Nat
  BY <1>1, EscapedIsBytes, LenProperties
<1>4. Squeezed(e) = m.data
  BY <1>1, SqueezeRestores
<1>. HIDE DEF e, w, m
<1>5. \A n \in 1..Len(e) + 6 : r[n] = w[n]
  BY <1>2 DEF w
<1>6. r[1] = Start /\ r[2] = 0 /\ r[3] = m.to /\ r[4] = m.cmd /\ r[5] = Len(e)
  BY <1>2, <1>3, <1>5
<1>7. Len(r) >= Len(e) + 6
  BY <1>2 DEF w
<1>8. LenField(r) = Len(e)
  BY <1>6 DEF LenField
<1>9. ASSUME NEW f \in {3, 6} PROVE SubSeq(r, f, Len(e) + 5) = SubSeq(w, f, Len(e) + 5)
  <2>1. /\ f \in Nat /\ f >= 1 /\ Len(e) + 5 \in Int
        /\ Len(e) + 5 <= Len(r) /\ Len(e) + 5 <= Len(w)
    BY <1>2, <1>3, <1>7
  <2>2. /\ SubSeq(r, f, Len(e) + 5) \in Seq(Byte)
        /\ Len(SubSeq(r, f, Len(e) + 5)) = IF f <= Len(e) + 5 THEN Len(e) + 5 - f + 1 ELSE 0
        /\ \A n \in 1..Len(e) + 5 - f + 1 : SubSeq(r, f, Len(e) + 5)[n] = r[f + n - 1]
    BY <2>1, Part
  <2>3. /\ SubSeq(w, f, Len(e) + 5) \in Seq(Byte)
        /\ Len(SubSeq(w, f, Len(e) + 5)) = IF f <= Len(e) + 5 THEN Len(e) + 5 - f + 1 ELSE 0
        /\ \A n \in 1..Len(e) + 5 - f + 1 : SubSeq(w, f, Len(e) + 5)[n] = w[f + n - 1]
    BY <1>2, <2>1, Part
  <2>4. ASSUME NEW n \in 1..Len(SubSeq(r, f, Len(e) + 5))
        PROVE  SubSeq(r, f, Len(e) + 5)[n] = SubSeq(w, f, Len(e) + 5)[n]
    <3>1. n \in 1..Len(e) + 5 - f + 1 /\ f + n - 1 \in 1..Len(e) + 6
      BY <1>3, <2>1, <2>2
    <3>. QED  BY <1>5, <2>2, <2>3, <3>1
  <2>. QED  BY <2>2, <2>3, <2>4, SeqEqual
<1>10. Complete(r) /\ Len(r) >= 5
  BY <1>3, <1>7, <1>8 DEF Complete
<1>11. Plausible(r)
  <2>1. ChecksumOk(r)
    <3>1. Len(e) + 6 \in 1..Len(e) + 6
      BY <1>3
    <3>2. SubSeq(r, 3, Len(e) + 5) = SubSeq(w, 3, Len(e) + 5)
      BY <1>9
    <3>3. r[Len(e) + 6] = w[Len(e) + 6]
      BY <1>5, <3>1
    <3>. QED  BY <1>2, <1>8, <3>2, <3>3 DEF ChecksumOk
  <2>. QED  BY <1>1, <1>6, <1>8, <2>1 DEF Plausible, HeaderOk, e, m
<1>12. Received(r) = m
  <2>1. Squeezed(SubSeq(r, 6, LenField(r) + 5)) = m.data
    BY <1>2, <1>4, <1>8, <1>9
  <2>. QED  BY <1>1, <1>6, <2>1 DEF Received
<1>13. LenField(r) + 7 = Len(w) + 1
  BY <1>2, <1>3, <1>8
<1>. QED  BY <1>6, <1>10, <1>11, <1>12, <1>13 DEF m, w

-----------------------------------------------------------------------------
(* On an undamaged line.                                                   *)

Sound ==
  /\ LineCap + MaxLen + 5 <= RxCap
  /\ \A i \in Idx : NoPairs(Messages[i].data)

Ahead == Following(count)

\* The bytes not yet handed over are the frames from the next message on, and
\* between calls of loop() no whole frame waits in rx_.
CleanInv ==
  damaged = 0 =>
    /\ <<rx \o line, Ahead, turn>> \in Framed
    /\ last = Messages[count]
    /\ ~scanning /\ rx \o line # <<>> => Len(rx) < Len(Wire(Ahead))

LEMMA TypesUsed ==
  ASSUME TypeOK
  PROVE  /\ rx \in Seq(Byte) /\ line \in Seq(Byte) /\ rx \o line \in Seq(Byte)
         /\ Len(rx) \in Nat /\ Len(line) \in Nat
         /\ count \in Idx /\ turn \in Idx /\ Ahead \in Idx
  BY Messaging, LenProperties, ConcatProperties DEF TypeOK, Idx, Ahead

LEMMA InitClean == Init => CleanInv
<1>. SUFFICES ASSUME Init PROVE CleanInv
  OBVIOUS
<1>1. Len(Messages) \in Nat \ {0} /\ 1 \in Idx
  BY Messaging DEF Idx
<1>2. Ahead = 1 /\ turn = 1
  BY <1>1 DEF Init, Ahead, Following
<1>3. rx \o line = <<>>
  BY EmptySeq, ConcatEmptySeq DEF Init
<1>4. <<<<>>, 1, 1>> \in Framed
  BY <1>1, FramedIsClosed DEF Closed
<1>. QED  BY <1>2, <1>3, <1>4 DEF Init, CleanInv

LEMMA DrainClean ==
  ASSUME Sound, TypeOK, BufferBounded, CleanInv, NEW k \in 0..Len(line), Drain(k)
  PROVE  CleanInv'
<1>. DEFINE now   == SubSeq(line, 1, k)
            later == SubSeq(line, k + 1, Len(line))
<1>1. /\ rx \in Seq(Byte) /\ line \in Seq(Byte) /\ Len(rx) \in Nat /\ Len(line) \in Nat /\ k \in Nat
  BY TypesUsed
<1>2. now \in Seq(Byte) /\ Len(now) = k
  BY <1>1, Part
<1>3. later \in Seq(Byte)
  <2>1. k + 1 \in Nat /\ k + 1 >= 1
    BY <1>1
  <2>. QED  BY <1>1, <2>1, Part
<1>4. now \o later = line
  <2>1. 1 \in 1..Len(line) + 1 /\ k \in 1 - 1..Len(line) /\ Len(line) \in k..Len(line)
    BY <1>1
  <2>. QED  BY <1>1, <2>1, ConcatAdjacentSubSeq, SubSeqFull
<1>. HIDE DEF now, later
<1>5. rx' = rx \o now
  <2>1. rx \o now \in Seq(Byte) /\ Len(rx \o now) = Len(rx) + k
    BY <1>1, <1>2, ConcatProperties
  <2>2. Len(rx) < MaxLen + 6 /\ k <= LineCap /\ LineCap \in Nat
    BY <1>1, FramingAssumption DEF BufferBounded, Drain, TypeOK
  <2>3. Len(rx \o now) <= RxCap /\ RxCap \in Nat
    BY <1>1, <2>1, <2>2 DEF Sound, MaxLen, RxCap
  <2>. QED  BY <2>1, <2>3, NewestFacts DEF Drain, now
<1>6. line' = later /\ scanning' = TRUE
  BY DEF Drain, later
<1>7. rx' \o line' = rx \o line
  <2>1. (rx \o now) \o later = rx \o (now \o later)
    <3>1. rx \in Seq(Byte) /\ now \in Seq(Byte) /\ later \in Seq(Byte)
      BY <1>1, <1>2, <1>3
    <3>. QED  BY SMTT(30), <3>1, ConcatAssociative
  <2>. QED  BY <1>4, <1>5, <1>6, <2>1
<1>. QED  BY <1>6, <1>7 DEF CleanInv, Drain, Ahead

LEMMA ScanClean == ASSUME Sound, TypeOK, CleanInv, Scan PROVE CleanInv'
<1>. SUFFICES ASSUME damaged = 0
              PROVE  /\ <<rx' \o line', Ahead', turn'>> \in Framed
                     /\ last' = Messages[count']
                     /\ ~scanning' /\ rx' \o line' # <<>> => Len(rx') < Len(Wire(Ahead'))
  BY DEF CleanInv, Scan
<1>. DEFINE r == Aligned(rx)
            w == Wire(Ahead)
<1>1. /\ rx \in Seq(Byte) /\ line \in Seq(Byte) /\ rx \o line \in Seq(Byte)
      /\ Len(rx) \in Nat /\ count \in Idx /\ turn \in Idx /\ Ahead \in Idx
  BY TypesUsed
<1>2. w \in Seq(Byte) /\ Len(w) \in Nat /\ Len(w) >= 6 /\ Following(Ahead) \in Idx
  BY <1>1, WireFacts
<1>3. <<rx \o line, Ahead, turn>> \in Framed /\ last = Messages[count]
  BY DEF CleanInv
<1>4. line' = line /\ turn' = turn
  BY DEF Scan
<1>5. CASE rx = <<>>
  <2>1. r = <<>> /\ Len(r) = 0
    BY <1>5, AlignedFacts, EmptySeq
  <2>2. Await(r)
    BY <2>1 DEF Scan, Reject, HandOver
  <2>3. rx' = rx /\ Len(rx') = 0 /\ last' = last /\ count' = count
    BY <1>5, <2>1, <2>2 DEF Await
  <2>. QED  BY <1>2, <1>3, <1>4, <2>3 DEF Ahead
<1>6. CASE rx # <<>>
  <2>1. rx \o line # <<>>
    BY <1>1, <1>6, ConcatEqualIffEmpty
  <2>2. PICK v \in Seq(Byte) : rx \o line = w \o v /\ <<v, Following(Ahead), turn>> \in Framed
    BY <1>1, <1>3, <2>1, FirstOfFramed
  <2>. HIDE DEF w
  <2>3. CASE Len(rx) < Len(w)
    <3>1. \A n \in 1..Len(rx) : rx[n] = w[n]
      BY ZenonT(30), <1>1, <1>2, <2>2, <2>3, CutSooner
    <3>2. rx[1] = Start /\ ~Reject(rx) /\ ~HandOver(rx)
      BY <1>1, <1>6, <2>3, <3>1, PartOfFrame DEF w
    <3>3. r = rx
      BY <1>1, <1>6, <3>2, AlignedFacts
    <3>4. Await(rx)
      BY <3>2, <3>3 DEF Scan
    <3>. QED  BY <1>3, <1>4, <2>3, <3>4 DEF Await, Ahead, w
  <2>4. CASE Len(rx) >= Len(w)
    <3>. DEFINE rest == Beyond(rx, w)
    <3>1. rest \in Seq(Byte) /\ v = rest \o line /\ \A n \in 1..Len(w) : rx[n] = w[n]
      <4>1. Covers(rx, line, w, v)
        BY <1>1, <1>2, <2>2, <2>4 DEF Covers
      <4>. QED  BY <4>1, CutLater
    <3>2. /\ Len(rx) >= 5 /\ Plausible(rx) /\ Complete(rx) /\ rx[1] = Start
          /\ Received(rx) = Messages[Ahead] /\ LenField(rx) + 7 = Len(w) + 1
      BY <1>1, <2>4, <3>1, WholeFrame DEF w, Sound
    <3>3. r = rx
      BY <1>1, <1>6, <3>2, AlignedFacts
    <3>4. HandOver(rx)
      BY <3>2, <3>3 DEF Scan, Await, Reject
    <3>5. rx' = rest /\ last' = Messages[Ahead] /\ count' = Ahead /\ scanning' = scanning
      BY <3>2, <3>4 DEF HandOver, Ahead, Beyond
    <3>6. scanning'
      BY <3>5 DEF Scan
    <3>. QED  BY <1>4, <2>2, <3>1, <3>5, <3>6 DEF Ahead
  <2>. QED  BY <1>1, <1>2, <2>3, <2>4
<1>. QED  BY <1>5, <1>6

LEMMA PumpSendsClean == ASSUME TypeOK, CleanInv, PumpSends PROVE CleanInv'
<1>. SUFFICES ASSUME damaged = 0 PROVE CleanInv'
  BY DEF CleanInv, PumpSends
<1>. DEFINE w == Wire(turn)
<1>1. /\ rx \in Seq(Byte) /\ line \in Seq(Byte) /\ rx \o line \in Seq(Byte)
      /\ Len(rx) \in Nat /\ turn \in Idx /\ Ahead \in Idx
  BY TypesUsed
<1>2. w \in Seq(Byte) /\ Len(Wire(Ahead)) >= 6 /\ Len(Wire(Ahead)) \in Nat
  BY <1>1, WireFacts
<1>3. line' = line \o w /\ turn' = Following(turn) /\ rx' = rx /\ Ahead' = Ahead
  BY DEF PumpSends, Send, Wire, Ahead
<1>. HIDE DEF w
<1>4. rx' \o line' = (rx \o line) \o w
  BY SMTT(30), <1>1, <1>2, <1>3, ConcatAssociative
<1>5. <<rx' \o line', Ahead', turn'>> \in Framed
  BY <1>1, <1>3, <1>4, FramedIsClosed DEF Closed, CleanInv, w
<1>6. ASSUME ~scanning PROVE Len(rx) < Len(Wire(Ahead))
  <2>1. CASE rx \o line = <<>>
    <3>1. Len(rx) = 0
      BY <1>1, <2>1, ConcatEqualIffEmpty, EmptySeq
    <3>. QED  BY <1>2, <3>1
  <2>2. CASE rx \o line # <<>>
    BY <1>6, <2>2 DEF CleanInv
  <2>. QED  BY <2>1, <2>2
<1>. QED  BY <1>3, <1>5, <1>6 DEF CleanInv, PumpSends, Send

LEMMA NextClean ==
  ASSUME Sound, TypeOK, BufferBounded, CleanInv, [Next]_vars
  PROVE  CleanInv'
<1>1. CASE UNCHANGED vars
  BY <1>1 DEF vars, CleanInv, Ahead
<1>2. CASE PumpSendsDamaged
  BY <1>2 DEF PumpSendsDamaged, TypeOK, CleanInv
<1>. QED  BY <1>1, <1>2, DrainClean, ScanClean, PumpSendsClean DEF Next

LEMMA CleanMeansDelivered == ASSUME TypeOK, CleanInv PROVE CleanDelivery
<1>. SUFFICES ASSUME damaged = 0, line = <<>>, ~scanning PROVE Ahead = turn
  BY DEF CleanInv, CleanDelivery, Ahead
<1>1. /\ rx \in Seq(Byte) /\ Len(rx) \in Nat /\ turn \in Idx /\ Ahead \in Idx
  BY TypesUsed
<1>2. rx \o line = rx
  BY <1>1, ConcatEmptySeq
<1>3. ASSUME NEW v \in Seq(Byte), rx = Wire(Ahead) \o v PROVE FALSE
  <2>1. Wire(Ahead) \in Seq(Byte) /\ Len(Wire(Ahead)) \in Nat /\ Len(Wire(Ahead)) >= 6 /\ Len(v) \in Nat
    BY <1>1, WireFacts, LenProperties
  <2>2. Len(rx) = Len(Wire(Ahead)) + Len(v)
    BY <1>3, <2>1, ConcatProperties
  <2>3. rx # <<>>
    BY <2>1, <2>2, EmptySeq
  <2>. QED  BY <1>2, <2>1, <2>2, <2>3 DEF CleanInv
<1>4. <<rx, Ahead, turn>> \in Framed
  BY <1>2 DEF CleanInv
<1>. QED  BY <1>1, <1>3, <1>4, FirstOfFramed

(* On an undamaged line on_frame_() gets each of the pump's messages once, *)
(* in order and with its data, however the bytes are cut up into calls of  *)
(* loop(): for all messages that fit a frame and hold no two 5C in a row,  *)
(* if the UART holds no more than rx_ has room for beside a part of a      *)
(* frame.                                                                  *)
THEOREM Delivery ==
  ASSUME Sound
  PROVE  Spec => []CleanDelivery
<1>1. Init => CleanInv
  BY InitClean
<1>2. TypeOK /\ BufferBounded /\ CleanInv /\ [Next]_vars => CleanInv'
  BY NextClean
<1>3. TypeOK /\ CleanInv => CleanDelivery
  BY CleanMeansDelivered
<1>. QED  BY <1>1, <1>2, <1>3, Types, BufferStaysSmall, PTL DEF Spec
=============================================================================
