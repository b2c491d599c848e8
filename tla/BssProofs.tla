------------------------------- MODULE BssProofs -------------------------------
(***************************************************************************)
(* Proofs about Bss and Signal.  That the parsing is safe is proved for    *)
(* every buffer: not only the whole or cut elements that Init has, but any *)
(* sequence of bytes a driver may supply.                                  *)
(***************************************************************************)
EXTENDS Bss, SequenceTheorems, WellFoundedInduction, TLAPS

-----------------------------------------------------------------------------
(* The quality, for every value of the signal attribute. *)

\* The arithmetic of the rounding, of either value at a tie.
LEMMA Nearest ==
    ASSUME NEW n \in Int, 0 <= n, n <= 6000, NEW q \in Rounded(n)
    PROVE  q \in 0..100 /\ 60 * q - 30 <= n /\ n <= 60 * q + 30
<1>1. ASSUME NEW k \in {29, 30}, q = (n + k) \div 60
      PROVE  q \in Int /\ 60 * q <= n + k /\ n + k < 60 * q + 60
  BY <1>1, SMT
<1>2. \E k \in {29, 30} : q \in Int /\ 60 * q <= n + k /\ n + k < 60 * q + 60
  BY <1>1 DEF Rounded
<1> QED
  BY <1>2, SMT

LEMMA RoundingMonotone ==
    ASSUME NEW m \in Int, NEW n \in Int, NEW q \in Int, NEW r \in Int,
           m < n, 60 * q - 30 <= m, n <= 60 * r + 30
    PROVE  q <= r
BY SMT

\* The clamping of the signal, in sixtieths of a percent.
LEMMA ScaledValue ==
    ASSUME NEW s \in Int
    PROVE  /\ s < -10000 => Scaled(s) = 0
           /\ s > -4000 => Scaled(s) = 6000
           /\ s >= -10000 /\ s <= -4000 => Scaled(s) = s + 10000
<1> DEFINE c == Clamp(s, -10000, -4000)
<1>1. /\ s < -10000 => c = -10000
      /\ s > -4000 => c = -4000
      /\ s >= -10000 /\ s <= -4000 => c = s
  BY SMT DEF Clamp
<1>2. c \in Int /\ c + 4000 <= 0
  BY <1>1, SMT
<1> HIDE DEF c
<1>3. ASSUME NEW n \in Int, n <= 0 PROVE Abs(n) = 0 - n
  BY <1>3, SMT DEF Abs
<1>4. Abs(c + 4000) = 0 - (c + 4000)
  BY <1>2, <1>3, SMT
<1>5. Attenuation(s) = Abs(c + 4000)
  BY DEF Attenuation, c
<1>6. Scaled(s) = 6000 - Attenuation(s)
  BY DEF Scaled
<1>7. Attenuation(s) = 0 - (c + 4000)
  BY <1>4, <1>5
<1> QED
  BY <1>1, <1>2, <1>6, <1>7, SMT

LEMMA ScaledRange ==
    \A s \in Int : /\ Scaled(s) \in Int /\ 0 <= Scaled(s) /\ Scaled(s) <= 6000
                   /\ s <= -10000 => Scaled(s) = 0
                   /\ s >= -4000 => Scaled(s) = 6000
BY ScaledValue, SMT

LEMMA ScaledMonotone ==
    \A s, t \in Int : s < t =>
        \/ Scaled(s) < Scaled(t)
        \/ Scaled(s) = 0 /\ Scaled(t) = 0
        \/ Scaled(s) = 6000 /\ Scaled(t) = 6000
BY ScaledValue, SMT

\* The percentage is the rounded value: neither the second clamp nor the cast
\* to u8 of dbm_level_to_quality ever has anything to cut off.
THEOREM QualityIsRounded == \A s \in Int : Qualities(s) = Rounded(Scaled(s))
<1> SUFFICES ASSUME NEW s \in Int PROVE Qualities(s) = Rounded(Scaled(s))
  OBVIOUS
<1>1. \A q \in Rounded(Scaled(s)) : q \in 0..100
  BY ScaledRange, Nearest
<1>2. ASSUME NEW q \in 0..100 PROVE AsU8(Clamp(q, 0, 100)) = q
  <2>1. Clamp(q, 0, 100) = q /\ Clamp(q, 0, 255) = q
    BY SMT DEF Clamp
  <2> QED
    BY <2>1, Zenon DEF AsU8
<1>3. \A q \in Rounded(Scaled(s)) : AsU8(Clamp(q, 0, 100)) = q
  BY <1>1, <1>2, Zenon
<1>4. \A q : q \in Qualities(s) <=> \E p \in Rounded(Scaled(s)) : q = AsU8(Clamp(p, 0, 100))
  BY Zenon DEF Qualities
<1>5. ASSUME NEW q \in Qualities(s) PROVE q \in Rounded(Scaled(s))
  <2>1. PICK p \in Rounded(Scaled(s)) : q = AsU8(Clamp(p, 0, 100))
    BY <1>4, <1>5
  <2> QED
    BY <1>3, <2>1
<1>6. ASSUME NEW q \in Rounded(Scaled(s)) PROVE q \in Qualities(s)
  <2>1. q = AsU8(Clamp(q, 0, 100))
    BY <1>3
  <2> QED
    BY <1>4, <2>1
<1> QED
  BY <1>5, <1>6

\* What is known of a percentage without its rounding.
LEMMA QualityNear ==
    \A s \in Int : \A q \in Qualities(s) :
        q \in 0..100 /\ 60 * q - 30 <= Scaled(s) /\ Scaled(s) <= 60 * q + 30
BY QualityIsRounded, ScaledRange, Nearest

\* A stronger signal never gets a lower quality, rounding errors included: the
\* qualities of /scan do not contradict the signals they are made from.
THEOREM QualityMonotone ==
    \A s, t \in Int : \A q \in Qualities(s), r \in Qualities(t) : s < t => q <= r
<1> SUFFICES ASSUME NEW s \in Int, NEW t \in Int, NEW q \in Qualities(s),
                    NEW r \in Qualities(t), s < t
             PROVE  q <= r
  OBVIOUS
<1>1. /\ q \in Int /\ q >= 0 /\ q <= 100 /\ 60 * q - 30 <= Scaled(s) /\ Scaled(s) <= 60 * q + 30
      /\ r \in Int /\ r >= 0 /\ r <= 100 /\ 60 * r - 30 <= Scaled(t) /\ Scaled(t) <= 60 * r + 30
  BY QualityNear, SMT
<1>2. CASE Scaled(s) < Scaled(t)
  BY <1>1, <1>2, ScaledRange, RoundingMonotone, SMT
<1>3. CASE Scaled(s) = 0
  BY <1>1, <1>3, SMT
<1>4. CASE Scaled(t) = 6000
  BY <1>1, <1>4, SMT
<1> QED
  BY <1>2, <1>3, <1>4, ScaledMonotone

-----------------------------------------------------------------------------
(* The cursor and the station. *)

\* The attribute is a sequence of bytes, and nothing writes to it.
Bytes == buffer \in Seq(Nat)

\* extract_ssid is called for a message that has a signal.
Measured ==
    /\ signal # None => signal[1] \in Int
    /\ pc \in {"ssid", "station"} => signal # None

\* An element that is there is within the buffer, its two bytes included.
LEMMA WholeElement ==
    ASSUME Bytes, cursor \in 0..Len(buffer), HasElement
    PROVE  /\ Byte(1) \in Nat /\ Byte(2) \in Nat
           /\ cursor + 2 + Byte(2) \in cursor + 2..Len(buffer)
<1>1. Len(buffer) \in Nat /\ cursor \in Nat /\ Len(buffer) - cursor >= 2
  BY DEF Bytes, HasElement, Left
<1>2. cursor + 1 \in 1..Len(buffer) /\ cursor + 2 \in 1..Len(buffer)
  BY <1>1
<1>3. Byte(1) \in Nat /\ Byte(2) \in Nat
  BY <1>2 DEF Bytes, Byte
<1> QED
  BY <1>1, <1>3 DEF HasElement, Left

\* Message, a turn of the loop of extract_ssid, or the rest of the closure.
LEMMA TypeStep ==
    Bytes /\ Measured /\ TypeOK /\ [Next]_vars => Bytes' /\ Measured' /\ TypeOK'
<1> SUFFICES ASSUME Bytes, Measured, TypeOK, [Next]_vars
             PROVE  Bytes' /\ Measured' /\ TypeOK'
  OBVIOUS
<1> USE DEF Measured
<1>1. CASE Message
  BY <1>1 DEF Message, Bytes, TypeOK
<1>2. CASE ExtractElement
  <2>1. UNCHANGED <<buffer, station>> /\ pc' \in {"ssid", "station"}
    BY <1>2 DEF ExtractElement
  <2>2. cursor' \in 0..Len(buffer)
    <3>1. CASE HasElement
      BY <1>2, <3>1, WholeElement DEF ExtractElement, TypeOK, Bytes
    <3>2. CASE ~HasElement
      BY <1>2, <3>2 DEF ExtractElement, TypeOK
    <3> QED
      BY <3>1, <3>2
  <2>3. Measured'
    BY <1>2 DEF ExtractElement
  <2> QED
    BY <2>1, <2>2, <2>3 DEF Bytes, TypeOK
<1>3. CASE MakeStation
  <2>1. UNCHANGED <<buffer, signal, cursor>> /\ pc' = "done"
    BY <1>3 DEF MakeStation
  <2>2. station' = None \/ (station'[1].quality \in 0..100 /\ station'[1].ssid # <<>>)
    <3>1. CASE ssid = <<>> \/ InvalidByte \in ToSet(ssid)
      BY <1>3, <3>1 DEF MakeStation, TypeOK
    <3>2. CASE ssid # <<>> /\ InvalidByte \notin ToSet(ssid)
      <4>1. PICK q \in Qualities(signal[1]) : station' = <<[ssid |-> ssid, quality |-> q]>>
        BY <1>3, <3>2 DEF MakeStation
      <4>2. q \in 0..100
        BY <1>3, <4>1, QualityNear DEF MakeStation
      <4> QED
        BY <3>2, <4>1, <4>2
    <3> QED
      BY <3>1, <3>2
  <2> QED
    BY <2>1, <2>2 DEF Bytes, TypeOK
<1>4. CASE UNCHANGED vars
  BY <1>4 DEF vars, Bytes, TypeOK
<1> QED
  BY <1>1, <1>2, <1>3, <1>4 DEF Next

\* Whatever the bytes, extract_element never reads beyond the buffer, and a
\* station has a percentage and a name.
THEOREM TypeCorrect == Bytes /\ Spec => []TypeOK
<1>1. Bytes /\ Init => TypeOK /\ Measured
  BY BssAssumption DEF Bytes, Init, TypeOK, Measured, None
<1> QED
  BY <1>1, TypeStep, PTL DEF Spec

\* The two bytes of its head, at least, are behind every element, so that the
\* loop of extract_ssid turns at most Len(buffer) \div 2 times: also with
\* elements of size zero.
Advances ==
    pc = "ssid" /\ pc' = "ssid" => cursor' >= cursor + 2 /\ cursor' <= Len(buffer)

\* No element leaves the cursor of extract_ssid where it was.
THEOREM LoopAdvances == Bytes /\ Spec => [][Advances]_vars
<1>1. ASSUME Bytes, TypeOK, Next, pc = "ssid", pc' = "ssid"
      PROVE  cursor' >= cursor + 2 /\ cursor' <= Len(buffer)
  <2>1. ExtractElement /\ HasElement
    BY <1>1 DEF Next, Message, ExtractElement, MakeStation
  <2>2. cursor' = cursor + 2 + Byte(2)
    BY <2>1 DEF ExtractElement
  <2> QED
    BY <1>1, <2>1, <2>2, WholeElement DEF TypeOK, Bytes
<1>2. Bytes /\ TypeOK /\ [Next]_vars => [Advances]_vars
  BY <1>1 DEF Advances
<1>3. Bytes /\ Init => TypeOK /\ Measured
  BY BssAssumption DEF Bytes, Init, TypeOK, Measured, None
<1> QED
  BY <1>2, <1>3, TypeStep, PTL DEF Spec

-----------------------------------------------------------------------------
(***************************************************************************)
(* What extract_ssid finds.  The elements are encoded one behind the       *)
(* other, so that the bytes of the first n are those of the first n - 1    *)
(* and then those of the n-th: by induction on n, with a set in the place  *)
(* of a predicate.                                                         *)
(***************************************************************************)

LEMMA Induction ==
    ASSUME NEW S, 0 \in S, \A n \in Nat : n \in S => n + 1 \in S
    PROVE  Nat \subseteq S
<1> SUFFICES ASSUME Nat \ S # {} PROVE FALSE
  OBVIOUS
<1>1. PICK x \in Nat \ S : \A y \in Nat \ S : ~ (<<y, x>> \in OpToRel(<, Nat))
  BY NatLessThanWellFounded, WFMin
<1>2. x # 0 /\ x - 1 \in Nat
  OBVIOUS
<1>3. <<x - 1, x>> \in OpToRel(<, Nat)
  BY <1>2 DEF OpToRel
<1>4. x - 1 \in S
  BY <1>1, <1>2, <1>3
<1> QED
  BY <1>2, <1>4

\* The bytes of two sequences, one behind the other.
LEMMA Behind ==
    ASSUME NEW a \in Seq(Nat), NEW c \in Seq(Nat)
    PROVE  /\ a \o c \in Seq(Nat) /\ Len(a) \in Nat /\ Len(c) \in Nat
           /\ Len(a \o c) = Len(a) + Len(c)
           /\ \A j \in 1..Len(a) : (a \o c)[j] = a[j]
           /\ \A j \in 1..Len(c) : (a \o c)[Len(a) + j] = c[j]
OBVIOUS

\* Two bytes before a sequence of bytes.
LEMMA HeadBytes ==
    ASSUME NEW i \in Nat, NEW d \in Seq(Nat)
    PROVE  LET b == <<i, Len(d)>> \o d IN
           /\ b \in Seq(Nat) /\ Len(b) = 2 + Len(d) /\ Len(d) \in Nat
           /\ b[1] = i /\ b[2] = Len(d)
           /\ \A j \in 1..Len(d) : b[2 + j] = d[j]
<1> DEFINE head == <<i, Len(d)>>
<1>1. head \in Seq(Nat) /\ Len(head) = 2 /\ head[1] = i /\ head[2] = Len(d) /\ 1 \in 1..2 /\ 2 \in 1..2
  OBVIOUS
<1> HIDE DEF head
<1>2. /\ head \o d \in Seq(Nat) /\ Len(d) \in Nat /\ Len(head \o d) = 2 + Len(d)
      /\ \A j \in 1..2 : (head \o d)[j] = head[j]
      /\ \A j \in 1..Len(d) : (head \o d)[2 + j] = d[j]
  <2>1. /\ head \o d \in Seq(Nat) /\ Len(d) \in Nat /\ Len(head \o d) = Len(head) + Len(d)
        /\ \A j \in 1..Len(head) : (head \o d)[j] = head[j]
        /\ \A j \in 1..Len(d) : (head \o d)[Len(head) + j] = d[j]
    BY <1>1, Behind
  <2> QED
    BY <1>1, <2>1, Zenon
<1> QED
  BY <1>1, <1>2, Zenon DEF head

\* An element takes two bytes and its data.
LEMMA ElementBytes ==
    ASSUME NEW e \in Element
    PROVE  /\ e.id \in Nat /\ e.data \in Seq(Nat) /\ Len(e.data) \in Nat
           /\ Encode(e) \in Seq(Nat)
           /\ Len(Encode(e)) = 2 + Len(e.data)
           /\ Encode(e)[1] = e.id
           /\ Encode(e)[2] = Len(e.data)
           /\ \A j \in 1..Len(e.data) : Encode(e)[2 + j] = e.data[j]
<1>1. e.id \in Ids /\ e.data \in Payloads
  BY DEF Element
<1>2. e.id \in Nat /\ e.data \in Seq(0..255)
  <2>1. e.id \in 0..255
    BY <1>1, BssAssumption, Zenon
  <2>2. e.data \in Seq(0..255)
    BY <1>1, BssAssumption, Zenon
  <2>3. e.id \in Nat
    BY <2>1
  <2> QED
    BY <2>2, <2>3, Zenon
<1>3. e.data \in Seq(Nat)
  BY <1>2, SeqMonotonic, 0..255 \subseteq Nat
<1> QED
  BY <1>2, <1>3, HeadBytes DEF Encode

\* The elements of the access point.
Elements == elements \in Seq(Element)

\* The recursive function is defined by its equation.
LEMMA EncodedDef ==
    ASSUME Elements
    PROVE  Encoded = [n \in 0..Len(elements) |->
                        IF n = 0 THEN <<>> ELSE Encoded[n - 1] \o Encode(elements[n])]
<1> DEFINE Eq(m, g) == g = [n \in 0..m |->
                              IF n = 0 THEN <<>> ELSE g[n - 1] \o Encode(elements[n])]
           S == {m \in Nat : \E g : Eq(m, g)}
<1>1. 0 \in S
  <2> DEFINE h == [n \in 0..0 |-> <<>>]
  <2>1. Eq(0, h)
    OBVIOUS
  <2> QED
    BY <2>1
<1>2. ASSUME NEW m \in Nat, m \in S PROVE m + 1 \in S
  <2>0. PICK g : Eq(m, g)
    BY <1>2
  <2> DEFINE F(f, n) == IF n = 0 THEN <<>> ELSE f[n - 1] \o Encode(elements[n])
             last == g[m] \o Encode(elements[m + 1])
             h == [n \in 0..m + 1 |-> IF n = m + 1 THEN last ELSE g[n]]
  <2> HIDE DEF last
  <2>1. h = [n \in 0..m + 1 |-> h[n]]
    OBVIOUS
  <2>2. h[m + 1] = last /\ \A n \in 0..m : h[n] = g[n]
    OBVIOUS
  <2> HIDE DEF h
  <2>3. ASSUME NEW n \in 0..m + 1 PROVE h[n] = F(h, n)
    <3>1. CASE n = m + 1
      <4>1. n - 1 = m /\ n # 0 /\ m \in 0..m
        BY <3>1
      <4>2. h[n] = g[m] \o Encode(elements[n])
        BY <2>2, <3>1 DEF last
      <4>3. h[n - 1] = g[m]
        BY <2>2, <4>1
      <4> QED
        BY <4>1, <4>2, <4>3, Zenon
    <3>2. CASE n \in 0..m
      <4>1. g[n] = F(g, n)
        BY <2>0, <3>2
      <4>2. h[n] = g[n] /\ (n # 0 => h[n - 1] = g[n - 1])
        BY <2>2, <3>2
      <4> QED
        BY <4>1, <4>2
    <3> QED
      BY <3>1, <3>2
  <2>4. Eq(m + 1, h)
    <3> HIDE DEF F
    <3>1. h = [n \in 0..m + 1 |-> F(h, n)]
      BY <2>1, <2>3, Zenon
    <3> QED
      BY <3>1 DEF F
  <2> HIDE DEF Eq
  <2>5. m + 1 \in Nat
    OBVIOUS
  <2> QED
    BY <2>4, <2>5, Zenon
<1> HIDE DEF S
<1>3. Len(elements) \in S
  BY <1>1, <1>2, Induction DEF Elements
<1>4. \E g : Eq(Len(elements), g)
  BY <1>3 DEF S
<1> QED
  BY <1>4, Zenon DEF Encoded

\* The bytes of the first n elements are those of the first n - 1 and then the
\* n-th.
LEMMA EncodedStep ==
    ASSUME Elements, NEW n \in 1..Len(elements), Encoded[n - 1] \in Seq(Nat)
    PROVE  /\ Encoded[n] \in Seq(Nat)
           /\ Len(Encoded[n]) = Len(Encoded[n - 1]) + Len(Encode(elements[n]))
           /\ \A j \in 1..Len(Encoded[n - 1]) : Encoded[n][j] = Encoded[n - 1][j]
           /\ \A j \in 1..Len(Encode(elements[n])) :
                 Encoded[n][Len(Encoded[n - 1]) + j] = Encode(elements[n])[j]
<1>1. elements[n] \in Element /\ n \in 0..Len(elements) /\ n # 0
  BY DEF Elements
<1>2. Encoded[n] = Encoded[n - 1] \o Encode(elements[n])
  <2> DEFINE c == Encode(elements[n])
  <2> HIDE DEF c
  <2>1. Encoded[n] = IF n = 0 THEN <<>> ELSE Encoded[n - 1] \o c
    BY <1>1, EncodedDef DEF c
  <2> QED
    BY <1>1, <2>1 DEF c
<1>3. Encode(elements[n]) \in Seq(Nat)
  BY <1>1, ElementBytes
<1> DEFINE a == Encoded[n - 1]
           c == Encode(elements[n])
<1> HIDE DEF a, c
<1>4. /\ a \o c \in Seq(Nat)
      /\ Len(a \o c) = Len(a) + Len(c)
      /\ \A j \in 1..Len(a) : (a \o c)[j] = a[j]
      /\ \A j \in 1..Len(c) : (a \o c)[Len(a) + j] = c[j]
  <2>1. a \in Seq(Nat) /\ c \in Seq(Nat)
    BY <1>3 DEF a, c
  <2> QED
    BY <2>1, Behind
<1>5. Encoded[n] = a \o c
  BY <1>2 DEF a, c
<1>6. /\ Encoded[n] \in Seq(Nat)
      /\ Len(Encoded[n]) = Len(a) + Len(c)
      /\ \A j \in 1..Len(a) : Encoded[n][j] = a[j]
      /\ \A j \in 1..Len(c) : Encoded[n][Len(a) + j] = c[j]
  BY <1>4, <1>5, Zenon
<1> QED
  BY <1>6, Zenon DEF a, c

LEMMA EncodedType ==
    ASSUME Elements
    PROVE  \A n \in 0..Len(elements) : Encoded[n] \in Seq(Nat)
<1> DEFINE S == {n \in Nat : n <= Len(elements) => Encoded[n] \in Seq(Nat)}
<1>0. Len(elements) \in Nat
  BY DEF Elements
<1>1. 0 \in S
  <2>1. Encoded[0] = <<>>
    BY <1>0, EncodedDef
  <2>2. Encoded[0] \in Seq(Nat)
    BY <2>1
  <2> QED
    BY <2>2, Zenon
<1>2. ASSUME NEW n \in Nat, n \in S PROVE n + 1 \in S
  <2>1. CASE n + 1 <= Len(elements)
    <3>1. n + 1 \in 1..Len(elements) /\ (n + 1) - 1 = n /\ Encoded[n] \in Seq(Nat)
      BY <1>0, <1>2, <2>1
    <3>2. Encoded[n + 1] \in Seq(Nat)
      BY <3>1, EncodedStep
    <3> QED
      BY <3>2
  <2>2. CASE ~(n + 1 <= Len(elements))
    BY <2>2
  <2> QED
    BY <2>1, <2>2
<1> HIDE DEF S
<1>3. Nat \subseteq S
  BY <1>1, <1>2, Induction
<1> QED
  BY <1>0, <1>3 DEF S

\* More elements, the same bytes first.
LEMMA EncodedPrefix ==
    ASSUME Elements, NEW m \in 0..Len(elements)
    PROVE  \A n \in m..Len(elements) :
              /\ Len(Encoded[m]) <= Len(Encoded[n])
              /\ \A j \in 1..Len(Encoded[m]) : Encoded[n][j] = Encoded[m][j]
<1> DEFINE P(n) == /\ Len(Encoded[m]) <= Len(Encoded[n])
                   /\ \A j \in 1..Len(Encoded[m]) : Encoded[n][j] = Encoded[m][j]
           S == {k \in Nat : m + k <= Len(elements) => P(m + k)}
<1>0. Len(elements) \in Nat /\ m \in Nat /\ \A n \in 0..Len(elements) : Len(Encoded[n]) \in Nat
  BY EncodedType DEF Elements
<1>1. 0 \in S
  BY <1>0
<1>2. ASSUME NEW k \in Nat, k \in S PROVE k + 1 \in S
  <2> DEFINE n == m + k
  <2> SUFFICES ASSUME n + 1 <= Len(elements) PROVE P(n + 1)
    BY <1>0
  <2>1. n + 1 \in 1..Len(elements) /\ (n + 1) - 1 = n /\ n \in 0..Len(elements) /\ n <= Len(elements)
    BY <1>0
  <2>2. P(n)
    BY <1>2, <2>1
  <2> HIDE DEF n
  <2>3. /\ Len(Encoded[n + 1]) = Len(Encoded[n]) + Len(Encode(elements[n + 1]))
        /\ \A j \in 1..Len(Encoded[n]) : Encoded[n + 1][j] = Encoded[n][j]
    BY <2>1, EncodedType, EncodedStep
  <2>4. Len(Encoded[m]) <= Len(Encoded[n + 1])
    <3>1. Len(Encode(elements[n + 1])) \in Nat
      BY <2>1, ElementBytes DEF Elements
    <3>2. Len(Encoded[m]) \in Nat /\ Len(Encoded[n]) \in Nat
      BY <1>0, <2>1
    <3>3. Len(Encoded[m]) <= Len(Encoded[n])
      BY <2>2
    <3>4. Len(Encoded[n + 1]) = Len(Encoded[n]) + Len(Encode(elements[n + 1]))
      BY <2>3
    <3>5. \A x, y, c \in Nat : x <= y => x <= y + c
      OBVIOUS
    <3> QED
      BY <3>1, <3>2, <3>3, <3>4, <3>5, Zenon
  <2>5. \A j \in 1..Len(Encoded[m]) : j \in 1..Len(Encoded[n])
    BY <1>0, <2>1, <2>2
  <2> QED
    BY <2>2, <2>3, <2>4, <2>5
<1> HIDE DEF S
<1>3. Nat \subseteq S
  BY <1>1, <1>2, Induction
<1>4. ASSUME NEW n \in m..Len(elements) PROVE P(n)
  <2>1. n - m \in Nat /\ m + (n - m) = n /\ n <= Len(elements)
    BY <1>0
  <2>2. n - m \in S
    BY <1>3, <2>1
  <2> HIDE DEF P
  <2> QED
    BY <2>1, <2>2 DEF S
<1> QED
  BY <1>4

-----------------------------------------------------------------------------
(* The buffer. *)

\* It has the bytes of the elements, up to where it is cut.
Sent ==
    /\ Elements
    /\ Bytes
    /\ Len(buffer) <= Len(AllEncoded)
    /\ \A j \in 1..Len(buffer) : buffer[j] = AllEncoded[j]

\* In the place of an element are the bytes of that element.
LEMMA BytesAt ==
    ASSUME Sent, NEW n \in 1..Len(elements)
    PROVE  LET start == Len(Encoded[n - 1])
               size == Len(Encode(elements[n]))
           IN  /\ start \in Nat /\ size \in Nat
               /\ Len(Encoded[n]) = start + size
               /\ start + size <= Len(AllEncoded)
               /\ \A j \in 1..size : start + j <= Len(buffer) =>
                     buffer[start + j] = Encode(elements[n])[j]
<1> DEFINE start == Len(Encoded[n - 1])
           c == Encode(elements[n])
           size == Len(c)
<1>1. Elements /\ n \in 0..Len(elements) /\ n - 1 \in 0..Len(elements) /\ Len(elements) \in n..Len(elements)
  BY DEF Sent, Elements
<1>2. elements[n] \in Element
  BY <1>1 DEF Elements
<1>3. Encoded[n - 1] \in Seq(Nat)
  BY <1>1, EncodedType
<1>4. c \in Seq(Nat)
  BY <1>2, ElementBytes
<1>5. start \in Nat /\ size \in Nat
  BY <1>3, <1>4
<1>6. /\ Len(Encoded[n]) = start + size
      /\ \A j \in 1..size : Encoded[n][start + j] = c[j]
  BY <1>1, <1>3, EncodedStep
<1>7. /\ Len(Encoded[n]) <= Len(AllEncoded)
      /\ \A j \in 1..Len(Encoded[n]) : AllEncoded[j] = Encoded[n][j]
  BY <1>1, EncodedPrefix DEF AllEncoded
<1> HIDE DEF start, c, size
<1>8. ASSUME NEW j \in 1..size, start + j <= Len(buffer)
      PROVE  buffer[start + j] = c[j]
  <2>0. Len(buffer) \in Nat
    BY DEF Sent, Bytes
  <2>1. start + j \in 1..start + size /\ start + j \in 1..Len(buffer)
    BY <1>5, <1>8, <2>0
  <2>2. buffer[start + j] = AllEncoded[start + j]
    BY <2>1, Zenon DEF Sent
  <2>3. AllEncoded[start + j] = Encoded[n][start + j]
    BY <1>6, <1>7, <2>1, Zenon
  <2> QED
    BY <1>6, <1>8, <2>2, <2>3, Zenon
<1>9. start + size <= Len(AllEncoded)
  BY <1>6, <1>7, Zenon
<1> QED
  BY <1>5, <1>6, <1>8, <1>9, Zenon DEF start, c, size

\* Behind k bytes of the buffer b are those of the element c, of data d, as far
\* as the buffer has them.
IsAt(b, k, c, d) ==
    /\ c[2] = Len(d)
    /\ \A j \in 1..Len(d) : c[2 + j] = d[j]
    /\ \A j \in 1..2 + Len(d) : k + j <= Len(b) => b[k + j] = c[j]

\* Two bytes tell the size of the element, and the size whether it is all there.
Extracts(b, k, c, d) ==
    /\ Len(b) - k >= 2 => b[k + 1] = c[1] /\ b[k + 2] = Len(d)
    /\ Len(b) - k >= 2 /\ Len(b) - k >= 2 + b[k + 2] <=> k + (2 + Len(d)) <= Len(b)
    /\ k + (2 + Len(d)) <= Len(b) => SubSeq(b, k + 3, k + 2 + Len(d)) = d

LEMMA Extract ==
    ASSUME NEW b \in Seq(Nat), NEW d \in Seq(Nat), NEW c, NEW k \in Nat, IsAt(b, k, c, d)
    PROVE  Extracts(b, k, c, d)
<1>0. Len(b) \in Nat /\ Len(d) \in Nat
  OBVIOUS
<1>1. ASSUME Len(b) - k >= 2 PROVE b[k + 1] = c[1] /\ b[k + 2] = Len(d)
  <2>1. k + 1 <= Len(b) /\ k + 2 <= Len(b) /\ 1 \in 1..2 + Len(d) /\ 2 \in 1..2 + Len(d)
    BY <1>0, <1>1
  <2> QED
    BY <2>1, Zenon DEF IsAt
<1>2. Len(b) - k >= 2 /\ Len(b) - k >= 2 + b[k + 2] <=> k + (2 + Len(d)) <= Len(b)
  <2>1. CASE Len(b) - k >= 2
    <3>1. b[k + 2] = Len(d)
      BY <1>1, <2>1
    <3>2. Len(b) - k >= 2 + Len(d) <=> k + (2 + Len(d)) <= Len(b)
      BY <1>0
    <3> QED
      BY <2>1, <3>1, <3>2, Zenon
  <2>2. CASE ~(Len(b) - k >= 2)
    <3>1. ~(k + (2 + Len(d)) <= Len(b))
      BY <1>0, <2>2
    <3> QED
      BY <2>2, <3>1, Zenon
  <2> QED
    BY <2>1, <2>2, Zenon
<1>3. ASSUME k + (2 + Len(d)) <= Len(b) PROVE SubSeq(b, k + 3, k + 2 + Len(d)) = d
  <2> DEFINE t == SubSeq(b, k + 3, k + 2 + Len(d))
  <2>1. k + 3 \in Int /\ k + 2 + Len(d) \in Int /\ \A j \in k + 3..k + 2 + Len(d) : j \in 1..Len(b)
    BY <1>0, <1>3
  <2>2. \A j \in k + 3..k + 2 + Len(d) : b[j] \in Nat
    <3>1. \A j \in 1..Len(b) : b[j] \in Nat
      OBVIOUS
    <3> QED
      BY <2>1, <3>1, Zenon
  <2>3. /\ t \in Seq(Nat)
        /\ Len(t) = IF k + 3 <= k + 2 + Len(d) THEN k + 2 + Len(d) - (k + 3) + 1 ELSE 0
        /\ \A j \in 1..k + 2 + Len(d) - (k + 3) + 1 : t[j] = b[k + 3 + j - 1]
    <3> DEFINE m == k + 3
               n == k + 2 + Len(d)
    <3> HIDE DEF m, n
    <3>1. m \in Int /\ n \in Int /\ \A j \in m..n : b[j] \in Nat
      BY <2>1, <2>2, Zenon DEF m, n
    <3>2. /\ SubSeq(b, m, n) \in Seq(Nat)
          /\ Len(SubSeq(b, m, n)) = IF m <= n THEN n - m + 1 ELSE 0
          /\ \A j \in 1..n - m + 1 : SubSeq(b, m, n)[j] = b[m + j - 1]
      BY <3>1, SubSeqProperties
    <3>3. t = SubSeq(b, m, n)
      BY Zenon DEF m, n
    <3> HIDE DEF t
    <3> QED
      BY <3>2, <3>3 DEF m, n
  <2> HIDE DEF t
  <2>4. Len(t) = Len(d)
    <3>1. (IF k + 3 <= k + 2 + Len(d) THEN k + 2 + Len(d) - (k + 3) + 1 ELSE 0) = Len(d)
      BY <1>0
    <3>2. Len(t) = IF k + 3 <= k + 2 + Len(d) THEN k + 2 + Len(d) - (k + 3) + 1 ELSE 0
      BY <2>3
    <3> QED
      BY <3>1, <3>2
  <2>5. ASSUME NEW j \in 1..Len(d) PROVE t[j] = d[j]
    <3>1. /\ j \in 1..k + 2 + Len(d) - (k + 3) + 1
          /\ k + 3 + j - 1 = k + (2 + j)
          /\ 2 + j \in 1..2 + Len(d) /\ k + (2 + j) <= Len(b)
      BY <1>0, <1>3
    <3>2. t[j] = b[k + (2 + j)]
      BY <2>3, <3>1, Zenon
    <3>3. b[k + (2 + j)] = c[2 + j]
      BY <3>1, Zenon DEF IsAt
    <3>4. c[2 + j] = d[j]
      BY Zenon DEF IsAt
    <3> QED
      BY <3>2, <3>3, <3>4, Zenon
  <2>6. t = d
    BY <2>3, <2>4, <2>5, SeqEqual
  <2> QED
    BY <2>6 DEF t
<1> QED
  BY <1>1, <1>2, <1>3, Zenon DEF Extracts

\* What extract_element makes of it: the element, if the buffer has the whole of
\* it, and nothing otherwise.
LEMMA ElementAt ==
    ASSUME Sent, NEW n \in 1..Len(elements), cursor = Len(Encoded[n - 1])
    PROVE  /\ HasElement <=> Len(Encoded[n]) <= Len(buffer)
           /\ HasElement =>
                /\ Byte(1) = elements[n].id
                /\ cursor + 2 + Byte(2) = Len(Encoded[n])
                /\ SubSeq(buffer, cursor + 3, cursor + 2 + Byte(2)) = elements[n].data
<1> DEFINE d == elements[n].data
           c == Encode(elements[n])
<1>1. elements[n] \in Element
  BY DEF Sent, Elements
<1>2. /\ d \in Seq(Nat) /\ Len(d) \in Nat /\ Len(c) = 2 + Len(d)
      /\ c[1] = elements[n].id /\ c[2] = Len(d)
      /\ \A j \in 1..Len(d) : c[2 + j] = d[j]
  BY <1>1, ElementBytes, Zenon
<1>3. /\ cursor \in Nat
      /\ Len(Encoded[n]) = cursor + Len(c)
      /\ \A j \in 1..Len(c) : cursor + j <= Len(buffer) => buffer[cursor + j] = c[j]
  BY BytesAt, Zenon
<1>4. buffer \in Seq(Nat)
  BY DEF Sent, Bytes
<1> HIDE DEF d, c
<1>5. Len(Encoded[n]) = cursor + (2 + Len(d))
  BY <1>2, <1>3, Zenon
<1>6. \A j \in 1..2 + Len(d) : cursor + j <= Len(buffer) => buffer[cursor + j] = c[j]
  BY <1>2, <1>3, Zenon
<1>7. /\ Left >= 2 => Byte(1) = c[1] /\ Byte(2) = Len(d)
      /\ HasElement <=> cursor + (2 + Len(d)) <= Len(buffer)
      /\ cursor + (2 + Len(d)) <= Len(buffer) =>
            SubSeq(buffer, cursor + 3, cursor + 2 + Len(d)) = d
  <2>1. IsAt(buffer, cursor, c, d)
    BY <1>2, <1>6, Zenon DEF IsAt
  <2>2. Extracts(buffer, cursor, c, d)
    BY <1>2, <1>3, <1>4, <2>1, Extract, Zenon
  <2> QED
    BY <2>2, Zenon DEF Extracts, HasElement, Left, Byte
<1>8. cursor + 2 + Len(d) = cursor + (2 + Len(d))
  <2>1. \A x, y \in Nat : x + 2 + y = x + (2 + y)
    OBVIOUS
  <2> QED
    BY <1>2, <1>3, <2>1, Zenon
<1>9. HasElement => Left >= 2
  BY DEF HasElement
<1> QED
  BY <1>2, <1>5, <1>7, <1>8, <1>9, Zenon DEF d

-----------------------------------------------------------------------------
(* What is known at each step of the closure. *)

\* The id of an SSID is not among those of the first m elements.
NoSsid(m) == \A k \in 1..m : elements[k].id # WLAN_EID_SSID

\* extract_ssid has read some elements, all of each, and none is an SSID.
Looking ==
    pc \in {"message", "ssid"} =>
        /\ ssid = <<>>
        /\ \E m \in 0..Len(elements) : cursor = Len(Encoded[m]) /\ NoSsid(m)

\* It has found the SSID, or there is none in the buffer.
Looked == pc = "station" => ssid \in Ssids \/ (ssid = <<>> /\ Ssids = {})

\* It looks in the elements of a message that has a signal.
Signalled == pc \in {"ssid", "station"} => signal # None

\* There is a station at the end only.
Unmade == pc # "done" => station = None

Inv == Sent /\ Looking /\ Looked /\ Signalled /\ Unmade /\ StationIsNamed

LEMMA Initially == Init => Inv
<1> SUFFICES ASSUME Init PROVE Inv
  OBVIOUS
<1>1. Elements
  <2>1. PICK n \in 0..MaxElements : elements \in [1..n -> Element]
    BY DEF Init
  <2>2. n \in Nat
    BY BssAssumption
  <2> QED
    BY <2>1, <2>2 DEF Elements
<1>2. AllEncoded \in Seq(Nat)
  BY <1>1, EncodedType DEF AllEncoded, Elements
<1>3. Bytes /\ Len(buffer) <= Len(AllEncoded) /\ \A j \in 1..Len(buffer) : buffer[j] = AllEncoded[j]
  <2> DEFINE a == AllEncoded
  <2>1. PICK n \in 0..Len(a) : buffer = SubSeq(a, 1, n)
    BY DEF Init
  <2>2. a \in Seq(Nat)
    BY <1>2
  <2> HIDE DEF a
  <2>3. /\ SubSeq(a, 1, n) \in Seq(Nat) /\ Len(SubSeq(a, 1, n)) = n /\ n <= Len(a)
        /\ \A j \in 1..n : SubSeq(a, 1, n)[j] = a[j]
    BY <2>1, <2>2
  <2>4. buffer \in Seq(Nat) /\ Len(buffer) <= Len(a) /\ \A j \in 1..Len(buffer) : buffer[j] = a[j]
    BY <2>1, <2>3, Zenon
  <2> QED
    BY <2>4, Zenon DEF a, Bytes
<1>4. Looking
  <2>1. Encoded[0] = <<>>
    BY <1>1, EncodedDef DEF Elements
  <2>2. Len(Encoded[0]) = 0 /\ NoSsid(0) /\ 0 \in 0..Len(elements)
    BY <1>1, <2>1 DEF Elements, NoSsid
  <2> QED
    BY <2>2 DEF Init, Looking
<1> QED
  BY <1>1, <1>3, <1>4 DEF Init, Inv, Sent, Looked, Signalled, Unmade, StationIsNamed

\* There is one SSID at most.
LEMMA OneSsid ==
    ASSUME Elements, NEW s \in Ssids, NEW t \in Ssids
    PROVE  s = t
<1> DEFINE P(m) == /\ elements[m].id = WLAN_EID_SSID
                   /\ \A k \in 1..m - 1 : elements[k].id # WLAN_EID_SSID
<1>1. PICK m \in DOMAIN elements : s = elements[m].data /\ P(m)
  BY DEF Ssids
<1>2. PICK n \in DOMAIN elements : t = elements[n].data /\ P(n)
  BY DEF Ssids
<1>3. m \in Nat /\ n \in Nat /\ m >= 1 /\ n >= 1
  BY DEF Elements
<1>4. ~(m < n) /\ ~(n < m)
  <2>1. m < n => m \in 1..n - 1
    BY <1>3
  <2>2. n < m => n \in 1..m - 1
    BY <1>3
  <2> QED
    BY <1>1, <1>2, <2>1, <2>2, Zenon
<1>5. m = n
  BY <1>3, <1>4
<1> QED
  BY <1>1, <1>2, <1>5, Zenon

\* No step writes to what the message has.
LEMMA SentStays ==
    ASSUME UNCHANGED <<elements, buffer>>
    PROVE  /\ Encoded' = Encoded /\ Ssids' = Ssids
           /\ Sent => Sent'
           /\ \A m : NoSsid(m)' <=> NoSsid(m)
<1>1. Encoded' = Encoded
  BY DEF Encoded
<1>2. AllEncoded' = AllEncoded
  BY <1>1 DEF AllEncoded
<1>3. Ssids' = Ssids
  BY <1>1 DEF Ssids
<1>4. Sent => Sent'
  BY <1>2 DEF Sent, Elements, Bytes
<1> QED
  BY <1>1, <1>3, <1>4 DEF NoSsid

\* extract_element finds no element only when the SSID is not in the buffer.
LEMMA NothingLeft ==
    ASSUME Sent, ~HasElement, NEW m \in 0..Len(elements), cursor = Len(Encoded[m]), NoSsid(m)
    PROVE  Ssids = {}
<1> SUFFICES ASSUME Ssids # {} PROVE FALSE
  OBVIOUS
<1>1. PICK k \in DOMAIN elements : elements[k].id = WLAN_EID_SSID /\ Len(Encoded[k]) <= Len(buffer)
  BY DEF Ssids
<1>2. k \in 1..Len(elements) /\ Len(elements) \in Nat /\ Len(buffer) \in Nat /\ Elements
  BY DEF Sent, Elements, Bytes
<1>3. ~(k <= m)
  BY <1>1, <1>2 DEF NoSsid
<1>4. m + 1 \in 1..Len(elements) /\ (m + 1) - 1 = m /\ k \in m + 1..Len(elements) /\ m + 1 \in 0..Len(elements)
  BY <1>2, <1>3
<1>5. Len(Encoded[m + 1]) <= Len(Encoded[k])
  BY <1>2, <1>4, EncodedPrefix
<1>6. Len(Encoded[m + 1]) \in Nat /\ Len(Encoded[k]) \in Nat
  BY <1>2, <1>4, EncodedType
<1>7. Len(Encoded[m + 1]) <= Len(buffer)
  BY <1>1, <1>2, <1>5, <1>6
<1>8. HasElement
  BY <1>4, <1>7, ElementAt
<1> QED
  BY <1>8

\* A turn of the loop of extract_ssid.
LEMMA ExtractStep == Inv /\ ExtractElement => Inv'
<1> SUFFICES ASSUME Inv, ExtractElement PROVE Inv'
  OBVIOUS
<1>1. /\ pc = "ssid" /\ UNCHANGED <<elements, buffer, signal, station>>
      /\ Sent /\ signal # None /\ station = None
      /\ Elements /\ Bytes
  BY DEF ExtractElement, Inv, Signalled, Unmade, Sent
<1>2. Encoded' = Encoded /\ Ssids' = Ssids /\ Sent' /\ \A m : NoSsid(m)' <=> NoSsid(m)
  BY <1>1, SentStays
<1>3. ssid = <<>>
  BY <1>1 DEF Inv, Looking
<1>4. PICK m \in 0..Len(elements) : cursor = Len(Encoded[m]) /\ NoSsid(m)
  BY <1>1 DEF Inv, Looking
<1>5. pc' \in {"ssid", "station"}
  BY <1>1 DEF ExtractElement
<1>6. Signalled' /\ Unmade' /\ StationIsNamed'
  BY <1>1, <1>5 DEF Signalled, Unmade, StationIsNamed, None
<1>7. Looking' /\ Looked'
  <2>1. CASE ~HasElement
    <3>1. Ssids = {}
      BY <1>1, <1>4, <2>1, NothingLeft
    <3>2. pc' = "station" /\ ssid' = <<>>
      BY <1>3, <2>1 DEF ExtractElement
    <3> QED
      BY <1>2, <3>1, <3>2 DEF Looking, Looked
  <2>2. CASE HasElement
    <3> DEFINE n == m + 1
    <3>1. n \in 1..Len(elements) /\ n - 1 = m
      <4>1. Len(buffer) \in Nat /\ Len(AllEncoded) \in Nat /\ Len(Encoded[m]) \in Nat /\ Len(elements) \in Nat
        BY <1>1, EncodedType DEF AllEncoded, Bytes, Elements
      <4>2. Len(buffer) - cursor >= 2 /\ Len(buffer) <= Len(AllEncoded)
        BY <1>1, <2>2 DEF HasElement, Left, Sent
      <4>3. m # Len(elements)
        BY <1>4, <4>1, <4>2 DEF AllEncoded
      <4> QED
        BY <4>1, <4>3
    <3> HIDE DEF n
    <3>2. /\ Len(Encoded[n]) <= Len(buffer)
          /\ Byte(1) = elements[n].id
          /\ cursor + 2 + Byte(2) = Len(Encoded[n])
          /\ SubSeq(buffer, cursor + 3, cursor + 2 + Byte(2)) = elements[n].data
      BY <1>1, <1>4, <2>2, <3>1, ElementAt
    <3>3. CASE elements[n].id = WLAN_EID_SSID
      <4>1. pc' = "station" /\ ssid' = elements[n].data
        BY <2>2, <3>2, <3>3 DEF ExtractElement
      <4>2. elements[n].data \in Ssids
        <5>1. n \in DOMAIN elements /\ \A k \in 1..n - 1 : elements[k].id # WLAN_EID_SSID
          BY <1>1, <1>4, <3>1 DEF Elements, NoSsid
        <5> QED
          BY <3>2, <3>3, <5>1 DEF Ssids
      <4> QED
        BY <1>2, <4>1, <4>2 DEF Looking, Looked
    <3>4. CASE elements[n].id # WLAN_EID_SSID
      <4>1. pc' = "ssid" /\ ssid' = <<>> /\ cursor' = Len(Encoded[n])
        BY <1>1, <1>3, <2>2, <3>2, <3>4 DEF ExtractElement
      <4>2. NoSsid(n)
        BY <1>4, <3>1, <3>4 DEF NoSsid
      <4>3. n \in 0..Len(elements') /\ cursor' = Len(Encoded'[n]) /\ NoSsid(n)'
        BY <1>1, <1>2, <3>1, <4>1, <4>2
      <4> QED
        BY <4>1, <4>3 DEF Looking, Looked
    <3> QED
      BY <3>3, <3>4
  <2> QED
    BY <2>1, <2>2
<1> QED
  BY <1>2, <1>6, <1>7 DEF Inv

\* The rest of the closure.
LEMMA MakeStep == Inv /\ MakeStation => Inv'
<1> SUFFICES ASSUME Inv, MakeStation PROVE Inv'
  OBVIOUS
<1>1. /\ pc = "station" /\ pc' = "done" /\ UNCHANGED <<elements, buffer, signal, ssid>>
      /\ Sent /\ signal # None /\ station = None /\ Elements
      /\ ssid \in Ssids \/ (ssid = <<>> /\ Ssids = {})
  BY DEF MakeStation, Inv, Looked, Signalled, Unmade, Sent
<1>2. Ssids' = Ssids /\ Sent'
  BY <1>1, SentStays
<1>3. StationIsNamed'
  <2>1. CASE ssid = <<>> \/ InvalidByte \in ToSet(ssid)
    <3>1. station' = None
      BY <1>1, <2>1 DEF MakeStation
    <3>2. \A s \in Ssids : s = <<>> \/ InvalidByte \in ToSet(s)
      BY <1>1, <2>1, OneSsid
    <3> QED
      BY <1>2, <3>1, <3>2 DEF StationIsNamed, None
  <2>2. CASE ssid # <<>> /\ InvalidByte \notin ToSet(ssid)
    <3>1. PICK q : station' = <<[ssid |-> ssid, quality |-> q]>>
      BY <2>2 DEF MakeStation
    <3>2. station' # None /\ station'[1].ssid = ssid
      BY <3>1 DEF None
    <3>3. ssid \in Ssids'
      BY <1>1, <1>2, <2>2
    <3> QED
      BY <3>2, <3>3 DEF StationIsNamed, None
  <2> QED
    BY <2>1, <2>2
<1> QED
  BY <1>1, <1>2, <1>3 DEF Inv, Looking, Looked, Signalled, Unmade

\* No step breaks the invariant.
LEMMA Step == Inv /\ [Next]_vars => Inv'
<1>1. Inv /\ Message => Inv'
  <2> SUFFICES ASSUME Inv, Message PROVE Inv'
    OBVIOUS
  <2>1. UNCHANGED <<elements, buffer, signal, cursor, ssid, station>> /\ pc = "message"
    BY DEF Message
  <2>2. Encoded' = Encoded /\ Ssids' = Ssids /\ Sent' /\ \A m : NoSsid(m)' <=> NoSsid(m)
    BY <2>1, SentStays DEF Inv
  <2>3. pc' = IF signal = None THEN "done" ELSE "ssid"
    BY DEF Message
  <2>4. Looking'
    BY <2>1, <2>2 DEF Inv, Looking
  <2>5. station = None
    BY <2>1 DEF Inv, Unmade
  <2> QED
    BY <2>1, <2>2, <2>3, <2>4, <2>5 DEF Inv, Looked, Signalled, Unmade, StationIsNamed
<1>2. Inv /\ UNCHANGED vars => Inv'
  <2> SUFFICES ASSUME Inv, UNCHANGED vars PROVE Inv'
    OBVIOUS
  <2>1. UNCHANGED <<elements, buffer, signal, cursor, pc, ssid, station>>
    BY DEF vars
  <2>2. Encoded' = Encoded /\ Ssids' = Ssids /\ Sent' /\ \A m : NoSsid(m)' <=> NoSsid(m)
    BY <2>1, SentStays DEF Inv
  <2> QED
    BY <2>1, <2>2 DEF Inv, Looking, Looked, Signalled, Unmade, StationIsNamed
<1> QED
  BY <1>1, <1>2, ExtractStep, MakeStep DEF Next

LEMMA Invariant == Spec => []Inv
BY Initially, Step, PTL DEF Spec

\* However the elements are cut, an access point is listed under its own name,
\* and left out only without a signal or without a name that can be shown.
THEOREM StationIsNamedHolds == Spec => []StationIsNamed
<1>1. Inv => StationIsNamed
  BY DEF Inv
<1> QED
  BY <1>1, Invariant, PTL

-----------------------------------------------------------------------------
(* The quality of a station. *)

\* The quality of a station is one of those of its signal.
Rated ==
    /\ signal # None => signal[1] \in Signals
    /\ station # None => signal # None /\ station[1].quality \in Qualities(signal[1])

\* The stations get_scan_results makes are ordered by dbm_level_to_quality as
\* their signals are, and the two ends of the scale are 0 and 100.
THEOREM QualityOrderedHolds == Spec => []QualityOrdered
<1>1. Init => Rated
  BY DEF Init, Rated, None
<1>2. Inv /\ Rated /\ [Next]_vars => Rated'
  <2> SUFFICES ASSUME Inv, Rated, [Next]_vars PROVE Rated'
    OBVIOUS
  <2>1. CASE Message \/ ExtractElement \/ UNCHANGED vars
    BY <2>1 DEF Message, ExtractElement, vars, Rated
  <2>2. CASE MakeStation
    <3>1. signal # None /\ UNCHANGED signal
      BY <2>2 DEF MakeStation, Inv, Signalled
    <3>2. CASE UNCHANGED station
      BY <3>1, <3>2 DEF Rated
    <3>3. CASE \E q \in Qualities(signal[1]) : station' = <<[ssid |-> ssid, quality |-> q]>>
      BY <3>1, <3>3 DEF Rated
    <3> QED
      BY <2>2, <3>2, <3>3 DEF MakeStation
  <2> QED
    BY <2>1, <2>2 DEF Next
<1>3. Rated => QualityOrdered
  <2> SUFFICES ASSUME Rated, station # None PROVE QualityOrdered
    BY DEF QualityOrdered
  <2> DEFINE s == signal[1]
             quality == station[1].quality
  <2>1. s \in Int /\ quality \in Qualities(s)
    BY BssAssumption DEF Rated
  <2>2. \A t \in Signals : t \in Int
    BY BssAssumption
  <2>3. s <= -10000 => quality = 0
    BY <2>1, QualityNear, ScaledRange, SMT
  <2>4. s >= -4000 => quality = 100
    BY <2>1, QualityNear, ScaledRange, SMT
  <2>5. \A t \in Signals : \A q \in Qualities(t) : (t < s => q <= quality) /\ (s < t => quality <= q)
    BY <2>1, <2>2, QualityMonotone, Zenon
  <2>6. \A t \in Signals : \A q \in Qualities(t) : (t > s <=> s < t) /\ (q >= quality <=> quality <= q)
    BY <2>1, <2>2, QualityNear, SMT
  <2> HIDE DEF s, quality
  <2>7. \A t \in Signals : \A q \in Qualities(t) : (t < s => q <= quality) /\ (t > s => q >= quality)
    BY <2>5, <2>6, Zenon
  <2> QED
    BY <2>3, <2>4, <2>7, Zenon DEF QualityOrdered, s, quality
<1> QED
  BY <1>1, <1>2, <1>3, Invariant, PTL DEF Spec
==============================================================================
