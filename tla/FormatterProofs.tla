---------------------------- MODULE FormatterProofs ----------------------------
(***************************************************************************)
(* Proofs about Formatter and PushU64: for every base, buffer and list of  *)
(* clusters push_u64 stays inside its buffer and loses no digit, what is   *)
(* written is a text of the format's pieces, and a reader of it gets back  *)
(* the clusters.                                                           *)
(***************************************************************************)
EXTENDS Formatter, ArithmeticProofs

------------------------------------------------------------------------------
\* Digits.

\* Power is what its recursion says.
IsPower(f, m) == f = [k \in 0 .. m |-> IF k = 0 THEN 1 ELSE Base * f[k - 1]]

LEMMA PowerExists ==
  ASSUME NEW m \in Nat
  PROVE  \E f : IsPower(f, m)
<1> DEFINE T == {k \in Nat : \E f : IsPower(f, k)}
<1>1. 0 \in T
  <2>1. IsPower([k \in 0 .. 0 |-> 1], 0)
    BY DEF IsPower
  <2> QED BY <2>1
<1>2. ASSUME NEW k \in T
      PROVE  k + 1 \in T
  <2>1. PICK f : IsPower(f, k)
    OBVIOUS
  <2> DEFINE g == [j \in 0 .. k + 1 |-> IF j = 0 THEN 1 ELSE Base * f[j - 1]]
  <2>2. ASSUME NEW j \in 0 .. k
        PROVE  f[j] = g[j]
    <3>1. f[j] = IF j = 0 THEN 1 ELSE Base * f[j - 1]
      BY <2>1 DEF IsPower
    <3>2. j \in 0 .. k + 1
      OBVIOUS
    <3> QED BY <3>1, <3>2
  <2>3. ASSUME NEW j \in 0 .. k + 1, j # 0
        PROVE  f[j - 1] = g[j - 1]
    <3>1. j - 1 \in 0 .. k
      BY <2>3
    <3> HIDE DEF g
    <3> QED BY <2>2, <3>1
  <2>4. g = [j \in 0 .. k + 1 |-> IF j = 0 THEN 1 ELSE Base * g[j - 1]]
    BY <2>3
  <2> HIDE DEF g
  <2>5. IsPower(g, k + 1)
    BY <2>4 DEF IsPower
  <2> QED BY <2>5
<1> HIDE DEF T
<1>3. T = Nat
  <2>1. T \in SUBSET Nat
    BY DEF T
  <2> QED BY <1>1, <1>2, <2>1, SetInduction
<1> QED BY <1>3 DEF T

LEMMA PowerShape ==
  /\ Power[0] = 1
  /\ \A k \in 0 .. BufferLen - 1 : Power[k] \in Nat /\ Power[k + 1] = Base * Power[k]
<1>1. BufferLen \in Nat /\ Base \in Nat
  BY BufferAssumption, BaseAssumption
<1>2. IsPower(Power, BufferLen)
  BY <1>1, PowerExists DEF IsPower, Power
<1>3. ASSUME NEW k \in 0 .. BufferLen
      PROVE  Power[k] = IF k = 0 THEN 1 ELSE Base * Power[k - 1]
  BY <1>2 DEF IsPower
<1> DEFINE T == {k \in Nat : k \in 0 .. BufferLen => Power[k] \in Nat}
<1>4. 0 \in T
  BY <1>1, <1>3
<1>5. ASSUME NEW k \in T
      PROVE  k + 1 \in T
  <2> SUFFICES ASSUME k + 1 \in 0 .. BufferLen PROVE Power[k + 1] \in Nat
    OBVIOUS
  <2>1. k \in 0 .. BufferLen /\ k + 1 # 0 /\ (k + 1) - 1 = k
    BY <1>1
  <2>2. Power[k] \in Nat
    BY <2>1
  <2> QED BY <1>1, <1>3, <2>1, <2>2
<1>6. T = Nat
  <2> HIDE DEF T
  <2>1. T \in SUBSET Nat
    BY DEF T
  <2> QED BY <1>4, <1>5, <2>1, SetInduction
<1>7. \A k \in 0 .. BufferLen : Power[k] \in Nat
  BY <1>1, <1>6
<1>8. ASSUME NEW k \in 0 .. BufferLen - 1
      PROVE  Power[k + 1] = Base * Power[k]
  <2>1. k + 1 \in 0 .. BufferLen /\ k + 1 # 0 /\ (k + 1) - 1 = k
    BY <1>1
  <2> QED BY <1>3, <2>1
<1>9. 0 \in 0 .. BufferLen
  BY <1>1
<1>10. \A k \in 0 .. BufferLen - 1 : k \in 0 .. BufferLen
  BY <1>1
<1> QED BY <1>3, <1>7, <1>8, <1>9, <1>10

LEMMA PowerType == \A k \in 0 .. BufferLen : Power[k] \in Nat
<1>1. BufferLen \in Nat /\ BufferLen > 0 /\ Base \in Nat
  BY BufferAssumption, BaseAssumption
<1>2. SUFFICES ASSUME NEW k \in 0 .. BufferLen PROVE Power[k] \in Nat
  OBVIOUS
<1>3. CASE k = BufferLen
  <2>1. k - 1 \in 0 .. BufferLen - 1 /\ (k - 1) + 1 = k
    BY <1>1, <1>3
  <2>2. Power[k - 1] \in Nat /\ Power[k] = Base * Power[k - 1]
    BY <2>1, PowerShape
  <2> QED BY <1>1, <2>2
<1>4. CASE k # BufferLen
  <2>1. k \in 0 .. BufferLen - 1
    BY <1>1, <1>4
  <2> QED BY <2>1, PowerShape
<1> QED BY <1>3, <1>4

\* The last digit of a number, and the number left of it.
LEMMA LastDigit ==
  ASSUME NEW m \in Nat
  PROVE  /\ m \div Base \in Nat /\ m \div Base <= m
         /\ m % Base \in 0 .. Base - 1
         /\ m = (m \div Base) * Base + (m % Base)
         /\ m < Base => m % Base = m
<1>1. Base \in Nat /\ Base > 1
  BY BaseAssumption
<1>2. m \div Base \in Nat
  BY <1>1
<1>3. m % Base \in 0 .. Base - 1
  BY <1>1
<1>4. m = (m \div Base) * Base + (m % Base)
  BY <1>1, SMTT(30)
<1>5. m \div Base <= (m \div Base) * Base
  BY <1>1, <1>2
<1>6. ASSUME m < Base
      PROVE  m % Base = m
  BY <1>1, <1>6
<1> QED BY <1>1, <1>2, <1>3, <1>4, <1>5, <1>6

\* Without its last digit a number fits one place less.
LEMMA DigitFits ==
  ASSUME NEW m \in Nat, NEW power \in Nat, m < Base * power
  PROVE  m \div Base < power
<1>1. Base \in Nat /\ Base > 0
  BY BaseAssumption
<1>2. m \div Base \in Nat /\ (m \div Base) * Base <= m
  BY <1>1, DivBounds
<1>3. (m \div Base) * Base < power * Base
  BY <1>1, <1>2
<1> QED BY <1>1, <1>2, <1>3, TimesMonotone

\* A digit moved from the number left to its place in the buffer.
LEMMA DigitMoves ==
  ASSUME NEW m \in Nat, NEW power \in Nat, NEW rest \in Nat
  PROVE  (m \div Base) * (Base * power) + (rest + (m % Base) * power) = m * power + rest
<1> DEFINE q == m \div Base
           r == m % Base
<1>1. q \in Nat /\ r \in Nat /\ Base \in Nat /\ m = q * Base + r
  BY LastDigit, BaseAssumption
<1> HIDE DEF q, r
<1>2. m * power = (q * Base) * power + r * power
  BY <1>1
<1>3. q * (Base * power) = (q * Base) * power
  BY <1>1
<1> QED BY <1>1, <1>2, <1>3 DEF q, r

------------------------------------------------------------------------------
\* The frame of push_u64.

LEMMA BufferShape == BufferLen \in Nat /\ BufferLen > 0 /\ Base \in Nat /\ Base > 1 /\ MaxU64 \in Nat
BY BufferAssumption, BaseAssumption, FitsAssumption

\* The index falls by one and stays in the buffer.
LEMMA IndexInBuffer ==
  ASSUME FrameTypeOK, Fits, PushDigit
  PROVE  i \in 1 .. BufferLen /\ i - 1 \in Buffer
<1>1. n \in Nat /\ n > 0 /\ i \in 0 .. BufferLen /\ n < Power[i]
  BY BufferShape DEF FrameTypeOK, Fits, PushDigit
<1>2. i # 0
  BY <1>1, PowerShape
<1> QED BY <1>1, <1>2, BufferShape DEF Buffer

LEMMA PlaceValuesShape ==
  ASSUME FrameTypeOK
  PROVE  /\ DOMAIN PlaceValues = i .. BufferLen - 1 /\ IsFiniteSet(DOMAIN PlaceValues)
         /\ \A k \in DOMAIN PlaceValues : PlaceValues[k] \in Nat
<1>1. DOMAIN PlaceValues = i .. BufferLen - 1
  BY DEF PlaceValues
<1>2. i \in Nat /\ BufferLen \in Nat /\ BufferLen - 1 \in Int
  BY BufferShape DEF FrameTypeOK
<1>3. IsFiniteSet(i .. BufferLen - 1)
  BY <1>2, FS_Interval
<1>4. ASSUME NEW k \in i .. BufferLen - 1
      PROVE  PlaceValues[k] \in Nat
  <2>1. tmp[k] \in Nat
    BY <1>2, BufferShape DEF FrameTypeOK, Buffer
  <2>2. BufferLen - 1 - k \in 0 .. BufferLen - 1
    BY <1>2
  <2>3. Power[BufferLen - 1 - k] \in Nat
    BY <2>2, PowerShape
  <2>4. PlaceValues[k] = tmp[k] * Power[BufferLen - 1 - k]
    BY DEF PlaceValues
  <2> QED BY <2>1, <2>3, <2>4
<1> QED BY <1>1, <1>3, <1>4

\* A call starts with the whole count in n.
LEMMA CallShape ==
  ASSUME FrameTypeOK, NEW count \in 0 .. MaxU64, Call(count)
  PROVE  FrameTypeOK' /\ Fits' /\ Denotes(count)'
<1>1. /\ pushing' = TRUE /\ n' = count /\ i' = BufferLen
      /\ tmp' = [k \in Buffer |-> 0]
  BY DEF Call
<1>2. count \in Nat /\ count < Power[BufferLen]
  <2>1. BufferLen - 1 \in 0 .. BufferLen - 1 /\ (BufferLen - 1) + 1 = BufferLen
    BY BufferShape
  <2>2. Power[BufferLen - 1] \in Nat /\ Power[BufferLen] = Base * Power[BufferLen - 1]
    BY <2>1, PowerShape
  <2> QED BY <2>2, BufferShape, FitsAssumption
<1>3. FrameTypeOK'
  <2>1. 0 \in 0 .. Base - 1 /\ BufferLen \in 0 .. BufferLen
    BY BufferShape
  <2> QED BY <1>1, <2>1 DEF FrameTypeOK
<1>4. Fits'
  BY <1>1, <1>2 DEF Fits
<1>5. Total(PlaceValues)' = 0
  <2>1. DOMAIN PlaceValues' = {}
    BY <1>1, BufferShape DEF PlaceValues
  <2> QED BY <2>1, TotalOfNone
<1>6. Power[BufferLen - i'] = 1
  <2>1. BufferLen - i' = 0
    BY <1>1, BufferShape
  <2> QED BY <2>1, PowerShape
<1>7. count = n' * Power[BufferLen - i'] + Total(PlaceValues)'
  BY <1>1, <1>2, <1>5, <1>6
<1> QED BY <1>1, <1>3, <1>4, <1>7, BufferShape DEF Denotes

\* A step of the loop keeps the count.
LEMMA PushDigitShape ==
  ASSUME FrameTypeOK, Fits, PushDigit
  PROVE  /\ FrameTypeOK' /\ Fits'
         /\ \A count : Denotes(count) => Denotes(count)'
<1>1. /\ pushing /\ n > 0 /\ i' = i - 1 /\ n' = n \div Base
      /\ tmp' = [tmp EXCEPT ![i - 1] = n % Base]
      /\ pushing' = pushing
  BY DEF PushDigit
<1>2. i \in 1 .. BufferLen /\ i - 1 \in Buffer
  BY IndexInBuffer
<1>3. n \in 0 .. MaxU64 /\ n \in Nat /\ tmp \in [Buffer -> 0 .. Base - 1]
  BY BufferShape DEF FrameTypeOK
<1>4. FrameTypeOK'
  <2>1. n' \in 0 .. MaxU64
    BY <1>1, <1>3, LastDigit, BufferShape
  <2>2. tmp' \in [Buffer -> 0 .. Base - 1]
    BY <1>1, <1>2, <1>3, LastDigit
  <2>3. i' \in 0 .. BufferLen
    BY <1>1, <1>2, BufferShape
  <2> QED BY <1>1, <2>1, <2>2, <2>3 DEF FrameTypeOK
<1>5. Fits'
  <2>1. n < Power[i]
    BY <1>1 DEF Fits
  <2>2. i - 1 \in 0 .. BufferLen - 1 /\ (i - 1) + 1 = i
    BY <1>2, BufferShape
  <2>3. Power[i - 1] \in Nat /\ Power[i] = Base * Power[i - 1]
    BY <2>2, PowerShape
  <2>4. n' < Power[i - 1]
    BY <1>1, <1>3, <2>1, <2>3, DigitFits
  <2> QED BY <1>1, <2>4 DEF Fits
<1>6. ASSUME NEW count, Denotes(count)
      PROVE  Denotes(count)'
  <2> DEFINE power == Power[BufferLen - i]
             old == PlaceValues
             new == PlaceValues'
  <2>1. count = n * power + Total(old)
    BY <1>1, <1>6 DEF Denotes
  <2>2. /\ power \in Nat
        /\ Power[BufferLen - i'] = Base * power
    <3>1. BufferLen - i \in 0 .. BufferLen - 1 /\ BufferLen - i' = (BufferLen - i) + 1
      BY <1>1, <1>2, BufferShape
    <3> QED BY <3>1, PowerShape
  <2>3. /\ IsFiniteSet(DOMAIN new) /\ \A k \in DOMAIN new : new[k] \in Nat
        /\ DOMAIN new = i' .. BufferLen - 1
    <3>1. (FrameTypeOK => /\ DOMAIN PlaceValues = i .. BufferLen - 1 /\ IsFiniteSet(DOMAIN PlaceValues)
                          /\ \A k \in DOMAIN PlaceValues : PlaceValues[k] \in Nat)'
      BY PlaceValuesShape, PTL
    <3> QED BY <1>4, <3>1
  <2>4. i - 1 \in DOMAIN new /\ DOMAIN new \ {i - 1} = i .. BufferLen - 1
    BY <1>1, <1>2, <2>3, BufferShape
  <2>5. new[i - 1] = (n % Base) * power
    <3>1. tmp'[i - 1] = n % Base
      BY <1>1, <1>2, <1>3
    <3>2. new[i - 1] = tmp'[i - 1] * Power[BufferLen - 1 - (i - 1)]
      BY <2>3, <2>4 DEF PlaceValues
    <3>3. BufferLen - 1 - (i - 1) = BufferLen - i
      BY <1>2, BufferShape
    <3> QED BY <3>1, <3>2, <3>3
  <2>6. old = Without(new, i - 1)
    <3>1. \A k \in i .. BufferLen - 1 : tmp'[k] = tmp[k]
      BY <1>1, <1>2, <1>3, BufferShape DEF Buffer
    <3>2. new = [k \in i' .. BufferLen - 1 |-> tmp'[k] * Power[BufferLen - 1 - k]]
      BY DEF PlaceValues
    <3>3. old = [k \in i .. BufferLen - 1 |-> new[k]]
      BY <2>4, <3>1, <3>2 DEF PlaceValues
    <3> QED BY <2>4, <3>3 DEF Without
  <2>7. Total(old) \in Nat
    BY PlaceValuesShape, TotalType
  <2> HIDE DEF power, old, new
  <2>8. Total(new) = Total(old) + (n % Base) * power
    BY <2>3, <2>4, <2>5, <2>6, TotalWithout
  <2>9. count = n' * (Base * power) + Total(new)
    BY <1>1, <1>3, <2>1, <2>2, <2>7, <2>8, DigitMoves
  <2>10. n' = 0 => tmp'[i'] # 0
    <3> SUFFICES ASSUME n' = 0 PROVE tmp'[i'] # 0
      OBVIOUS
    <3>1. n = n % Base
      BY <1>1, <1>3, LastDigit, BufferShape
    <3>2. tmp'[i'] = n % Base
      BY <1>1, <1>2, <1>3
    <3> QED BY <1>1, <1>3, <3>1, <3>2
  <2> QED BY <2>2, <2>9, <2>10 DEF Denotes, new
<1> QED BY <1>4, <1>5, <1>6


------------------------------------------------------------------------------
\* The pieces written.

LEMMA TextShape ==
  ASSUME NEW a \in Seq(Pieces), NEW b \in Seq(Pieces)
  PROVE  a \o b \in Seq(Pieces)
BY ConcatProperties

LEMMA PieceShape ==
  /\ {MarkOpen, MarkClose, Newline, Tab, Bar, Quote, Backslash, Open, Close, Comma,
      CountKey, TextKey, EndObject} \subseteq Pieces
  /\ \A d \in Nat : Digit(d) \in Pieces
BY DEF Pieces, Kinds, Piece, Digit, MarkOpen, MarkClose, Newline, Tab, Bar, Quote, Backslash,
       Open, Close, Comma, CountKey, TextKey, EndObject

\* An escaped text is a text.
LEMMA EscapeShape ==
  ASSUME NEW text \in Seq(Pieces)
  PROVE  Escape(text) \in Seq(Pieces)
<1> DEFINE parts == [k \in DOMAIN text |->
                       IF text[k] \in {Quote, Backslash} THEN <<Backslash, text[k]>>
                       ELSE <<text[k]>>]
<1>1. Len(text) \in Nat /\ DOMAIN text = 1 .. Len(text)
  BY LenProperties
<1>2. ASSUME NEW k \in DOMAIN text
      PROVE  parts[k] \in Seq(Pieces)
  <2>1. text[k] \in Pieces /\ Backslash \in Pieces
    BY <1>1, PieceShape
  <2>2. <<Backslash, text[k]>> \in Seq(Pieces) /\ <<text[k]>> \in Seq(Pieces)
    BY <2>1
  <2> QED BY <2>2
<1>3. parts \in Seq(Seq(Pieces))
  <2>1. DOMAIN parts = 1 .. Len(text)
    BY <1>1
  <2>2. parts = [k \in 1 .. Len(text) |-> parts[k]]
    BY <1>1
  <2> HIDE DEF parts
  <2> QED BY <1>1, <1>2, <2>1, <2>2
<1> HIDE DEF parts
<1>4. FlattenSeq(parts) \in Seq(Pieces)
  BY <1>3, FlattenShape
<1> QED BY <1>4 DEF Escape, parts

\* The pieces around the count of a row.
LEMMA RowShape ==
  ASSUME format \in Formats, NEW c \in Cluster
  PROVE  Row(c).before \in Seq(Pieces) /\ Row(c).behind \in Seq(Pieces)
<1>1. c.template \in Seq(Pieces) /\ Escape(c.template) \in Seq(Pieces)
  <2>1. c.template \in Seq(Pieces)
    BY TemplatesAssumption DEF Cluster
  <2> QED BY <2>1, EscapeShape
<1>2. \A p \in Pieces : <<p>> \in Seq(Pieces)
  OBVIOUS
<1>3. << >> \in Seq(Pieces)
  OBVIOUS
<1>4. format \in {"compact", "tsv", "toon", "json"}
  BY FormatsAssumption
<1>5. CASE format = "compact"
  <2>1. Row(c) = CompactRow(c)
    BY <1>5 DEF Row
  <2>2. <<MarkOpen>> \in Seq(Pieces) /\ <<MarkClose>> \in Seq(Pieces)
        /\ <<Newline>> \in Seq(Pieces)
    BY <1>2, PieceShape
  <2>3. (IF HasCount(c) THEN <<MarkClose>> ELSE << >>) \in Seq(Pieces)
        /\ (IF HasCount(c) THEN <<MarkOpen>> ELSE << >>) \in Seq(Pieces)
    BY <1>3, <2>2
  <2> QED BY <1>1, <2>1, <2>2, <2>3, TextShape DEF CompactRow
<1>6. CASE format = "tsv"
  <2>1. Row(c) = TsvRow(c)
    BY <1>6 DEF Row
  <2>2. <<Tab>> \in Seq(Pieces) /\ <<Newline>> \in Seq(Pieces)
    BY <1>2, PieceShape
  <2> QED BY <1>1, <1>3, <2>1, <2>2, TextShape DEF TsvRow
<1>7. CASE format = "toon"
  <2>1. Row(c) = ToonRow(c)
    BY <1>7 DEF Row
  <2>2. <<Bar>> \in Seq(Pieces) /\ <<Newline>> \in Seq(Pieces)
    BY <1>2, PieceShape
  <2> QED BY <1>1, <1>3, <2>1, <2>2, TextShape DEF ToonRow
<1>8. CASE format = "json"
  <2>1. Row(c) = JsonObject(c)
    BY <1>8 DEF Row
  <2>2. <<Comma, CountKey>> \in Seq(Pieces) /\ <<CountKey>> \in Seq(Pieces)
        /\ <<TextKey>> \in Seq(Pieces) /\ <<Quote, EndObject>> \in Seq(Pieces)
    BY PieceShape
  <2> QED BY <1>1, <2>1, <2>2, TextShape DEF JsonObject
<1> QED BY <1>4, <1>5, <1>6, <1>7, <1>8

LEMMA WrittenShape ==
  ASSUME FrameTypeOK
  PROVE  Written \in Seq(Pieces)
<1>1. BufferLen - i \in Nat /\ i \in Nat
  BY BufferShape DEF FrameTypeOK
<1>2. ASSUME NEW k \in 1 .. BufferLen - i
      PROVE  Digit(tmp[i + k - 1]) \in Pieces
  <2>1. i + k - 1 \in Buffer
    BY <1>1, BufferShape DEF Buffer
  <2>2. tmp[i + k - 1] \in Nat
    BY <2>1, BufferShape DEF FrameTypeOK
  <2> QED BY <2>2, PieceShape
<1> QED BY <1>1, <1>2 DEF Written

------------------------------------------------------------------------------
\* The invariant.

\* push_u64 runs only inside a row, with the count of that row.
RowInv ==
  /\ TypeOK
  /\ pushing => counted
  /\ counted => next <= Len(clusters)
  /\ Fits
  /\ counted => Denotes(clusters[next].count)

LEMMA RowStep == RowInv /\ [Next]_vars => RowInv'
<1> SUFFICES ASSUME RowInv, [Next]_vars PROVE RowInv'
  OBVIOUS
<1>1. /\ format \in Formats /\ clusters \in Seq(Cluster) /\ next \in 1 .. Len(clusters) + 1
      /\ out \in Seq(Pieces) /\ counted \in BOOLEAN /\ closed \in BOOLEAN /\ FrameTypeOK
      /\ Len(clusters) \in Nat
  BY DEF RowInv, TypeOK
<1>2. ASSUME next <= Len(clusters)
      PROVE  /\ clusters[next] \in Cluster /\ clusters[next].count \in 0 .. MaxU64
             /\ Row(clusters[next]).before \in Seq(Pieces)
             /\ Row(clusters[next]).behind \in Seq(Pieces)
  <2>1. clusters[next] \in Cluster
    BY <1>1, <1>2
  <2>2. clusters[next].count \in 0 .. MaxU64
    BY <2>1, CountsAssumption DEF Cluster
  <2> QED BY <1>1, <2>1, <2>2, RowShape
<1>3. CASE BeginRow
  <2>1. /\ ~counted /\ next <= Len(clusters) /\ counted' = TRUE
        /\ out' = out \o Row(clusters[next]).before
        /\ UNCHANGED <<format, clusters, next, closed>>
    BY <1>3 DEF BeginRow
  <2>2. out' \in Seq(Pieces)
    BY <1>1, <1>2, <2>1, TextShape
  <2>3. CASE HasCount(clusters[next])
    <3>1. Call(clusters[next].count)
      BY <1>3, <2>3 DEF BeginRow
    <3>2. FrameTypeOK' /\ Fits' /\ Denotes(clusters[next].count)'
      <4>1. PICK count \in 0 .. MaxU64 : count = clusters[next].count
        BY <1>2, <2>1
      <4>2. FrameTypeOK' /\ Fits' /\ Denotes(count)'
        BY <1>1, <3>1, <4>1, CallShape
      <4> QED BY <2>1, <4>1, <4>2 DEF Denotes
    <3> QED BY <1>1, <2>1, <2>2, <3>2 DEF RowInv, TypeOK
  <2>4. CASE ~HasCount(clusters[next])
    <3>1. UNCHANGED <<pushing, n, i, tmp>>
      BY <1>3, <2>4 DEF BeginRow, frame
    <3>2. pushing = FALSE
      BY <1>1, <2>1 DEF RowInv, FrameTypeOK
    <3> QED BY <1>1, <2>1, <2>2, <3>1, <3>2 DEF RowInv, TypeOK, FrameTypeOK, Fits, Denotes
  <2> QED BY <2>3, <2>4
<1>4. CASE PushCount
  <2>1. UNCHANGED <<format, clusters, next, counted, closed>>
    BY <1>4 DEF PushCount
  <2>2. CASE PushZero
    <3>1. pushing' = FALSE /\ out' = Append(out, Digit(0)) /\ UNCHANGED <<n, i, tmp>>
      BY <2>2 DEF PushZero
    <3>2. out' \in Seq(Pieces)
      BY <1>1, <3>1, PieceShape, AppendProperties
    <3> QED BY <1>1, <2>1, <3>1, <3>2 DEF RowInv, TypeOK, FrameTypeOK, Fits, Denotes
  <2>3. CASE PushDigit
    <3>1. FrameTypeOK' /\ Fits' /\ \A count : Denotes(count) => Denotes(count)'
      BY <1>1, <2>3, PushDigitShape DEF RowInv
    <3>2. UNCHANGED <<pushing, out>>
      BY <2>3 DEF PushDigit
    <3> QED BY <1>1, <2>1, <3>1, <3>2 DEF RowInv, TypeOK
  <2>4. CASE PushBuffer
    <3>1. pushing' = FALSE /\ out' = out \o Written /\ UNCHANGED <<n, i, tmp>>
      BY <2>4 DEF PushBuffer
    <3>2. out' \in Seq(Pieces)
      BY <1>1, <3>1, WrittenShape, TextShape
    <3> QED BY <1>1, <2>1, <3>1, <3>2 DEF RowInv, TypeOK, FrameTypeOK, Fits, Denotes
  <2> QED BY <1>4, <2>2, <2>3, <2>4 DEF PushCount, Push
<1>5. CASE EndRow
  <2>1. /\ counted /\ ~pushing /\ counted' = FALSE /\ next' = next + 1
        /\ out' = out \o Row(clusters[next]).behind
        /\ UNCHANGED <<pushing, n, i, tmp, format, clusters, closed>>
    BY <1>5 DEF EndRow, frame
  <2>2. next <= Len(clusters)
    BY <2>1 DEF RowInv
  <2>3. out' \in Seq(Pieces) /\ next' \in 1 .. Len(clusters) + 1
    BY <1>1, <1>2, <2>1, <2>2, TextShape
  <2> QED BY <1>1, <2>1, <2>3 DEF RowInv, TypeOK, FrameTypeOK, Fits
<1>6. CASE Return
  <2>1. /\ next > Len(clusters) /\ closed' = TRUE
        /\ out' = (IF format = "json" THEN Append(out, Close) ELSE out)
        /\ UNCHANGED <<pushing, n, i, tmp, format, clusters, next, counted>>
    BY <1>6 DEF Return, frame
  <2>2. out' \in Seq(Pieces)
    BY <1>1, <2>1, PieceShape, AppendProperties
  <2>3. counted = FALSE
    BY <1>1, <2>1 DEF RowInv
  <2> QED BY <1>1, <2>1, <2>2, <2>3 DEF RowInv, TypeOK, FrameTypeOK, Fits
<1>7. CASE UNCHANGED vars
  BY <1>7 DEF vars, frame, RowInv, TypeOK, FrameTypeOK, Fits, Denotes, PlaceValues
<1> QED BY <1>3, <1>4, <1>5, <1>6, <1>7 DEF Next

LEMMA RowHolds == Spec => []RowInv
<1>1. Init => RowInv
  <2> SUFFICES ASSUME Init PROVE RowInv
    OBVIOUS
  <2>1. /\ format \in Formats /\ next = 1 /\ counted = FALSE /\ closed = FALSE
        /\ out = (IF format = "json" THEN <<Open>> ELSE << >>)
        /\ pushing = FALSE /\ n = 0 /\ i = BufferLen /\ tmp = [k \in Buffer |-> 0]
    BY DEF Init, FrameInit
  <2>2. clusters \in Seq(Cluster) /\ Len(clusters) \in Nat
    <3>1. PICK k \in 0 .. MaxClusters : clusters \in [1 .. k -> Cluster]
      BY DEF Init
    <3>2. k \in Nat
      BY MaxClustersAssumption
    <3> QED BY <3>1, <3>2
  <2>3. out \in Seq(Pieces)
    BY <2>1, PieceShape
  <2>4. FrameTypeOK
    <3>1. pushing \in BOOLEAN
      BY <2>1
    <3>2. n \in 0 .. MaxU64 /\ i \in 0 .. BufferLen /\ 0 \in 0 .. Base - 1
      BY <2>1, BufferShape
    <3> QED BY <2>1, <3>1, <3>2 DEF FrameTypeOK
  <2>5. next \in 1 .. Len(clusters) + 1
    BY <2>1, <2>2
  <2> QED BY <2>1, <2>2, <2>3, <2>4, <2>5 DEF RowInv, TypeOK, Fits
<1> QED BY <1>1, RowStep, PTL DEF Spec

\* What is written is a text of the format's pieces, row by row, and no write
\* of push_u64 is outside its buffer.
THEOREM TypeCorrect == Spec => []TypeOK
<1>1. RowInv => TypeOK
  BY DEF RowInv
<1> QED BY <1>1, RowHolds, PTL

\* push_u64 neither runs out of its buffer nor leaves a digit out: at every
\* step the digits written and the number left make up the count, for every
\* base, buffer and largest count that fits it.
THEOREM DigitsDenoteCorrect == Spec => []DigitsDenote
<1>1. RowInv => DigitsDenote
  BY DEF RowInv, DigitsDenote
<1> QED BY <1>1, RowHolds, PTL

------------------------------------------------------------------------------
\* Reading lines.

LEMMA NewlineSetShape ==
  ASSUME NEW text \in Seq(Pieces)
  PROVE  /\ Len(text) \in Nat /\ DOMAIN text = 1 .. Len(text)
         /\ Newlines(text) \in SUBSET (1 .. Len(text))
         /\ IsFiniteSet(Newlines(text)) /\ Cardinality(Newlines(text)) \in Nat
<1>1. Len(text) \in Nat /\ DOMAIN text = 1 .. Len(text)
  BY LenProperties
<1>2. Newlines(text) \in SUBSET (1 .. Len(text))
  BY <1>1 DEF Newlines
<1>3. IsFiniteSet(1 .. Len(text))
  BY <1>1, UpTo
<1> QED BY <1>1, <1>2, <1>3, FS_Subset, FS_CardinalityType

\* A text of whole lines: its last line ends with it.
Terminated(text) ==
  /\ text \in Seq(Pieces)
  /\ LineEnd(text, Cardinality(Newlines(text))) = Len(text)
  /\ \A k \in 0 .. Cardinality(Newlines(text)) : LineEnd(text, k) \in 0 .. Len(text)

LEMMA NoLines == Terminated(<< >>) /\ LinesOf(<< >>) = << >>
<1> DEFINE empty == << >>
<1>1. Newlines(empty) = {}
  BY DEF Newlines
<1>2. empty \in Seq(Pieces) /\ Len(empty) = 0
  OBVIOUS
<1> HIDE DEF empty
<1>3. Cardinality(Newlines(empty)) = 0
  BY <1>1, FS_EmptySet
<1>4. LinesOf(empty) = << >>
  BY <1>3 DEF LinesOf
<1>5. Terminated(empty)
  BY <1>2, <1>3 DEF Terminated, LineEnd
<1> QED BY <1>4, <1>5 DEF empty

LEMMA LinesType ==
  ASSUME NEW text, Terminated(text)
  PROVE  LinesOf(text) \in Seq(Seq(Pieces)) /\ Len(LinesOf(text)) = Cardinality(Newlines(text))
<1> DEFINE p == Len(text)
           count == Cardinality(Newlines(text))
<1>1. /\ text \in Seq(Pieces) /\ p \in Nat /\ count \in Nat
      /\ \A k \in 1 .. p : text[k] \in Pieces
      /\ \A k \in 0 .. count : LineEnd(text, k) \in 0 .. p
  BY NewlineSetShape, ElementOfSeq DEF Terminated
<1>2. LinesOf(text) = [k \in 1 .. count |->
                         SubSeq(text, LineEnd(text, k - 1) + 1, LineEnd(text, k) - 1)]
  BY DEF LinesOf
<1> HIDE DEF p, count
<1>3. ASSUME NEW k \in 1 .. count
      PROVE  LinesOf(text)[k] \in Seq(Pieces)
  <2> DEFINE a == LineEnd(text, k - 1) + 1
             b == LineEnd(text, k) - 1
  <2>1. k - 1 \in 0 .. count /\ k \in 0 .. count
    BY <1>1
  <2>2. LineEnd(text, k - 1) \in 0 .. p /\ LineEnd(text, k) \in 0 .. p
    BY <1>1, <2>1
  <2>3. a \in 1 .. p + 1 /\ b \in -1 .. p - 1
    BY <1>1, <2>2
  <2>4. LinesOf(text)[k] = SubSeq(text, a, b)
    BY <1>2
  <2> HIDE DEF a, b
  <2>5. \A j \in a .. b : text[j] \in Pieces
    BY <1>1, <2>3
  <2>6. a \in Int /\ b \in Int
    BY <1>1, <2>3
  <2> QED BY <2>4, <2>5, <2>6, SubSeqProperties
<1>4. LinesOf(text) = [k \in 1 .. count |-> LinesOf(text)[k]]
  BY <1>2
<1> QED BY <1>1, <1>3, <1>4 DEF count

\* One line more.
LEMMA OneLineMore ==
  ASSUME NEW text, Terminated(text), NEW line \in Seq(Pieces),
         \A k \in 1 .. Len(line) : line[k] # Newline
  PROVE  /\ Terminated(text \o line \o <<Newline>>)
         /\ LinesOf(text \o line \o <<Newline>>) = Append(LinesOf(text), line)
<1> DEFINE p == Len(text)
           l == Len(line)
           longer == text \o line \o <<Newline>>
           q == p + l + 1
           count == Cardinality(Newlines(text))
           upto(S, e) == {d \in S : d <= e}
<1>1. /\ text \in Seq(Pieces) /\ p \in Nat /\ l \in Nat /\ <<Newline>> \in Seq(Pieces)
      /\ Newlines(text) \in SUBSET (1 .. p) /\ IsFiniteSet(Newlines(text)) /\ count \in Nat
      /\ DOMAIN text = 1 .. p
  BY NewlineSetShape, LenProperties, PieceShape DEF Terminated
<1>2. /\ text \o line \in Seq(Pieces) /\ Len(text \o line) = p + l
      /\ \A k \in 1 .. p + l : (text \o line)[k] = IF k <= p THEN text[k] ELSE line[k - p]
  BY <1>1, ConcatProperties
<1>3. /\ longer \in Seq(Pieces) /\ Len(longer) = q
      /\ \A k \in 1 .. q : longer[k] = IF k <= p + l THEN (text \o line)[k] ELSE <<Newline>>[k - (p + l)]
  <2>1. Len(<<Newline>>) = 1
    OBVIOUS
  <2> QED BY <1>1, <1>2, <2>1, ConcatProperties
<1>4. /\ \A k \in 1 .. p : longer[k] = text[k]
      /\ \A k \in p + 1 .. p + l : longer[k] = line[k - p]
      /\ longer[q] = Newline
  <2>1. \A k \in 1 .. p + l : k \in 1 .. q /\ k <= p + l
    BY <1>1
  <2>2. q \in 1 .. q /\ ~(q <= p + l) /\ q - (p + l) = 1
    BY <1>1
  <2>3. \A k \in 1 .. p : k \in 1 .. p + l
    BY <1>1
  <2>4. \A k \in p + 1 .. p + l : k \in 1 .. p + l /\ ~(k <= p)
    BY <1>1
  <2>5. longer[q] = Newline
    BY <1>3, <2>2
  <2> QED BY <1>1, <1>2, <1>3, <2>1, <2>3, <2>4, <2>5
<1>5. Newlines(longer) = Newlines(text) \cup {q}
  <2>1. DOMAIN longer = 1 .. q
    BY <1>3, LenProperties
  <2>2. \A k \in p + 1 .. p + l : longer[k] # Newline
    BY <1>1, <1>4
  <2>3. \A k \in 1 .. q : k \in 1 .. p \/ k \in p + 1 .. p + l \/ k = q
    BY <1>1
  <2>4. \A k \in 1 .. p : k \in 1 .. q
    BY <1>1
  <2>5. q \in 1 .. q
    BY <1>1
  <2> HIDE DEF longer, p, l, q
  <2> QED BY <1>1, <1>4, <2>1, <2>2, <2>3, <2>4, <2>5 DEF Newlines
<1> HIDE DEF longer
<1>6. Cardinality(Newlines(longer)) = count + 1
  <2>1. q \notin Newlines(text)
    BY <1>1
  <2> QED BY <1>1, <1>5, <2>1, FS_AddElement
<1>7. ASSUME NEW e \in Newlines(text)
      PROVE  upto(Newlines(longer), e) = upto(Newlines(text), e)
  BY <1>1, <1>5
<1>8. upto(Newlines(longer), q) = Newlines(longer)
  BY <1>1, <1>5
<1>9. ASSUME NEW e \in Newlines(text)
      PROVE  /\ Cardinality(upto(Newlines(text), e)) \in Nat
             /\ Cardinality(upto(Newlines(text), e)) <= count
  <2>1. upto(Newlines(text), e) \in SUBSET Newlines(text)
    OBVIOUS
  <2> HIDE DEF upto
  <2> QED BY <1>1, <2>1, FS_Subset, FS_CardinalityType
<1>10. ASSUME NEW k \in 0 .. count
       PROVE  LineEnd(longer, k) = LineEnd(text, k)
  <2>1. CASE k = 0
    BY <2>1 DEF LineEnd
  <2>2. CASE k # 0
    <3>1. Cardinality(upto(Newlines(longer), q)) # k
      <4>1. Cardinality(upto(Newlines(longer), q)) = count + 1
        BY <1>6, <1>8
      <4>2. k # count + 1
        BY <1>1
      <4> QED BY <4>1, <4>2
    <3>2. \A e : e \in Newlines(longer) /\ Cardinality(upto(Newlines(longer), e)) = k
              <=> e \in Newlines(text) /\ Cardinality(upto(Newlines(text), e)) = k
      <4> HIDE DEF upto
      <4> QED BY <1>5, <1>7, <3>1
    <3>3. (CHOOSE e : e \in Newlines(longer) /\ Cardinality(upto(Newlines(longer), e)) = k)
            = (CHOOSE e : e \in Newlines(text) /\ Cardinality(upto(Newlines(text), e)) = k)
      <4> HIDE DEF upto
      <4> QED BY <3>2
    <3> QED BY <2>2, <3>3 DEF LineEnd
  <2> QED BY <2>1, <2>2
<1>11. LineEnd(longer, count + 1) = q
  <2>1. q \in Newlines(longer) /\ Cardinality(upto(Newlines(longer), q)) = count + 1
    BY <1>5, <1>6, <1>8
  <2>2. ASSUME NEW e \in Newlines(longer), Cardinality(upto(Newlines(longer), e)) = count + 1
        PROVE  e = q
    <3> SUFFICES ASSUME e \in Newlines(text) PROVE FALSE
      BY <1>5
    <3> HIDE DEF upto
    <3> QED BY <1>1, <1>7, <1>9, <2>2
  <2>3. count + 1 # 0
    BY <1>1
  <2> QED BY <2>1, <2>2, <2>3 DEF LineEnd
<1>12. /\ LineEnd(text, count) = p
       /\ \A k \in 0 .. count : LineEnd(text, k) \in 0 .. p
  BY DEF Terminated
<1>13. Terminated(longer)
  <2>1. ASSUME NEW k \in 0 .. count + 1
        PROVE  LineEnd(longer, k) \in 0 .. q
    <3>1. CASE k = count + 1
      BY <1>1, <1>11, <3>1
    <3>2. CASE k # count + 1
      <4>1. k \in 0 .. count
        BY <1>1, <3>2
      <4>2. LineEnd(longer, k) \in 0 .. p
        BY <1>10, <1>12, <4>1
      <4> QED BY <1>1, <4>2
    <3> QED BY <3>1, <3>2
  <2> HIDE DEF count, q
  <2> QED BY <1>3, <1>6, <1>11, <2>1 DEF Terminated
<1>14. /\ LinesOf(text) = [k \in 1 .. count |->
                             SubSeq(text, LineEnd(text, k - 1) + 1, LineEnd(text, k) - 1)]
       /\ LinesOf(longer) = [k \in 1 .. count + 1 |->
                               SubSeq(longer, LineEnd(longer, k - 1) + 1, LineEnd(longer, k) - 1)]
  BY <1>6 DEF LinesOf
<1>15. ASSUME NEW k \in 1 .. count
       PROVE  LinesOf(longer)[k] = LinesOf(text)[k] /\ LinesOf(text)[k] \in Seq(Pieces)
  <2> DEFINE a == LineEnd(text, k - 1) + 1
             b == LineEnd(text, k) - 1
  <2>1. k - 1 \in 0 .. count /\ k \in 0 .. count /\ k \in 1 .. count + 1
    BY <1>1
  <2>2. a \in 1 .. p + 1 /\ b \in -1 .. p - 1
    <3>1. LineEnd(text, k - 1) \in 0 .. p /\ LineEnd(text, k) \in 0 .. p
      BY <1>12, <2>1
    <3> QED BY <1>1, <3>1
  <2>3. LinesOf(longer)[k] = SubSeq(longer, a, b) /\ LinesOf(text)[k] = SubSeq(text, a, b)
    BY <1>10, <1>14, <2>1
  <2> HIDE DEF a, b
  <2>4. \A j \in a .. b : j \in 1 .. p
    BY <1>1, <2>2
  <2>5. \A j \in a .. b : longer[j] \in Pieces /\ text[j] \in Pieces /\ longer[j] = text[j]
    <3>1. \A j \in 1 .. p : text[j] \in Pieces
      BY <1>1
    <3> QED BY <1>4, <2>4, <3>1
  <2>6. a \in Int /\ b \in Int
    BY <1>1, <2>2
  <2>7. /\ SubSeq(longer, a, b) \in Seq(Pieces) /\ SubSeq(text, a, b) \in Seq(Pieces)
        /\ Len(SubSeq(longer, a, b)) = Len(SubSeq(text, a, b))
        /\ Len(SubSeq(longer, a, b)) = IF a <= b THEN b - a + 1 ELSE 0
        /\ \A i0 \in 1 .. b - a + 1 : SubSeq(longer, a, b)[i0] = longer[a + i0 - 1]
        /\ \A i0 \in 1 .. b - a + 1 : SubSeq(text, a, b)[i0] = text[a + i0 - 1]
    BY <2>5, <2>6, SubSeqProperties
  <2>8. \A i0 \in 1 .. Len(SubSeq(longer, a, b)) : SubSeq(longer, a, b)[i0] = SubSeq(text, a, b)[i0]
    <3>1. \A i0 \in 1 .. Len(SubSeq(longer, a, b)) : i0 \in 1 .. b - a + 1 /\ a + i0 - 1 \in a .. b
      BY <2>6, <2>7
    <3> QED BY <2>5, <2>7, <3>1
  <2>9. SubSeq(longer, a, b) = SubSeq(text, a, b)
    BY <2>7, <2>8, SeqEqual
  <2> QED BY <2>3, <2>7, <2>9
<1>16. LinesOf(longer)[count + 1] = line
  <2>1. count + 1 \in 1 .. count + 1 /\ (count + 1) - 1 = count /\ count \in 0 .. count
    BY <1>1
  <2>2. LinesOf(longer)[count + 1] = SubSeq(longer, p + 1, q - 1)
    BY <1>10, <1>11, <1>12, <1>14, <2>1
  <2>3. q - 1 = p + l /\ p + 1 \in Int /\ p + l \in Int /\ (p + l) - (p + 1) + 1 = l
    BY <1>1
  <2>4. \A j \in 1 .. l : line[j] \in Pieces
    BY <1>1
  <2>5. \A j \in p + 1 .. p + l : j - p \in 1 .. l
    BY <1>1
  <2>6. \A j \in p + 1 .. p + l : longer[j] \in Pieces
    BY <1>4, <2>4, <2>5
  <2>7. /\ SubSeq(longer, p + 1, p + l) \in Seq(Pieces)
        /\ Len(SubSeq(longer, p + 1, p + l)) = l
        /\ \A j \in 1 .. l : SubSeq(longer, p + 1, p + l)[j] = longer[(p + 1) + j - 1]
    <3>1. p + 1 <= p + l <=> l # 0
      BY <1>1
    <3> HIDE DEF p, l, q
    <3> QED BY <2>3, <2>6, <3>1, SubSeqProperties
  <2>8. \A j \in 1 .. l : longer[(p + 1) + j - 1] = line[j]
    <3>1. \A j \in 1 .. l : (p + 1) + j - 1 \in p + 1 .. p + l /\ ((p + 1) + j - 1) - p = j
      BY <1>1
    <3> QED BY <1>4, <3>1
  <2>9. SubSeq(longer, p + 1, p + l) = line
    BY <2>7, <2>8, SeqEqual
  <2> QED BY <2>2, <2>3, <2>9
<1>17. LinesOf(text) \in Seq(Seq(Pieces)) /\ Len(LinesOf(text)) = count
  BY LinesType
<1>18. LinesOf(longer) = Append(LinesOf(text), line)
  <2> DEFINE more == Append(LinesOf(text), line)
  <2>1. /\ more \in Seq(Seq(Pieces)) /\ Len(more) = count + 1
        /\ \A k \in 1 .. count : more[k] = LinesOf(text)[k]
        /\ more[count + 1] = line
    BY <1>17, AppendProperties
  <2> HIDE DEF more, count
  <2>2. \A k \in 1 .. count + 1 : LinesOf(longer)[k] = more[k]
    <3>1. \A k \in 1 .. count + 1 : k \in 1 .. count \/ k = count + 1
      BY <1>1
    <3> QED BY <1>15, <1>16, <2>1, <3>1
  <2>3. LinesOf(longer) = [k \in 1 .. count + 1 |-> LinesOf(longer)[k]]
    BY <1>14
  <2>4. more = [k \in 1 .. count + 1 |-> more[k]]
    BY <1>1, <2>1
  <2>5. LinesOf(longer) = more
    BY <2>2, <2>3, <2>4
  <2> QED BY <2>5 DEF more
<1> QED BY <1>13, <1>18 DEF longer

------------------------------------------------------------------------------
\* Reading numbers.

\* The number read after each digit.
Reads(f, digits, m) == f = [k \in 0 .. m |-> IF k = 0 THEN 0 ELSE Base * f[k - 1] + digits[k][2]]

LEMMA ReadsExists ==
  ASSUME NEW digits, NEW m \in Nat
  PROVE  \E f : Reads(f, digits, m)
<1> DEFINE T == {k \in Nat : \E f : Reads(f, digits, k)}
<1>1. 0 \in T
  <2> DEFINE g == [k \in 0 .. 0 |-> 0]
  <2>1. g = [k \in 0 .. 0 |-> IF k = 0 THEN 0 ELSE Base * g[k - 1] + digits[k][2]]
    <3>1. \A k \in 0 .. 0 : k = 0
      OBVIOUS
    <3> QED BY <3>1
  <2> HIDE DEF g
  <2>2. Reads(g, digits, 0)
    BY <2>1 DEF Reads
  <2> QED BY <2>2
<1>2. ASSUME NEW k \in T
      PROVE  k + 1 \in T
  <2>1. PICK f : Reads(f, digits, k)
    OBVIOUS
  <2> DEFINE g == [j \in 0 .. k + 1 |-> IF j = 0 THEN 0 ELSE Base * f[j - 1] + digits[j][2]]
  <2>2. ASSUME NEW j \in 0 .. k
        PROVE  f[j] = g[j]
    <3>1. f[j] = IF j = 0 THEN 0 ELSE Base * f[j - 1] + digits[j][2]
      BY <2>1 DEF Reads
    <3>2. j \in 0 .. k + 1
      OBVIOUS
    <3> QED BY <3>1, <3>2
  <2>3. ASSUME NEW j \in 0 .. k + 1, j # 0
        PROVE  f[j - 1] = g[j - 1]
    <3>1. j - 1 \in 0 .. k
      BY <2>3
    <3> HIDE DEF g
    <3> QED BY <2>2, <3>1
  <2>4. g = [j \in 0 .. k + 1 |-> IF j = 0 THEN 0 ELSE Base * g[j - 1] + digits[j][2]]
    BY <2>3
  <2> HIDE DEF g
  <2>5. Reads(g, digits, k + 1)
    BY <2>4 DEF Reads
  <2> QED BY <2>5
<1>3. T \in SUBSET Nat
  OBVIOUS
<1> HIDE DEF T
<1>4. T = Nat
  BY <1>1, <1>2, <1>3, SetInduction
<1> QED BY <1>4 DEF T

Value(digits) == CHOOSE f : Reads(f, digits, Len(digits))

LEMMA ValueShape ==
  ASSUME NEW digits \in Seq(Pieces)
  PROVE  /\ Denoted(digits) = Value(digits)[Len(digits)]
         /\ Value(digits)[0] = 0
         /\ \A k \in 1 .. Len(digits) :
              Value(digits)[k] = Base * Value(digits)[k - 1] + digits[k][2]
         /\ \A k \in 0 .. Len(digits) : Value(digits)[k] \in Nat
<1> DEFINE m == Len(digits)
           f == Value(digits)
<1>1. m \in Nat /\ \A k \in 1 .. m : digits[k] \in Pieces
  BY LenProperties, ElementOfSeq
<1>2. Denoted(digits) = f[m]
  BY DEF Denoted, Value, Reads
<1>3. Reads(f, digits, m)
  BY <1>1, ReadsExists DEF Value
<1> HIDE DEF f, m
<1>4. f[0] = 0
  <2>1. 0 \in 0 .. m
    BY <1>1
  <2> QED BY <1>3, <2>1 DEF Reads
<1>5. \A k \in 1 .. m : f[k] = Base * f[k - 1] + digits[k][2]
  <2>1. \A k \in 1 .. m : k \in 0 .. m /\ k # 0
    BY <1>1
  <2> QED BY <1>3, <2>1 DEF Reads
<1>6. \A k \in 1 .. m : digits[k][2] \in Nat
  BY <1>1 DEF Pieces
<1> DEFINE T == {k \in Nat : k <= m => f[k] \in Nat}
<1>7. 0 \in T
  BY <1>4
<1>8. ASSUME NEW k \in T
      PROVE  k + 1 \in T
  <2> SUFFICES ASSUME k + 1 <= m PROVE f[k + 1] \in Nat
    OBVIOUS
  <2>1. k + 1 \in 1 .. m /\ (k + 1) - 1 = k /\ f[k] \in Nat /\ Base \in Nat
    BY <1>1, BufferShape
  <2>2. f[k + 1] = Base * f[k] + digits[k + 1][2]
    BY <1>5, <2>1
  <2> QED BY <1>6, <2>1, <2>2
<1>9. T \in SUBSET Nat
  OBVIOUS
<1> HIDE DEF T
<1>10. T = Nat
  BY <1>7, <1>8, <1>9, SetInduction
<1>11. \A k \in 0 .. m : f[k] \in Nat
  BY <1>1, <1>10 DEF T
<1> QED BY <1>2, <1>4, <1>5, <1>11 DEF f, m

\* The number the buffer's digits denote is the sum of their place values.
LEMMA WrittenDenotes ==
  ASSUME FrameTypeOK
  PROVE  Denoted(Written) = Total(PlaceValues)
<1> DEFINE m == BufferLen - i
           f == Value(Written)
           rest(k) == [j \in i + k .. BufferLen - 1 |-> PlaceValues[j]]
<1>1. i \in 0 .. BufferLen /\ BufferLen \in Nat /\ m \in Nat /\ Base \in Nat /\ i \in Nat
  BY BufferShape DEF FrameTypeOK
<1>2. Written \in Seq(Pieces) /\ Len(Written) = m
  <2>1. Written \in Seq(Pieces)
    BY WrittenShape
  <2>2. Len(Written) = m
    BY <1>1 DEF Written
  <2> QED BY <2>1, <2>2
<1>3. /\ Denoted(Written) = f[m] /\ f[0] = 0
      /\ \A k \in 1 .. m : f[k] = Base * f[k - 1] + Written[k][2]
      /\ \A k \in 0 .. m : f[k] \in Nat
  BY <1>2, ValueShape
<1>4. ASSUME NEW k \in 1 .. m
      PROVE  Written[k][2] = tmp[i + k - 1] /\ tmp[i + k - 1] \in Nat
  <2>1. Written[k] = Digit(tmp[i + k - 1])
    BY DEF Written
  <2>2. i + k - 1 \in Buffer
    BY <1>1 DEF Buffer
  <2> QED BY <2>1, <2>2, BufferShape DEF Digit, FrameTypeOK
<1> HIDE DEF f
<1>5. /\ DOMAIN PlaceValues = i .. BufferLen - 1 /\ IsFiniteSet(DOMAIN PlaceValues)
      /\ \A k \in DOMAIN PlaceValues : PlaceValues[k] \in Nat
  BY PlaceValuesShape
<1>6. ASSUME NEW k \in 0 .. m
      PROVE  /\ IsFiniteSet(DOMAIN rest(k)) /\ \A j \in DOMAIN rest(k) : rest(k)[j] \in Nat
             /\ DOMAIN rest(k) = i + k .. BufferLen - 1
             /\ Total(rest(k)) \in Nat
  <2>1. DOMAIN rest(k) = i + k .. BufferLen - 1
    OBVIOUS
  <2>2. DOMAIN rest(k) \in SUBSET DOMAIN PlaceValues
    BY <1>1, <1>5, <2>1
  <2>3. IsFiniteSet(DOMAIN rest(k))
    BY <1>5, <2>2, FS_Subset
  <2>4. \A j \in DOMAIN rest(k) : rest(k)[j] \in Nat
    BY <1>5, <2>1, <2>2
  <2> HIDE DEF rest
  <2> QED BY <2>1, <2>3, <2>4, TotalType
<1> DEFINE T == {k \in Nat : k <= m => f[k] * Power[m - k] + Total(rest(k)) = Total(PlaceValues)}
<1>7. 0 \in T
  <2>1. rest(0) = PlaceValues
    <3>1. i + 0 = i
      BY <1>1
    <3>2. PlaceValues = [j \in i .. BufferLen - 1 |-> PlaceValues[j]]
      BY DEF PlaceValues
    <3> QED BY <3>1, <3>2
  <2>2. Total(PlaceValues) \in Nat
    BY <1>5, TotalType
  <2>3. f[0] * Power[m - 0] = 0
    <3>1. m - 0 \in 0 .. BufferLen
      BY <1>1
    <3>2. Power[m - 0] \in Nat
      BY <3>1, PowerType
    <3> QED BY <1>3, <3>2
  <2> HIDE DEF rest
  <2> QED BY <2>1, <2>2, <2>3
<1>8. ASSUME NEW k \in T
      PROVE  k + 1 \in T
  <2> SUFFICES ASSUME k + 1 <= m
               PROVE  f[k + 1] * Power[m - (k + 1)] + Total(rest(k + 1)) = Total(PlaceValues)
    OBVIOUS
  <2> DEFINE power == Power[m - (k + 1)]
             d == tmp[i + k]
             v == f[k]
  <2>1. /\ k + 1 \in 1 .. m /\ k \in 0 .. m /\ k + 1 \in 0 .. m /\ (k + 1) - 1 = k
        /\ i + (k + 1) - 1 = i + k
        /\ m - (k + 1) \in 0 .. BufferLen - 1 /\ m - k = (m - (k + 1)) + 1
    BY <1>1
  <2>2. power \in Nat /\ Power[m - k] = Base * power
    BY <2>1, PowerShape
  <2>3. d \in Nat /\ v \in Nat /\ f[k + 1] = Base * v + d
    BY <1>3, <1>4, <2>1
  <2>4. v * (Base * power) + Total(rest(k)) = Total(PlaceValues)
    BY <2>1, <2>2
  <2>5. Total(rest(k)) = Total(rest(k + 1)) + d * power
    <3>1. i + k \in DOMAIN rest(k) /\ DOMAIN rest(k) \ {i + k} = DOMAIN rest(k + 1)
      BY <1>1, <1>6, <2>1
    <3>2. rest(k)[i + k] = d * power
      <4>1. i + k \in i .. BufferLen - 1
        BY <1>1, <2>1
      <4>2. PlaceValues[i + k] = tmp[i + k] * Power[BufferLen - 1 - (i + k)]
        BY <4>1 DEF PlaceValues
      <4>3. BufferLen - 1 - (i + k) = m - (k + 1)
        BY <1>1
      <4>4. rest(k)[i + k] = PlaceValues[i + k]
        BY <1>1, <1>6, <2>1, <3>1
      <4> QED BY <4>2, <4>3, <4>4
    <3>3. rest(k + 1) = Without(rest(k), i + k)
      <4>1. DOMAIN rest(k + 1) \in SUBSET DOMAIN rest(k)
        BY <3>1
      <4>2. \A j \in DOMAIN rest(k + 1) : rest(k + 1)[j] = rest(k)[j]
        BY <4>1
      <4>3. rest(k + 1) = [j \in DOMAIN rest(k + 1) |-> rest(k + 1)[j]]
        OBVIOUS
      <4> HIDE DEF rest
      <4> QED BY <3>1, <4>2, <4>3 DEF Without
    <3> HIDE DEF rest
    <3> QED BY <1>6, <2>1, <3>1, <3>2, <3>3, TotalWithout
  <2>6. Total(rest(k + 1)) \in Nat /\ Base \in Nat
    BY <1>1, <1>6, <2>1
  <2> HIDE DEF power, d, v, rest
  <2>7. (Base * v + d) * power = v * (Base * power) + d * power
    BY <2>2, <2>3, <2>6
  <2>8. v * (Base * power) \in Nat /\ d * power \in Nat
    BY <2>2, <2>3, <2>6
  <2> QED BY <2>3, <2>4, <2>5, <2>6, <2>7, <2>8 DEF power
<1>9. T \in SUBSET Nat
  OBVIOUS
<1> HIDE DEF T
<1>10. m \in T
  BY <1>1, <1>7, <1>8, <1>9, SetInduction
<1>11. Total(rest(m)) = 0 /\ Power[m - m] = 1
  <2>1. DOMAIN rest(m) = {}
    BY <1>1
  <2>2. m - m = 0
    BY <1>1
  <2> QED BY <2>1, <2>2, TotalOfNone, PowerShape
<1>12. f[m] \in Nat
  BY <1>1, <1>3
<1>13. f[m] * Power[m - m] + Total(rest(m)) = Total(PlaceValues)
  BY <1>1, <1>10 DEF T
<1> QED BY <1>3, <1>11, <1>12, <1>13

\* A number as push_u64 writes it: no zero leads unless it is the number 0.
IsNumber(digits, count) ==
  /\ digits \in Seq(Pieces) /\ digits # << >>
  /\ \A k \in 1 .. Len(digits) : IsDigit(digits[k])
  /\ Len(digits) = 1 \/ digits[1][2] > 0
  /\ Denoted(digits) = count

LEMMA ZeroIsNumber == IsNumber(<<Digit(0)>>, 0)
<1> DEFINE d == <<Digit(0)>>
<1>1. Digit(0) \in Pieces /\ IsDigit(Digit(0)) /\ Digit(0)[2] = 0
  BY PieceShape DEF Digit, IsDigit
<1>2. d \in Seq(Pieces) /\ d # << >> /\ Len(d) = 1 /\ d[1] = Digit(0)
  BY <1>1
<1> HIDE DEF d
<1>3. Denoted(d) = 0
  <2>1. /\ Denoted(d) = Value(d)[1] /\ Value(d)[0] = 0
        /\ Value(d)[1] = Base * Value(d)[1 - 1] + d[1][2]
    BY <1>2, ValueShape
  <2>2. 1 - 1 = 0
    OBVIOUS
  <2> QED BY <1>1, <1>2, <2>1, <2>2, BufferShape
<1>4. \A k \in 1 .. Len(d) : IsDigit(d[k])
  BY <1>1, <1>2
<1> QED BY <1>2, <1>3, <1>4 DEF IsNumber, d

\* When nothing is in the buffer, the count is what is left of it.
LEMMA NothingPushed ==
  ASSUME FrameTypeOK, pushing, n = 0, i = BufferLen, NEW count, Denotes(count)
  PROVE  count = 0
<1>1. DOMAIN PlaceValues = {} /\ BufferLen - i = 0
  BY BufferShape DEF PlaceValues
<1>2. Total(PlaceValues) = 0 /\ Power[BufferLen - i] = 1
  BY <1>1, TotalOfNone, PowerShape
<1>3. count = n * Power[BufferLen - i] + Total(PlaceValues)
  BY DEF Denotes
<1> QED BY <1>2, <1>3

LEMMA WrittenIsNumber ==
  ASSUME FrameTypeOK, pushing, n = 0, i < BufferLen, NEW count, Denotes(count)
  PROVE  IsNumber(Written, count)
<1>1. /\ i \in 0 .. BufferLen /\ BufferLen \in Nat
      /\ BufferLen - i \in Nat /\ BufferLen - i > 0
  BY BufferShape DEF FrameTypeOK
<1>2. Written \in Seq(Pieces) /\ Len(Written) = BufferLen - i
  <2>1. Written \in Seq(Pieces)
    BY WrittenShape
  <2> QED BY <1>1, <2>1 DEF Written
<1>3. \A k \in 1 .. Len(Written) : Written[k] = Digit(tmp[i + k - 1])
  BY <1>2 DEF Written
<1>4. \A k \in 1 .. Len(Written) : IsDigit(Written[k])
  BY <1>3 DEF Digit, IsDigit
<1>5. Written # << >>
  BY <1>1, <1>2
<1>6. Written[1][2] > 0
  <2>1. Written[1] = Digit(tmp[i + 1 - 1])
    BY <1>1, <1>2, <1>3
  <2>2. i + 1 - 1 = i /\ i \in Buffer
    BY <1>1 DEF Buffer
  <2>3. tmp[i] # 0 /\ tmp[i] \in 0 .. Base - 1
    BY <2>2 DEF Denotes, FrameTypeOK
  <2> QED BY <2>1, <2>2, <2>3, BufferShape DEF Digit
<1>7. Denoted(Written) = count
  <2>1. count = n * Power[BufferLen - i] + Total(PlaceValues)
    BY DEF Denotes
  <2>2. Power[BufferLen - i] \in Nat
    <3>1. BufferLen - i \in 0 .. BufferLen
      BY <1>1
    <3> QED BY <3>1, PowerType
  <2>3. Total(PlaceValues) \in Nat
    BY PlaceValuesShape, TotalType
  <2> QED BY <2>1, <2>2, <2>3, WrittenDenotes
<1> QED BY <1>2, <1>4, <1>5, <1>6, <1>7 DEF IsNumber

\* A number, a separator and a template are read as the cluster they are of.
LEMMA ReadsRow ==
  ASSUME NEW digits, NEW count, IsNumber(digits, count),
         NEW separator \in Pieces, ~IsDigit(separator), NEW template \in Seq(Pieces)
  PROVE  ReadSeparated(digits \o (<<separator>> \o template), separator)
           = [template |-> template, count |-> count]
<1> DEFINE m == Len(digits)
           t == Len(template)
           rest == <<separator>> \o template
           line == digits \o rest
           ends == {k \in 1 .. Len(line) + 1 : k \in DOMAIN line => ~IsDigit(line[k])}
<1>1. /\ m \in Nat /\ m > 0 /\ t \in Nat /\ digits \in Seq(Pieces)
      /\ \A k \in 1 .. m : IsDigit(digits[k]) /\ digits[k] \in Pieces
      /\ \A k \in 1 .. t : template[k] \in Pieces
  <2>1. digits \in Seq(Pieces) /\ digits # << >> /\ m \in Nat
    BY LenProperties DEF IsNumber
  <2>2. m # 0
    BY <2>1, EmptySeq
  <2>3. t \in Nat /\ \A k \in 1 .. t : template[k] \in Pieces
    BY LenProperties, ElementOfSeq
  <2>4. \A k \in 1 .. m : digits[k] \in Pieces
    BY <2>1, ElementOfSeq
  <2> QED BY <2>1, <2>2, <2>3, <2>4 DEF IsNumber
<1>2. /\ rest \in Seq(Pieces) /\ Len(rest) = t + 1
      /\ rest[1] = separator /\ \A k \in 1 .. t : rest[k + 1] = template[k]
  <2> DEFINE one == <<separator>>
  <2>1. one \in Seq(Pieces) /\ Len(one) = 1 /\ one[1] = separator
    OBVIOUS
  <2> HIDE DEF one
  <2>2. /\ one \o template \in Seq(Pieces) /\ Len(one \o template) = 1 + t
        /\ \A k \in 1 .. 1 + t : (one \o template)[k] = IF k <= 1 THEN one[k] ELSE template[k - 1]
    <3>1. /\ one \o template \in Seq(Pieces) /\ Len(one \o template) = Len(one) + Len(template)
          /\ \A k \in 1 .. Len(one) + Len(template) :
               (one \o template)[k] = IF k <= Len(one) THEN one[k] ELSE template[k - Len(one)]
      BY <2>1, ConcatProperties
    <3> QED BY <2>1, <3>1
  <2>3. 1 \in 1 .. 1 + t /\ \A k \in 1 .. t : k + 1 \in 1 .. 1 + t /\ ~(k + 1 <= 1) /\ (k + 1) - 1 = k
    BY <1>1
  <2> HIDE DEF t
  <2>4. (one \o template)[1] = separator
    BY <2>1, <2>2, <2>3
  <2>5. \A k \in 1 .. t : (one \o template)[k + 1] = template[k]
    BY <2>2, <2>3
  <2> QED BY <1>1, <2>2, <2>4, <2>5 DEF one
<1> HIDE DEF rest, m, t
<1>3. /\ line \in Seq(Pieces) /\ Len(line) = m + (t + 1)
      /\ \A k \in 1 .. m + (t + 1) : line[k] = IF k <= m THEN digits[k] ELSE rest[k - m]
  <2>1. /\ line \in Seq(Pieces) /\ Len(line) = Len(digits) + Len(rest)
        /\ \A k \in 1 .. Len(digits) + Len(rest) :
             line[k] = IF k <= Len(digits) THEN digits[k] ELSE rest[k - Len(digits)]
    BY <1>1, <1>2, ConcatProperties
  <2> QED BY <1>2, <2>1 DEF m
<1>4. /\ \A k \in 1 .. m : line[k] = digits[k]
      /\ line[m + 1] = separator
      /\ \A k \in 1 .. t : line[m + 1 + k] = template[k]
  <2>1. \A k \in 1 .. m : k \in 1 .. m + (t + 1) /\ k <= m
    BY <1>1
  <2>2. m + 1 \in 1 .. m + (t + 1) /\ ~(m + 1 <= m) /\ (m + 1) - m = 1
    BY <1>1
  <2>3. \A k \in 1 .. t : /\ m + 1 + k \in 1 .. m + (t + 1) /\ ~(m + 1 + k <= m)
                          /\ (m + 1 + k) - m = k + 1
    BY <1>1
  <2>4. \A k \in 1 .. t : line[m + 1 + k] = rest[k + 1]
    BY <1>3, <2>3
  <2>5. line[m + 1] = rest[1]
    BY <1>3, <2>2
  <2>6. \A k \in 1 .. m : line[k] = digits[k]
    BY <1>3, <2>1
  <2> QED BY <1>2, <2>4, <2>5, <2>6
<1>5. DOMAIN line = 1 .. m + (t + 1) /\ m + 1 \in DOMAIN line /\ m + 1 <= Len(line)
  BY <1>1, <1>3, LenProperties
<1> HIDE DEF line
<1>6. NumberEnd(line) = m + 1
  <2>1. m + 1 \in ends
    BY <1>1, <1>3, <1>4, <1>5
  <2>2. \A k \in ends : m + 1 <= k
    <3> SUFFICES ASSUME NEW k \in ends, ~(m + 1 <= k) PROVE FALSE
      OBVIOUS
    <3>1. k \in 1 .. m /\ k \in DOMAIN line
      BY <1>1, <1>3, <1>5
    <3> QED BY <1>1, <1>4, <3>1
  <2>3. \A k \in ends : k \in Nat
    BY <1>1, <1>3
  <2> HIDE DEF ends
  <2>4. \A e \in ends : (\A k \in ends : e <= k) => e = m + 1
    BY <1>1, <2>1, <2>2, <2>3
  <2>5. Min(ends) = m + 1
    BY <2>1, <2>2, <2>4 DEF Min
  <2> QED BY <2>5 DEF NumberEnd, ends
<1>7. SubSeq(line, m + 2, m + (t + 1)) = template
  <2>1. m + 2 \in Int /\ m + (t + 1) \in Int /\ (m + (t + 1)) - (m + 2) + 1 = t
    BY <1>1
  <2>2. \A j \in m + 2 .. m + (t + 1) : line[j] \in Pieces
    <3>1. \A j \in 1 .. m + (t + 1) : line[j] \in Pieces
      BY <1>3, ElementOfSeq
    <3> QED BY <1>1, <3>1
  <2>3. /\ SubSeq(line, m + 2, m + (t + 1)) \in Seq(Pieces)
        /\ Len(SubSeq(line, m + 2, m + (t + 1)))
             = IF m + 2 <= m + (t + 1) THEN (m + (t + 1)) - (m + 2) + 1 ELSE 0
        /\ \A k \in 1 .. t : SubSeq(line, m + 2, m + (t + 1))[k] = line[m + 2 + k - 1]
    BY <2>1, <2>2, SubSeqProperties
  <2>4. Len(SubSeq(line, m + 2, m + (t + 1))) = t
    BY <1>1, <2>3
  <2>5. \A k \in 1 .. t : SubSeq(line, m + 2, m + (t + 1))[k] = template[k]
    <3>1. \A k \in 1 .. t : m + 2 + k - 1 = m + 1 + k
      BY <1>1
    <3> QED BY <1>4, <2>3, <3>1
  <2>6. Len(template) = t
    BY DEF t
  <2> QED BY <2>3, <2>4, <2>5, <2>6, SeqEqual
<1>8. SubSeq(line, 1, m) = digits
  <2>1. \A j \in 1 .. m : line[j] \in Pieces
    BY <1>1, <1>4
  <2>2. /\ SubSeq(line, 1, m) \in Seq(Pieces)
        /\ Len(SubSeq(line, 1, m)) = IF 1 <= m THEN m - 1 + 1 ELSE 0
        /\ \A k \in 1 .. m - 1 + 1 : SubSeq(line, 1, m)[k] = line[1 + k - 1]
    BY <1>1, <2>1, SubSeqProperties
  <2>3. Len(SubSeq(line, 1, m)) = m
    BY <1>1, <2>2
  <2>4. \A k \in 1 .. m : SubSeq(line, 1, m)[k] = digits[k]
    <3>1. \A k \in 1 .. m : k \in 1 .. m - 1 + 1 /\ 1 + k - 1 = k
      BY <1>1
    <3> QED BY <1>4, <2>2, <3>1
  <2>5. Len(digits) = m
    BY DEF m
  <2> QED BY <1>1, <2>2, <2>3, <2>4, <2>5, SeqEqual
<1>9. Denoted(digits) = count
  BY DEF IsNumber
<1>10. /\ NumberEnd(line) > 1 /\ NumberEnd(line) <= Len(line)
       /\ line[NumberEnd(line)] = separator
       /\ NumberEnd(line) + 1 = m + 2 /\ NumberEnd(line) - 1 = m /\ Len(line) = m + (t + 1)
  BY <1>1, <1>3, <1>4, <1>5, <1>6
<1> QED BY <1>7, <1>8, <1>9, <1>10 DEF ReadSeparated, line, rest

------------------------------------------------------------------------------
\* Reading rows.

LEMMA PiecesDiffer ==
  /\ ~IsDigit(Tab) /\ ~IsDigit(Bar) /\ ~IsDigit(MarkClose) /\ ~IsDigit(Newline)
  /\ Tab # Newline /\ Bar # Newline /\ MarkClose # Newline /\ MarkOpen # Newline
BY DEF IsDigit, Piece, Tab, Bar, MarkClose, MarkOpen, Newline

\* Texts without a newline.
Plain(text) == text \in Seq(Pieces) /\ \A k \in 1 .. Len(text) : text[k] # Newline

LEMMA PlainConcat ==
  ASSUME NEW a, Plain(a), NEW b, Plain(b)
  PROVE  Plain(a \o b)
<1>1. /\ a \in Seq(Pieces) /\ b \in Seq(Pieces) /\ Len(a) \in Nat /\ Len(b) \in Nat
      /\ \A k \in 1 .. Len(a) : a[k] # Newline
      /\ \A k \in 1 .. Len(b) : b[k] # Newline
  BY LenProperties DEF Plain
<1>2. /\ a \o b \in Seq(Pieces) /\ Len(a \o b) = Len(a) + Len(b)
      /\ \A k \in 1 .. Len(a) + Len(b) : (a \o b)[k] = IF k <= Len(a) THEN a[k] ELSE b[k - Len(a)]
  BY <1>1, ConcatProperties
<1>3. \A k \in 1 .. Len(a) + Len(b) : k \in 1 .. Len(a) \/ (~(k <= Len(a)) /\ k - Len(a) \in 1 .. Len(b))
  BY <1>1
<1> QED BY <1>1, <1>2, <1>3 DEF Plain

LEMMA PlainShape ==
  /\ Plain(<< >>) /\ Plain(<<Tab>>) /\ Plain(<<Bar>>) /\ Plain(<<MarkOpen>>) /\ Plain(<<MarkClose>>)
  /\ \A digits, count : IsNumber(digits, count) => Plain(digits)
<1>1. \A p \in Pieces : p # Newline => Plain(<<p>>)
  BY DEF Plain
<1>2. Plain(<< >>)
  BY DEF Plain
<1>3. ASSUME NEW digits, NEW count, IsNumber(digits, count)
      PROVE  Plain(digits)
  BY <1>3, PiecesDiffer DEF IsNumber, Plain
<1> QED BY <1>1, <1>2, <1>3, PieceShape, PiecesDiffer

LineFormat == format \in {"compact", "tsv", "toon"}
ReadLine(line) ==
  IF format = "compact" THEN ReadCompactLine(line)
  ELSE ReadSeparated(line, IF format = "tsv" THEN Tab ELSE Bar)

\* What is written of a row behind its count.
CountWritten(row, c) ==
  IF HasCount(c) THEN \E digits : IsNumber(digits, c.count) /\ row = Row(c).before \o digits
  ELSE row = << >>

\* The row of c is a line, and read as c.
LEMMA RowIsRead ==
  ASSUME LineFormat, NEW c \in Cluster, Carried(c), NEW row, CountWritten(row, c)
  PROVE  \E line : Plain(line) /\ row \o Row(c).behind = line \o <<Newline>> /\ ReadLine(line) = c
<1> DEFINE t == c.template
           nl == <<Newline>>
<1>1. /\ t \in Seq(Pieces) /\ c.count \in Nat /\ nl \in Seq(Pieces)
      /\ c = [template |-> t, count |-> c.count]
  <2>1. t \in Seq(Pieces)
    BY TemplatesAssumption DEF Cluster
  <2>2. c.count \in Nat
    <3>1. c.count \in Counts
      BY DEF Cluster
    <3>2. c.count \in 0 .. MaxU64
      BY <3>1, CountsAssumption
    <3> QED BY <3>2, BufferShape
  <2>3. c = [template |-> t, count |-> c.count]
    BY DEF Cluster
  <2> QED BY <2>1, <2>2, <2>3, PieceShape
<1>2. Plain(t)
  BY <1>1, LenProperties DEF Plain, LineFormat, Carried
<1>3. ASSUME NEW digits, IsNumber(digits, c.count), NEW separator \in Pieces, ~IsDigit(separator),
             separator # Newline
      PROVE  /\ Plain(digits \o (<<separator>> \o t))
             /\ ReadSeparated(digits \o (<<separator>> \o t), separator) = c
             /\ digits \o ((<<separator>> \o t) \o nl) = (digits \o (<<separator>> \o t)) \o nl
  <2>1. digits \in Seq(Pieces) /\ Plain(digits)
    BY <1>3, PlainShape DEF IsNumber
  <2>2. Plain(<<separator>>)
    BY <1>3 DEF Plain
  <2>3. Plain(<<separator>> \o t) /\ <<separator>> \o t \in Seq(Pieces)
    BY <1>2, <2>2, PlainConcat DEF Plain
  <2>4. Plain(digits \o (<<separator>> \o t))
    BY <2>1, <2>3, PlainConcat
  <2>5. ReadSeparated(digits \o (<<separator>> \o t), separator) = c
    BY <1>1, <1>3, ReadsRow
  <2>6. digits \o ((<<separator>> \o t) \o nl) = (digits \o (<<separator>> \o t)) \o nl
    BY <1>1, <2>1, <2>3, ConcatAssociative
  <2> QED BY <2>4, <2>5, <2>6
<1> HIDE DEF t, nl
<1>4. CASE format \in {"tsv", "toon"}
  <2> DEFINE separator == IF format = "tsv" THEN Tab ELSE Bar
  <2>1. separator \in Pieces /\ ~IsDigit(separator) /\ separator # Newline
    BY PieceShape, PiecesDiffer
  <2>2. HasCount(c)
    BY <1>4 DEF HasCount
  <2>3. Row(c).before = << >> /\ Row(c).behind = (<<separator>> \o t) \o nl
    BY <1>4 DEF Row, TsvRow, ToonRow, t, nl
  <2> HIDE DEF separator
  <2>4. PICK digits : IsNumber(digits, c.count) /\ row = << >> \o digits
    BY <2>2, <2>3 DEF CountWritten
  <2>5. row = digits
    BY <2>4, ConcatEmptySeq DEF IsNumber
  <2>6. ReadLine(digits \o (<<separator>> \o t)) = c
    BY <1>3, <1>4, <2>1, <2>4 DEF ReadLine, separator
  <2> QED BY <1>3, <2>1, <2>3, <2>4, <2>5, <2>6 DEF nl
<1>5. CASE format = "compact" /\ c.count > 1
  <2> DEFINE open == <<MarkOpen>>
  <2>1. HasCount(c)
    BY <1>5 DEF HasCount
  <2>2. Row(c).before = open /\ Row(c).behind = (<<MarkClose>> \o t) \o nl
    BY <1>5, <2>1 DEF Row, CompactRow, t, nl
  <2>3. PICK digits : IsNumber(digits, c.count) /\ row = open \o digits
    BY <2>1, <2>2 DEF CountWritten
  <2> DEFINE rest == digits \o (<<MarkClose>> \o t)
             line == open \o rest
  <2>4. /\ Plain(rest) /\ ReadSeparated(rest, MarkClose) = c
        /\ digits \o ((<<MarkClose>> \o t) \o nl) = rest \o nl
    BY <1>3, <2>3, PieceShape, PiecesDiffer
  <2>5. Plain(line)
    BY <2>4, PlainShape, PlainConcat
  <2>6. row \o Row(c).behind = line \o nl
    <3>1. /\ open \in Seq(Pieces) /\ digits \in Seq(Pieces) /\ rest \in Seq(Pieces)
          /\ (<<MarkClose>> \o t) \o nl \in Seq(Pieces)
      <4>1. open \in Seq(Pieces) /\ <<MarkClose>> \in Seq(Pieces)
        BY PieceShape
      <4> QED BY <1>1, <2>3, <2>4, <4>1, TextShape DEF Plain, IsNumber
    <3> HIDE DEF open, rest
    <3>2. (open \o digits) \o ((<<MarkClose>> \o t) \o nl) = open \o (digits \o ((<<MarkClose>> \o t) \o nl))
      BY <3>1, ConcatAssociative
    <3>3. open \o (rest \o nl) = (open \o rest) \o nl
      BY <1>1, <3>1, ConcatAssociative
    <3> QED BY <2>2, <2>3, <2>4, <3>2, <3>3
  <2>7. line # << >> /\ line[1] = MarkOpen /\ Tail(line) = rest
    <3>1. open \in Seq(Pieces) /\ rest \in Seq(Pieces) /\ Len(open) = 1 /\ open[1] = MarkOpen /\ open # << >>
      BY <2>4, PieceShape DEF Plain
    <3> HIDE DEF open, rest
    <3>2. line \in Seq(Pieces) /\ line # << >> /\ line[1] = MarkOpen
      BY <3>1, ConcatHead
    <3>3. /\ Len(line) = Len(open) + Len(rest) /\ Len(rest) \in Nat
          /\ \A k \in 1 .. Len(open) + Len(rest) :
               line[k] = IF k <= Len(open) THEN open[k] ELSE rest[k - Len(open)]
      BY <3>1, ConcatProperties, LenProperties
    <3> HIDE DEF line
    <3>4. /\ Tail(line) \in Seq(Pieces) /\ Len(Tail(line)) = Len(line) - 1
          /\ \A k \in 1 .. Len(Tail(line)) : Tail(line)[k] = line[k + 1]
      BY <3>2, HeadTailProperties
    <3>5. Len(Tail(line)) = Len(rest)
      BY <3>1, <3>3, <3>4
    <3>6. \A k \in 1 .. Len(rest) : Tail(line)[k] = rest[k]
      <4>1. \A k \in 1 .. Len(rest) : /\ k + 1 \in 1 .. Len(open) + Len(rest)
                                      /\ ~(k + 1 <= Len(open)) /\ (k + 1) - Len(open) = k
        BY <3>1, <3>3
      <4> QED BY <3>3, <3>4, <3>5, <4>1
    <3>7. Tail(line) = rest
      BY <3>1, <3>4, <3>5, <3>6, SeqEqual
    <3> QED BY <3>2, <3>7
  <2>8. c # NoRow
    BY <1>1 DEF NoRow
  <2> HIDE DEF line, rest
  <2>9. ReadLine(line) = c
    BY <1>5, <2>4, <2>7, <2>8 DEF ReadLine, ReadCompactLine
  <2> QED BY <2>5, <2>6, <2>9 DEF nl
<1>6. CASE format = "compact" /\ ~(c.count > 1)
  <2>1. ~HasCount(c) /\ c.count = 1 /\ ReadCompactLine(t).template = t
    BY <1>1, <1>6 DEF HasCount, Carried, t
  <2>2. row = << >> /\ Row(c).behind = (<< >> \o t) \o nl
    BY <1>6, <2>1 DEF Row, CompactRow, CountWritten, t, nl
  <2>3. row \o Row(c).behind = t \o nl
    <3>1. << >> \o t = t
      BY <1>1, ConcatEmptySeq
    <3>2. t \o nl \in Seq(Pieces)
      BY <1>1, TextShape
    <3> QED BY <2>2, <3>1, <3>2, ConcatEmptySeq
  <2>4. ReadLine(t) = c
    <3> DEFINE r == ReadSeparated(Tail(t), MarkClose)
    <3>1. ~(t # << >> /\ t[1] = MarkOpen /\ r # NoRow)
      <4> SUFFICES ASSUME t # << >>, r # NoRow, t[1] = MarkOpen PROVE FALSE
        OBVIOUS
      <4> DEFINE tail == Tail(t)
                 end == NumberEnd(tail)
      <4>1. tail \in Seq(Pieces) /\ Len(tail) = Len(t) - 1 /\ Len(tail) \in Nat /\ Len(t) \in Nat
        BY <1>1, HeadTailProperties, LenProperties
      <4>2. end > 1 /\ end <= Len(tail) /\ r.template = SubSeq(tail, end + 1, Len(tail))
        BY DEF ReadSeparated
      <4>3. r.template = t
        BY <2>1 DEF ReadCompactLine
      <4>4. end \in Nat
        <5> DEFINE ends == {k \in 1 .. Len(tail) + 1 : k \in DOMAIN tail => ~IsDigit(tail[k])}
        <5>1. Len(tail) + 1 \in ends
          BY <4>1, LenProperties
        <5>2. ends \in SUBSET Nat /\ ends # {}
          <6>1. ends \in SUBSET (1 .. Len(tail) + 1)
            OBVIOUS
          <6> HIDE DEF ends, tail
          <6> QED BY <4>1, <5>1, <6>1
        <5> HIDE DEF ends
        <5>3. PICK e \in ends : \A k \in ends : e <= k
          BY <5>2, LeastExists
        <5>4. Min(ends) \in ends
          BY <5>3 DEF Min
        <5> QED BY <5>2, <5>4 DEF NumberEnd, ends
      <4> HIDE DEF end, r
      <4>5. Len(r.template) <= Len(tail)
        <5>1. \A k \in end + 1 .. Len(tail) : tail[k] \in Pieces
          <6>1. \A k \in 1 .. Len(tail) : tail[k] \in Pieces
            BY <4>1, ElementOfSeq
          <6> QED BY <4>1, <4>4, <6>1
        <5>2. Len(SubSeq(tail, end + 1, Len(tail)))
                = IF end + 1 <= Len(tail) THEN Len(tail) - (end + 1) + 1 ELSE 0
          <6> HIDE DEF tail
          <6>1. end + 1 \in Int /\ Len(tail) \in Int
            BY <4>1, <4>4
          <6> QED BY <5>1, <6>1, SubSeqProperties
        <5> HIDE DEF tail
        <5> QED BY <4>1, <4>2, <4>4, <5>2
      <4> HIDE DEF tail
      <4> QED BY <4>1, <4>3, <4>5
    <3>2. ReadCompactLine(t) = [template |-> t, count |-> 1]
      BY <3>1 DEF ReadCompactLine
    <3> QED BY <1>1, <1>6, <2>1, <3>2 DEF ReadLine
  <2> QED BY <1>2, <2>3, <2>4 DEF nl
<1> QED BY <1>4, <1>5, <1>6 DEF LineFormat

------------------------------------------------------------------------------
\* What has been written so far, read.

AllCarried == \A k \in DOMAIN clusters : Carried(clusters[k])

\* push_u64 runs only for a count, and a text that is returned is complete.
ControlInv ==
  /\ pushing => counted /\ HasCount(clusters[next])
  /\ closed => next > Len(clusters)

LEMMA SameFormat ==
  ASSUME format' = format, NEW x
  PROVE  HasCount(x)' = HasCount(x) /\ Carried(x)' = Carried(x) /\ ReadLine(x)' = ReadLine(x)
BY DEF HasCount, Carried, ReadLine

LEMMA SameRow ==
  ASSUME format' = format, next' = next, NEW x
  PROVE  Row(x)' = Row(x) /\ HasCount(x)' = HasCount(x)
BY DEF Row, HasCount, CompactRow, TsvRow, ToonRow, JsonObject

LEMMA ControlStep == RowInv /\ ControlInv /\ [Next]_vars => ControlInv'
<1> SUFFICES ASSUME RowInv, ControlInv, [Next]_vars PROVE ControlInv'
  OBVIOUS
<1>1. next \in 1 .. Len(clusters) + 1 /\ Len(clusters) \in Nat
  BY DEF RowInv, TypeOK
<1>2. CASE BeginRow
  <2>1. counted' = TRUE /\ next <= Len(clusters) /\ UNCHANGED <<format, clusters, next, closed>>
    BY <1>2 DEF BeginRow
  <2>2. ~pushing
    BY <1>2 DEF BeginRow, ControlInv
  <2>3. ~HasCount(clusters[next]) => pushing' = pushing
    BY <1>2 DEF BeginRow, frame
  <2>4. HasCount(clusters[next])' = HasCount(clusters[next])
    BY <2>1 DEF HasCount
  <2> QED BY <1>1, <2>1, <2>2, <2>3, <2>4 DEF ControlInv
<1>3. CASE PushCount
  <2>1. UNCHANGED <<format, clusters, next, counted, closed>>
    BY <1>3 DEF PushCount
  <2>2. pushing' => pushing
    BY <1>3 DEF PushCount, Push, PushZero, PushDigit, PushBuffer
  <2>3. HasCount(clusters[next])' = HasCount(clusters[next])
    BY <2>1 DEF HasCount
  <2> QED BY <2>1, <2>2, <2>3 DEF ControlInv
<1>4. CASE EndRow
  <2>1. ~pushing /\ pushing' = pushing /\ next' = next + 1 /\ UNCHANGED <<clusters, closed>>
    BY <1>4 DEF EndRow, frame
  <2> QED BY <1>1, <2>1 DEF ControlInv
<1>5. CASE Return
  <2>1. next > Len(clusters) /\ UNCHANGED <<pushing, format, clusters, next, counted>>
    BY <1>5 DEF Return, frame
  <2>2. HasCount(clusters[next])' = HasCount(clusters[next])
    BY <2>1 DEF HasCount
  <2> QED BY <2>1, <2>2 DEF ControlInv
<1>6. CASE UNCHANGED vars
  BY <1>6 DEF vars, frame, ControlInv, HasCount
<1> QED BY <1>2, <1>3, <1>4, <1>5, <1>6 DEF Next

\* The row that is being written, without the rows before it.
Begun(row) ==
  /\ row \in Seq(Pieces)
  /\ ~counted => row = << >>
  /\ counted /\ pushing => row = Row(clusters[next]).before
  /\ counted /\ ~pushing => CountWritten(row, clusters[next])

\* The lines of text are read as the clusters before next.
ReadSoFar(text) ==
  /\ Terminated(text)
  /\ Len(LinesOf(text)) = next - 1
  /\ \A k \in 1 .. next - 1 : ReadLine(LinesOf(text)[k]) = clusters[k]

LinesInv ==
  LineFormat /\ AllCarried =>
    \E text, row : ReadSoFar(text) /\ Begun(row) /\ out = text \o row

LEMMA LinesStep == RowInv /\ ControlInv /\ LinesInv /\ [Next]_vars => LinesInv'
<1> SUFFICES ASSUME RowInv, ControlInv, LinesInv, [Next]_vars, LineFormat', AllCarried'
             PROVE  \E text, row : (ReadSoFar(text) /\ Begun(row) /\ out = text \o row)'
  BY DEF LinesInv
<1>1. /\ next \in 1 .. Len(clusters) + 1 /\ Len(clusters) \in Nat /\ next \in Nat
      /\ clusters \in Seq(Cluster) /\ FrameTypeOK /\ format \in Formats
  BY DEF RowInv, TypeOK
<1>2. format' = format /\ clusters' = clusters
  BY DEF Next, BeginRow, PushCount, EndRow, Return, vars
<1>3. LineFormat /\ AllCarried
  <2>1. LineFormat
    BY <1>2 DEF LineFormat
  <2>2. ASSUME NEW k \in DOMAIN clusters
        PROVE  Carried(clusters[k])
    <3> DEFINE x == clusters[k]
    <3>1. Carried(clusters[k])'
      BY <1>2 DEF AllCarried
    <3> QED BY <1>2, <3>1 DEF Carried
  <2> QED BY <2>1, <2>2 DEF AllCarried
<1>4. PICK text, row : ReadSoFar(text) /\ Begun(row) /\ out = text \o row
  BY <1>3 DEF LinesInv
<1>5. text \in Seq(Pieces) /\ row \in Seq(Pieces)
  BY <1>4 DEF ReadSoFar, Terminated, Begun
<1>6. ASSUME next' = next
      PROVE  ReadSoFar(text)'
  BY <1>2, <1>4, <1>6, SameFormat DEF ReadSoFar
<1>7. CASE BeginRow
  <2> DEFINE c == clusters[next]
  <2>0. PICK begun : begun = Row(c).before
    OBVIOUS
  <2>1. /\ ~counted /\ next <= Len(clusters) /\ counted' = TRUE /\ next' = next
        /\ out' = out \o Row(clusters[next]).before
    BY <1>7 DEF BeginRow
  <2>2. row = << >> /\ ~pushing /\ c \in Cluster
    BY <1>1, <1>4, <2>1 DEF Begun, ControlInv
  <2>3. begun \in Seq(Pieces)
    BY <1>1, <2>0, <2>2, RowShape
  <2>4. out' = text \o begun
    BY <1>4, <1>5, <2>0, <2>1, <2>2, ConcatEmptySeq
  <2>5. (HasCount(c) => pushing') /\ (~HasCount(c) => ~pushing')
    BY <1>7, <2>2 DEF BeginRow, Call, frame
  <2>6. ~HasCount(c) => begun = << >>
    BY <1>3, <2>0 DEF HasCount, Row, CompactRow, LineFormat
  <2>7. Begun(begun)'
    <3>1. Row(clusters[next])' = Row(c) /\ HasCount(clusters[next])' = HasCount(c)
      BY <1>2, <2>1, SameRow
    <3> HIDE DEF c
    <3>2. CASE HasCount(c)
      BY <2>0, <2>1, <2>3, <2>5, <3>1, <3>2 DEF Begun
    <3>3. CASE ~HasCount(c)
      BY <2>1, <2>3, <2>5, <2>6, <3>1, <3>3 DEF Begun, CountWritten
    <3> QED BY <3>2, <3>3
  <2> QED BY <1>6, <2>1, <2>4, <2>7
<1>8. CASE PushCount
  <2> DEFINE c == clusters[next]
  <2>1. UNCHANGED <<format, clusters, next, counted, closed>> /\ pushing
    BY <1>8 DEF PushCount, Push, PushZero, PushDigit, PushBuffer
  <2>2. counted /\ HasCount(c) /\ row = Row(c).before
    BY <1>4, <2>1 DEF ControlInv, Begun
  <2>3. Row(clusters[next])' = Row(c) /\ HasCount(clusters[next])' = HasCount(c)
    BY <2>1, SameRow
  <2>4. ASSUME NEW digits, IsNumber(digits, c.count), out' = out \o digits, pushing' = FALSE
        PROVE  out' = text \o (row \o digits) /\ Begun(row \o digits)'
    <3>1. digits \in Seq(Pieces)
      BY <2>4 DEF IsNumber
    <3>2. out' = text \o (row \o digits) /\ row \o digits \in Seq(Pieces)
      BY <1>4, <1>5, <2>4, <3>1, ConcatAssociative, TextShape
    <3>3. CountWritten(row \o digits, clusters[next])'
      BY <2>1, <2>2, <2>3, <2>4 DEF CountWritten
    <3> QED BY <2>1, <2>2, <2>4, <3>2, <3>3 DEF Begun
  <2>5. CASE PushDigit
    <3>1. out' = out /\ pushing' = pushing
      BY <2>5 DEF PushDigit
    <3>2. Begun(row)'
      BY <1>4, <2>1, <2>2, <2>3, <3>1 DEF Begun
    <3> QED BY <1>4, <1>6, <2>1, <3>1, <3>2
  <2>6. CASE PushZero
    <3>1. out' = Append(out, Digit(0)) /\ pushing' = FALSE /\ n = 0 /\ i = BufferLen
      BY <2>6 DEF PushZero
    <3>2. out' = out \o <<Digit(0)>>
      <4>1. out \in Seq(Pieces) /\ Digit(0) \in Pieces
        BY PieceShape DEF RowInv, TypeOK
      <4> QED BY <3>1, <4>1, AppendIsConcat
    <3>3. c.count = 0
      BY <1>1, <2>1, <2>2, <3>1, NothingPushed DEF RowInv
    <3> QED BY <1>6, <2>1, <2>4, <3>1, <3>2, <3>3, ZeroIsNumber
  <2>7. CASE PushBuffer
    <3>1. out' = out \o Written /\ pushing' = FALSE /\ n = 0 /\ i < BufferLen
      BY <2>7 DEF PushBuffer
    <3>2. IsNumber(Written, c.count)
      BY <1>1, <2>1, <2>2, <3>1, WrittenIsNumber DEF RowInv
    <3> QED BY <1>6, <2>1, <2>4, <3>1, <3>2
  <2> QED BY <1>8, <2>5, <2>6, <2>7 DEF PushCount, Push
<1>9. CASE EndRow
  <2> DEFINE c == clusters[next]
  <2>1. /\ counted /\ ~pushing /\ counted' = FALSE /\ next' = next + 1
        /\ out' = out \o Row(c).behind
    BY <1>9 DEF EndRow
  <2>2. CountWritten(row, c)
    BY <1>4, <2>1 DEF Begun
  <2>3. next \in DOMAIN clusters /\ c \in Cluster /\ Carried(c) /\ Row(c).behind \in Seq(Pieces)
    <3>1. next \in DOMAIN clusters /\ c \in Cluster
      BY <1>1, <2>1 DEF RowInv
    <3> QED BY <1>1, <1>3, <3>1, RowShape DEF AllCarried
  <2>4. PICK line : Plain(line) /\ row \o Row(c).behind = line \o <<Newline>> /\ ReadLine(line) = c
    BY <1>3, <2>2, <2>3, RowIsRead
  <2> DEFINE longer == text \o line \o <<Newline>>
  <2>5. out' = longer
    <3>1. line \in Seq(Pieces) /\ <<Newline>> \in Seq(Pieces)
      BY <2>4, PieceShape DEF Plain
    <3>2. (text \o row) \o Row(c).behind = text \o (row \o Row(c).behind)
      <4> DEFINE behind == Row(c).behind
      <4>1. behind \in Seq(Pieces)
        BY <2>3
      <4> HIDE DEF behind
      <4>2. (text \o row) \o behind = text \o (row \o behind)
        BY <1>5, <4>1, ConcatAssociative
      <4> QED BY <4>2 DEF behind
    <3>3. (text \o line) \o <<Newline>> = text \o (line \o <<Newline>>)
      BY <1>5, <3>1, ConcatAssociative
    <3> QED BY <1>4, <2>1, <2>4, <3>2, <3>3
  <2>6. Terminated(longer) /\ LinesOf(longer) = Append(LinesOf(text), line)
    BY <1>4, <2>4, OneLineMore DEF Plain, ReadSoFar
  <2>7. LinesOf(text) \in Seq(Seq(Pieces)) /\ line \in Seq(Pieces)
    BY <1>4, <2>4, LinesType DEF ReadSoFar, Plain
  <2> HIDE DEF longer, c
  <2>8. /\ Len(LinesOf(longer)) = next
        /\ \A k \in 1 .. next - 1 : LinesOf(longer)[k] = LinesOf(text)[k]
        /\ LinesOf(longer)[next] = line
    <3>1. Len(LinesOf(text)) = next - 1
      BY <1>4 DEF ReadSoFar
    <3> QED BY <1>1, <2>6, <2>7, <3>1, AppendProperties
  <2>9. \A k \in 1 .. next : ReadLine(LinesOf(longer)[k]) = clusters[k]
    <3>1. \A k \in 1 .. next : k \in 1 .. next - 1 \/ k = next
      BY <1>1
    <3> QED BY <1>4, <2>4, <2>8, <3>1 DEF ReadSoFar, c
  <2>10. ReadSoFar(longer)'
    <3>1. next' - 1 = next
      BY <1>1, <2>1
    <3>2. \A k \in 1 .. next : ReadLine(LinesOf(longer)[k])' = clusters'[k]
      BY <1>2, <2>9, SameFormat
    <3> QED BY <2>6, <2>8, <3>1, <3>2 DEF ReadSoFar
  <2>11. Begun(<< >>)'
    <3>1. << >> \in Seq(Pieces)
      OBVIOUS
    <3> QED BY <2>1, <3>1 DEF Begun
  <2>12. longer = longer \o << >>
    <3>1. longer \in Seq(Pieces)
      BY <2>6 DEF Terminated
    <3> QED BY <3>1, ConcatEmptySeq
  <2> QED BY <2>5, <2>10, <2>11, <2>12
<1>10. CASE Return
  <2>1. out' = out /\ UNCHANGED <<format, clusters, next, counted, pushing>>
    BY <1>3, <1>10 DEF Return, frame, LineFormat
  <2>2. Row(clusters[next])' = Row(clusters[next]) /\ HasCount(clusters[next])' = HasCount(clusters[next])
    BY <2>1, SameRow
  <2>3. Begun(row)'
    BY <1>4, <2>1, <2>2 DEF Begun, CountWritten
  <2> QED BY <1>4, <1>6, <2>1, <2>3
<1>11. CASE UNCHANGED vars
  <2>1. out' = out /\ UNCHANGED <<format, clusters, next, counted, pushing>>
    BY <1>11 DEF vars, frame
  <2>2. Row(clusters[next])' = Row(clusters[next]) /\ HasCount(clusters[next])' = HasCount(clusters[next])
    BY <2>1, SameRow
  <2>3. Begun(row)'
    BY <1>4, <2>1, <2>2 DEF Begun, CountWritten
  <2> QED BY <1>4, <1>6, <2>1, <2>3
<1> QED BY <1>7, <1>8, <1>9, <1>10, <1>11 DEF Next

------------------------------------------------------------------------------
\* Reading JSON.

Reader(f, r, text, m) ==
  f = [k \in 0 .. m |-> IF k = 0 THEN r ELSE JsonStep(f[k - 1], text[k])]

LEMMA ReaderExists ==
  ASSUME NEW r, NEW text, NEW m \in Nat
  PROVE  \E f : Reader(f, r, text, m)
<1> DEFINE T == {k \in Nat : \E f : Reader(f, r, text, k)}
<1>1. 0 \in T
  <2> DEFINE g == [k \in 0 .. 0 |-> r]
  <2>1. g = [k \in 0 .. 0 |-> IF k = 0 THEN r ELSE JsonStep(g[k - 1], text[k])]
    <3>1. \A k \in 0 .. 0 : k = 0
      OBVIOUS
    <3> QED BY <3>1
  <2> HIDE DEF g
  <2>2. Reader(g, r, text, 0)
    BY <2>1 DEF Reader
  <2> QED BY <2>2
<1>2. ASSUME NEW k \in T
      PROVE  k + 1 \in T
  <2>1. PICK f : Reader(f, r, text, k)
    OBVIOUS
  <2> DEFINE g == [j \in 0 .. k + 1 |-> IF j = 0 THEN r ELSE JsonStep(f[j - 1], text[j])]
  <2>2. ASSUME NEW j \in 0 .. k
        PROVE  f[j] = g[j]
    <3>1. f[j] = IF j = 0 THEN r ELSE JsonStep(f[j - 1], text[j])
      BY <2>1 DEF Reader
    <3>2. j \in 0 .. k + 1
      OBVIOUS
    <3> QED BY <3>1, <3>2
  <2>3. ASSUME NEW j \in 0 .. k + 1, j # 0
        PROVE  f[j - 1] = g[j - 1]
    <3>1. j - 1 \in 0 .. k
      BY <2>3
    <3> HIDE DEF g
    <3> QED BY <2>2, <3>1
  <2>4. g = [j \in 0 .. k + 1 |-> IF j = 0 THEN r ELSE JsonStep(g[j - 1], text[j])]
    BY <2>3
  <2> HIDE DEF g
  <2>5. Reader(g, r, text, k + 1)
    BY <2>4 DEF Reader
  <2> QED BY <2>5
<1>3. T \in SUBSET Nat
  OBVIOUS
<1> HIDE DEF T
<1>4. T = Nat
  BY <1>1, <1>2, <1>3, SetInduction
<1> QED BY <1>4 DEF T

\* JsonAfter is the end of a run of the reader.
LEMMA RunOfReader ==
  ASSUME NEW r, NEW text, Len(text) \in Nat
  PROVE  \E f : /\ f[0] = r /\ JsonAfter(r, text) = f[Len(text)]
                /\ \A k \in 1 .. Len(text) : f[k] = JsonStep(f[k - 1], text[k])
<1> DEFINE m == Len(text)
           f == CHOOSE f : Reader(f, r, text, m)
<1>1. JsonAfter(r, text) = f[m]
  BY DEF JsonAfter, Reader
<1>2. Reader(f, r, text, m)
  BY ReaderExists
<1> HIDE DEF f, m
<1>3. f[0] = r
  <2>1. 0 \in 0 .. m
    BY DEF m
  <2> QED BY <1>2, <2>1 DEF Reader
<1>4. \A k \in 1 .. m : f[k] = JsonStep(f[k - 1], text[k])
  <2>1. \A k \in 1 .. m : k \in 0 .. m /\ k # 0
    BY DEF m
  <2> QED BY <1>2, <2>1 DEF Reader
<1> QED BY <1>1, <1>3, <1>4 DEF m

\* And every run ends there.
LEMMA EveryRun ==
  ASSUME NEW r, NEW text, Len(text) \in Nat, NEW f, f[0] = r,
         \A k \in 1 .. Len(text) : f[k] = JsonStep(f[k - 1], text[k])
  PROVE  JsonAfter(r, text) = f[Len(text)]
<1> DEFINE m == Len(text)
<1>1. PICK g : /\ g[0] = r /\ JsonAfter(r, text) = g[m]
               /\ \A k \in 1 .. m : g[k] = JsonStep(g[k - 1], text[k])
  BY RunOfReader
<1>2. m \in Nat /\ \A k \in 1 .. m : f[k] = JsonStep(f[k - 1], text[k])
  OBVIOUS
<1> HIDE DEF m
<1> DEFINE T == {k \in Nat : k <= m => f[k] = g[k]}
<1>3. 0 \in T
  BY <1>1
<1>4. ASSUME NEW k \in T
      PROVE  k + 1 \in T
  <2> SUFFICES ASSUME k + 1 <= m PROVE f[k + 1] = g[k + 1]
    OBVIOUS
  <2>1. k + 1 \in 1 .. m /\ (k + 1) - 1 = k /\ f[k] = g[k]
    BY <1>2
  <2> QED BY <1>1, <1>2, <2>1
<1>5. T \in SUBSET Nat
  OBVIOUS
<1> HIDE DEF T
<1>6. T = Nat
  BY <1>3, <1>4, <1>5, SetInduction
<1>7. f[m] = g[m]
  BY <1>2, <1>6 DEF T
<1> QED BY <1>1, <1>7 DEF m

LEMMA ReadOne ==
  ASSUME NEW r, NEW p
  PROVE  JsonAfter(r, <<p>>) = JsonStep(r, p)
<1> DEFINE text == <<p>>
<1>1. Len(text) = 1 /\ text[1] = p
  OBVIOUS
<1> HIDE DEF text
<1>2. PICK f : /\ f[0] = r /\ JsonAfter(r, text) = f[1]
               /\ \A k \in 1 .. 1 : f[k] = JsonStep(f[k - 1], text[k])
  BY <1>1, RunOfReader
<1>3. f[1] = JsonStep(f[0], p)
  <2>1. 1 \in 1 .. 1 /\ 1 - 1 = 0
    OBVIOUS
  <2> QED BY <1>1, <1>2, <2>1
<1> QED BY <1>2, <1>3 DEF text

LEMMA ReadNothing ==
  ASSUME NEW r
  PROVE  JsonAfter(r, << >>) = r
<1> DEFINE text == << >>
<1>1. Len(text) = 0
  OBVIOUS
<1> HIDE DEF text
<1>2. JsonAfter(r, text) = r
  BY <1>1, RunOfReader
<1> QED BY <1>2 DEF text

\* A text is read piece by piece.
LEMMA ReadConcat ==
  ASSUME NEW r, NEW a \in Seq(Pieces), NEW b \in Seq(Pieces)
  PROVE  JsonAfter(r, a \o b) = JsonAfter(JsonAfter(r, a), b)
<1> DEFINE l == Len(a)
           m == Len(b)
           c == a \o b
<1>1. /\ l \in Nat /\ m \in Nat /\ Len(c) = l + m /\ Len(c) \in Nat
      /\ \A k \in 1 .. l + m : c[k] = IF k <= l THEN a[k] ELSE b[k - l]
  BY ConcatProperties, LenProperties
<1> HIDE DEF c
<1>2. PICK f : /\ f[0] = r /\ JsonAfter(r, c) = f[l + m]
               /\ \A k \in 1 .. l + m : f[k] = JsonStep(f[k - 1], c[k])
  <2>1. Len(c) \in Nat
    BY <1>1
  <2>2. \E f : /\ f[0] = r /\ JsonAfter(r, c) = f[Len(c)]
               /\ \A k \in 1 .. Len(c) : f[k] = JsonStep(f[k - 1], c[k])
    BY <2>1, RunOfReader
  <2>3. Len(c) = l + m
    BY <1>1
  <2> HIDE DEF l, m
  <2> QED BY <2>2, <2>3
<1>3. JsonAfter(r, a) = f[l]
  <2>1. \A k \in 1 .. l : k \in 1 .. l + m /\ k <= l
    BY <1>1
  <2>2. \A k \in 1 .. l : f[k] = JsonStep(f[k - 1], a[k])
    BY <1>1, <1>2, <2>1
  <2> QED BY <1>1, <1>2, <2>2, EveryRun
<1> DEFINE g == [k \in 0 .. m |-> f[l + k]]
<1>4. g[0] = f[l] /\ g[m] = f[l + m]
  <2>1. 0 \in 0 .. m /\ m \in 0 .. m /\ l + 0 = l
    BY <1>1
  <2> HIDE DEF l, m
  <2> QED BY <2>1
<1>5. ASSUME NEW k \in 1 .. m
      PROVE  g[k] = JsonStep(g[k - 1], b[k])
  <2>1. /\ k \in 0 .. m /\ k - 1 \in 0 .. m /\ l + k \in 1 .. l + m
        /\ (l + k) - 1 = l + (k - 1) /\ ~(l + k <= l) /\ (l + k) - l = k
    BY <1>1
  <2>2. g[k] = f[l + k] /\ g[k - 1] = f[l + (k - 1)]
    <3> HIDE DEF l, m
    <3> QED BY <2>1
  <2> HIDE DEF g
  <2>3. f[l + k] = JsonStep(f[(l + k) - 1], c[l + k]) /\ c[l + k] = b[(l + k) - l]
    <3> HIDE DEF l, m
    <3> QED BY <1>1, <1>2, <2>1
  <2> HIDE DEF l, m
  <2> QED BY <2>1, <2>2, <2>3
<1> HIDE DEF g
<1>6. JsonAfter(f[l], b) = g[m]
  BY <1>1, <1>4, <1>5, EveryRun
<1> QED BY <1>2, <1>3, <1>4, <1>6 DEF c

St(at, count, text, rows) == [at |-> at, count |-> count, text |-> text, rows |-> rows]

\* The pieces with a role in a JSON text are not each other's.
LEMMA JsonPieces ==
  /\ ~IsDigit(TextKey) /\ ~IsDigit(CountKey)
  /\ Quote # Backslash /\ Quote # Tab /\ Quote # Newline
  /\ Backslash # Tab /\ Backslash # Newline /\ Comma # Close
  /\ CountKey # Close
BY DEF IsDigit, TextKey, CountKey, Quote, Backslash, Tab, Newline, Comma, Close, Piece

\* The steps of the reader that a well-formed text takes.
LEMMA ReaderSteps ==
  ASSUME NEW count \in Nat, NEW text, NEW rows
  PROVE  /\ JsonStep(St("start", count, text, rows), Open) = St("first", count, text, rows)
         /\ JsonStep(St("first", count, text, rows), Close) = St("end", count, text, rows)
         /\ JsonStep(St("after", count, text, rows), Close) = St("end", count, text, rows)
         /\ JsonStep(St("after", count, text, rows), Comma) = St("object", count, text, rows)
         /\ JsonStep(St("first", count, text, rows), CountKey) = St("count", count, text, rows)
         /\ JsonStep(St("object", count, text, rows), CountKey) = St("count", count, text, rows)
         /\ JsonStep(St("key", count, text, rows), TextKey) = St("string", count, << >>, rows)
         /\ JsonStep(St("string", count, text, rows), Quote) = St("brace", count, text, rows)
         /\ JsonStep(St("string", count, text, rows), Backslash) = St("escape", count, text, rows)
         /\ JsonStep(St("brace", count, text, rows), EndObject)
              = St("after", count, text, Append(rows, [template |-> text, count |-> count]))
<1>1. JsonStep(St("start", count, text, rows), Open) = St("first", count, text, rows)
  BY JsonPieces DEF JsonStep, St
<1>2. JsonStep(St("first", count, text, rows), Close) = St("end", count, text, rows)
  BY JsonPieces DEF JsonStep, St
<1>3. JsonStep(St("after", count, text, rows), Close) = St("end", count, text, rows)
  BY JsonPieces DEF JsonStep, St
<1>4. JsonStep(St("after", count, text, rows), Comma) = St("object", count, text, rows)
  BY JsonPieces DEF JsonStep, St
<1>5. JsonStep(St("first", count, text, rows), CountKey) = St("count", count, text, rows)
  BY JsonPieces DEF JsonStep, St
<1>6. JsonStep(St("object", count, text, rows), CountKey) = St("count", count, text, rows)
  BY JsonPieces DEF JsonStep, St
<1>7. JsonStep(St("key", count, text, rows), TextKey) = St("string", count, << >>, rows)
  BY JsonPieces DEF JsonStep, St
<1>8. JsonStep(St("string", count, text, rows), Quote) = St("brace", count, text, rows)
  BY JsonPieces DEF JsonStep, St
<1>9. JsonStep(St("string", count, text, rows), Backslash) = St("escape", count, text, rows)
  BY JsonPieces DEF JsonStep, St
<1>10. JsonStep(St("brace", count, text, rows), EndObject)
         = St("after", count, text, Append(rows, [template |-> text, count |-> count]))
  BY JsonPieces DEF JsonStep, St
<1> QED BY <1>1, <1>2, <1>3, <1>4, <1>5, <1>6, <1>7, <1>8, <1>9, <1>10

LEMMA ReadDigit ==
  ASSUME NEW count \in Nat, NEW text, NEW rows, NEW p, IsDigit(p)
  PROVE  /\ JsonStep(St("count", count, text, rows), p) = St("key", p[2], text, rows)
         /\ count > 0 => JsonStep(St("key", count, text, rows), p)
                           = St("key", Base * count + p[2], text, rows)
<1>1. JsonStep(St("count", count, text, rows), p) = St("key", p[2], text, rows)
  BY JsonPieces DEF JsonStep, St
<1>2. ASSUME count > 0
      PROVE  JsonStep(St("key", count, text, rows), p) = St("key", Base * count + p[2], text, rows)
  BY <1>2, JsonPieces DEF JsonStep, St
<1> QED BY <1>1, <1>2

\* A number is read as the number it denotes.
LEMMA ReadNumber ==
  ASSUME NEW old \in Nat, NEW text, NEW rows, NEW count, NEW digits, IsNumber(digits, count)
  PROVE  JsonAfter(St("count", old, text, rows), digits) = St("key", count, text, rows)
<1> DEFINE m == Len(digits)
           v == Value(digits)
           f == [k \in 0 .. m |-> IF k = 0 THEN St("count", old, text, rows)
                                  ELSE St("key", v[k], text, rows)]
<1>1. /\ digits \in Seq(Pieces) /\ m \in Nat /\ m # 0
      /\ \A k \in 1 .. m : IsDigit(digits[k]) /\ digits[k][2] \in Nat
      /\ m = 1 \/ digits[1][2] > 0
  <2>1. digits \in Seq(Pieces) /\ digits # << >>
    BY DEF IsNumber
  <2>2. m \in Nat /\ m # 0 /\ \A k \in 1 .. m : digits[k] \in Pieces
    BY <2>1, LenProperties, ElementOfSeq, EmptySeq
  <2> QED BY <2>1, <2>2 DEF IsNumber, Pieces
<1>2. /\ count = v[m] /\ v[0] = 0
      /\ \A k \in 1 .. m : v[k] = Base * v[k - 1] + digits[k][2]
      /\ \A k \in 0 .. m : v[k] \in Nat
  BY <1>1, ValueShape DEF IsNumber
<1>3. Base \in Nat /\ Base > 1
  BY BufferShape
<1> HIDE DEF v, m
<1>4. v[1] = digits[1][2]
  <2>1. 1 \in 1 .. m /\ 1 - 1 = 0
    BY <1>1
  <2>2. v[1] = Base * v[0] + digits[1][2]
    BY <1>2, <2>1
  <2> QED BY <1>1, <1>2, <1>3, <2>1, <2>2
<1> DEFINE T == {k \in Nat : k + 1 <= m => m = 1 \/ v[k + 1] > 0}
<1>5. 0 \in T
  BY <1>1, <1>4
<1>6. ASSUME NEW k \in T
      PROVE  k + 1 \in T
  <2> SUFFICES ASSUME k + 2 <= m PROVE v[k + 2] > 0
    OBVIOUS
  <2>1. k + 1 \in 0 .. m /\ k + 2 \in 1 .. m /\ (k + 2) - 1 = k + 1 /\ k + 1 <= m /\ m # 1
    BY <1>1
  <2>2. v[k + 1] > 0 /\ v[k + 1] \in Nat
    BY <1>2, <2>1
  <2>3. v[k + 2] = Base * v[k + 1] + digits[k + 2][2] /\ digits[k + 2][2] \in Nat
    BY <1>1, <1>2, <2>1
  <2>4. Base * v[k + 1] > 0 /\ Base * v[k + 1] \in Nat
    BY <1>3, <2>2
  <2> QED BY <2>3, <2>4
<1>7. T \in SUBSET Nat
  OBVIOUS
<1> HIDE DEF T
<1>8. T = Nat
  BY <1>5, <1>6, <1>7, SetInduction
<1>9. ASSUME NEW k \in 1 .. m, k # 1
      PROVE  v[k - 1] > 0
  <2>1. k - 2 \in Nat /\ (k - 2) + 1 = k - 1 /\ k - 1 <= m /\ m # 1
    BY <1>1, <1>9
  <2> QED BY <1>8, <2>1 DEF T
<1>10. f[0] = St("count", old, text, rows) /\ f[m] = St("key", count, text, rows)
  <2>1. 0 \in 0 .. m /\ m \in 0 .. m
    BY <1>1
  <2> QED BY <1>1, <1>2, <2>1
<1>11. ASSUME NEW k \in 1 .. m
       PROVE  f[k] = JsonStep(f[k - 1], digits[k])
  <2>1. /\ k \in 0 .. m /\ k # 0 /\ k - 1 \in 0 .. m
        /\ IsDigit(digits[k]) /\ v[k] = Base * v[k - 1] + digits[k][2] /\ v[k - 1] \in Nat
    BY <1>1, <1>2
  <2>2. f[k] = St("key", v[k], text, rows)
    BY <2>1
  <2>3. CASE k = 1
    <3>1. f[k - 1] = St("count", old, text, rows)
      BY <2>1, <2>3
    <3> HIDE DEF f
    <3> QED BY <1>4, <2>1, <2>2, <2>3, <3>1, ReadDigit
  <2>4. CASE k # 1
    <3>1. f[k - 1] = St("key", v[k - 1], text, rows)
      BY <2>1, <2>4
    <3>2. v[k - 1] > 0
      BY <1>9, <2>4
    <3> HIDE DEF f
    <3> QED BY <2>1, <2>2, <3>1, <3>2, ReadDigit
  <2> QED BY <2>3, <2>4
<1> HIDE DEF f
<1>12. JsonAfter(St("count", old, text, rows), digits) = f[Len(digits)]
  BY <1>1, <1>10, <1>11, EveryRun DEF m
<1> QED BY <1>10, <1>12 DEF m

LEMMA TwoPieces ==
  ASSUME NEW a, NEW b
  PROVE  <<a>> \o <<b>> = <<a, b>>
<1> DEFINE S == {a, b}
           x == <<a>>
           y == <<b>>
           z == <<a, b>>
<1>1. /\ x \in Seq(S) /\ y \in Seq(S) /\ z \in Seq(S)
      /\ Len(x) = 1 /\ Len(y) = 1 /\ Len(z) = 2
      /\ x[1] = a /\ y[1] = b /\ z[1] = a /\ z[2] = b
  OBVIOUS
<1> HIDE DEF x, y, z, S
<1>2. /\ x \o y \in Seq(S) /\ Len(x \o y) = 2
      /\ \A k \in 1 .. 2 : (x \o y)[k] = IF k <= 1 THEN x[k] ELSE y[k - 1]
  <2>1. /\ x \o y \in Seq(S) /\ Len(x \o y) = Len(x) + Len(y)
        /\ \A k \in 1 .. Len(x) + Len(y) : (x \o y)[k] = IF k <= Len(x) THEN x[k] ELSE y[k - Len(x)]
    BY <1>1, ConcatProperties
  <2> QED BY <1>1, <2>1
<1>3. \A k \in 1 .. 2 : k = 1 \/ k = 2
  OBVIOUS
<1>4. (x \o y)[1] = a /\ (x \o y)[2] = b
  BY <1>1, <1>2
<1>5. x \o y = z
  BY <1>1, <1>2, <1>3, <1>4, SeqEqual
<1> QED BY <1>5 DEF x, y, z

\* A piece of a template, escaped, is read as itself.
EscapePiece(p) == IF p \in {Quote, Backslash} THEN <<Backslash, p>> ELSE <<p>>

LEMMA ReadEscapedPiece ==
  ASSUME NEW count \in Nat, NEW text, NEW rows, NEW p \in Pieces, p \notin {Tab, Newline}
  PROVE  /\ EscapePiece(p) \in Seq(Pieces)
         /\ JsonAfter(St("string", count, text, rows), EscapePiece(p))
              = St("string", count, Append(text, p), rows)
<1>1. <<p>> \in Seq(Pieces) /\ <<Backslash>> \in Seq(Pieces)
  BY PieceShape
<1>2. CASE p \in {Quote, Backslash}
  <2>1. EscapePiece(p) = <<Backslash>> \o <<p>>
    <3>1. EscapePiece(p) = <<Backslash, p>>
      BY <1>2 DEF EscapePiece
    <3>2. <<Backslash>> \o <<p>> = <<Backslash, p>>
      BY TwoPieces
    <3> QED BY <3>1, <3>2
  <2>2. JsonAfter(St("string", count, text, rows), <<Backslash>>) = St("escape", count, text, rows)
    <3>1. JsonStep(St("string", count, text, rows), Backslash) = St("escape", count, text, rows)
      BY ReaderSteps
    <3> QED BY <3>1, ReadOne
  <2>3. JsonAfter(St("escape", count, text, rows), <<p>>)
          = JsonStep(St("escape", count, text, rows), p)
    BY ReadOne
  <2>4. JsonStep(St("escape", count, text, rows), p) = St("string", count, Append(text, p), rows)
    BY <1>2, JsonPieces DEF JsonStep, St
  <2>5. EscapePiece(p) \in Seq(Pieces)
    BY <1>1, <2>1, TextShape
  <2>6. JsonAfter(St("string", count, text, rows), <<Backslash>> \o <<p>>)
          = JsonAfter(JsonAfter(St("string", count, text, rows), <<Backslash>>), <<p>>)
    BY <1>1, ReadConcat
  <2> QED BY <2>1, <2>2, <2>3, <2>4, <2>5, <2>6
<1>3. CASE p \notin {Quote, Backslash}
  <2>1. JsonStep(St("string", count, text, rows), p) = St("string", count, Append(text, p), rows)
    BY <1>3, JsonPieces DEF JsonStep, St
  <2> QED BY <1>1, <1>3, <2>1, ReadOne DEF EscapePiece
<1> QED BY <1>2, <1>3

LEMMA PrefixAppend ==
  ASSUME NEW t \in Seq(Pieces), NEW k \in Nat, k + 1 <= Len(t)
  PROVE  Append([j \in 1 .. k |-> t[j]], t[k + 1]) = [j \in 1 .. k + 1 |-> t[j]]
<1> DEFINE a == [j \in 1 .. k |-> t[j]]
           b == [j \in 1 .. k + 1 |-> t[j]]
<1>1. Len(t) \in Nat /\ \A j \in 1 .. Len(t) : t[j] \in Pieces
  BY LenProperties, ElementOfSeq
<1>2. a \in Seq(Pieces) /\ b \in Seq(Pieces) /\ Len(a) = k /\ Len(b) = k + 1 /\ t[k + 1] \in Pieces
  <2>1. \A j \in 1 .. k + 1 : j \in 1 .. Len(t)
    BY <1>1
  <2>2. \A j \in 1 .. k : j \in 1 .. Len(t)
    BY <1>1
  <2>3. k + 1 \in 1 .. k + 1
    OBVIOUS
  <2> QED BY <1>1, <2>1, <2>2, <2>3
<1>3. /\ Append(a, t[k + 1]) \in Seq(Pieces) /\ Len(Append(a, t[k + 1])) = k + 1
      /\ \A j \in 1 .. k : Append(a, t[k + 1])[j] = a[j]
      /\ Append(a, t[k + 1])[k + 1] = t[k + 1]
  <2> HIDE DEF a
  <2> QED BY <1>2, AppendProperties
<1>4. \A j \in 1 .. k : a[j] = t[j]
  OBVIOUS
<1>5. \A j \in 1 .. k + 1 : b[j] = t[j]
  OBVIOUS
<1> HIDE DEF a, b
<1>6. \A j \in 1 .. k + 1 : Append(a, t[k + 1])[j] = b[j]
  <2>1. \A j \in 1 .. k + 1 : j \in 1 .. k \/ j = k + 1
    OBVIOUS
  <2> QED BY <1>3, <1>4, <1>5, <2>1
<1>7. Append(a, t[k + 1]) = b
  BY <1>2, <1>3, <1>6, SeqEqual
<1> QED BY <1>7 DEF a, b

\* So is a template.
LEMMA ReadEscaped ==
  ASSUME NEW count \in Nat, NEW rows, NEW t \in Seq(Pieces),
         \A k \in DOMAIN t : t[k] \notin {Tab, Newline}
  PROVE  JsonAfter(St("string", count, << >>, rows), Escape(t)) = St("string", count, t, rows)
<1> DEFINE parts == [k \in DOMAIN t |->
                       IF t[k] \in {Quote, Backslash} THEN <<Backslash, t[k]>> ELSE <<t[k]>>]
           n0 == Len(parts)
           flatten == CHOOSE f : Flattens(f, parts, n0)
           start == St("string", count, << >>, rows)
           prefix(k) == [j \in 1 .. k |-> t[j]]
<1>1. Len(t) \in Nat /\ DOMAIN t = 1 .. Len(t) /\ n0 = Len(t)
  BY LenProperties
<1>2. ASSUME NEW k \in 1 .. Len(t)
      PROVE  /\ parts[k] = EscapePiece(t[k]) /\ parts[k] \in Seq(Pieces) /\ t[k] \in Pieces
             /\ \A text : JsonAfter(St("string", count, text, rows), parts[k])
                            = St("string", count, Append(text, t[k]), rows)
  <2>1. parts[k] = EscapePiece(t[k])
    BY <1>1 DEF EscapePiece
  <2>2. t[k] \in Pieces /\ t[k] \notin {Tab, Newline}
    BY <1>1
  <2> HIDE DEF parts
  <2> QED BY <2>1, <2>2, ReadEscapedPiece
<1>3. CASE n0 = 0
  <2>1. parts = << >> /\ t = << >>
    BY <1>1, <1>3
  <2>2. FlattenSeq(parts) = << >>
    BY <2>1 DEF FlattenSeq
  <2> QED BY <2>1, <2>2, ReadNothing DEF Escape
<1>4. CASE n0 # 0
  <2>1. FlattenSeq(parts) = flatten[n0]
    BY <1>4 DEF FlattenSeq, Flattens
  <2>2. Flattens(flatten, parts, n0)
    BY <1>1, FlattenExists
  <2>3. Escape(t) = flatten[n0]
    BY <2>1 DEF Escape
  <2> HIDE DEF flatten, parts
  <2> HIDE DEF n0
  <2> DEFINE T == {k \in Nat : k \in 1 .. n0 =>
                     /\ flatten[k] \in Seq(Pieces)
                     /\ JsonAfter(start, flatten[k]) = St("string", count, prefix(k), rows)}
  <2>4. 0 \in T
    OBVIOUS
  <2>5. ASSUME NEW k \in T
        PROVE  k + 1 \in T
    <3> SUFFICES ASSUME k + 1 \in 1 .. n0
                 PROVE  /\ flatten[k + 1] \in Seq(Pieces)
                        /\ JsonAfter(start, flatten[k + 1])
                             = St("string", count, prefix(k + 1), rows)
      OBVIOUS
    <3>0. k \in Nat /\ k + 1 \in 1 .. Len(t) /\ k + 1 <= Len(t)
      BY <1>1
    <3>1. flatten[k + 1] = IF k + 1 = 1 THEN parts[k + 1]
                           ELSE flatten[(k + 1) - 1] \o parts[k + 1]
      BY <2>2 DEF Flattens
    <3>2. Append(prefix(k), t[k + 1]) = prefix(k + 1)
      BY <3>0, PrefixAppend
    <3>3. \A text : JsonAfter(St("string", count, text, rows), parts[k + 1])
                      = St("string", count, Append(text, t[k + 1]), rows)
      BY <1>2, <3>0
    <3>4. CASE k = 0
      <4>1. prefix(k) = << >>
        BY <3>4
      <4>2. flatten[k + 1] = parts[k + 1] /\ parts[k + 1] \in Seq(Pieces)
        BY <1>2, <3>0, <3>1, <3>4
      <4> HIDE DEF prefix
      <4> QED BY <3>2, <3>3, <4>1, <4>2
    <3>5. CASE k # 0
      <4>1. k \in 1 .. n0 /\ (k + 1) - 1 = k /\ k + 1 # 1
        BY <1>1, <3>5
      <4>2. flatten[k] \in Seq(Pieces) /\ parts[k + 1] \in Seq(Pieces)
        BY <1>2, <3>0, <4>1
      <4>3. JsonAfter(start, flatten[k]) = St("string", count, prefix(k), rows)
        BY <4>1
      <4>4. flatten[k + 1] = flatten[k] \o parts[k + 1]
        BY <3>1, <4>1
      <4> HIDE DEF prefix, start
      <4>5. JsonAfter(start, flatten[k] \o parts[k + 1])
              = JsonAfter(JsonAfter(start, flatten[k]), parts[k + 1])
        BY <4>2, ReadConcat
      <4>6. flatten[k] \o parts[k + 1] \in Seq(Pieces)
        BY <4>2, TextShape
      <4> QED BY <3>2, <3>3, <4>3, <4>4, <4>5, <4>6
    <3> QED BY <3>4, <3>5
  <2>6. T \in SUBSET Nat
    OBVIOUS
  <2> HIDE DEF T
  <2>7. T = Nat
    BY <2>4, <2>5, <2>6, SetInduction
  <2>8. n0 \in T /\ n0 \in 1 .. n0
    BY <1>1, <1>4, <2>7
  <2>9. JsonAfter(start, flatten[n0]) = St("string", count, prefix(n0), rows)
    BY <2>8 DEF T
  <2>10. prefix(n0) = t
    BY <1>1
  <2> QED BY <2>3, <2>9, <2>10
<1> QED BY <1>3, <1>4

LEMMA ClusterShape ==
  ASSUME NEW c \in Cluster
  PROVE  c.template \in Seq(Pieces) /\ c.count \in Nat
<1>1. c.template \in Templates /\ c.count \in Counts
  BY DEF Cluster
<1>2. c.count \in 0 .. MaxU64
  BY <1>1, CountsAssumption
<1> QED BY <1>1, <1>2, TemplatesAssumption, BufferShape

\* An object up to its count, and from its count to its end.
LEMMA ReadBefore ==
  ASSUME format = "json", NEW c, NEW count \in Nat, NEW text, NEW rows
  PROVE  /\ next > 1 => JsonAfter(St("after", count, text, rows), Row(c).before)
                          = St("count", count, text, rows)
         /\ ~(next > 1) => JsonAfter(St("first", count, text, rows), Row(c).before)
                             = St("count", count, text, rows)
<1>1. Row(c).before = IF next > 1 THEN <<Comma, CountKey>> ELSE <<CountKey>>
  BY DEF Row, JsonObject
<1>2. JsonStep(St("first", count, text, rows), CountKey) = St("count", count, text, rows)
  BY ReaderSteps
<1>3. JsonStep(St("after", count, text, rows), Comma) = St("object", count, text, rows)
  BY ReaderSteps
<1>4. JsonStep(St("object", count, text, rows), CountKey) = St("count", count, text, rows)
  BY ReaderSteps
<1>5. <<Comma>> \in Seq(Pieces) /\ <<CountKey>> \in Seq(Pieces)
  BY PieceShape
<1>6. JsonAfter(St("after", count, text, rows), <<Comma>> \o <<CountKey>>)
        = JsonAfter(JsonAfter(St("after", count, text, rows), <<Comma>>), <<CountKey>>)
  BY <1>5, ReadConcat
<1>7. JsonAfter(St("after", count, text, rows), <<Comma, CountKey>>) = St("count", count, text, rows)
  BY <1>3, <1>4, <1>6, ReadOne, TwoPieces
<1>8. JsonAfter(St("first", count, text, rows), <<CountKey>>) = St("count", count, text, rows)
  BY <1>2, ReadOne
<1> QED BY <1>1, <1>7, <1>8

LEMMA ReadBehind ==
  ASSUME format = "json", format \in Formats, NEW c \in Cluster, Carried(c), NEW text, NEW rows
  PROVE  JsonAfter(St("key", c.count, text, rows), Row(c).behind)
           = St("after", c.count, c.template, Append(rows, c))
<1> DEFINE t == c.template
           e == Escape(t)
           k == c.count
<1>1. t \in Seq(Pieces) /\ e \in Seq(Pieces) /\ k \in Nat
  <2>1. t \in Seq(Pieces) /\ k \in Nat
    BY ClusterShape
  <2> QED BY <2>1, EscapeShape
<1>2. \A j \in DOMAIN t : t[j] \notin {Tab, Newline}
  BY DEF Carried
<1>3. Row(c).behind = (<<TextKey>> \o e) \o <<Quote, EndObject>>
  BY DEF Row, JsonObject
<1>4. c = [template |-> t, count |-> k]
  BY DEF Cluster
<1> HIDE DEF e
<1>5. JsonAfter(St("key", k, text, rows), <<TextKey>>) = St("string", k, << >>, rows)
  <2>1. JsonStep(St("key", k, text, rows), TextKey) = St("string", k, << >>, rows)
    BY <1>1, ReaderSteps
  <2> QED BY <2>1, ReadOne
<1>6. JsonAfter(St("string", k, << >>, rows), e) = St("string", k, t, rows)
  BY <1>1, <1>2, ReadEscaped DEF e
<1>7. JsonAfter(St("string", k, t, rows), <<Quote>>) = St("brace", k, t, rows)
  <2>1. JsonStep(St("string", k, t, rows), Quote) = St("brace", k, t, rows)
    BY <1>1, ReaderSteps
  <2> QED BY <2>1, ReadOne
<1>8. JsonAfter(St("brace", k, t, rows), <<EndObject>>)
        = St("after", k, t, Append(rows, [template |-> t, count |-> k]))
  <2>1. JsonStep(St("brace", k, t, rows), EndObject)
          = St("after", k, t, Append(rows, [template |-> t, count |-> k]))
    BY <1>1, ReaderSteps
  <2> QED BY <2>1, ReadOne
<1>9. /\ <<TextKey>> \in Seq(Pieces) /\ <<Quote>> \in Seq(Pieces) /\ <<EndObject>> \in Seq(Pieces)
      /\ <<Quote, EndObject>> = <<Quote>> \o <<EndObject>>
  BY PieceShape, TwoPieces
<1> HIDE DEF t, k
<1>10. <<TextKey>> \o e \in Seq(Pieces) /\ <<Quote>> \o <<EndObject>> \in Seq(Pieces)
  BY <1>1, <1>9, TextShape
<1>11. JsonAfter(St("key", k, text, rows), <<TextKey>> \o e) = St("string", k, t, rows)
  <2>1. JsonAfter(St("key", k, text, rows), <<TextKey>> \o e)
          = JsonAfter(JsonAfter(St("key", k, text, rows), <<TextKey>>), e)
    BY <1>1, <1>9, ReadConcat
  <2> QED BY <1>5, <1>6, <2>1
<1>12. JsonAfter(St("string", k, t, rows), <<Quote>> \o <<EndObject>>)
         = St("after", k, t, Append(rows, [template |-> t, count |-> k]))
  <2>1. JsonAfter(St("string", k, t, rows), <<Quote>> \o <<EndObject>>)
          = JsonAfter(JsonAfter(St("string", k, t, rows), <<Quote>>), <<EndObject>>)
    BY <1>9, ReadConcat
  <2> QED BY <1>7, <1>8, <2>1
<1>13. JsonAfter(St("key", k, text, rows), (<<TextKey>> \o e) \o (<<Quote>> \o <<EndObject>>))
         = JsonAfter(JsonAfter(St("key", k, text, rows), <<TextKey>> \o e),
                     <<Quote>> \o <<EndObject>>)
  BY <1>10, ReadConcat
<1>14. JsonAfter(St("key", k, text, rows), Row(c).behind)
         = St("after", k, t, Append(rows, [template |-> t, count |-> k]))
  BY <1>3, <1>9, <1>11, <1>12, <1>13
<1> QED BY <1>4, <1>14 DEF t, k

\* Where the reader stands after what has been written.
Standing ==
  IF closed THEN "end"
  ELSE IF ~counted THEN (IF next > 1 THEN "after" ELSE "first")
  ELSE IF pushing THEN "count" ELSE "key"

JsonSoFar(count, text, rows) ==
  /\ rows \in Seq(Cluster) /\ Len(rows) = next - 1
  /\ \A k \in 1 .. next - 1 : rows[k] = clusters[k]
  /\ count \in Nat
  /\ counted /\ ~pushing => count = clusters[next].count
  /\ JsonAfter(JsonStart, out) = St(Standing, count, text, rows)

JsonInv == format = "json" /\ AllCarried => \E count, text, rows : JsonSoFar(count, text, rows)

LEMMA JsonStepInv == RowInv /\ ControlInv /\ JsonInv /\ [Next]_vars => JsonInv'
<1> SUFFICES ASSUME RowInv, ControlInv, JsonInv, [Next]_vars, format' = "json", AllCarried'
             PROVE  \E count, text, rows : JsonSoFar(count, text, rows)'
  BY DEF JsonInv
<1>1. /\ next \in 1 .. Len(clusters) + 1 /\ Len(clusters) \in Nat /\ next \in Nat
      /\ clusters \in Seq(Cluster) /\ FrameTypeOK /\ format \in Formats /\ out \in Seq(Pieces)
  BY DEF RowInv, TypeOK
<1>2. format' = format /\ clusters' = clusters
  BY DEF Next, BeginRow, PushCount, EndRow, Return, vars
<1>3. format = "json" /\ AllCarried
  <2>1. ASSUME NEW k \in DOMAIN clusters
        PROVE  Carried(clusters[k])
    <3>1. Carried(clusters[k])'
      BY <1>2 DEF AllCarried
    <3> QED BY <1>2, <3>1 DEF Carried
  <2> QED BY <1>2, <2>1 DEF AllCarried
<1>4. PICK count, text, rows : JsonSoFar(count, text, rows)
  BY <1>3 DEF JsonInv
<1>5. /\ rows \in Seq(Cluster) /\ Len(rows) = next - 1 /\ count \in Nat
      /\ JsonAfter(JsonStart, out) = St(Standing, count, text, rows)
      /\ \A k \in 1 .. next - 1 : rows[k] = clusters[k]
  BY <1>4 DEF JsonSoFar
<1>6. CASE BeginRow
  <2> DEFINE c == clusters[next]
  <2>0. PICK begun : begun = Row(c).before
    OBVIOUS
  <2>1. /\ ~counted /\ next <= Len(clusters) /\ counted' = TRUE /\ next' = next
        /\ out' = out \o begun /\ closed' = closed
    BY <1>6, <2>0 DEF BeginRow
  <2>2. HasCount(c) /\ c \in Cluster /\ ~closed
    BY <1>1, <1>3, <2>1 DEF HasCount, ControlInv
  <2>3. pushing'
    BY <1>6, <2>2 DEF BeginRow, Call
  <2>4. begun \in Seq(Pieces)
    BY <1>1, <2>0, <2>2, RowShape
  <2>5. Standing = (IF next > 1 THEN "after" ELSE "first") /\ Standing' = "count"
    BY <2>1, <2>2, <2>3 DEF Standing
  <2>6. JsonAfter(St(Standing, count, text, rows), begun) = St("count", count, text, rows)
    <3>1. CASE next > 1
      <4>1. JsonAfter(St("after", count, text, rows), Row(c).before) = St("count", count, text, rows)
        BY <1>3, <1>5, <3>1, ReadBefore
      <4> QED BY <2>0, <2>5, <3>1, <4>1
    <3>2. CASE ~(next > 1)
      <4>1. JsonAfter(St("first", count, text, rows), Row(c).before) = St("count", count, text, rows)
        BY <1>3, <1>5, <3>2, ReadBefore
      <4> QED BY <2>0, <2>5, <3>2, <4>1
    <3> QED BY <3>1, <3>2
  <2>7. JsonAfter(JsonStart, out') = St("count", count, text, rows)
    <3>1. JsonAfter(JsonStart, out \o begun) = JsonAfter(JsonAfter(JsonStart, out), begun)
      BY <1>1, <2>4, ReadConcat
    <3> QED BY <1>5, <2>1, <2>6, <3>1
  <2>8. JsonSoFar(count, text, rows)'
    BY <1>2, <1>5, <2>1, <2>3, <2>5, <2>7 DEF JsonSoFar
  <2> QED BY <2>8
<1>7. CASE PushCount
  <2> DEFINE c == clusters[next]
  <2>1. UNCHANGED <<format, clusters, next, counted, closed>> /\ pushing
    BY <1>7 DEF PushCount, Push, PushZero, PushDigit, PushBuffer
  <2>2. counted /\ ~closed /\ Standing = "count"
    <3>1. counted
      BY <2>1 DEF ControlInv
    <3>2. next <= Len(clusters)
      BY <3>1 DEF RowInv
    <3>3. ~closed
      BY <1>1, <3>2 DEF ControlInv
    <3> QED BY <2>1, <3>1, <3>3 DEF Standing
  <2>3. ASSUME NEW digits, IsNumber(digits, c.count), out' = out \o digits, pushing' = FALSE
        PROVE  JsonSoFar(c.count, text, rows)'
    <3>1. digits \in Seq(Pieces)
      BY <2>3 DEF IsNumber
    <3>2. JsonAfter(JsonStart, out \o digits) = JsonAfter(JsonAfter(JsonStart, out), digits)
      BY <1>1, <3>1, ReadConcat
    <3>3. JsonAfter(St("count", count, text, rows), digits) = St("key", c.count, text, rows)
      BY <1>5, <2>3, ReadNumber
    <3>4. Standing' = "key"
      BY <2>1, <2>2, <2>3 DEF Standing
    <3>5. c.count \in Nat
      <4>1. c \in Cluster
        BY <1>1, <2>2 DEF RowInv
      <4> QED BY <4>1, ClusterShape
    <3>6. JsonAfter(JsonStart, out') = St("key", c.count, text, rows)
      BY <1>5, <2>2, <2>3, <3>2, <3>3
    <3> QED BY <1>5, <2>1, <2>3, <3>4, <3>5, <3>6 DEF JsonSoFar
  <2>4. CASE PushDigit
    <3>1. out' = out /\ pushing' = pushing
      BY <2>4 DEF PushDigit
    <3>2. Standing' = Standing
      BY <2>1, <3>1 DEF Standing
    <3>3. JsonSoFar(count, text, rows)'
      BY <1>4, <2>1, <3>1, <3>2 DEF JsonSoFar
    <3> QED BY <3>3
  <2>5. CASE PushZero
    <3>1. out' = Append(out, Digit(0)) /\ pushing' = FALSE /\ n = 0 /\ i = BufferLen
      BY <2>5 DEF PushZero
    <3>2. out' = out \o <<Digit(0)>>
      <4>1. Digit(0) \in Pieces
        BY PieceShape
      <4> QED BY <1>1, <3>1, <4>1, AppendIsConcat
    <3>3. c.count = 0
      BY <1>1, <2>1, <2>2, <3>1, NothingPushed DEF RowInv
    <3> QED BY <2>3, <3>1, <3>2, <3>3, ZeroIsNumber
  <2>6. CASE PushBuffer
    <3>0. PICK written : written = Written
      OBVIOUS
    <3>1. out' = out \o written /\ pushing' = FALSE /\ n = 0 /\ i < BufferLen
      BY <2>6, <3>0 DEF PushBuffer
    <3>2. IsNumber(written, c.count)
      BY <1>1, <2>1, <2>2, <3>0, <3>1, WrittenIsNumber DEF RowInv
    <3> QED BY <2>3, <3>1, <3>2
  <2> QED BY <1>7, <2>4, <2>5, <2>6 DEF PushCount, Push
<1>8. CASE EndRow
  <2>0. PICK c, behind : c = clusters[next] /\ behind = Row(c).behind
    OBVIOUS
  <2>1. /\ counted /\ ~pushing /\ counted' = FALSE /\ next' = next + 1
        /\ out' = out \o behind /\ closed' = closed
    BY <1>8, <2>0 DEF EndRow
  <2>2. /\ next \in DOMAIN clusters /\ c \in Cluster /\ Carried(c) /\ behind \in Seq(Pieces)
        /\ next <= Len(clusters)
    <3>1. next \in DOMAIN clusters /\ c \in Cluster /\ next <= Len(clusters)
      BY <1>1, <2>0, <2>1 DEF RowInv
    <3> QED BY <1>1, <1>3, <2>0, <3>1, RowShape DEF AllCarried
  <2>3. ~closed
    BY <1>1, <2>2 DEF ControlInv
  <2>4. Standing = "key" /\ Standing' = "after" /\ count = c.count
    <3>1. Standing = "key"
      BY <2>1, <2>3 DEF Standing
    <3>2. Standing' = "after"
      BY <1>1, <2>1, <2>3 DEF Standing
    <3>3. count = c.count
      BY <1>4, <2>0, <2>1 DEF JsonSoFar
    <3> QED BY <3>1, <3>2, <3>3
  <2>5. JsonAfter(JsonStart, out') = St("after", c.count, c.template, Append(rows, c))
    <3>1. JsonAfter(JsonStart, out \o behind) = JsonAfter(JsonAfter(JsonStart, out), behind)
      BY <1>1, <2>2, ReadConcat
    <3>2. JsonAfter(St("key", c.count, text, rows), behind)
            = St("after", c.count, c.template, Append(rows, c))
      BY <1>1, <1>3, <2>0, <2>2, ReadBehind
    <3> QED BY <1>5, <2>1, <2>4, <3>1, <3>2
  <2>6. PICK more : more = Append(rows, c)
    OBVIOUS
  <2>7. /\ more \in Seq(Cluster) /\ Len(more) = next
        /\ \A k \in 1 .. next - 1 : more[k] = rows[k]
        /\ more[next] = c
    BY <1>1, <1>5, <2>2, <2>6, AppendProperties
  <2>8. \A k \in 1 .. next : more[k] = clusters[k]
    <3>1. \A k \in 1 .. next : k \in 1 .. next - 1 \/ k = next
      BY <1>1
    <3> QED BY <1>5, <2>0, <2>7, <3>1
  <2>9. next' - 1 = next
    BY <1>1, <2>1
  <2>10. JsonSoFar(c.count, c.template, more)'
    BY <1>2, <1>5, <2>1, <2>4, <2>5, <2>6, <2>7, <2>8, <2>9 DEF JsonSoFar
  <2> QED BY <2>10
<1>9. CASE Return
  <2>1. /\ ~closed /\ closed' = TRUE /\ next > Len(clusters)
        /\ UNCHANGED <<format, clusters, next, counted, pushing>>
        /\ out' = Append(out, Close)
    BY <1>3, <1>9 DEF Return, frame
  <2>2. ~counted
    BY <1>1, <2>1 DEF RowInv
  <2>3. out' = out \o <<Close>> /\ <<Close>> \in Seq(Pieces)
    <3>1. Close \in Pieces
      BY PieceShape
    <3> QED BY <1>1, <2>1, <3>1, AppendIsConcat
  <2>4. Standing = (IF next > 1 THEN "after" ELSE "first") /\ Standing' = "end"
    BY <2>1, <2>2 DEF Standing
  <2>5. JsonStep(St(Standing, count, text, rows), Close) = St("end", count, text, rows)
    BY <1>5, <2>4, ReaderSteps
  <2>6. JsonAfter(JsonStart, out') = St("end", count, text, rows)
    <3>1. JsonAfter(JsonStart, out \o <<Close>>) = JsonAfter(JsonAfter(JsonStart, out), <<Close>>)
      BY <1>1, <2>3, ReadConcat
    <3> QED BY <1>5, <2>3, <2>5, <3>1, ReadOne
  <2>7. JsonSoFar(count, text, rows)'
    BY <1>4, <2>1, <2>4, <2>6 DEF JsonSoFar
  <2> QED BY <2>7
<1>10. CASE UNCHANGED vars
  <2>1. UNCHANGED <<out, pushing, format, clusters, next, counted, closed>>
    BY <1>10 DEF vars, frame
  <2>2. JsonSoFar(count, text, rows)'
    BY <1>4, <2>1 DEF JsonSoFar, Standing
  <2> QED BY <2>2
<1> QED BY <1>6, <1>7, <1>8, <1>9, <1>10 DEF Next

------------------------------------------------------------------------------
\* Reading what was returned.

LEMMA ClosedReads == RowInv /\ ControlInv /\ LinesInv /\ JsonInv => ReadsBack
<1> SUFFICES ASSUME RowInv, ControlInv, LinesInv, JsonInv, closed,
                    \A k \in DOMAIN clusters : Carried(clusters[k])
             PROVE  Read(out) = clusters
  BY DEF ReadsBack
<1>1. /\ clusters \in Seq(Cluster) /\ next \in 1 .. Len(clusters) + 1 /\ Len(clusters) \in Nat
      /\ format \in Formats /\ out \in Seq(Pieces)
  BY DEF RowInv, TypeOK
<1>2. next > Len(clusters) /\ ~counted /\ next - 1 = Len(clusters)
  <2>1. next > Len(clusters)
    BY DEF ControlInv
  <2> QED BY <1>1, <2>1 DEF RowInv
<1>3. AllCarried
  BY DEF AllCarried
<1>4. CASE format = "json"
  <2>1. PICK count, text, rows : JsonSoFar(count, text, rows)
    BY <1>3, <1>4 DEF JsonInv
  <2>2. JsonAfter(JsonStart, out) = St("end", count, text, rows)
    BY <2>1 DEF JsonSoFar, Standing
  <2>3. Read(out) = rows
    BY <1>4, <2>2 DEF Read, ReadJson, St
  <2>4. rows = clusters
    <3>1. /\ rows \in Seq(Cluster) /\ Len(rows) = Len(clusters)
          /\ \A k \in 1 .. Len(rows) : rows[k] = clusters[k]
      BY <1>1, <1>2, <2>1 DEF JsonSoFar
    <3> QED BY <1>1, <3>1, SeqEqual
  <2> QED BY <2>3, <2>4
<1>5. CASE LineFormat
  <2>1. PICK text, row : ReadSoFar(text) /\ Begun(row) /\ out = text \o row
    BY <1>3, <1>5 DEF LinesInv
  <2>2. text \in Seq(Pieces) /\ row = << >> /\ out = text
    <3>1. text \in Seq(Pieces) /\ row = << >>
      BY <1>2, <2>1 DEF ReadSoFar, Terminated, Begun
    <3> QED BY <2>1, <3>1, ConcatEmptySeq
  <2>3. /\ LinesOf(out) \in Seq(Seq(Pieces)) /\ Len(LinesOf(out)) = Len(clusters)
        /\ \A k \in 1 .. Len(clusters) : ReadLine(LinesOf(out)[k]) = clusters[k]
    BY <1>2, <2>1, <2>2, LinesType DEF ReadSoFar
  <2>4. DOMAIN LinesOf(out) = 1 .. Len(clusters)
    BY <2>3, LenProperties
  <2>5. Read(out) = [k \in DOMAIN LinesOf(out) |-> ReadLine(LinesOf(out)[k])]
    <3>1. CASE format = "compact"
      BY <3>1 DEF Read, ReadLine
    <3>2. CASE format = "tsv"
      BY <3>2 DEF Read, ReadLine
    <3>3. CASE format = "toon"
      BY <3>3 DEF Read, ReadLine
    <3> QED BY <1>5, <3>1, <3>2, <3>3 DEF LineFormat
  <2>6. Read(out) = [k \in 1 .. Len(clusters) |-> clusters[k]]
    <3>1. Read(out) = [k \in 1 .. Len(clusters) |-> ReadLine(LinesOf(out)[k])]
      BY <2>4, <2>5
    <3> QED BY <2>3, <3>1
  <2> QED BY <1>1, <2>6
<1>6. format \in {"compact", "tsv", "toon", "json"}
  BY <1>1, FormatsAssumption
<1> QED BY <1>4, <1>5, <1>6 DEF LineFormat

LEMMA InitReads == Init => ControlInv /\ LinesInv /\ JsonInv
<1> SUFFICES ASSUME Init PROVE ControlInv /\ LinesInv /\ JsonInv
  OBVIOUS
<1>1. /\ next = 1 /\ counted = FALSE /\ closed = FALSE /\ pushing = FALSE
      /\ out = (IF format = "json" THEN <<Open>> ELSE << >>)
  BY DEF Init, FrameInit
<1>2. ControlInv
  BY <1>1 DEF ControlInv
<1>3. PICK none : none = << >>
  OBVIOUS
<1>4. none \in Seq(Pieces) /\ none \in Seq(Cluster) /\ Len(none) = 0 /\ none \o none = none
  BY <1>3, ConcatEmptySeq
<1>5. ASSUME LineFormat
      PROVE  ReadSoFar(none) /\ Begun(none) /\ out = none \o none
  <2>1. out = none
    BY <1>1, <1>3, <1>5 DEF LineFormat
  <2>2. Terminated(none) /\ LinesOf(none) = none
    BY <1>3, NoLines
  <2>3. ReadSoFar(none)
    BY <1>1, <1>4, <2>2 DEF ReadSoFar
  <2>4. Begun(none)
    BY <1>1, <1>3, <1>4 DEF Begun
  <2> QED BY <1>4, <2>1, <2>3, <2>4
<1>6. LinesInv
  BY <1>5 DEF LinesInv
<1>7. ASSUME format = "json"
      PROVE  JsonSoFar(0, none, none)
  <2>1. out = <<Open>>
    BY <1>1, <1>7
  <2>2. JsonStart = St("start", 0, none, none)
    BY <1>3 DEF JsonStart, St
  <2>3. JsonAfter(JsonStart, out) = St("first", 0, none, none)
    <3>1. JsonStep(St("start", 0, none, none), Open) = St("first", 0, none, none)
      BY ReaderSteps
    <3> QED BY <2>1, <2>2, <3>1, ReadOne
  <2>4. Standing = "first"
    BY <1>1 DEF Standing
  <2>5. Len(none) = next - 1 /\ \A k \in 1 .. next - 1 : none[k] = clusters[k]
    BY <1>1, <1>4
  <2> QED BY <1>1, <1>4, <2>3, <2>4, <2>5 DEF JsonSoFar
<1>8. JsonInv
  BY <1>7 DEF JsonInv
<1> QED BY <1>2, <1>6, <1>8

\* Nothing is lost in the output: for every list of clusters a format can
\* carry, of every length, with every template and every count up to the
\* largest, a reader of what the formatter returned gets the list back.
THEOREM ReadsBackCorrect == Spec => []ReadsBack
<1>1. Init => ControlInv /\ LinesInv /\ JsonInv
  BY InitReads
<1>2. /\ RowInv /\ ControlInv /\ LinesInv /\ JsonInv /\ [Next]_vars
      => ControlInv' /\ LinesInv' /\ JsonInv'
  BY ControlStep, LinesStep, JsonStepInv
<1>3. RowInv /\ ControlInv /\ LinesInv /\ JsonInv => ReadsBack
  BY ClosedReads
<1> QED BY <1>1, <1>2, <1>3, RowHolds, PTL DEF Spec

\* So the README's claim about the counts of a compact output, and the doc's
\* that a JSON output is an array, hold of every list of clusters the format
\* can carry: only a cluster that Carried rules out can break them.
THEOREM DocsHoldWhenCarried == Spec => [](AllCarried => CompactCountsSum /\ JsonIsArray)
<1>1. TypeOK /\ ReadsBack => (AllCarried => CompactCountsSum /\ JsonIsArray)
  <2> SUFFICES ASSUME TypeOK, ReadsBack, AllCarried, closed
               PROVE  CompactCountsSum /\ JsonIsArray
    BY DEF CompactCountsSum, JsonIsArray
  <2>1. Read(out) = clusters
    BY DEF ReadsBack, AllCarried
  <2>2. clusters # None
    <3> SUFFICES ASSUME clusters = None PROVE FALSE
      OBVIOUS
    <3>1. clusters \in Seq(Cluster) /\ Len(clusters) = 1 /\ clusters[1] = NoRow
      BY DEF TypeOK, None
    <3>2. NoRow \in Cluster
      <4>1. 1 \in 1 .. Len(clusters)
        BY <3>1
      <4>2. clusters[1] \in Cluster
        BY <3>1, <4>1, ElementOfSeq
      <4> QED BY <3>1, <4>2
    <3>3. NoRow.count \in Nat
      BY <3>2, ClusterShape
    <3> QED BY <3>3 DEF NoRow
  <2> QED BY <2>1, <2>2 DEF CompactCountsSum, JsonIsArray
<1> QED BY <1>1, TypeCorrect, ReadsBackCorrect, PTL

================================================================================
