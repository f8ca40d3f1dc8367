-------------------------- MODULE NmeaFramerProofs --------------------------
(***************************************************************************)
(* What the sentence accumulator promises for every size of its buffer,    *)
(* every set of sentence lengths and every number of sentences and faults. *)
(***************************************************************************)
EXTENDS NmeaFramer, TLAPS

USE FramerAssumption

-----------------------------------------------------------------------------
(* The inductive invariant. *)

Bytes == [kind : Kinds, of : 0 .. MaxSentences, at : Nat]

\* The sender is at a byte of its sentence.
SenderOK ==
    /\ number \in 1 .. MaxSentences + 1 /\ length \in Lengths
    /\ place \in 0 .. length + 2 /\ intact \in BOOLEAN /\ faults \in Nat

AccumulatorOK ==
    /\ buffer \in Seq(Bytes) /\ Len(buffer) <= BufferSize - 1
    /\ \A i \in 1 .. Len(buffer) : buffer[i].kind = "$" => i = 1
    /\ completed \in Seq(Seq(Bytes))
    /\ sound \subseteq 1 .. MaxSentences /\ ends \subseteq 1 .. (number - 1)

\* Of a sentence that fits and arrived so far, the accumulator holds what was sent.
HoldsWhatWasSent ==
    intact /\ place > 0 /\ length + 1 <= BufferSize - 1 =>
       /\ Len(buffer) = IF place <= length + 1 THEN place ELSE length + 1
       /\ \A i \in 1 .. Len(buffer) : buffer[i] = Byte(KindAt(length, i - 1), number, i - 1)

\* The bytes of a frame come in the order of their sentences, none of which is
\* later than the n-th.
InOrder(frame, n) ==
    /\ \A i \in 1 .. Len(frame) : frame[i].of <= n
    /\ \A i, j \in 1 .. Len(frame) :
          i < j /\ frame[i].of # 0 /\ frame[j].of # 0 => frame[i].of <= frame[j].of

\* What is left of a sentence in the accumulator is there because its newline
\* has not arrived.
NotEnded ==
    /\ InOrder(buffer, number)
    /\ \A i \in 1 .. Len(buffer) : buffer[i].of \notin ends

\* Of the sentences of a completed frame only the last may have ended.
MergesAreDamage ==
    \A f \in 1 .. Len(completed) :
       /\ InOrder(completed[f], number)
       /\ \A i \in 1 .. Len(completed[f]) : completed[f][i].kind = "$" => i = 1
       /\ \A i, j \in 1 .. Len(completed[f]) :
             completed[f][i].of < completed[f][j].of => completed[f][i].of \notin ends

InUse(buf) == IF buf = << >> THEN 0 ELSE 1

\* The sentences whose `$' the receiver has sent.
Begun(n, at) == IF at = 0 THEN n - 1 ELSE n

\* Each overflow, and a buffer in use, had a `$' of its own to begin it.
StartsPayForOverflows ==
    /\ dropped \in Nat
    /\ dropped + InUse(buffer) <= Begun(number, place) + faults
    /\ overflows = IF dropped < CountMax THEN dropped ELSE CountMax

IInv ==
    /\ SenderOK /\ AccumulatorOK /\ HoldsWhatWasSent /\ NotEnded /\ MergesAreDamage
    /\ StartsPayForOverflows /\ SoundSentencesArrive

LEMMA InUseType == \A buf : InUse(buf) \in {0, 1}
BY DEF InUse

LEMMA Sizes == /\ MaxSentences \in Nat /\ MaxFaults \in Nat
               /\ \A len \in Lengths : len \in Nat /\ len > 0
OBVIOUS

\* Kinds of the bytes of a sentence: `$' only at its start, the newline at its end.
LEMMA KindOfPlace ==
    ASSUME NEW len \in Lengths, NEW at \in 0 .. len + 2
    PROVE  /\ KindAt(len, at) \in Kinds
           /\ KindAt(len, at) = "$" <=> at = 0
           /\ KindAt(len, at) = "body" <=> at \in 1 .. len
           /\ KindAt(len, at) = "CR" <=> at = len + 1
           /\ KindAt(len, at) = "NL" <=> at = len + 2
BY Sizes DEF KindAt, Kinds

LEMMA InitIInv == Init => IInv
<1>. SUFFICES ASSUME Init PROVE IInv  OBVIOUS
<1>1. SenderOK  BY Sizes DEF Init, SenderOK
<1>2. AccumulatorOK
  <2>1. /\ buffer = << >> /\ completed = << >> /\ sound = {} /\ ends = {}
    BY DEF Init
  <2>2. buffer \in Seq(Bytes) /\ completed \in Seq(Seq(Bytes))
    <3>1. \A S : << >> \in Seq(S)  OBVIOUS
    <3>. QED  BY <2>1, <3>1
  <2>. QED  BY <2>1, <2>2 DEF AccumulatorOK
<1>3. HoldsWhatWasSent
  <2>1. intact => place = 0  BY DEF Init
  <2>2. ~(intact /\ place > 0)  BY <2>1
  <2>. QED  BY <2>2 DEF HoldsWhatWasSent
<1>4. NotEnded  BY DEF Init, NotEnded, InOrder
<1>5. MergesAreDamage  BY DEF Init, MergesAreDamage
<1>6. StartsPayForOverflows  BY DEF Init, StartsPayForOverflows, InUse, Begun
<1>7. SoundSentencesArrive  BY DEF Init, SoundSentencesArrive
<1>. QED  BY <1>1, <1>2, <1>3, <1>4, <1>5, <1>6, <1>7 DEF IInv

-----------------------------------------------------------------------------
(* One byte: what LineAccumulator::feed() does to the accumulator. *)

\* The six outcomes, by what becomes of the buffer and of the frame in it.
LEMMA FeedCases ==
    ASSUME IInv, NEW b \in Bytes, Feed(b)
    PROVE  \/ /\ b.kind = "CR" /\ buffer' = buffer
              /\ completed' = completed /\ dropped' = dropped /\ overflows' = overflows
           \/ /\ b.kind = "$" /\ buffer' = <<b>>
              /\ completed' = completed /\ dropped' = dropped /\ overflows' = overflows
           \/ /\ b.kind = "NL" /\ buffer' = << >>
              /\ completed' = IF buffer # << >> THEN Append(completed, buffer) ELSE completed
              /\ dropped' = dropped /\ overflows' = overflows
           \/ /\ b.kind = "body" /\ buffer # << >> /\ Len(buffer) < BufferSize - 1
              /\ buffer' = Append(buffer, b)
              /\ completed' = completed /\ dropped' = dropped /\ overflows' = overflows
           \/ /\ b.kind = "body" /\ buffer = << >> /\ buffer' = buffer
              /\ completed' = completed /\ dropped' = dropped /\ overflows' = overflows
           \/ /\ b.kind = "body" /\ Len(buffer) >= BufferSize - 1 /\ buffer' = << >>
              /\ completed' = completed /\ dropped' = dropped + 1
              /\ overflows' = IF overflows < CountMax THEN overflows + 1 ELSE overflows
BY DEF Feed, FeedReturn, FeedStart, FeedNewline, FeedBody, FeedOverflow, Keeps

\* A byte fed next leaves the buffer a frame of bytes within the buffer.
LEMMA FeedTypes ==
    ASSUME IInv, NEW b \in Bytes, Feed(b)
    PROVE  /\ buffer' \in Seq(Bytes) /\ Len(buffer') <= BufferSize - 1
           /\ \A i \in 1 .. Len(buffer') : buffer'[i].kind = "$" => i = 1
           /\ completed' \in Seq(Seq(Bytes))
<1>1. /\ buffer \in Seq(Bytes) /\ Len(buffer) <= BufferSize - 1
      /\ \A i \in 1 .. Len(buffer) : buffer[i].kind = "$" => i = 1
      /\ completed \in Seq(Seq(Bytes))
  BY DEF IInv, AccumulatorOK
<1>2. CASE b.kind = "body" /\ buffer # << >> /\ Len(buffer) < BufferSize - 1 /\ buffer' = Append(buffer, b)
  <2>1. /\ Len(buffer') = Len(buffer) + 1 /\ Len(buffer) \in Nat
        /\ \A i \in 1 .. Len(buffer) : buffer'[i] = buffer[i]
        /\ buffer'[Len(buffer) + 1] = b /\ buffer' \in Seq(Bytes)
    BY <1>1, <1>2
  <2>2. completed' = completed  BY <1>2, FeedCases DEF Kinds
  <2>. QED  BY <1>1, <1>2, <2>1, <2>2
<1>3. CASE b.kind = "$" /\ buffer' = <<b>> /\ completed' = completed
  BY <1>1, <1>3
<1>4. CASE buffer' = buffer /\ completed' = completed
  BY <1>1, <1>4
<1>5. CASE buffer' = << >>
  <2>1. completed' = completed \/ completed' = Append(completed, buffer)
    BY <1>5, FeedCases
  <2>2. completed' \in Seq(Seq(Bytes))
    <3>1. \A S : \A q \in Seq(S), e \in S : Append(q, e) \in Seq(S)  OBVIOUS
    <3>. QED  BY <1>1, <2>1, <3>1
  <2>. QED  BY <1>1, <1>5, <2>2
<1>. QED  BY <1>2, <1>3, <1>4, <1>5, FeedCases

\* It is the last of its frame, and no earlier sentence comes after it.
LEMMA FeedOrder ==
    ASSUME IInv, NEW b \in Bytes, Feed(b), b.of \in {0, number}, number <= MaxSentences
    PROVE  InOrder(buffer', number) /\ \A i \in 1 .. Len(buffer') : buffer'[i].of \notin ends
<1>1. /\ buffer \in Seq(Bytes) /\ InOrder(buffer, number)
      /\ \A i \in 1 .. Len(buffer) : buffer[i].of \notin ends
      /\ b.of \notin ends /\ number \in Nat /\ b.of \in Nat /\ b.of <= number
  <2>1. /\ buffer \in Seq(Bytes) /\ InOrder(buffer, number)
        /\ \A i \in 1 .. Len(buffer) : buffer[i].of \notin ends
        /\ ends \subseteq 1 .. (number - 1) /\ number \in 1 .. MaxSentences + 1
    BY DEF IInv, AccumulatorOK, NotEnded, SenderOK
  <2>2. number \notin ends /\ 0 \notin ends /\ number \in Nat  BY <2>1, Sizes
  <2>. QED  BY <2>1, <2>2
<1>3. CASE buffer' = Append(buffer, b)
  <2>1. /\ Len(buffer') = Len(buffer) + 1 /\ Len(buffer) \in Nat
        /\ \A i \in 1 .. Len(buffer) : buffer'[i] = buffer[i]
        /\ buffer'[Len(buffer) + 1] = b
    BY <1>1, <1>3
  <2>2. \A i \in 1 .. Len(buffer') : buffer'[i].of <= number /\ buffer'[i].of \notin ends
    BY <1>1, <2>1 DEF InOrder
  <2>3. ASSUME NEW i \in 1 .. Len(buffer'), NEW j \in 1 .. Len(buffer'),
               i < j, buffer'[i].of # 0, buffer'[j].of # 0
        PROVE  buffer'[i].of <= buffer'[j].of
    <3>1. i \in 1 .. Len(buffer)  BY <2>1, <2>3
    <3>2. CASE j \in 1 .. Len(buffer)
      BY <1>1, <2>1, <2>3, <3>1, <3>2 DEF InOrder
    <3>3. CASE j = Len(buffer) + 1
      <4>1. buffer'[j].of = number  BY <2>1, <2>3, <3>3
      <4>. QED  BY <2>2, <3>1, <2>3, <4>1
    <3>. QED  BY <2>1, <3>2, <3>3
  <2>. QED  BY <2>2, <2>3 DEF InOrder
<1>4. CASE buffer' = <<b>>
  BY <1>1, <1>4 DEF InOrder
<1>5. CASE buffer' = buffer
  BY <1>1, <1>5
<1>6. CASE buffer' = << >>
  BY <1>6 DEF InOrder
<1>. QED  BY <1>3, <1>4, <1>5, <1>6, FeedCases

\* What MergesAreDamage says of one frame.
MergedByDamage(frame, n, ended) ==
    /\ InOrder(frame, n)
    /\ \A i \in 1 .. Len(frame) : frame[i].kind = "$" => i = 1
    /\ \A i, j \in 1 .. Len(frame) : frame[i].of < frame[j].of => frame[i].of \notin ended

\* The frames handed on are the earlier ones and at most the one in the buffer.
LEMMA FeedHands ==
    ASSUME IInv, NEW b \in Bytes, Feed(b)
    PROVE  /\ Handed \subseteq Handed'
           /\ \A f \in 1 .. Len(completed') :
                 \/ f \in 1 .. Len(completed) /\ completed'[f] = completed[f]
                 \/ completed'[f] = buffer
           /\ b.kind = "NL" /\ buffer # << >> => buffer \in Handed'
<1>1. completed \in Seq(Seq(Bytes)) /\ buffer \in Seq(Bytes)  BY DEF IInv, AccumulatorOK
<1>2. CASE completed' = completed /\ (b.kind = "NL" => buffer = << >>)
  BY <1>2 DEF Handed
<1>3. CASE completed' = Append(completed, buffer)
  <2>1. /\ Len(completed') = Len(completed) + 1 /\ Len(completed) \in Nat
        /\ \A f \in 1 .. Len(completed) : completed'[f] = completed[f]
        /\ completed'[Len(completed) + 1] = buffer
    BY <1>1, <1>3
  <2>. QED  BY <2>1 DEF Handed
<1>. QED  BY <1>2, <1>3, FeedCases

LEMMA FeedMerges ==
    ASSUME IInv, NEW b \in Bytes, Feed(b)
    PROVE  \A f \in 1 .. Len(completed') : MergedByDamage(completed'[f], number, ends)
<1>1. MergedByDamage(buffer, number, ends)
  BY DEF IInv, AccumulatorOK, NotEnded, MergedByDamage
<1>2. \A f \in 1 .. Len(completed) : MergedByDamage(completed[f], number, ends)
  BY DEF IInv, MergesAreDamage, MergedByDamage
<1>. QED  BY <1>1, <1>2, FeedHands

\* Only a `$' fills an empty buffer, and an overflow empties one.
LEMMA FeedStarts ==
    ASSUME IInv, NEW b \in Bytes, Feed(b)
    PROVE  /\ dropped' \in Nat
           /\ dropped' + InUse(buffer')
                <= dropped + InUse(buffer) + (IF b.kind = "$" THEN 1 ELSE 0)
           /\ overflows' = IF dropped' < CountMax THEN dropped' ELSE CountMax
<1>1. /\ dropped \in Nat /\ CountMax \in Nat \ {0}
      /\ overflows = IF dropped < CountMax THEN dropped ELSE CountMax
  BY DEF IInv, StartsPayForOverflows
<1>2. Len(buffer) >= BufferSize - 1 => buffer # << >>
  BY DEF IInv, AccumulatorOK
<1>3. CASE dropped' = dropped /\ overflows' = overflows
  BY <1>1, <1>3, FeedCases DEF InUse
<1>4. CASE /\ b.kind = "body" /\ Len(buffer) >= BufferSize - 1 /\ buffer' = << >>
           /\ dropped' = dropped + 1
           /\ overflows' = IF overflows < CountMax THEN overflows + 1 ELSE overflows
  BY <1>1, <1>2, <1>4 DEF InUse
<1>. QED  BY <1>3, <1>4, FeedCases

-----------------------------------------------------------------------------
(* The steps of the line. *)

\* The byte the receiver sends next, and a damaged one in its place.
LEMMA SentByte ==
    ASSUME SenderOK, Sending
    PROVE  /\ Byte(KindAt(length, place), number, place) \in Bytes
           /\ \A kind \in Kinds : Noise(kind) \in Bytes
           /\ number \in 1 .. MaxSentences
BY Sizes, KindOfPlace DEF SenderOK, Sending, Byte, Noise, Bytes

\* Going on to the next byte: what becomes of the sender.
LEMMA SendOnEffect ==
    ASSUME SenderOK, Sending, faults' \in Nat, SendOn(intact) \/ SendOn(FALSE)
    PROVE  /\ SenderOK' /\ number' \in Nat
           /\ place = length + 2 => number' = number + 1 /\ place' = 0
           /\ place # length + 2 =>
                number' = number /\ length' = length /\ place' = place + 1 /\ place' # 0
           /\ sound' \subseteq sound \cup {number}
<1>1. /\ number \in 1 .. MaxSentences /\ length \in Lengths /\ length \in Nat
      /\ place \in 0 .. length + 2 /\ intact \in BOOLEAN /\ MaxSentences \in Nat
  BY Sizes DEF SenderOK, Sending
<1>2. CASE place = length + 2
  <2>1. /\ number' = number + 1 /\ length' \in Lengths /\ place' = 0 /\ intact' = TRUE
        /\ sound' = sound \/ sound' = sound \cup {number}
    BY <1>2 DEF SendOn
  <2>2. length' \in Nat  BY <2>1, Sizes
  <2>3. place' \in 0 .. length' + 2
    <3>1. \A n \in Nat : 0 \in 0 .. n + 2  OBVIOUS
    <3>. QED  BY <2>1, <2>2, <3>1
  <2>5. number' \in 1 .. MaxSentences + 1  BY <1>1, <2>1
  <2>4. SenderOK'  BY <2>1, <2>3, <2>5 DEF SenderOK
  <2>. QED  BY <1>1, <1>2, <2>1, <2>4
<1>3. CASE place # length + 2
  <2>1. /\ number' = number /\ length' = length /\ place' = place + 1 /\ sound' = sound
    BY <1>3 DEF SendOn
  <2>2. intact' \in BOOLEAN  BY <1>1, <1>3 DEF SendOn
  <2>. QED  BY <1>1, <1>3, <2>1, <2>2 DEF SenderOK
<1>. QED  BY <1>2, <1>3

LEMMA SendOnWhole ==
    ASSUME SendOn(intact)
    PROVE  /\ place # length + 2 /\ intact' => intact
           /\ sound' # sound => place = length + 2 /\ intact /\ length + 1 <= BufferSize - 1
BY DEF SendOn

LEMMA SendOnBroken ==
    ASSUME SendOn(FALSE)
    PROVE  sound' = sound /\ (place # length + 2 => ~intact')
BY DEF SendOn

\* An undamaged byte adds to the prefix the accumulator holds.
LEMMA ArriveHolds ==
    ASSUME IInv, Arrive
    PROVE  HoldsWhatWasSent'
<1>. DEFINE b == Byte(KindAt(length, place), number, place)
<1>1. /\ SenderOK /\ Sending /\ SendOn(intact) /\ Feed(b) /\ b \in Bytes
      /\ faults' = faults /\ intact \in BOOLEAN /\ faults \in Nat
      /\ length \in Lengths /\ place \in 0 .. length + 2 /\ length \in Nat
      /\ b.kind = KindAt(length, place)
  BY SentByte, Sizes DEF IInv, Arrive, SenderOK, Byte
<1>. SUFFICES ASSUME intact', place' > 0, length' + 1 <= BufferSize - 1
              PROVE  /\ Len(buffer') = IF place' <= length' + 1 THEN place' ELSE length' + 1
                     /\ \A i \in 1 .. Len(buffer') :
                           buffer'[i] = Byte(KindAt(length', i - 1), number', i - 1)
  BY DEF HoldsWhatWasSent
<1>2. /\ place # length + 2 /\ number' = number /\ length' = length
      /\ place' = place + 1 /\ intact
  BY <1>1, SendOnEffect, SendOnWhole
<1>3. buffer \in Seq(Bytes)  BY DEF IInv, AccumulatorOK
<1>4. CASE place = 0
  <2>1. b.kind = "$"  BY <1>1, <1>4, KindOfPlace
  <2>2. buffer' = <<b>>  BY <1>1, <2>1, FeedCases
  <2>. QED  BY <1>1, <1>2, <1>4, <2>2
<1>5. CASE place \in 1 .. length
  <2>1. b.kind = "body"  BY <1>1, <1>5, KindOfPlace
  <2>2. /\ Len(buffer) = place
        /\ \A i \in 1 .. Len(buffer) : buffer[i] = Byte(KindAt(length, i - 1), number, i - 1)
    BY <1>1, <1>2, <1>5 DEF IInv, HoldsWhatWasSent
  <2>3. buffer # << >> /\ ~(Len(buffer) >= BufferSize - 1)  BY <1>1, <1>2, <1>5, <2>2
  <2>4. buffer' = Append(buffer, b)  BY <1>1, <2>1, <2>3, FeedCases
  <2>. HIDE DEF b
  <2>5. /\ Len(buffer') = place + 1 /\ buffer'[place + 1] = b
        /\ \A i \in 1 .. place : buffer'[i] = buffer[i]
    BY <1>1, <1>3, <2>2, <2>4
  <2>6. ASSUME NEW i \in 1 .. place + 1
        PROVE  buffer'[i] = Byte(KindAt(length, i - 1), number, i - 1)
    <3>1. CASE i = place + 1
      <4>1. i - 1 = place  BY <1>5, <3>1
      <4>. QED  BY <2>5, <3>1, <4>1 DEF b
    <3>2. CASE i \in 1 .. place  BY <2>2, <2>5, <3>2
    <3>. QED  BY <1>5, <3>1, <3>2
  <2>. QED  BY <1>1, <1>2, <1>5, <2>5, <2>6
<1>6. CASE place = length + 1
  <2>1. b.kind = "CR"  BY <1>1, <1>6, KindOfPlace
  <2>2. buffer' = buffer  BY <1>1, <2>1, FeedCases
  <2>3. /\ Len(buffer) = length + 1
        /\ \A i \in 1 .. Len(buffer) : buffer[i] = Byte(KindAt(length, i - 1), number, i - 1)
    BY <1>1, <1>2, <1>6 DEF IInv, HoldsWhatWasSent
  <2>. QED  BY <1>1, <1>2, <1>6, <2>2, <2>3
<1>. QED  BY <1>1, <1>2, <1>4, <1>5, <1>6

\* A sentence found sound was in the accumulator when its newline came.
LEMMA ArriveSound ==
    ASSUME IInv, Arrive
    PROVE  SoundSentencesArrive'
<1>. DEFINE b == Byte(KindAt(length, place), number, place)
<1>1. /\ SenderOK /\ Sending /\ SendOn(intact) /\ Feed(b) /\ b \in Bytes
      /\ faults' = faults /\ intact \in BOOLEAN /\ faults \in Nat
      /\ length \in Lengths /\ length \in Nat
      /\ b.kind = KindAt(length, place)
  BY SentByte, Sizes DEF IInv, Arrive, SenderOK, Byte
<1>2. sound' \subseteq sound \cup {number} /\ Handed \subseteq Handed'
  BY <1>1, SendOnEffect, FeedHands
<1>3. ASSUME sound' # sound PROVE Sentence(number, length) \in Handed'
  <2>1. place = length + 2 /\ intact /\ length + 1 <= BufferSize - 1
    BY <1>1, <1>3, SendOnWhole
  <2>2. b.kind = "NL"  BY <1>1, <2>1, KindOfPlace
  <2>3. /\ Len(buffer) = length + 1
        /\ \A i \in 1 .. Len(buffer) : buffer[i] = Byte(KindAt(length, i - 1), number, i - 1)
    BY <1>1, <2>1 DEF IInv, HoldsWhatWasSent
  <2>4. buffer # << >>  BY <1>1, <2>3
  <2>5. buffer = Sentence(number, length)
    <3>1. buffer \in Seq(Bytes)  BY DEF IInv, AccumulatorOK
    <3>2. buffer = [i \in 1 .. length + 1 |-> buffer[i]]  BY <2>3, <3>1
    <3>. QED  BY <2>3, <3>2 DEF Sentence
  <2>. QED  BY <1>1, <2>2, <2>4, <2>5, FeedHands
<1>4. \A n \in sound : \E len \in Lengths : Sentence(n, len) \in Handed
  BY DEF IInv, SoundSentencesArrive
<1>5. \A n \in sound' : \E len \in Lengths : Sentence(n, len) \in Handed'
  BY <1>1, <1>2, <1>3, <1>4
<1>. QED  BY <1>5 DEF SoundSentencesArrive

\* The sender as a byte goes by, whole or not.
LEMMA FrameOrigin ==
    ASSUME NEW frame \in Seq(Bytes), NEW i \in 1 .. Len(frame)
    PROVE  frame[i].of \in Nat
<1>1. frame[i] \in Bytes  OBVIOUS
<1>. QED  BY <1>1, Sizes DEF Bytes

LEMMA SentOrder ==
    ASSUME NEW n \in Nat, NEW m \in Nat, n <= m, NEW frame \in Seq(Bytes), InOrder(frame, n)
    PROVE  InOrder(frame, m)
<1>1. \A i \in 1 .. Len(frame) : frame[i].of \in Nat  BY FrameOrigin
<1>. QED  BY <1>1 DEF InOrder

LEMMA ArriveIInv ==
    ASSUME IInv, Arrive
    PROVE  IInv'
<1>. DEFINE b == Byte(KindAt(length, place), number, place)
<1>1. /\ SenderOK /\ Sending /\ SendOn(intact) /\ Feed(b) /\ b \in Bytes
      /\ faults' = faults /\ intact \in BOOLEAN /\ faults \in Nat
      /\ length \in Lengths /\ length \in Nat /\ place \in 0 .. length + 2
      /\ b.kind = KindAt(length, place) /\ b.of = number
      /\ number \in 1 .. MaxSentences /\ number \in Nat
      /\ ends' = IF place = length + 2 THEN ends \cup {number} ELSE ends
  BY SentByte, Sizes DEF IInv, Arrive, SenderOK, Byte
<1>2. /\ SenderOK' /\ number' \in Nat
      /\ place = length + 2 => number' = number + 1 /\ place' = 0
      /\ place # length + 2 => number' = number /\ place' = place + 1 /\ place' # 0
      /\ sound' \subseteq sound \cup {number}
  BY <1>1, SendOnEffect
<1>. HIDE DEF b
<1>3. AccumulatorOK'
  <2>1. sound \subseteq 1 .. MaxSentences /\ ends \subseteq 1 .. (number - 1)
    BY DEF IInv, AccumulatorOK
  <2>2. sound' \subseteq 1 .. MaxSentences  BY <1>1, <1>2, <2>1
  <2>3. ends' \subseteq 1 .. (number' - 1)
    <3>1. CASE place = length + 2
      <4>1. ends' = ends \cup {number} /\ number' - 1 = number  BY <1>1, <1>2, <3>1
      <4>. QED  BY <1>1, <2>1, <4>1
    <3>2. CASE place # length + 2  BY <1>1, <1>2, <2>1, <3>2
    <3>. QED  BY <3>1, <3>2
  <2>. QED  BY <1>1, <2>2, <2>3, FeedTypes DEF AccumulatorOK
<1>4. HoldsWhatWasSent'  BY ArriveHolds
<1>5. NotEnded'
  <2>1. CASE place = length + 2
    <3>1. buffer' = << >>  BY <1>1, <2>1, KindOfPlace, FeedCases
    <3>. QED  BY <3>1 DEF NotEnded, InOrder
  <2>2. CASE place # length + 2
    <3>1. InOrder(buffer', number) /\ \A i \in 1 .. Len(buffer') : buffer'[i].of \notin ends
      BY <1>1, FeedOrder
    <3>. QED  BY <1>1, <1>2, <2>2, <3>1 DEF NotEnded
  <2>. QED  BY <2>1, <2>2
<1>6. MergesAreDamage'
  <2>. SUFFICES ASSUME NEW f \in 1 .. Len(completed')
                PROVE  MergedByDamage(completed'[f], number', ends')
    BY DEF MergesAreDamage, MergedByDamage
  <2>. DEFINE frame == completed'[f]
  <2>1. MergedByDamage(frame, number, ends) /\ frame \in Seq(Bytes)
    BY <1>1, FeedMerges, FeedTypes
  <2>. HIDE DEF frame
  <2>2. InOrder(frame, number')
    BY <1>1, <1>2, <2>1, SentOrder DEF MergedByDamage
  <2>3. ASSUME NEW i \in 1 .. Len(frame), NEW j \in 1 .. Len(frame), frame[i].of < frame[j].of
        PROVE  frame[i].of # number
    <3>1. frame[i].of \in Nat /\ frame[j].of \in Nat  BY <2>1, FrameOrigin
    <3>. QED  BY <1>1, <2>1, <2>3, <3>1 DEF MergedByDamage, InOrder
  <2>. QED  BY <1>1, <2>1, <2>2, <2>3 DEF MergedByDamage, frame
<1>7. StartsPayForOverflows'
  <2>1. b.kind = "$" <=> place = 0  BY <1>1, KindOfPlace
  <2>2. /\ dropped' \in Nat
        /\ dropped' + InUse(buffer')
             <= dropped + InUse(buffer) + (IF place = 0 THEN 1 ELSE 0)
        /\ overflows' = IF dropped' < CountMax THEN dropped' ELSE CountMax
    BY <1>1, <2>1, FeedStarts
  <2>3. /\ dropped \in Nat /\ dropped + InUse(buffer) <= Begun(number, place) + faults
    BY DEF IInv, StartsPayForOverflows
  <2>4. Begun(number', place') = number
    <3>1. CASE place = length + 2
      <4>1. place' = 0 /\ number' = number + 1  BY <1>2, <3>1
      <4>. QED  BY <1>1, <4>1 DEF Begun
    <3>2. CASE place # length + 2
      <4>1. place' # 0 /\ number' = number  BY <1>2, <3>2
      <4>. QED  BY <4>1 DEF Begun
    <3>. QED  BY <3>1, <3>2
  <2>5. Begun(number, place) + (IF place = 0 THEN 1 ELSE 0) = number
    BY <1>1 DEF Begun
  <2>6. InUse(buffer) \in {0, 1} /\ InUse(buffer') \in {0, 1}  BY InUseType
  <2>7. Begun(number, place) \in Nat  BY <1>1 DEF Begun
  <2>8. dropped' + InUse(buffer') <= Begun(number', place') + faults'
    BY <1>1, <2>2, <2>3, <2>4, <2>5, <2>6, <2>7
  <2>. QED  BY <2>2, <2>8 DEF StartsPayForOverflows
<1>8. SoundSentencesArrive'  BY ArriveSound
<1>. QED  BY <1>2, <1>3, <1>4, <1>5, <1>6, <1>7, <1>8 DEF IInv

LEMMA LongerRange ==
    ASSUME NEW n \in Nat, NEW m \in Nat, n <= m
    PROVE  1 .. (n - 1) \subseteq 1 .. (m - 1)
OBVIOUS

\* A fault pays for the `$' it may have made up.
LEMMA FaultEffect ==
    ASSUME IInv, Damage \/ Lose
    PROVE  /\ Sending /\ faults \in Nat /\ faults' = faults + 1 /\ ends' = ends
           /\ SenderOK' /\ HoldsWhatWasSent' /\ sound' = sound
           /\ number \in 1 .. MaxSentences /\ number' \in Nat
           /\ number <= number' /\ Begun(number', place') = number
<1>1. /\ SenderOK /\ Sending /\ faults \in Nat /\ faults' = faults + 1
      /\ SendOn(FALSE) /\ ends' = ends
  BY DEF IInv, SenderOK, Damage, Lose
<1>2. number \in 1 .. MaxSentences /\ faults' \in Nat  BY <1>1, SentByte
<1>3. /\ SenderOK' /\ number' \in Nat
      /\ place = length + 2 => number' = number + 1 /\ place' = 0
      /\ place # length + 2 => number' = number /\ place' = place + 1 /\ place' # 0
  BY <1>1, <1>2, SendOnEffect
<1>4. sound' = sound /\ (place # length + 2 => ~intact')  BY <1>1, SendOnBroken
<1>5. HoldsWhatWasSent'
  <2>1. place' > 0 => ~intact'  BY <1>3, <1>4
  <2>. QED  BY <2>1 DEF HoldsWhatWasSent
<1>6. number <= number'  BY <1>2, <1>3
<1>7. Begun(number', place') = number
  <2>1. CASE place = length + 2
    <3>1. place' = 0 /\ number' = number + 1  BY <1>3, <2>1
    <3>. QED  BY <1>2, <3>1 DEF Begun
  <2>2. CASE place # length + 2
    <3>1. place' # 0 /\ number' = number  BY <1>3, <2>2
    <3>. QED  BY <3>1 DEF Begun
  <2>. QED  BY <2>1, <2>2
<1>. QED  BY <1>1, <1>2, <1>3, <1>4, <1>5, <1>6, <1>7

LEMMA DamageIInv ==
    ASSUME IInv, Damage
    PROVE  IInv'
<1>. PICK kind \in Kinds : Feed(Noise(kind))  BY DEF Damage
<1>. DEFINE b == Noise(kind)
<1>1. /\ SenderOK /\ faults \in Nat /\ faults' = faults + 1 /\ ends' = ends
      /\ SenderOK' /\ HoldsWhatWasSent' /\ sound' = sound
      /\ number \in 1 .. MaxSentences /\ number \in Nat /\ number' \in Nat
      /\ number <= number' /\ number <= MaxSentences /\ Begun(number', place') = number
  BY FaultEffect, Sizes DEF IInv
<1>2. Feed(b) /\ b \in Bytes /\ b.of = 0
  <2>1. Sending  BY FaultEffect
  <2>. QED  BY <1>1, <2>1, SentByte DEF Noise, Byte
<1>. HIDE DEF b
<1>3. AccumulatorOK'
  <2>1. sound \subseteq 1 .. MaxSentences /\ ends \subseteq 1 .. (number - 1)
    BY DEF IInv, AccumulatorOK
  <2>2. ends' \subseteq 1 .. (number' - 1)
    <3>1. 1 .. (number - 1) \subseteq 1 .. (number' - 1)  BY <1>1, LongerRange
    <3>. QED  BY <1>1, <2>1, <3>1
  <2>. QED  BY <1>1, <1>2, <2>1, <2>2, FeedTypes DEF AccumulatorOK
<1>4. NotEnded'
  <2>1. InOrder(buffer', number) /\ \A i \in 1 .. Len(buffer') : buffer'[i].of \notin ends
    BY <1>1, <1>2, FeedOrder
  <2>2. buffer' \in Seq(Bytes)  BY <1>2, FeedTypes
  <2>3. InOrder(buffer', number')  BY <1>1, <2>1, <2>2, SentOrder
  <2>. QED  BY <1>1, <2>1, <2>3 DEF NotEnded
<1>5. MergesAreDamage'
  <2>. SUFFICES ASSUME NEW f \in 1 .. Len(completed')
                PROVE  MergedByDamage(completed'[f], number', ends')
    BY DEF MergesAreDamage, MergedByDamage
  <2>. DEFINE frame == completed'[f]
  <2>1. MergedByDamage(frame, number, ends) /\ frame \in Seq(Bytes)
    BY <1>2, FeedMerges, FeedTypes
  <2>. HIDE DEF frame
  <2>2. InOrder(frame, number')
    BY <1>1, <2>1, SentOrder DEF MergedByDamage
  <2>. QED  BY <1>1, <2>1, <2>2 DEF MergedByDamage, frame
<1>6. StartsPayForOverflows'
  <2>1. /\ dropped' \in Nat
        /\ dropped' + InUse(buffer')
             <= dropped + InUse(buffer) + (IF b.kind = "$" THEN 1 ELSE 0)
        /\ overflows' = IF dropped' < CountMax THEN dropped' ELSE CountMax
    BY <1>2, FeedStarts
  <2>2. dropped \in Nat /\ dropped + InUse(buffer) <= Begun(number, place) + faults
    BY DEF IInv, StartsPayForOverflows
  <2>3. InUse(buffer) \in {0, 1} /\ InUse(buffer') \in {0, 1}  BY InUseType
  <2>4. Begun(number, place) \in Nat /\ Begun(number, place) <= number
    BY <1>1 DEF Begun
  <2>5. dropped' + InUse(buffer') <= Begun(number', place') + faults'
    BY <1>1, <2>1, <2>2, <2>3, <2>4
  <2>. QED  BY <2>1, <2>5 DEF StartsPayForOverflows
<1>7. SoundSentencesArrive'
  <2>1. Handed \subseteq Handed'  BY <1>2, FeedHands
  <2>. QED  BY <1>1, <2>1 DEF IInv, SoundSentencesArrive
<1>. QED  BY <1>1, <1>3, <1>4, <1>5, <1>6, <1>7 DEF IInv

LEMMA LoseIInv ==
    ASSUME IInv, Lose
    PROVE  IInv'
<1>1. /\ SenderOK /\ faults \in Nat /\ faults' = faults + 1 /\ ends' = ends
      /\ SenderOK' /\ HoldsWhatWasSent' /\ sound' = sound
      /\ number \in 1 .. MaxSentences /\ number \in Nat /\ number' \in Nat
      /\ number <= number' /\ Begun(number', place') = number
  BY FaultEffect, Sizes DEF IInv
<1>2. buffer' = buffer /\ overflows' = overflows /\ completed' = completed /\ dropped' = dropped
  BY DEF Lose
<1>3. AccumulatorOK'
  <2>1. ends \subseteq 1 .. (number - 1)  BY DEF IInv, AccumulatorOK
  <2>2. ends' \subseteq 1 .. (number' - 1)
    <3>1. 1 .. (number - 1) \subseteq 1 .. (number' - 1)  BY <1>1, LongerRange
    <3>. QED  BY <1>1, <2>1, <3>1
  <2>. QED  BY <1>1, <1>2, <2>2 DEF IInv, AccumulatorOK
<1>4. NotEnded'
  <2>1. buffer \in Seq(Bytes) /\ InOrder(buffer, number)  BY DEF IInv, AccumulatorOK, NotEnded
  <2>2. InOrder(buffer, number')  BY <1>1, <2>1, SentOrder
  <2>. QED  BY <1>1, <1>2, <2>2 DEF IInv, NotEnded
<1>5. MergesAreDamage'
  <2>. SUFFICES ASSUME NEW f \in 1 .. Len(completed)
                PROVE  MergedByDamage(completed[f], number', ends)
    BY <1>1, <1>2 DEF MergesAreDamage, MergedByDamage
  <2>1. MergedByDamage(completed[f], number, ends)
    BY DEF IInv, MergesAreDamage, MergedByDamage
  <2>2. completed[f] \in Seq(Bytes)  BY DEF IInv, AccumulatorOK
  <2>3. InOrder(completed[f], number')
    BY <1>1, <2>1, <2>2, SentOrder DEF MergedByDamage
  <2>. QED  BY <2>1, <2>3 DEF MergedByDamage
<1>6. StartsPayForOverflows'
  <2>1. dropped \in Nat /\ dropped + InUse(buffer) <= Begun(number, place) + faults
    BY DEF IInv, StartsPayForOverflows
  <2>2. InUse(buffer) \in {0, 1}  BY InUseType
  <2>3. Begun(number, place) \in Nat /\ Begun(number, place) <= number
    BY <1>1 DEF Begun
  <2>4. dropped + InUse(buffer) <= Begun(number', place') + faults'
    BY <1>1, <2>1, <2>2, <2>3
  <2>. QED  BY <1>2, <2>4 DEF IInv, StartsPayForOverflows
<1>7. SoundSentencesArrive'
  BY <1>1, <1>2 DEF IInv, SoundSentencesArrive, Handed
<1>. QED  BY <1>1, <1>3, <1>4, <1>5, <1>6, <1>7 DEF IInv

LEMMA NextIInv == IInv /\ [Next]_vars => IInv'
<1>. SUFFICES ASSUME IInv, [Next]_vars PROVE IInv'  OBVIOUS
<1>1. CASE Arrive  BY <1>1, ArriveIInv
<1>2. CASE Damage  BY <1>2, DamageIInv
<1>3. CASE Lose  BY <1>3, LoseIInv
<1>4. CASE UNCHANGED vars
  <2>. USE <1>4 DEF IInv, vars, senderVars
  <2>1. SenderOK'  BY DEF SenderOK
  <2>2. AccumulatorOK'  BY DEF AccumulatorOK
  <2>3. HoldsWhatWasSent'  BY DEF HoldsWhatWasSent
  <2>4. NotEnded'  BY DEF NotEnded
  <2>5. MergesAreDamage'  BY DEF MergesAreDamage
  <2>6. StartsPayForOverflows'  BY DEF StartsPayForOverflows
  <2>7. SoundSentencesArrive'  BY DEF SoundSentencesArrive, Handed
  <2>. QED  BY <2>1, <2>2, <2>3, <2>4, <2>5, <2>6, <2>7
<1>. QED  BY <1>1, <1>2, <1>3, <1>4 DEF Next

LEMMA AlwaysIInv == Spec => []IInv
<1>. QED  BY InitIInv, NextIInv, PTL DEF Spec

-----------------------------------------------------------------------------
(* The theorems. *)

(* A sentence that arrives undamaged and fits the buffer is handed to the *)
(* parser whole, whatever came before it on the line.                     *)
THEOREM SoundArrive == Spec => []SoundSentencesArrive
<1>1. IInv => SoundSentencesArrive  BY DEF IInv
<1>. QED  BY <1>1, AlwaysIInv, PTL

(* Two sentences are run together only when the newline of the earlier    *)
(* and the `$' of the later were both damaged or lost.                    *)
THEOREM MergesNeedDamage == Spec => []OnlyDamageMerges
<1>1. ASSUME IInv PROVE OnlyDamageMerges
  <2>. SUFFICES ASSUME NEW f \in 1 .. Len(completed),
                       NEW m \in Origins(completed[f]), NEW n \in Origins(completed[f]), m < n
                PROVE  /\ m \notin ends
                       /\ \A i \in 1 .. Len(completed[f]) : completed[f][i] # Byte("$", n, 0)
    BY DEF OnlyDamageMerges, Handed
  <2>. DEFINE frame == completed[f]
  <2>1. frame \in Seq(Bytes) /\ MergedByDamage(frame, number, ends)
    BY <1>1 DEF IInv, AccumulatorOK, MergesAreDamage, MergedByDamage
  <2>2. PICK i \in 1 .. Len(frame) : frame[i].of = m  BY DEF Origins
  <2>3. PICK j \in 1 .. Len(frame) : frame[j].of = n  BY DEF Origins
  <2>4. m # 0 /\ n # 0 /\ m \in Nat /\ n \in Nat
    BY <2>1, <2>2, <2>3, FrameOrigin DEF Origins
  <2>5. m \notin ends  BY <2>1, <2>2, <2>3 DEF MergedByDamage
  <2>. HIDE DEF frame
  <2>6. ASSUME NEW k \in 1 .. Len(frame), frame[k] = Byte("$", n, 0)
        PROVE  FALSE
    <3>1. frame[k].kind = "$" /\ frame[k].of = n  BY <2>6 DEF Byte
    <3>2. k = 1  BY <2>1, <3>1 DEF MergedByDamage
    <3>3. i # 1  BY <2>2, <2>4, <3>1, <3>2
    <3>4. frame[k].of <= frame[i].of
      BY <2>1, <2>2, <2>4, <3>1, <3>2, <3>3 DEF MergedByDamage, InOrder
    <3>. QED  BY <2>2, <2>4, <3>1, <3>4
  <2>. QED  BY <2>5, <2>6 DEF frame
<1>. QED  BY <1>1, AlwaysIInv, PTL

(* Overflows never outnumber the sentences begun and the faults, and the  *)
(* saturating counter tells them exactly.                                 *)
THEOREM OverflowsCountedOnce == Spec => []OverflowsAreCountedOnce
<1>1. ASSUME IInv PROVE OverflowsAreCountedOnce
  <2>1. /\ dropped \in Nat /\ dropped + InUse(buffer) <= Begun(number, place) + faults
        /\ overflows = IF dropped < CountMax THEN dropped ELSE CountMax
    BY <1>1 DEF IInv, StartsPayForOverflows
  <2>2. InUse(buffer) \in {0, 1}  BY InUseType
  <2>3. number \in Nat /\ number > 0 /\ faults \in Nat  BY <1>1, Sizes DEF IInv, SenderOK
  <2>4. Begun(number, place) \in Nat /\ Begun(number, place) <= number
    BY <2>3 DEF Begun
  <2>. QED  BY <2>1, <2>2, <2>3, <2>4 DEF OverflowsAreCountedOnce
<1>. QED  BY <1>1, AlwaysIInv, PTL
=============================================================================
