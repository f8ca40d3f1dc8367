-------------------------- MODULE SerialLinesProofs --------------------------
(***************************************************************************)
(* What read_until() makes of the bytes, for every time-out, limit and     *)
(* device: no line comes out twice or out of order, a line that fits and   *)
(* comes in time comes out, and a read does not last for ever.             *)
(***************************************************************************)
EXTENDS SerialLines, TLAPS

USE LinesAssumption

\* The piece the device sends after `p', and the one it sends next.
After(p) ==
    IF IsNewline(p) THEN <<p[1] + 1, 1>>
    ELSE IF p[2] < lines[p[1]].size THEN <<p[1], p[2] + 1>> ELSE <<p[1], 0>>

Upcoming ==
    IF at < lines[Len(lines)].size THEN <<Len(lines), at + 1>> ELSE <<Len(lines), 0>>

\* The piece the reader reads next, now or later.
NextPiece == IF buffer = <<>> THEN Upcoming ELSE Head(buffer)

IsSent(p) ==
    /\ p[1] \in DOMAIN lines /\ p[2] \in 0 .. lines[p[1]].size
    /\ IsNewline(p) => p[1] < Len(lines)

DeviceOK ==
    /\ env \in Environments
    /\ lines \in Seq([size: Sizes, pause: Pauses]) /\ lines # <<>>
    /\ at \in 0 .. lines[Len(lines)].size /\ pause \in 0 .. lines[Len(lines)].pause
    /\ at > 0 => pause = 0

\* The system holds what was sent last, without a gap.
BufferOK ==
    /\ buffer \in Seq(Nat \X Nat)
    /\ \A i \in DOMAIN buffer : IsSent(buffer[i])
    /\ \A i \in DOMAIN buffer :
          After(buffer[i]) = IF i = Len(buffer) THEN Upcoming ELSE buffer[i + 1]

\* The line that is being read comes after the last newline that was.
LineOK ==
    /\ line \in Seq(Nat \X Nat)
    /\ \A i \in DOMAIN line : line[i][1] = read + 1 /\ ~IsNewline(line[i])
    /\ line # <<>> => NextPiece[2] # 1
    /\ read \in Nat /\ NextPiece[1] = read + 1

\* A record is of an earlier line, or the beginning of its line is gone.
RecordsOK ==
    /\ records \in Seq(Nat)
    /\ RecordsAreSentLines
    /\ \A i \in DOMAIN records :
          /\ records[i] <= read + 1
          /\ NextPiece[2] = 1 => records[i] <= read
          /\ line # <<>> /\ line[1][2] = 1 => records[i] <= read

\* The last byte came within the time-out of the call, and it is that long ago.
ReaderOK ==
    /\ elapsed \in Nat /\ idle \in 0 .. Timeout
    /\ idle <= elapsed /\ elapsed - idle < Timeout
    /\ phase # "reading" => line = <<>> /\ elapsed = 0

Awaited(r) == r > 1 /\ r \in DOMAIN lines /\ Fits(r) /\ Timely(r) /\ r \notin Received

\* A timely line that has not come out yet is whole so far: what is read of it
\* begins with its first piece, and its last piece will come before the time-out.
WholeSoFar ==
    LET r == read + 1
        n == Len(line)
    IN  Awaited(r) =>
          /\ n <= lines[r].size /\ line = [k \in 1 .. n |-> <<r, k>>]
          /\ NextPiece = IF n < lines[r].size THEN <<r, n + 1>> ELSE <<r, 0>>
          /\ n < lines[r].size =>
                /\ buffer = <<>> => /\ elapsed + pause <= lines[r].pause + at
                                    /\ line # <<>> => idle = 0
                /\ buffer # <<>> => elapsed <= lines[r].pause + n + 1

IInv ==
    /\ DeviceOK /\ BufferOK /\ LineOK /\ RecordsOK /\ ReaderOK
    /\ WholeSoFar /\ TimelyLinesArrive

-----------------------------------------------------------------------------
(* The operators. *)

LEMMA MaxLineType == ASSUME DeviceOK PROVE MaxLine \in Int
<1>1. env \in [Names -> [text: STRING, value: Int]]  BY DEF DeviceOK
<1>2. "SERIAL_MAX_LINE_BYTES" \in Names  BY DEF Names, Integrals
<1>3. env["SERIAL_MAX_LINE_BYTES"].value \in Int  BY <1>1, <1>2
<1>4. Default["SERIAL_MAX_LINE_BYTES"].value = 16  BY DEF Default, Number
<1>. QED  BY <1>2, <1>3, <1>4 DEF MaxLine, Settings

LEMMA ElementType ==
    ASSUME NEW S, NEW s \in Seq(S), NEW i \in DOMAIN s
    PROVE  s[i] \in S
OBVIOUS

LEMMA AppendFacts ==
    ASSUME NEW S, NEW s \in Seq(S), NEW e \in S
    PROVE  /\ Append(s, e) \in Seq(S) /\ Append(s, e) # <<>>
           /\ Len(s) \in Nat /\ DOMAIN s = 1 .. Len(s)
           /\ Len(Append(s, e)) = Len(s) + 1
           /\ DOMAIN Append(s, e) = 1 .. (Len(s) + 1)
           /\ Append(s, e)[Len(s) + 1] = e
           /\ \A i \in 1 .. Len(s) : Append(s, e)[i] = s[i]
<1>1. Append(s, e) \in Seq(S) /\ Len(Append(s, e)) = Len(s) + 1 /\ Len(s) \in Nat
  OBVIOUS
<1>2. DOMAIN s = 1 .. Len(s) /\ DOMAIN Append(s, e) = 1 .. (Len(s) + 1)  BY <1>1
<1>3. Append(s, e)[Len(s) + 1] = e  OBVIOUS
<1>4. \A i \in 1 .. Len(s) : Append(s, e)[i] = s[i]  OBVIOUS
<1>5. Append(s, e) # <<>>  BY <1>1
<1>. QED  BY <1>1, <1>2, <1>3, <1>4, <1>5

LEMMA FrontOfAppend ==
    ASSUME NEW S, NEW s \in Seq(S), NEW e \in S
    PROVE  SubSeq(Append(s, e), 1, Len(s)) = s
<1>1. /\ Append(s, e) \in Seq(S) /\ Len(Append(s, e)) = Len(s) + 1 /\ Len(s) \in Nat
      /\ \A i \in 1 .. Len(s) : Append(s, e)[i] = s[i]
  BY AppendFacts
<1>. PICK t : t = Append(s, e)  OBVIOUS
<1>. PICK n : n = Len(s)  OBVIOUS
<1>2. /\ SubSeq(t, 1, n) \in Seq(S) /\ Len(SubSeq(t, 1, n)) = n
      /\ \A i \in 1 .. n : SubSeq(t, 1, n)[i] = t[i]
  BY <1>1
<1>. QED  BY <1>1, <1>2

\* The pieces 1 to n of a line.
LEMMA WholeFacts ==
    ASSUME NEW n \in Nat, NEW r \in Nat
    PROVE  /\ [k \in 1 .. n |-> <<r, k>>] \in Seq(Nat \X Nat)
           /\ Len([k \in 1 .. n |-> <<r, k>>]) = n
           /\ DOMAIN [k \in 1 .. n |-> <<r, k>>] = 1 .. n
           /\ \A i \in 1 .. n : [k \in 1 .. n |-> <<r, k>>][i] = <<r, i>>
<1>. DEFINE whole == [k \in 1 .. n |-> <<r, k>>]
<1>1. whole \in [1 .. n -> Nat \X Nat] /\ DOMAIN whole = 1 .. n  OBVIOUS
<1>2. \A i \in 1 .. n : whole[i] = <<r, i>>  OBVIOUS
<1>. HIDE DEF whole
<1>3. whole \in Seq(Nat \X Nat) /\ Len(whole) = n  BY <1>1
<1>4. QED  BY <1>1, <1>2, <1>3 DEF whole

LEMMA AppendWhole ==
    ASSUME NEW n \in Nat, NEW r \in Nat
    PROVE  Append([k \in 1 .. n |-> <<r, k>>], <<r, n + 1>>)
             = [k \in 1 .. n + 1 |-> <<r, k>>]
<1>. PICK s : s = [k \in 1 .. n |-> <<r, k>>]  OBVIOUS
<1>. PICK w : w = [k \in 1 .. n + 1 |-> <<r, k>>]  OBVIOUS
<1>. PICK m \in Nat : m = n + 1  OBVIOUS
<1>1. /\ s \in Seq(Nat \X Nat) /\ Len(s) = n /\ \A i \in 1 .. n : s[i] = <<r, i>>
  BY WholeFacts
<1>2. /\ w \in Seq(Nat \X Nat) /\ Len(w) = m /\ \A i \in 1 .. m : w[i] = <<r, i>>
  BY WholeFacts
<1>3. <<r, m>> \in Nat \X Nat  OBVIOUS
<1>. PICK t : t = Append(s, <<r, m>>)  OBVIOUS
<1>4. /\ t \in Seq(Nat \X Nat) /\ Len(t) = m /\ t[m] = <<r, m>>
      /\ \A i \in 1 .. n : t[i] = s[i]
  BY <1>1, <1>3, AppendFacts
<1>5. \A i \in 1 .. m : t[i] = w[i]
  <2>1. \A i \in 1 .. m : i \in 1 .. n \/ i = m  OBVIOUS
  <2>. QED  BY <1>1, <1>2, <1>4, <2>1
<1>. QED  BY <1>2, <1>4, <1>5

LEMMA LineType ==
    ASSUME DeviceOK, NEW r \in DOMAIN lines
    PROVE  lines[r].size \in Nat \ {0} /\ lines[r].pause \in Nat
<1>1. lines \in Seq([size: Sizes, pause: Pauses])  BY DEF DeviceOK
<1>2. lines[r] \in [size: Sizes, pause: Pauses]  BY <1>1, ElementType
<1>. QED  BY <1>2

LEMMA LastLine ==
    ASSUME DeviceOK
    PROVE  Len(lines) \in DOMAIN lines /\ Len(lines) \in Nat \ {0}
           /\ DOMAIN lines = 1 .. Len(lines)
BY DEF DeviceOK

\* What is sent next belongs to the last line.
LEMMA UpcomingType ==
    ASSUME DeviceOK
    PROVE  Upcoming \in Nat \X Nat /\ Upcoming[1] = Len(lines)
           /\ Upcoming[2] \in 0 .. lines[Len(lines)].size
           /\ (Upcoming[2] = 1 <=> at = 0)
BY LineType, LastLine DEF DeviceOK, Upcoming

LEMMA NextPieceType ==
    ASSUME DeviceOK, BufferOK
    PROVE  NextPiece \in Nat \X Nat
BY UpcomingType DEF NextPiece, BufferOK
LEMMA AfterType ==
    ASSUME DeviceOK, NEW p \in Nat \X Nat, IsSent(p)
    PROVE  /\ IsNewline(p) => After(p) = <<p[1] + 1, 1>>
           /\ ~IsNewline(p) => After(p)[1] = p[1] /\ After(p)[2] # 1
BY LineType DEF IsSent, After, IsNewline

-----------------------------------------------------------------------------
(* The device sends. *)

LEMMA SendPiece ==
    ASSUME DeviceOK, env' = env, Send, pause = 0, NEW p, p = Upcoming
    PROVE  /\ buffer' = Append(buffer, p)
           /\ DeviceOK' /\ IsSent(p)' /\ Upcoming' = After(p)'
           /\ \A r \in DOMAIN lines : r \in DOMAIN lines' /\ lines'[r] = lines[r]
           /\ Len(lines') >= Len(lines)
<1>. DEFINE L == Len(lines)
<1>0. L \in DOMAIN lines /\ L \in Nat \ {0} /\ DOMAIN lines = 1 .. L
      /\ lines[L].size \in Nat \ {0}
  BY LastLine, LineType
<1>1. CASE at < lines[L].size
  <2>1. at' = at + 1 /\ buffer' = Append(buffer, <<L, at + 1>>)
        /\ lines' = lines /\ pause' = pause
    BY <1>1 DEF Send
  <2>2. p = <<L, at + 1>>  BY <1>1 DEF Upcoming
  <2>3. at \in Nat  BY <1>0 DEF DeviceOK
  <2>4. DeviceOK'  BY <1>0, <1>1, <2>1, <2>3 DEF DeviceOK
  <2>5. IsSent(p)'  BY <1>0, <1>1, <2>1, <2>2, <2>3 DEF IsSent, IsNewline
  <2>6. Upcoming' = After(p)'
    BY <1>0, <1>1, <2>1, <2>2, <2>3 DEF Upcoming, After, IsNewline
  <2>. QED  BY <1>0, <2>1, <2>2, <2>4, <2>5, <2>6
<1>2. CASE at >= lines[L].size
  <2>0. ~(at < lines[L].size)  BY <1>0, <1>2 DEF DeviceOK
  <2>1. PICK s \in Sizes, w \in Pauses :
            lines' = Append(lines, [size |-> s, pause |-> w]) /\ pause' = w
    BY <2>0 DEF Send
  <2>2. buffer' = Append(buffer, <<L, 0>>) /\ at' = 0  BY <2>0 DEF Send
  <2>3. p = <<L, 0>>  BY <2>0 DEF Upcoming
  <2>4. /\ lines' \in Seq([size: Sizes, pause: Pauses]) /\ lines' # <<>>
        /\ Len(lines') = L + 1 /\ DOMAIN lines' = 1 .. (L + 1)
        /\ lines'[L + 1].size = s /\ lines'[L + 1].pause = w
        /\ \A r \in DOMAIN lines : lines'[r] = lines[r]
    <3>1. lines \in Seq([size: Sizes, pause: Pauses])  BY DEF DeviceOK
    <3>. QED  BY <1>0, <2>1, <3>1
  <2>5. s \in Nat \ {0} /\ w \in Nat  OBVIOUS
  <2>6. DeviceOK'
    <3>1. at' \in 0 .. s /\ pause' \in 0 .. w  BY <2>1, <2>2, <2>5
    <3>2. env' \in Environments  BY DEF DeviceOK
    <3>. QED  BY <2>2, <2>4, <3>1, <3>2 DEF DeviceOK
  <2>7. IsSent(p)'  BY <1>0, <2>3, <2>4 DEF IsSent, IsNewline
  <2>8. Upcoming' = After(p)'
    <3>1. Upcoming' = <<L + 1, 1>>  BY <1>0, <2>2, <2>4, <2>5 DEF Upcoming
    <3>2. After(p)' = <<L + 1, 1>>  BY <2>3 DEF After, IsNewline
    <3>. QED  BY <3>1, <3>2
  <2>. QED  BY <1>0, <2>2, <2>3, <2>4, <2>6, <2>7, <2>8
<1>. QED  BY <1>0, <1>1, <1>2 DEF DeviceOK

\* A piece that is sent is the one the reader was bound to read after the others.
LEMMA SendBuffer ==
    ASSUME DeviceOK, BufferOK, env' = env, Send, pause = 0
    PROVE  BufferOK' /\ NextPiece' = NextPiece
<1>. PICK p : p = Upcoming  OBVIOUS
<1>1. /\ buffer' = Append(buffer, p)
      /\ DeviceOK' /\ IsSent(p)' /\ Upcoming' = After(p)'
      /\ \A r \in DOMAIN lines : r \in DOMAIN lines' /\ lines'[r] = lines[r]
      /\ Len(lines') >= Len(lines)
  BY SendPiece
<1>2. p \in Nat \X Nat  BY UpcomingType
<1>3. buffer \in Seq(Nat \X Nat)  BY DEF BufferOK
<1>4. /\ buffer' \in Seq(Nat \X Nat) /\ Len(buffer') = Len(buffer) + 1
      /\ buffer'[Len(buffer) + 1] = p
      /\ \A i \in 1 .. Len(buffer) : buffer'[i] = buffer[i]
      /\ DOMAIN buffer' = 1 .. (Len(buffer) + 1)
      /\ DOMAIN buffer = 1 .. Len(buffer) /\ Len(buffer) \in Nat
  BY <1>1, <1>2, <1>3, AppendFacts
<1>5. \A i \in DOMAIN buffer :
         IsSent(buffer[i]) /\ After(buffer[i]) = IF i = Len(buffer) THEN p ELSE buffer[i + 1]
  BY DEF BufferOK
<1>6. ASSUME NEW q \in Nat \X Nat, IsSent(q)
      PROVE  IsSent(q)' /\ After(q)' = After(q)
  <2>1. q[1] \in DOMAIN lines' /\ lines'[q[1]] = lines[q[1]]  BY <1>1, <1>6 DEF IsSent
  <2>2. Len(lines) \in Nat /\ Len(lines') \in Nat /\ q[1] \in Nat
    BY <1>1, LastLine DEF DeviceOK
  <2>. QED  BY <1>1, <1>6, <2>1, <2>2 DEF IsSent, After, IsNewline
<1>7. ASSUME NEW i \in DOMAIN buffer'
      PROVE  /\ IsSent(buffer[i])'
             /\ After(buffer[i])' = IF i = Len(buffer') THEN Upcoming' ELSE buffer'[i + 1]
  <2>1. CASE i = Len(buffer) + 1  BY <1>1, <1>4, <2>1 DEF IsSent, After, IsNewline
  <2>2. CASE i \in DOMAIN buffer
    <3>. PICK q : q = buffer[i]  OBVIOUS
    <3>1. q \in Nat \X Nat /\ IsSent(q)  BY <1>3, <1>5, <2>2, ElementType
    <3>2. IsSent(q)' /\ After(q)' = After(q)  BY <1>6, <3>1
    <3>3. buffer'[i] = q  BY <1>4, <2>2
    <3>4. IsSent(buffer[i])' /\ After(buffer[i])' = After(q)
      BY <3>2, <3>3 DEF IsSent, After, IsNewline
    <3>5. After(q) = buffer'[i + 1] /\ i # Len(buffer')
      <4>0. i \in 1 .. Len(buffer) /\ i # Len(buffer')  BY <1>4, <2>2
      <4>1. CASE i = Len(buffer)  BY <1>4, <1>5, <4>0, <4>1
      <4>2. CASE i # Len(buffer)
        <5>0. Len(buffer) \in Nat  BY <1>4
        <5>1. i + 1 \in 1 .. Len(buffer)  BY <4>0, <4>2, <5>0
        <5>2. After(q) = buffer[i + 1]  BY <1>5, <2>2, <4>2
        <5>. QED  BY <1>4, <4>0, <5>1, <5>2
      <4>. QED  BY <4>1, <4>2
    <3>. QED  BY <3>4, <3>5
  <2>3. i \in 1 .. Len(buffer) \/ i = Len(buffer) + 1  BY <1>4, <1>7
  <2>. QED  BY <1>4, <2>1, <2>2, <2>3
<1>8. BufferOK'  BY <1>4, <1>7 DEF BufferOK
<1>9. NextPiece' = NextPiece
  <2>1. CASE buffer = <<>>  BY <1>1, <1>2, <2>1 DEF NextPiece
  <2>2. CASE buffer # <<>>
    <3>1. Head(buffer') = Head(buffer) /\ buffer' # <<>>  BY <1>3, <1>4, <2>2
    <3>. QED  BY <2>2, <3>1 DEF NextPiece
  <2>. QED  BY <2>1, <2>2
<1>. QED  BY <1>8, <1>9

-----------------------------------------------------------------------------
(* The reader takes a piece. *)

LEMMA TailFacts ==
    ASSUME NEW S, NEW s \in Seq(S), s # <<>>
    PROVE  /\ Tail(s) \in Seq(S) /\ Head(s) = s[1] /\ 1 \in DOMAIN s
           /\ Len(s) \in Nat \ {0} /\ Len(Tail(s)) = Len(s) - 1
           /\ DOMAIN s = 1 .. Len(s) /\ DOMAIN Tail(s) = 1 .. (Len(s) - 1)
           /\ \A i \in 1 .. (Len(s) - 1) : Tail(s)[i] = s[i + 1]
<1>1. Len(s) \in Nat \ {0} /\ Head(s) = s[1] /\ DOMAIN s = 1 .. Len(s)  OBVIOUS
<1>2. Tail(s) \in Seq(S) /\ Len(Tail(s)) = Len(s) - 1  BY <1>1
<1>3. DOMAIN Tail(s) = 1 .. (Len(s) - 1)  BY <1>2
<1>4. \A i \in 1 .. (Len(s) - 1) : Tail(s)[i] = s[i + 1]  BY <1>1, <1>2
<1>. QED  BY <1>1, <1>2, <1>3, <1>4

LEMMA NextIndex ==
    ASSUME NEW n \in Nat \ {0}, NEW i \in 1 .. (n - 1)
    PROVE  /\ i + 1 \in 1 .. n
           /\ i + 1 = n => i = n - 1
           /\ i + 1 # n => i # n - 1 /\ i + 1 \in 1 .. (n - 1)
OBVIOUS

\* What is left begins with the piece after it.
LEMMA TakePiece ==
    ASSUME DeviceOK, BufferOK, buffer # <<>>, env' = env,
           lines' = lines, at' = at, pause' = pause, buffer' = Tail(buffer),
           NEW p, p = Head(buffer)
    PROVE  /\ DeviceOK' /\ BufferOK'
           /\ p \in Nat \X Nat /\ IsSent(p) /\ NextPiece = p /\ NextPiece' = After(p)
<1>1. DeviceOK'  BY DEF DeviceOK
<1>2. /\ buffer' \in Seq(Nat \X Nat) /\ p = buffer[1] /\ 1 \in DOMAIN buffer
      /\ Len(buffer) \in Nat \ {0} /\ Len(buffer') = Len(buffer) - 1
      /\ DOMAIN buffer = 1 .. Len(buffer) /\ DOMAIN buffer' = 1 .. (Len(buffer) - 1)
      /\ \A i \in 1 .. (Len(buffer) - 1) : buffer'[i] = buffer[i + 1]
  BY TailFacts DEF BufferOK
<1>3. p \in Nat \X Nat /\ IsSent(p)  BY <1>2, ElementType DEF BufferOK
<1>4. Upcoming' = Upcoming  BY DEF Upcoming
<1>5. ASSUME NEW i \in 1 .. (Len(buffer) - 1)
      PROVE  /\ IsSent(buffer[i])'
             /\ After(buffer[i])' = IF i = Len(buffer') THEN Upcoming' ELSE buffer'[i + 1]
  <2>. PICK n : n = Len(buffer)  OBVIOUS
  <2>1. n \in Nat \ {0} /\ Len(buffer') = n - 1 /\ i \in 1 .. (n - 1)  BY <1>2
  <2>2. /\ i + 1 \in 1 .. n
        /\ i + 1 = n => i = n - 1
        /\ i + 1 # n => i # n - 1 /\ i + 1 \in 1 .. (n - 1)
    BY <2>1, NextIndex
  <2>. PICK q : q = buffer[i + 1]  OBVIOUS
  <2>4. buffer'[i] = q  BY <1>2
  <2>5. IsSent(q) /\ After(q) = IF i + 1 = n THEN Upcoming ELSE buffer[i + 1 + 1]
    BY <1>2, <2>2 DEF BufferOK
  <2>6. IsSent(buffer[i])' /\ After(buffer[i])' = After(q)
    BY <2>4, <2>5 DEF IsSent, After, IsNewline
  <2>7. CASE i + 1 = n
    BY <1>4, <2>1, <2>2, <2>5, <2>6, <2>7
  <2>8. CASE i + 1 # n
    <3>1. i # n - 1 /\ i + 1 \in 1 .. (n - 1)  BY <2>2, <2>8
    <3>2. buffer'[i + 1] = buffer[i + 1 + 1]  BY <1>2, <3>1
    <3>. QED  BY <2>1, <2>5, <2>6, <2>8, <3>1, <3>2
  <2>. QED  BY <2>7, <2>8
<1>6. BufferOK'  BY <1>2, <1>5 DEF BufferOK
<1>7. NextPiece = p  BY DEF NextPiece
<1>8. NextPiece' = After(p)
  <2>0. After(p) = IF 1 = Len(buffer) THEN Upcoming ELSE buffer[1 + 1]
    <3>1. After(buffer[1]) = IF 1 = Len(buffer) THEN Upcoming ELSE buffer[1 + 1]
      BY <1>2 DEF BufferOK
    <3>. QED  BY <1>2, <3>1
  <2>1. CASE Len(buffer) = 1
    <3>1. buffer' = <<>>  BY <1>2, <2>1
    <3>. QED  BY <1>4, <2>0, <2>1, <3>1 DEF NextPiece
  <2>2. CASE Len(buffer) # 1
    <3>1. Len(buffer) \in Nat \ {0} /\ Len(buffer') = Len(buffer) - 1  BY <1>2
    <3>2. 1 \in 1 .. (Len(buffer) - 1) /\ Len(buffer') # 0  BY <2>2, <3>1
    <3>3. buffer'[1] = buffer[1 + 1]  BY <1>2, <3>2
    <3>4. buffer' # <<>>  BY <3>2
    <3>5. Head(buffer') = buffer'[1]  BY <1>2, <3>4
    <3>. QED  BY <2>0, <2>2, <3>3, <3>4, <3>5 DEF NextPiece
  <2>. QED  BY <2>1, <2>2
<1>. QED  BY <1>1, <1>3, <1>6, <1>7, <1>8

-----------------------------------------------------------------------------
(* What _loop() makes of a text: pieces of the line `r', perhaps its newline. *)

\* A record is of the line the text is of, and has its first piece.
LEMMA RecordOfLine ==
    ASSUME DeviceOK, NEW r, NEW text \in Seq(Nat \X Nat), text # <<>>,
           \A i \in DOMAIN text : text[i][1] = r, HandOn(text)
    PROVE  \/ records' = records
           \/ records' = Append(records, r) /\ text[1][2] = 1
<1>0. 1 \in DOMAIN text /\ Len(text) \in Nat \ {0}  BY TailFacts
<1>1. CASE ~Parses(text)  BY <1>1 DEF HandOn
<1>2. CASE Parses(text)
  <2>1. PICK q \in DOMAIN lines : Body(text) = [k \in 1 .. lines[q].size |-> <<q, k>>]
    BY <1>2 DEF Parses
  <2>2. 1 \in 1 .. lines[q].size  BY LineType
  <2>3. 1 \in DOMAIN Body(text) /\ Body(text)[1] = <<q, 1>>  BY <2>1, <2>2
  <2>4. Body(text)[1] = text[1]
    <3>1. CASE Body(text) = text  BY <3>1
    <3>2. CASE Body(text) = SubSeq(text, 1, Len(text) - 1)
      <4>1. Len(text) - 1 \in Nat  BY <1>0
      <4>2. DOMAIN Body(text) = 1 .. (Len(text) - 1)  BY <1>0, <3>2, <4>1
      <4>3. 1 \in 1 .. (Len(text) - 1)  BY <2>3, <4>2
      <4>. QED  BY <1>0, <3>2, <4>1, <4>3
    <3>. QED  BY <3>1, <3>2 DEF Body
  <2>5. records' = Append(records, text[1][1])  BY <1>2 DEF HandOn
  <2>6. text[1] = <<q, 1>> /\ text[1][1] = r  BY <1>0, <2>3, <2>4
  <2>. QED  BY <2>5, <2>6
<1>. QED  BY <1>1, <1>2

\* The whole of a line parses, with its newline or without.
LEMMA WholeParses ==
    ASSUME DeviceOK, NEW r \in DOMAIN lines, NEW n, n = lines[r].size,
           NEW text, \/ text = [k \in 1 .. n |-> <<r, k>>]
                     \/ text = Append([k \in 1 .. n |-> <<r, k>>], <<r, 0>>),
           HandOn(text)
    PROVE  records' = Append(records, r)
<1>. DEFINE whole == [k \in 1 .. n |-> <<r, k>>]
<1>1. n \in Nat \ {0}  BY LineType
<1>2. r \in Nat  BY LastLine
<1>3. /\ whole \in Seq(Nat \X Nat) /\ Len(whole) = n
      /\ whole[1] = <<r, 1>> /\ whole[n] = <<r, n>>
  <2>1. 1 \in 1 .. n /\ n \in 1 .. n  BY <1>1
  <2>. QED  BY <1>1, <1>2, <2>1, WholeFacts
<1>4. Body(text) = whole /\ text[1][1] = r
  <2>1. CASE text = whole
    <3>1. Len(text) = n /\ text[n] = <<r, n>> /\ text[1] = <<r, 1>>  BY <1>3, <2>1
    <3>2. ~IsNewline(text[Len(text)])  BY <1>1, <3>1 DEF IsNewline
    <3>. QED  BY <2>1, <3>1, <3>2 DEF Body
  <2>2. CASE text = Append(whole, <<r, 0>>)
    <3>. HIDE DEF whole
    <3>0. <<r, 0>> \in Nat \X Nat  BY <1>2
    <3>1. /\ Len(text) = n + 1 /\ text[n + 1] = <<r, 0>>
          /\ \A i \in 1 .. n : text[i] = whole[i]
          /\ text \in Seq(Nat \X Nat)
      BY <1>3, <2>2, <3>0, AppendFacts
    <3>2. Body(text) = SubSeq(text, 1, n)
      <4>1. IsNewline(text[Len(text)])  BY <3>1 DEF IsNewline
      <4>2. Len(text) - 1 = n  BY <1>1, <3>1
      <4>. QED  BY <4>1, <4>2 DEF Body
    <3>3. SubSeq(text, 1, n) = whole  BY <1>3, <2>2, <3>0, FrontOfAppend
    <3>4. text[1] = <<r, 1>>
      <4>1. 1 \in 1 .. n  BY <1>1
      <4>. QED  BY <1>3, <3>1, <4>1
    <3>. QED  BY <3>2, <3>3, <3>4
  <2>. QED  BY <2>1, <2>2
<1>5. Parses(text)  BY <1>4 DEF Parses
<1>. QED  BY <1>4, <1>5 DEF HandOn

LEMMA ReceivedGrows ==
    ASSUME records \in Seq(Nat), NEW r \in Nat,
           records' = records \/ records' = Append(records, r)
    PROVE  /\ records' \in Seq(Nat) /\ Received \subseteq Received'
           /\ records' = Append(records, r) => r \in Received'
<1>1. CASE records' = records
  <2>1. records' = Append(records, r) => Len(records') = Len(records) + 1
                                         /\ Len(records) \in Nat
    OBVIOUS
  <2>. QED  BY <1>1, <2>1 DEF Received
<1>2. CASE records' = Append(records, r)
  <2>1. /\ records' \in Seq(Nat) /\ Len(records) \in Nat /\ DOMAIN records = 1 .. Len(records)
        /\ DOMAIN records' = 1 .. (Len(records) + 1)
        /\ records'[Len(records) + 1] = r
        /\ \A i \in 1 .. Len(records) : records'[i] = records[i]
    BY <1>2, AppendFacts
  <2>2. \A i \in 1 .. Len(records) : i \in 1 .. (Len(records) + 1)  BY <2>1
  <2>. QED  BY <2>1, <2>2 DEF Received
<1>. QED  BY <1>1, <1>2

\* A record goes after earlier ones.
LEMMA RecordsInOrder ==
    ASSUME records \in Seq(Nat), RecordsAreSentLines, NEW r \in Nat,
           \/ records' = records
           \/ records' = Append(records, r) /\ \A i \in DOMAIN records : records[i] < r
    PROVE  /\ records' \in Seq(Nat) /\ RecordsAreSentLines'
           /\ \A i \in DOMAIN records' :
                 records'[i] = r \/ \E j \in DOMAIN records : records'[i] = records[j]
<1>1. CASE records' = records
  BY <1>1 DEF RecordsAreSentLines
<1>2. CASE records' = Append(records, r) /\ \A i \in DOMAIN records : records[i] < r
  <2>. PICK m : m = Len(records)  OBVIOUS
  <2>1. /\ records' \in Seq(Nat) /\ m \in Nat /\ DOMAIN records = 1 .. m
        /\ DOMAIN records' = 1 .. (m + 1)
        /\ records'[m + 1] = r
        /\ \A i \in 1 .. m : records'[i] = records[i]
    BY <1>2, AppendFacts
  <2>2. ASSUME NEW i \in DOMAIN records', NEW j \in DOMAIN records', i < j
        PROVE  records'[i] < records'[j]
    <3>1. i \in 1 .. m /\ (j \in 1 .. m \/ j = m + 1)  BY <2>1, <2>2
    <3>. QED  BY <1>2, <2>1, <2>2, <3>1 DEF RecordsAreSentLines
  <2>3. \A i \in 1 .. (m + 1) : i \in 1 .. m \/ i = m + 1  BY <2>1
  <2>. QED  BY <2>1, <2>2, <2>3 DEF RecordsAreSentLines
<1>. QED  BY <1>1, <1>2

-----------------------------------------------------------------------------
(* The reader hands a text on, or keeps it. *)

\* `text' is of the line that is being read, and no record is of it yet if it
\* has the first piece.
OfLine(text) ==
    /\ text \in Seq(Nat \X Nat) /\ text # <<>>
    /\ \A i \in DOMAIN text : text[i][1] = read + 1
    /\ text[1][2] = 1 => \A i \in DOMAIN records : records[i] <= read

LEMMA LineIsOfLine == ASSUME LineOK, RecordsOK, line # <<>> PROVE OfLine(line)
BY DEF LineOK, RecordsOK, OfLine

LEMMA TextIsOfLine ==
    ASSUME DeviceOK, BufferOK, LineOK, RecordsOK, NEW text, text = Append(line, NextPiece)
    PROVE  /\ OfLine(text) /\ Len(line) \in Nat /\ Len(text) = Len(line) + 1
           /\ text[Len(text)] = NextPiece /\ DOMAIN text = 1 .. (Len(line) + 1)
           /\ \A i \in 1 .. Len(line) : text[i] = line[i]
<1>. PICK p \in Nat \X Nat : p = NextPiece  BY NextPieceType
<1>1. /\ text \in Seq(Nat \X Nat) /\ text # <<>> /\ Len(text) = Len(line) + 1
      /\ Len(line) \in Nat /\ DOMAIN line = 1 .. Len(line)
      /\ DOMAIN text = 1 .. (Len(line) + 1) /\ text[Len(line) + 1] = p
      /\ \A i \in 1 .. Len(line) : text[i] = line[i]
  <2>1. line \in Seq(Nat \X Nat) /\ text = Append(line, p)  BY DEF LineOK
  <2>. QED  BY <2>1, AppendFacts
<1>2. p[1] = read + 1 /\ \A i \in 1 .. Len(line) : line[i][1] = read + 1
  BY <1>1 DEF LineOK
<1>3. \A i \in DOMAIN text : text[i][1] = read + 1
  <2>1. \A i \in 1 .. (Len(line) + 1) : i \in 1 .. Len(line) \/ i = Len(line) + 1
    BY <1>1
  <2>. QED  BY <1>1, <1>2, <2>1
<1>4. ASSUME text[1][2] = 1, NEW i \in DOMAIN records PROVE records[i] <= read
  <2>1. CASE line = <<>>
    <3>1. text[1] = p  BY <1>1, <2>1
    <3>. QED  BY <1>4, <3>1 DEF RecordsOK
  <2>2. CASE line # <<>>
    <3>1. 1 \in 1 .. Len(line)  BY <2>2, TailFacts DEF LineOK
    <3>2. line[1][2] = 1  BY <1>1, <1>4, <3>1
    <3>. QED  BY <2>2, <3>2 DEF RecordsOK
  <2>. QED  BY <2>1, <2>2
<1>. QED  BY <1>1, <1>3, <1>4 DEF OfLine

LEMMA HandOnKeeps ==
    ASSUME DeviceOK, BufferOK, LineOK, RecordsOK, ReaderOK, NEW text, OfLine(text),
           HandOn(text),
           \/ read' = read /\ NextPiece'[1] = read + 1 /\ NextPiece'[2] # 1
           \/ read' = read + 1 /\ NextPiece'[1] = read + 2
    PROVE  /\ LineOK' /\ RecordsOK' /\ ReaderOK' /\ Received \subseteq Received'
           /\ records' = Append(records, read + 1) => read + 1 \in Received'
<1>. PICK r : r = read + 1  OBVIOUS
<1>0. read \in Nat /\ r \in Nat /\ records \in Seq(Nat) /\ RecordsAreSentLines
      /\ \A i \in DOMAIN records : records[i] \in Nat /\ records[i] <= r
  BY ElementType DEF LineOK, RecordsOK
<1>1. /\ line' = <<>> /\ idle' = 0 /\ elapsed' = 0 /\ phase' = "handling"
  BY DEF HandOn, ReadAgain
<1>2. \/ records' = records
      \/ records' = Append(records, r) /\ \A i \in DOMAIN records : records[i] < r
  <2>1. \/ records' = records
        \/ records' = Append(records, r) /\ text[1][2] = 1
    BY RecordOfLine DEF OfLine
  <2>2. text[1][2] = 1 => \A i \in DOMAIN records : records[i] <= read
    BY DEF OfLine
  <2>3. ASSUME text[1][2] = 1, NEW i \in DOMAIN records PROVE records[i] < r
    <3>1. records[i] <= read /\ records[i] \in Nat /\ read \in Nat  BY <1>0, <2>2, <2>3
    <3>. QED  BY <3>1
  <2>. QED  BY <2>1, <2>3
<1>3. LineOK'
  <2>1. line' \in Seq(Nat \X Nat) /\ DOMAIN line' = {}  BY <1>1
  <2>2. read' \in Nat /\ NextPiece'[1] = read' + 1
    <3>1. CASE read' = read /\ NextPiece'[1] = read + 1  BY <1>0, <3>1
    <3>2. CASE read' = read + 1 /\ NextPiece'[1] = read + 2
      <4>1. read + 2 = read + 1 + 1  BY <1>0
      <4>. QED  BY <1>0, <3>2, <4>1
    <3>. QED  BY <3>1, <3>2
  <2>. QED  BY <1>1, <2>1, <2>2 DEF LineOK
<1>4. /\ records' \in Seq(Nat) /\ RecordsAreSentLines'
      /\ \A i \in DOMAIN records' :
            records'[i] = r \/ \E j \in DOMAIN records : records'[i] = records[j]
  BY <1>0, <1>2, RecordsInOrder
<1>5. RecordsOK'
  <2>1. ASSUME NEW i \in DOMAIN records'
        PROVE  records'[i] <= read' + 1 /\ (NextPiece'[2] = 1 => records'[i] <= read')
    <3>1. records'[i] \in Nat /\ records'[i] <= r
      <4>1. CASE records'[i] = r  BY <1>0, <4>1
      <4>2. CASE \E j \in DOMAIN records : records'[i] = records[j]  BY <1>0, <4>2
      <4>. QED  BY <1>4, <4>1, <4>2
    <3>2. CASE read' = read /\ NextPiece'[2] # 1  BY <1>0, <3>1, <3>2
    <3>3. CASE read' = read + 1  BY <1>0, <3>1, <3>3
    <3>. QED  BY <3>2, <3>3
  <2>. QED  BY <1>1, <1>4, <2>1 DEF RecordsOK
<1>6. ReaderOK'  BY <1>1 DEF ReaderOK
<1>7. /\ Received \subseteq Received'
      /\ records' = Append(records, r) => r \in Received'
  <2>1. records' = records \/ records' = Append(records, r)  BY <1>2
  <2>. QED  BY <1>0, <2>1, ReceivedGrows
<1>. QED  BY <1>3, <1>5, <1>6, <1>7

-----------------------------------------------------------------------------
(* A timely line. *)

\* What it needs of the device and of the settings does not change.
LEMMA AwaitedBefore ==
    ASSUME lines' = lines, env' = env, Received \subseteq Received', NEW r, Awaited(r)'
    PROVE  Awaited(r)
BY DEF Awaited, Fits, Timely, MaxLine, Received

\* An awaited line is in the middle or at its end, and in time.
LEMMA AwaitedPart ==
    ASSUME DeviceOK, WholeSoFar, NEW r, r = read + 1, Awaited(r)
    PROVE  /\ lines[r].size \in Nat \ {0} /\ lines[r].pause \in Nat
           /\ line = [k \in 1 .. Len(line) |-> <<r, k>>] /\ Len(line) <= lines[r].size
           /\ NextPiece = IF Len(line) < lines[r].size THEN <<r, Len(line) + 1>> ELSE <<r, 0>>
           /\ Len(line) < lines[r].size =>
                 /\ buffer = <<>> => /\ elapsed + pause <= lines[r].pause + at
                                     /\ line # <<>> => idle = 0
                 /\ buffer # <<>> => elapsed <= lines[r].pause + Len(line) + 1
           /\ lines[r].size <= MaxLine /\ lines[r].pause + lines[r].size <= Timeout
BY LineType DEF WholeSoFar, Awaited, Fits, Timely

\* Its next piece makes one more of it, and the last the whole.
LEMMA AwaitedText ==
    ASSUME DeviceOK, LineOK, WholeSoFar, NEW r \in Nat, r = read + 1, Awaited(r),
           NEW p, p = NextPiece, NEW text, text = Append(line, p)
    PROVE  \/ /\ IsNewline(p)
              /\ text = Append([k \in 1 .. lines[r].size |-> <<r, k>>], <<r, 0>>)
           \/ /\ ~IsNewline(p) /\ Len(line) < lines[r].size /\ p = <<r, Len(line) + 1>>
              /\ text = [k \in 1 .. Len(line) + 1 |-> <<r, k>>]
<1>. PICK n : n = Len(line)  OBVIOUS
<1>. PICK s : s = lines[r].size  OBVIOUS
<1>1. /\ s \in Nat \ {0} /\ n \in Nat /\ n <= s
      /\ line = [k \in 1 .. n |-> <<r, k>>]
      /\ p = IF n < s THEN <<r, n + 1>> ELSE <<r, 0>>
  BY AwaitedPart DEF LineOK
<1>2. CASE n = s
  BY <1>1, <1>2 DEF IsNewline
<1>3. CASE n < s
  <2>1. p = <<r, n + 1>> /\ ~IsNewline(p)  BY <1>1, <1>3 DEF IsNewline
  <2>2. text = Append([k \in 1 .. n |-> <<r, k>>], <<r, n + 1>>)
    <3>1. line = [k \in 1 .. n |-> <<r, k>>]  BY <1>1
    <3>. QED  BY <2>1, <3>1
  <2>3. Append([k \in 1 .. n |-> <<r, k>>], <<r, n + 1>>) = [k \in 1 .. n + 1 |-> <<r, k>>]
    <3>1. n \in Nat  BY <1>1
    <3>. QED  BY <3>1, AppendWhole
  <2>. QED  BY <1>3, <2>1, <2>2, <2>3
<1>4. n = s \/ n < s
  <2>1. s \in Nat /\ n \in Nat /\ n <= s  BY <1>1
  <2>. QED  BY <2>1
<1>. QED  BY <1>2, <1>3, <1>4

\* When the newline before it is read, all of a line is still to come.
LEMMA FreshLine ==
    ASSUME DeviceOK, lines' = lines, at' = at, pause' = pause,
           NEW r \in Nat, read' + 1 = r,
           line' = <<>>, elapsed' = 0, NextPiece' = <<r, 1>>
    PROVE  WholeSoFar'
<1>. SUFFICES ASSUME Awaited(r)' PROVE
        /\ 0 <= lines[r].size /\ line' = [k \in 1 .. 0 |-> <<r, k>>]
        /\ NextPiece' = IF 0 < lines[r].size THEN <<r, 0 + 1>> ELSE <<r, 0>>
        /\ 0 < lines[r].size =>
              /\ buffer' = <<>> => /\ elapsed' + pause' <= lines[r].pause + at'
                                   /\ line' # <<>> => idle' = 0
              /\ buffer' # <<>> => elapsed' <= lines[r].pause + 0 + 1
  BY DEF WholeSoFar
<1>1. r \in DOMAIN lines  BY DEF Awaited
<1>2. lines[r].size \in Nat \ {0} /\ lines[r].pause \in Nat  BY <1>1, LineType
<1>3. line' = [k \in 1 .. 0 |-> <<r, k>>]  OBVIOUS
<1>5. ASSUME buffer' = <<>> PROVE pause <= lines[r].pause + at
  <2>1. Upcoming' = Upcoming /\ NextPiece' = Upcoming'  BY <1>5 DEF Upcoming, NextPiece
  <2>2. r = Len(lines)
    <3>1. Upcoming[1] = Len(lines)  BY UpcomingType
    <3>2. Upcoming = <<r, 1>>  BY <2>1
    <3>. QED  BY <3>1, <3>2
  <2>3. at \in 0 .. lines[Len(lines)].size /\ pause \in 0 .. lines[Len(lines)].pause
    BY DEF DeviceOK
  <2>. QED  BY <1>2, <2>2, <2>3
<1>. QED
  <2>1. pause \in Nat  BY LineType, LastLine DEF DeviceOK
  <2>. QED  BY <1>2, <1>3, <1>5, <2>1

\* Neither the limit nor the time-out cuts it before its last piece.
LEMMA CutAtTheEnd ==
    ASSUME NEW n \in Nat, NEW s \in Nat, NEW w \in Nat, NEW e \in Nat, NEW t \in Nat,
           NEW m \in Int, n < s, e <= w + n + 1, s <= m, w + s <= t,
           n + 1 >= m \/ e >= t
    PROVE  n + 1 = s
OBVIOUS

LEMMA TimelyKept ==
    ASSUME TimelyLinesArrive, read \in Nat, read' = read, env' = env,
           \A r \in 2 .. read : lines'[r] = lines[r],
           Received \subseteq Received'
    PROVE  TimelyLinesArrive'
BY DEF TimelyLinesArrive, Fits, Timely, MaxLine

LEMMA ReadPieceKeeps == ASSUME IInv, ReadPiece PROVE IInv'
<1>. PICK p : p = Head(buffer)  OBVIOUS
<1>. PICK text : text = Append(line, p)  OBVIOUS
<1>. PICK r : r = read + 1  OBVIOUS
<1>0. DeviceOK /\ BufferOK /\ LineOK /\ RecordsOK /\ ReaderOK /\ WholeSoFar
      /\ TimelyLinesArrive
  BY DEF IInv
<1>1. /\ env' = env /\ lines' = lines /\ at' = at /\ pause' = pause
      /\ buffer' = Tail(buffer) /\ buffer # <<>> /\ phase = "reading"
  BY DEF ReadPiece, deviceVars
<1>2. /\ read' = IF IsNewline(p) THEN p[1] ELSE read
      /\ IF Ends(text)
         THEN HandOn(text)
         ELSE /\ line' = text /\ idle' = 0
              /\ UNCHANGED <<phase, elapsed, left, records>>
  BY DEF ReadPiece
<1>3. /\ DeviceOK' /\ BufferOK'
      /\ p \in Nat \X Nat /\ IsSent(p) /\ NextPiece = p /\ NextPiece' = After(p)
  BY <1>0, <1>1, TakePiece
<1>4. r \in Nat /\ read \in Nat /\ p[1] = r /\ r \in DOMAIN lines
  BY <1>0, <1>3 DEF LineOK, IsSent
<1>5. /\ OfLine(text) /\ Len(line) \in Nat /\ Len(text) = Len(line) + 1
      /\ text[Len(text)] = p /\ DOMAIN text = 1 .. (Len(line) + 1)
      /\ \A i \in 1 .. Len(line) : text[i] = line[i]
  <2>1. p = NextPiece /\ text = Append(line, NextPiece)  BY <1>3
  <2>. QED  BY <1>0, <2>1, TextIsOfLine
<1>6. /\ IsNewline(p) => NextPiece' = <<r + 1, 1>>
      /\ ~IsNewline(p) => NextPiece'[1] = r /\ NextPiece'[2] # 1
  BY <1>0, <1>3, <1>4, AfterType
<1>7. ASSUME Awaited(r)
      PROVE  \/ /\ IsNewline(p)
                /\ text = Append([k \in 1 .. lines[r].size |-> <<r, k>>], <<r, 0>>)
             \/ /\ ~IsNewline(p) /\ Len(line) < lines[r].size /\ p = <<r, Len(line) + 1>>
                /\ text = [k \in 1 .. Len(line) + 1 |-> <<r, k>>]
  BY <1>0, <1>3, <1>4, <1>7, AwaitedText
<1>8. CASE Ends(text)
  <2>1. HandOn(text)  BY <1>2, <1>8
  <2>2. \/ read' = read /\ NextPiece'[1] = read + 1 /\ NextPiece'[2] # 1
        \/ read' = read + 1 /\ NextPiece'[1] = read + 2
    <3>1. read + 1 + 1 = read + 2  BY <1>4
    <3>. QED  BY <1>2, <1>4, <1>6, <3>1
  <2>3. /\ LineOK' /\ RecordsOK' /\ ReaderOK' /\ Received \subseteq Received'
        /\ records' = Append(records, r) => r \in Received'
    BY <1>0, <1>5, <2>1, <2>2, HandOnKeeps
  <2>4. line' = <<>> /\ elapsed' = 0  BY <2>1 DEF HandOn, ReadAgain
  <2>5. CASE IsNewline(p)
    <3>1. read' = r  BY <1>2, <1>4, <2>5
    <3>2. WholeSoFar'
      <4>1. NextPiece' = <<r + 1, 1>> /\ r + 1 \in Nat /\ read' + 1 = r + 1
        BY <1>4, <1>6, <2>5, <3>1
      <4>. QED  BY <1>0, <1>1, <2>4, <4>1, FreshLine
    <3>3. ASSUME Awaited(r) PROVE r \in Received'
      <4>1. text = Append([k \in 1 .. lines[r].size |-> <<r, k>>], <<r, 0>>)
        BY <1>7, <2>5, <3>3
      <4>2. records' = Append(records, r)  BY <1>0, <1>4, <2>1, <4>1, WholeParses
      <4>. QED  BY <2>3, <4>2
    <3>4. ASSUME NEW x \in 2 .. r, Fits(x)', Timely(x)' PROVE x \in Received'
      <4>1. Fits(x) /\ Timely(x)  BY <1>1, <3>4 DEF Fits, Timely, MaxLine
      <4>2. CASE x = r  BY <1>4, <2>3, <3>3, <4>1, <4>2 DEF Awaited
      <4>3. CASE x # r
        <5>1. x \in 2 .. read  BY <1>4, <4>3
        <5>. QED  BY <1>0, <2>3, <4>1, <5>1 DEF TimelyLinesArrive
      <4>. QED  BY <4>2, <4>3
    <3>5. TimelyLinesArrive'  BY <3>1, <3>4 DEF TimelyLinesArrive
    <3>. QED  BY <1>3, <2>3, <3>2, <3>5 DEF IInv
  <2>6. CASE ~IsNewline(p)
    <3>1. read' = read  BY <1>2, <2>6
    <3>2. TimelyLinesArrive'
      <4>1. \A x \in 2 .. read : lines'[x] = lines[x]  BY <1>1
      <4>. QED  BY <1>0, <1>1, <1>4, <2>3, <3>1, <4>1, TimelyKept
    <3>3. ASSUME Awaited(r)' PROVE FALSE
      <4>1. Awaited(r) /\ r \notin Received'
        BY <1>1, <2>3, <3>3, AwaitedBefore DEF Awaited
      <4>2. /\ Len(line) < lines[r].size
            /\ text = [k \in 1 .. Len(line) + 1 |-> <<r, k>>]
        BY <1>7, <2>6, <4>1
      <4>3. /\ lines[r].size \in Nat \ {0} /\ lines[r].pause \in Nat
            /\ elapsed <= lines[r].pause + Len(line) + 1
            /\ lines[r].size <= MaxLine /\ lines[r].pause + lines[r].size <= Timeout
        BY <1>0, <1>1, <4>1, <4>2, AwaitedPart
      <4>4. Len(line) + 1 >= MaxLine \/ elapsed >= Timeout
        BY <1>5, <1>8, <2>6 DEF Ends
      <4>5. MaxLine \in Int /\ Timeout \in Nat /\ elapsed \in Nat /\ Len(line) \in Nat
        BY <1>0, <1>5, MaxLineType DEF ReaderOK
      <4>6. Len(line) + 1 = lines[r].size  BY <4>2, <4>3, <4>4, <4>5, CutAtTheEnd
      <4>7. text = [k \in 1 .. lines[r].size |-> <<r, k>>]  BY <4>2, <4>6
      <4>8. records' = Append(records, r)  BY <1>0, <1>4, <2>1, <4>7, WholeParses
      <4>. QED  BY <2>3, <4>1, <4>8
    <3>4. WholeSoFar'  BY <3>1, <3>3 DEF WholeSoFar
    <3>. QED  BY <1>3, <2>3, <3>2, <3>4 DEF IInv
  <2>. QED  BY <2>5, <2>6
<1>9. CASE ~Ends(text)
  <2>1. line' = text /\ idle' = 0 /\ phase' = phase /\ elapsed' = elapsed
        /\ records' = records
    BY <1>2, <1>9
  <2>2. ~IsNewline(p) /\ ~(elapsed >= Timeout) /\ read' = read
    BY <1>2, <1>5, <1>9 DEF Ends
  <2>3. LineOK'
    <3>1. line' \in Seq(Nat \X Nat) /\ \A i \in DOMAIN line' : line'[i][1] = read + 1
      BY <1>5, <2>1 DEF OfLine
    <3>2. ASSUME NEW i \in DOMAIN line' PROVE ~IsNewline(line'[i])
      <4>1. i \in 1 .. Len(line) \/ i = Len(line) + 1  BY <1>5, <2>1
      <4>2. CASE i \in 1 .. Len(line)
        <5>1. line'[i] = line[i] /\ i \in DOMAIN line  BY <1>0, <1>5, <2>1, <4>2 DEF LineOK
        <5>. QED  BY <1>0, <5>1 DEF LineOK
      <4>3. CASE i = Len(line) + 1  BY <1>5, <2>1, <2>2, <4>3
      <4>. QED  BY <4>1, <4>2, <4>3
    <3>3. \A i \in DOMAIN line' : line'[i][1] = read' + 1 /\ ~IsNewline(line[i])'
      BY <2>2, <3>1, <3>2 DEF IsNewline
    <3>. QED  BY <1>4, <1>6, <2>2, <3>1, <3>3 DEF LineOK
  <2>4. RecordsOK'
    <3>1. \A i \in DOMAIN records : records[i] <= read + 1
      BY <1>0 DEF RecordsOK
    <3>2. text[1][2] = 1 => \A i \in DOMAIN records : records[i] <= read
      BY <1>5 DEF OfLine
    <3>3. records' \in Seq(Nat) /\ RecordsAreSentLines'
      BY <1>0, <2>1 DEF RecordsOK, RecordsAreSentLines
    <3>. QED  BY <1>6, <2>1, <2>2, <3>1, <3>2, <3>3 DEF RecordsOK
  <2>5. ReaderOK'  BY <1>0, <1>1, <2>1, <2>2 DEF ReaderOK
  <2>6. Received' = Received  BY <2>1 DEF Received
  <2>7. TimelyLinesArrive'
    <3>1. \A x \in 2 .. read : lines'[x] = lines[x]  BY <1>1
    <3>. QED  BY <1>0, <1>1, <1>4, <2>2, <2>6, <3>1, TimelyKept
  <2>8. WholeSoFar'
    <3>1. SUFFICES ASSUME Awaited(r)' PROVE
        /\ Len(text) <= lines[r].size /\ text = [k \in 1 .. Len(text) |-> <<r, k>>]
        /\ NextPiece' = IF Len(text) < lines[r].size THEN <<r, Len(text) + 1>> ELSE <<r, 0>>
        /\ Len(text) < lines[r].size =>
              /\ buffer' = <<>> => /\ elapsed + pause <= lines[r].pause + at
                                   /\ line' # <<>> => idle' = 0
              /\ buffer' # <<>> => elapsed <= lines[r].pause + Len(text) + 1
      BY <1>1, <2>1, <2>2 DEF WholeSoFar
    <3>2. Awaited(r)  BY <1>1, <2>6, <3>1, AwaitedBefore
    <3>. PICK n : n = Len(text)  OBVIOUS
    <3>. PICK s : s = lines[r].size  OBVIOUS
    <3>3. /\ Len(line) < s /\ p = <<r, n>> /\ n = Len(line) + 1
          /\ text = [k \in 1 .. n |-> <<r, k>>]
      BY <1>5, <1>7, <2>2, <3>2
    <3>4. /\ s \in Nat \ {0} /\ lines[r].pause \in Nat
          /\ elapsed <= lines[r].pause + Len(line) + 1
      BY <1>0, <1>1, <3>2, <3>3, AwaitedPart
    <3>5. n \in Nat \ {0} /\ n <= s /\ elapsed \in Nat
      BY <1>0, <1>5, <3>3, <3>4 DEF ReaderOK
    <3>6. NextPiece' = IF n < s THEN <<r, n + 1>> ELSE <<r, 0>>
      <4>1. p[1] = r /\ p[2] = n /\ lines[p[1]].size = s  BY <3>3
      <4>. QED  BY <1>3, <2>2, <4>1 DEF After
    <3>7. ASSUME n < s, buffer' = <<>> PROVE elapsed + pause <= lines[r].pause + at
      <4>1. NextPiece' = Upcoming  BY <1>1, <3>7 DEF NextPiece, Upcoming
      <4>2. Upcoming = <<r, n + 1>>  BY <3>6, <3>7, <4>1
      <4>3. at \in Nat /\ pause \in Nat /\ at + 1 = n + 1
        <5>1. at \in Nat /\ pause \in Nat  BY <1>0, LastLine, LineType DEF DeviceOK
        <5>. QED  BY <3>5, <4>2, <5>1 DEF Upcoming
      <4>4. at = n /\ pause = 0
        <5>1. at = n  BY <3>5, <4>3
        <5>. QED  BY <1>0, <3>5, <5>1 DEF DeviceOK
      <4>. QED  BY <3>3, <3>4, <3>5, <4>4
    <3>8. elapsed <= lines[r].pause + n + 1  BY <3>3, <3>4, <3>5
    <3>. QED  BY <2>1, <3>3, <3>5, <3>6, <3>7, <3>8
  <2>. QED  BY <1>3, <2>3, <2>4, <2>5, <2>7, <2>8 DEF IInv
<1>. QED  BY <1>8, <1>9

LEMMA ReadTimesOutKeeps == ASSUME IInv, ReadTimesOut PROVE IInv'
<1>. PICK r : r = read + 1  OBVIOUS
<1>0. DeviceOK /\ BufferOK /\ LineOK /\ RecordsOK /\ ReaderOK /\ WholeSoFar
      /\ TimelyLinesArrive
  BY DEF IInv
<1>1. /\ env' = env /\ lines' = lines /\ at' = at /\ pause' = pause
      /\ buffer' = buffer /\ read' = read /\ buffer = <<>> /\ idle = Timeout
  BY DEF ReadTimesOut, deviceVars
<1>2. DeviceOK' /\ BufferOK' /\ NextPiece' = NextPiece
  <2>1. Upcoming' = Upcoming /\ DOMAIN buffer = {}  BY <1>1 DEF Upcoming
  <2>2. DeviceOK'  BY <1>0, <1>1 DEF DeviceOK
  <2>3. BufferOK'  BY <1>0, <1>1, <2>1 DEF BufferOK
  <2>. QED  BY <1>1, <2>1, <2>2, <2>3 DEF NextPiece
<1>3. read \in Nat /\ r \in Nat /\ \A x \in 2 .. read : lines'[x] = lines[x]
  BY <1>0, <1>1 DEF LineOK
<1>4. CASE line = <<>>
  <2>1. line' = <<>> /\ idle' = 0 /\ elapsed' = 0 /\ phase' = phase /\ records' = records
    BY <1>4 DEF ReadTimesOut, ReadAgain
  <2>2. LineOK'  BY <1>0, <1>1, <1>2, <1>4, <2>1 DEF LineOK
  <2>3. RecordsOK'
    BY <1>0, <1>1, <1>2, <1>4, <2>1 DEF RecordsOK, RecordsAreSentLines
  <2>4. ReaderOK'  BY <2>1 DEF ReaderOK
  <2>5. Received' = Received  BY <2>1 DEF Received
  <2>6. TimelyLinesArrive'  BY <1>0, <1>1, <1>3, <2>5, TimelyKept
  <2>7. WholeSoFar'
    <3>1. SUFFICES ASSUME Awaited(r)' PROVE
        /\ Len(line) <= lines[r].size /\ line = [k \in 1 .. Len(line) |-> <<r, k>>]
        /\ NextPiece = IF Len(line) < lines[r].size THEN <<r, Len(line) + 1>> ELSE <<r, 0>>
        /\ Len(line) < lines[r].size => 0 + pause <= lines[r].pause + at
      BY <1>1, <1>2, <1>4, <2>1 DEF WholeSoFar
    <3>2. Awaited(r)  BY <1>1, <2>5, <3>1, AwaitedBefore
    <3>3. /\ lines[r].size \in Nat \ {0} /\ lines[r].pause \in Nat
          /\ line = [k \in 1 .. Len(line) |-> <<r, k>>] /\ Len(line) <= lines[r].size
          /\ NextPiece = IF Len(line) < lines[r].size THEN <<r, Len(line) + 1>> ELSE <<r, 0>>
          /\ Len(line) < lines[r].size => elapsed + pause <= lines[r].pause + at
      BY <1>0, <1>1, <3>2, AwaitedPart
    <3>4. elapsed \in Nat /\ pause \in Nat /\ at \in Nat
      BY <1>0, LastLine, LineType DEF ReaderOK, DeviceOK
    <3>5. Len(line) < lines[r].size => 0 + pause <= lines[r].pause + at
      BY <3>3, <3>4
    <3>. QED  BY <3>3, <3>5
  <2>. QED  BY <1>2, <2>2, <2>3, <2>4, <2>6, <2>7 DEF IInv
<1>5. CASE line # <<>>
  <2>1. HandOn(line)  BY <1>5 DEF ReadTimesOut
  <2>2. NextPiece'[1] = read + 1 /\ NextPiece'[2] # 1  BY <1>0, <1>2, <1>5 DEF LineOK
  <2>3. /\ LineOK' /\ RecordsOK' /\ ReaderOK' /\ Received \subseteq Received'
        /\ records' = Append(records, r) => r \in Received'
    <3>1. OfLine(line)  BY <1>0, <1>5, LineIsOfLine
    <3>. QED  BY <1>0, <1>1, <2>1, <2>2, <3>1, HandOnKeeps
  <2>4. TimelyLinesArrive'  BY <1>0, <1>1, <1>3, <2>3, TimelyKept
  <2>5. ASSUME Awaited(r)' PROVE FALSE
    <3>1. Awaited(r) /\ r \notin Received' /\ r \in DOMAIN lines
      BY <1>1, <2>3, <2>5, AwaitedBefore DEF Awaited
    <3>2. /\ lines[r].size \in Nat \ {0}
          /\ line = [k \in 1 .. Len(line) |-> <<r, k>>] /\ Len(line) <= lines[r].size
          /\ Len(line) < lines[r].size => idle = 0
      BY <1>0, <1>1, <1>5, <3>1, AwaitedPart
    <3>3. idle # 0 /\ Len(line) \in Nat  BY <1>0, <1>1 DEF LineOK
    <3>4. Len(line) = lines[r].size  BY <3>2, <3>3
    <3>5. line = [k \in 1 .. lines[r].size |-> <<r, k>>]  BY <3>2, <3>4
    <3>6. records' = Append(records, r)  BY <1>0, <2>1, <3>1, <3>5, WholeParses
    <3>. QED  BY <2>3, <3>1, <3>6
  <2>6. WholeSoFar'  BY <1>1, <2>5 DEF WholeSoFar
  <2>. QED  BY <1>2, <2>3, <2>4, <2>6 DEF IInv
<1>. QED  BY <1>4, <1>5

-----------------------------------------------------------------------------
(* The clock. *)

LEMMA OneTickOfThePause ==
    ASSUME NEW e \in Nat, NEW p \in Nat, NEW w \in Nat, NEW a \in Nat, NEW f,
           p > 0, e + p <= w + a, f = e \/ f = e + 1
    PROVE  f + (p - 1) <= w + a
OBVIOUS

LEMMA TickKeeps == ASSUME IInv, Tick PROVE IInv'
<1>. PICK r : r = read + 1  OBVIOUS
<1>0. DeviceOK /\ BufferOK /\ LineOK /\ RecordsOK /\ ReaderOK /\ WholeSoFar
      /\ TimelyLinesArrive
  BY DEF IInv
<1>1. /\ env' = env /\ phase' = phase /\ line' = line /\ records' = records
      /\ read' = read
  BY DEF Tick
<1>2. read \in Nat /\ r \in Nat /\ NextPiece[1] = r /\ r \in DOMAIN lines /\ r <= Len(lines)
      /\ at \in Nat /\ pause \in Nat /\ elapsed \in Nat
  <2>1. at \in Nat /\ pause \in Nat  BY <1>0, LastLine, LineType DEF DeviceOK
  <2>2. NextPiece[1] \in DOMAIN lines
    <3>1. CASE buffer = <<>>  BY <1>0, <3>1, UpcomingType, LastLine DEF NextPiece
    <3>2. CASE buffer # <<>>
      <4>1. Head(buffer) = buffer[1] /\ 1 \in DOMAIN buffer
        BY <1>0, <3>2, TailFacts DEF BufferOK
      <4>. QED  BY <1>0, <3>2, <4>1 DEF BufferOK, IsSent, NextPiece
    <3>. QED  BY <3>1, <3>2
  <2>. QED  BY <1>0, <2>1, <2>2, LastLine DEF LineOK, ReaderOK
<1>3. \/ pause = 0 /\ Send
      \/ /\ pause > 0 /\ pause' = pause - 1
         /\ lines' = lines /\ at' = at /\ buffer' = buffer
      \/ /\ Silent /\ lines' = lines /\ at' = at /\ pause' = pause /\ buffer' = buffer
  BY <1>2 DEF Tick, Send, deviceVars
<1>4. DeviceOK' /\ BufferOK' /\ NextPiece' = NextPiece
      /\ \A x \in DOMAIN lines : lines'[x] = lines[x]
  <2>1. CASE pause = 0 /\ Send  BY <1>0, <1>1, <2>1, SendPiece, SendBuffer
  <2>2. CASE lines' = lines /\ at' = at /\ buffer' = buffer /\ pause' \in 0 .. pause
    <3>1. Upcoming' = Upcoming  BY <2>2 DEF Upcoming
    <3>2. DeviceOK'
      <4>1. lines[Len(lines)].pause \in Nat  BY <1>0, LastLine, LineType
      <4>2. pause' \in 0 .. lines[Len(lines)].pause
        BY <1>0, <1>2, <2>2, <4>1 DEF DeviceOK
      <4>3. at > 0 => pause' = 0  BY <1>0, <1>2, <2>2 DEF DeviceOK
      <4>. QED  BY <1>0, <1>1, <2>2, <4>2, <4>3 DEF DeviceOK
    <3>3. BufferOK'  BY <1>0, <2>2, <3>1 DEF BufferOK, IsSent, After, IsNewline
    <3>. QED  BY <2>2, <3>1, <3>2, <3>3 DEF NextPiece
  <2>. QED  BY <1>2, <1>3, <2>1, <2>2
<1>5. LineOK'  BY <1>0, <1>1, <1>4 DEF LineOK, IsNewline
<1>6. RecordsOK'  BY <1>0, <1>1, <1>4 DEF RecordsOK, RecordsAreSentLines
<1>7. Received' = Received  BY <1>1 DEF Received
<1>8. TimelyLinesArrive'
  <2>1. \A x \in 2 .. read : x \in DOMAIN lines  BY <1>0, <1>2, LastLine
  <2>2. \A x \in 2 .. read : lines'[x] = lines[x]  BY <1>4, <2>1
  <2>. QED  BY <1>0, <1>1, <1>2, <1>7, <2>2, TimelyKept
<1>9. phase # "reading" => elapsed' = elapsed /\ idle' = idle  BY DEF Tick
<1>10. phase = "reading" => /\ elapsed' = elapsed + 1 /\ idle' = idle + 1
                            /\ buffer = <<>> /\ idle # Timeout
  BY DEF Tick, Prompt
<1>11. ReaderOK'  BY <1>0, <1>1, <1>9, <1>10 DEF ReaderOK
<1>12. WholeSoFar'
  <2>0. lines'[r] = lines[r]  BY <1>2, <1>4
  <2>1. SUFFICES ASSUME Awaited(r)' PROVE
        /\ Len(line) <= lines[r].size /\ line = [k \in 1 .. Len(line) |-> <<r, k>>]
        /\ NextPiece = IF Len(line) < lines[r].size THEN <<r, Len(line) + 1>> ELSE <<r, 0>>
        /\ Len(line) < lines[r].size =>
              /\ buffer' = <<>> => /\ elapsed' + pause' <= lines[r].pause + at'
                                   /\ line # <<>> => idle' = 0
              /\ buffer' # <<>> => elapsed' <= lines[r].pause + Len(line) + 1
    BY <1>1, <1>4, <2>0 DEF WholeSoFar
  <2>2. Awaited(r)  BY <1>1, <1>2, <1>7, <2>0, <2>1 DEF Awaited, Fits, Timely, MaxLine
  <2>. PICK n : n = Len(line)  OBVIOUS
  <2>. PICK w : w = lines[r].pause  OBVIOUS
  <2>3. /\ lines[r].size \in Nat \ {0} /\ w \in Nat /\ n \in Nat
        /\ line = [k \in 1 .. n |-> <<r, k>>] /\ n <= lines[r].size
        /\ NextPiece = IF n < lines[r].size THEN <<r, n + 1>> ELSE <<r, 0>>
        /\ n < lines[r].size =>
                 /\ buffer = <<>> => /\ elapsed + pause <= w + at
                                     /\ line # <<>> => idle = 0
                 /\ buffer # <<>> => elapsed <= w + n + 1
    BY <1>0, <2>2, AwaitedPart DEF LineOK
  <2>4. ASSUME n < lines[r].size
        PROVE  /\ buffer' = <<>> => /\ elapsed' + pause' <= w + at'
                                    /\ line # <<>> => idle' = 0
               /\ buffer' # <<>> => elapsed' <= w + n + 1
    <3>1. ASSUME buffer = <<>>
          PROVE  at = n /\ at < lines[Len(lines)].size /\ r = Len(lines)
      <4>1. Upcoming = <<r, n + 1>>  BY <2>3, <2>4, <3>1 DEF NextPiece
      <4>2. Upcoming[1] = Len(lines)  BY <1>0, UpcomingType
      <4>3. at < lines[Len(lines)].size  BY <2>3, <4>1 DEF Upcoming
      <4>4. at + 1 = n + 1  BY <4>1, <4>3 DEF Upcoming
      <4>. QED  BY <1>2, <2>3, <4>1, <4>2, <4>3, <4>4
    <3>2. pause <= lines[Len(lines)].pause /\ (at > 0 => pause = 0)
      BY <1>0, LastLine, LineType DEF DeviceOK
    <3>3. ASSUME buffer' = <<>>
          PROVE  buffer = <<>> /\ pause > 0 /\ pause' = pause - 1 /\ at' = at
      <4>1. CASE pause = 0 /\ Send
        <5>. PICK p : p = Upcoming  OBVIOUS
        <5>1. buffer' = Append(buffer, p) /\ p \in Nat \X Nat
          BY <1>0, <1>1, <4>1, SendPiece, UpcomingType
        <5>2. buffer' # <<>>  BY <1>0, <5>1, AppendFacts DEF BufferOK
        <5>. QED  BY <3>3, <5>2
      <4>2. CASE Silent /\ buffer' = buffer
        <5>1. ~(at < lines[Len(lines)].size)
          <6>1. at = lines[Len(lines)].size  BY <4>2 DEF Silent
          <6>. QED  BY <1>2, <6>1
        <5>. QED  BY <3>1, <3>3, <4>2, <5>1
      <4>. QED  BY <1>3, <3>3, <4>1, <4>2
    <3>4. ASSUME buffer' = <<>>
          PROVE  elapsed' + pause' <= w + at' /\ (line # <<>> => idle' = 0)
      <4>1. buffer = <<>> /\ pause > 0 /\ pause' = pause - 1 /\ at' = at
        BY <3>3, <3>4
      <4>2. line = <<>>
        <5>1. n = 0  BY <1>2, <2>3, <3>1, <3>2, <4>1
        <5>2. line \in Seq(Nat \X Nat)  BY <1>0 DEF LineOK
        <5>3. ~(line # <<>>)
          <6>1. line # <<>> => Len(line) # 0  BY <5>2, TailFacts
          <6>. QED  BY <5>1, <6>1
        <5>. QED  BY <5>3
      <4>3. elapsed + pause <= w + at  BY <2>3, <2>4, <4>1
      <4>4. elapsed' = elapsed \/ elapsed' = elapsed + 1  BY <1>9, <1>10
      <4>5. elapsed' + pause' <= w + at'
        <5>1. elapsed \in Nat /\ pause \in Nat /\ at \in Nat /\ w \in Nat
          BY <1>2, <2>3
        <5>2. elapsed' + (pause - 1) <= w + at
          BY <4>1, <4>3, <4>4, <5>1, OneTickOfThePause
        <5>. QED  BY <4>1, <5>2
      <4>. QED  BY <4>2, <4>5
    <3>5. elapsed' <= w + n + 1
      <4>1. CASE phase # "reading"
        <5>1. elapsed' = 0  BY <1>0, <1>9, <4>1 DEF ReaderOK
        <5>. QED  BY <2>3, <5>1
      <4>2. CASE phase = "reading"
        <5>1. elapsed' = elapsed + 1 /\ elapsed + pause <= w + at /\ at = n
          BY <1>10, <2>3, <2>4, <3>1, <4>2
        <5>. QED  BY <1>2, <2>3, <5>1
      <4>. QED  BY <4>1, <4>2
    <3>. QED  BY <3>4, <3>5
  <2>. QED  BY <2>3, <2>4
<1>. QED  BY <1>4, <1>5, <1>6, <1>8, <1>11, <1>12 DEF IInv

-----------------------------------------------------------------------------
(* The invariant, and what follows. *)

LEMMA InitIInv == Init => IInv
<1>. SUFFICES ASSUME Init PROVE IInv  OBVIOUS
<1>1. PICK s \in Sizes, w \in Pauses :
         /\ lines = <<[size |-> s, pause |-> w]>>
         /\ \/ at = 0 /\ pause \in 0 .. w
            \/ at \in 1 .. s /\ pause = 0
  BY DEF Init
<1>2. /\ env \in Environments /\ phase = "starting" /\ buffer = <<>> /\ line = <<>>
      /\ elapsed = 0 /\ idle = 0 /\ records = <<>> /\ read = 0
  BY DEF Init
<1>3. s \in Nat \ {0} /\ w \in Nat  OBVIOUS
<1>4. /\ lines \in Seq([size: Sizes, pause: Pauses]) /\ Len(lines) = 1 /\ lines # <<>>
      /\ lines[1].size = s /\ lines[1].pause = w
  BY <1>1
<1>5. DeviceOK  BY <1>1, <1>2, <1>3, <1>4 DEF DeviceOK
<1>6. BufferOK  BY <1>2 DEF BufferOK
<1>7. NextPiece[1] = 1
  <2>1. NextPiece = Upcoming  BY <1>2 DEF NextPiece
  <2>. QED  BY <1>4, <1>5, <2>1, UpcomingType
<1>8. LineOK  BY <1>2, <1>7 DEF LineOK
<1>9. RecordsOK  BY <1>2 DEF RecordsOK, RecordsAreSentLines
<1>10. ReaderOK  BY <1>2 DEF ReaderOK
<1>11. WholeSoFar  BY <1>2 DEF WholeSoFar, Awaited
<1>12. TimelyLinesArrive  BY <1>2 DEF TimelyLinesArrive
<1>. QED  BY <1>5, <1>6, <1>8, <1>9, <1>10, <1>11, <1>12 DEF IInv

\* Only the phase changes.
LEMMA PhaseKeeps ==
    ASSUME IInv, Start \/ Handled \/ UNCHANGED vars
    PROVE  IInv'
<1>1. /\ env' = env /\ lines' = lines /\ at' = at /\ pause' = pause /\ buffer' = buffer
      /\ line' = line /\ elapsed' = elapsed /\ idle' = idle /\ records' = records
      /\ read' = read
  BY DEF Start, Handled, vars, deviceVars
<1>2. phase' = phase \/ phase' = "reading" \/ phase # "reading"
  BY DEF Start, Handled, vars
<1>3. ReaderOK'  BY <1>1, <1>2 DEF IInv, ReaderOK
<1>4. Upcoming' = Upcoming /\ NextPiece' = NextPiece  BY <1>1 DEF Upcoming, NextPiece
<1>5. DeviceOK' /\ LineOK'  BY <1>1, <1>4 DEF IInv, DeviceOK, LineOK, IsNewline
<1>6. BufferOK'  BY <1>1, <1>4 DEF IInv, BufferOK, IsSent, After, IsNewline
<1>7. RecordsOK'  BY <1>1, <1>4 DEF IInv, RecordsOK, RecordsAreSentLines
<1>8. WholeSoFar' /\ TimelyLinesArrive'
  BY <1>1, <1>4
  DEF IInv, WholeSoFar, TimelyLinesArrive, Awaited, Received, Fits, Timely, MaxLine
<1>. QED  BY <1>3, <1>5, <1>6, <1>7, <1>8 DEF IInv

LEMMA StepIInv == IInv /\ [Next]_vars => IInv'
BY ReadPieceKeeps, ReadTimesOutKeeps, TickKeeps, PhaseKeeps DEF Next

(* A read returns within two of its time-outs: the last byte of a line     *)
(* that goes on reaches it before the first, and a silence ends it by the  *)
(* second.                                                                 *)
THEOREM ReadsEnd == Spec => []ReadsEndInTime
<1>1. IInv => ReadsEndInTime  BY DEF IInv, ReaderOK, ReadsEndInTime
<1>. QED  BY <1>1, InitIInv, StepIInv, PTL DEF Spec

(* A line that fits the limit and ends within a time-out of the line       *)
(* before reaches _loop() whole, however the lines around it are cut.      *)
THEOREM TimelyArrive == Spec => []TimelyLinesArrive
<1>1. IInv => TimelyLinesArrive  BY DEF IInv
<1>. QED  BY <1>1, InitIInv, StepIInv, PTL DEF Spec

(* Whatever is cut, no line comes out twice or before an earlier one: the  *)
(* first piece of a line is read once.                                     *)
THEOREM RecordsInSentOrder == Spec => []RecordsAreSentLines
<1>1. IInv => RecordsAreSentLines  BY DEF IInv, RecordsOK
<1>. QED  BY <1>1, InitIInv, StepIInv, PTL DEF Spec
=============================================================================
