------------------------------ MODULE NmeaFramer ------------------------------
(***************************************************************************)
(* nmea_stream_framer.cpp: the accumulator that cuts the byte stream of    *)
(* the GPS UART into sentences, fed by readGpsSerial(), against a line     *)
(* that damages and loses bytes and a firmware that starts listening in    *)
(* the middle of a sentence.                                               *)
(*                                                                         *)
(* A byte is its kind and, for one the receiver sent, the number of its    *)
(* sentence and its place in it; a damaged byte has no origin.             *)
(***************************************************************************)
EXTENDS Naturals, Sequences, FiniteSets

CONSTANTS
    BufferSize,     \* BUFFER_SIZE: room for BufferSize - 1 bytes
    Lengths,        \* bytes between `$' and CR a sentence may have
    MaxSentences,   \* bound: sentences the receiver sends
    MaxFaults,      \* bound: bytes damaged or lost
    CountMax        \* where bufferOverflowCount saturates (UINT32_MAX)

ASSUME FramerAssumption ==
    /\ BufferSize \in Nat /\ BufferSize > 2
    /\ Lengths \subseteq Nat \ {0}
    /\ {MaxSentences, MaxFaults} \subseteq Nat /\ CountMax \in Nat \ {0}

VARIABLES
    number, length, place,  \* the sentence being sent, its length, its next byte
    intact,         \* every byte of it arrived so far, undamaged
    faults,
    buffer,         \* the accumulator: what buffer_[0 .. position_ - 1] holds
    overflows,      \* bufferOverflowCount
    completed,      \* history: the sentences handed to the parser, in order
    sound,          \* history: sentences that arrived undamaged and fit the buffer
    ends,           \* history: sentences whose newline arrived
    dropped         \* history: overflows in all

senderVars == <<number, length, place, intact, faults>>
vars == <<senderVars, buffer, overflows, completed, sound, ends, dropped>>

Kinds == {"$", "body", "CR", "NL"}
Byte(kind, of, at) == [kind |-> kind, of |-> of, at |-> at]
Noise(kind) == Byte(kind, 0, 0)

\* Byte `at' of a sentence: `$', the body, CR, NL.
KindAt(len, at) ==
    IF at = 0 THEN "$" ELSE IF at <= len THEN "body" ELSE IF at = len + 1 THEN "CR" ELSE "NL"

Sentence(n, len) == [i \in 1 .. len + 1 |-> Byte(KindAt(len, i - 1), n, i - 1)]

Longest == CHOOSE n \in Lengths : \A m \in Lengths : m <= n

TypeOK ==
    /\ number \in 1 .. MaxSentences + 1 /\ length \in Lengths
    /\ place \in 0 .. Longest + 2 /\ intact \in BOOLEAN
    /\ faults \in 0 .. MaxFaults
    /\ Len(buffer) <= BufferSize - 1
    /\ buffer # << >> => buffer[1].kind = "$"
    /\ \A i \in 2 .. Len(buffer) : buffer[i].kind = "body"
    /\ overflows \in 0 .. CountMax
    /\ sound \subseteq 1 .. MaxSentences /\ ends \subseteq 1 .. MaxSentences
    /\ dropped \in Nat

\* The firmware may miss the beginning of the first sentence.
Init ==
    /\ number = 1 /\ length \in Lengths
    /\ place \in 0 .. length + 2 /\ intact = (place = 0)
    /\ faults = 0
    /\ buffer = << >> /\ overflows = 0
    /\ completed = << >> /\ sound = {} /\ ends = {} /\ dropped = 0

-----------------------------------------------------------------------------
(* LineAccumulator::feed(), one action per outcome, and what               *)
(* readGpsSerial() does with it.                                           *)

Keeps == UNCHANGED <<overflows, completed, dropped>>

FeedReturn(b) == b.kind = "CR" /\ UNCHANGED buffer /\ Keeps

\* Fault: `$' is ignored inside a sentence.
FeedStartOnce(b) ==
    b.kind = "$" /\ buffer' = (IF buffer = << >> THEN <<b>> ELSE buffer) /\ Keeps

FeedStart(b) == b.kind = "$" /\ buffer' = <<b>> /\ Keeps

\* Fault: the accumulator is not reset after a sentence.
FeedNewlineAndKeep(b) ==
    /\ b.kind = "NL"
    /\ UNCHANGED buffer
    /\ completed' = IF buffer # << >> THEN Append(completed, buffer) ELSE completed
    /\ UNCHANGED <<overflows, dropped>>

FeedNewline(b) ==
    /\ b.kind = "NL"
    /\ buffer' = << >>
    /\ completed' = IF buffer # << >> THEN Append(completed, buffer) ELSE completed
    /\ UNCHANGED <<overflows, dropped>>

FeedBody(b) ==
    /\ b.kind = "body" /\ Len(buffer) < BufferSize - 1
    /\ buffer' = IF buffer = << >> THEN << >> ELSE Append(buffer, b)
    /\ Keeps

\* Fault: the accumulator is not reset by an overflow.
FeedOverflowAndKeep(b) ==
    /\ b.kind = "body" /\ Len(buffer) >= BufferSize - 1
    /\ overflows' = (IF overflows < CountMax THEN overflows + 1 ELSE overflows)
    /\ dropped' = dropped + 1
    /\ UNCHANGED <<buffer, completed>>

FeedOverflow(b) ==
    /\ b.kind = "body" /\ Len(buffer) >= BufferSize - 1
    /\ buffer' = << >>
    /\ overflows' = IF overflows < CountMax THEN overflows + 1 ELSE overflows
    /\ dropped' = dropped + 1
    /\ UNCHANGED completed

Feed(b) ==
    FeedReturn(b) \/ FeedStart(b) \/ FeedNewline(b) \/ FeedBody(b) \/ FeedOverflow(b)

-----------------------------------------------------------------------------
(* The line. *)

\* The receiver goes on to its next byte.
SendOn(whole) ==
    IF place = length + 2
    THEN /\ number' = number + 1 /\ length' \in Lengths
         /\ place' = 0 /\ intact' = TRUE
         /\ sound' = IF whole /\ length + 1 <= BufferSize - 1
                     THEN sound \cup {number} ELSE sound
    ELSE /\ place' = place + 1 /\ intact' = whole
         /\ UNCHANGED <<number, length, sound>>

Sending == number <= MaxSentences

Arrive ==
    /\ Sending
    /\ Feed(Byte(KindAt(length, place), number, place))
    /\ SendOn(intact)
    /\ ends' = IF place = length + 2 THEN ends \cup {number} ELSE ends
    /\ UNCHANGED faults

Damage ==
    /\ Sending /\ faults < MaxFaults
    /\ faults' = faults + 1
    /\ \E kind \in Kinds \ {KindAt(length, place)} : Feed(Noise(kind))
    /\ SendOn(FALSE)
    /\ UNCHANGED ends

Lose ==
    /\ Sending /\ faults < MaxFaults
    /\ faults' = faults + 1
    /\ SendOn(FALSE)
    /\ UNCHANGED <<buffer, overflows, completed, dropped, ends>>

Next == Arrive \/ Damage \/ Lose

Spec == Init /\ [][Next]_vars

-----------------------------------------------------------------------------
Handed == {completed[i] : i \in 1 .. Len(completed)}
Origins(frame) == {frame[i].of : i \in 1 .. Len(frame)} \ {0}

(* Resynchronisation: a sentence that arrives undamaged and fits is handed *)
(* on whole, whatever garbage, overflow or half sentence came before it.   *)
SoundSentencesArrive ==
    \A n \in sound : \E len \in Lengths : Sentence(n, len) \in Handed

(* Two sentences are run together only when the newline of the earlier one *)
(* and the `$' of the later one were both damaged or lost.                 *)
OnlyDamageMerges ==
    \A frame \in Handed : \A m, n \in Origins(frame) :
        m < n => m \notin ends /\ Byte("$", n, 0) \notin {frame[i] : i \in 1 .. Len(frame)}

(* One overlong run of bytes is one overflow: between two overflows a `$'  *)
(* began a new sentence, so they never outnumber the sentences and faults. *)
OverflowsAreCountedOnce ==
    /\ dropped <= number + faults
    /\ overflows = IF dropped < CountMax THEN dropped ELSE CountMax
=============================================================================
