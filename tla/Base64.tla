-------------------------------- MODULE Base64 -------------------------------
(***************************************************************************)
(* The base64 of the database's web socket client: f_b64_ntop makes the    *)
(* key of a handshake, the accept value expected back and the hash of a    *)
(* node; f_b64_pton reads one.  A character of the alphabet is its number, *)
(* 0 to 63.                                                                *)
(***************************************************************************)
EXTENDS Integers, Sequences, SequencesExt

CONSTANTS
    Pad64, Space, OtherChar,    \* '=', whitespace, any other character
    B64Bytes, B64Chars,         \* bytes and characters in use
    MaxB64Bytes, MaxB64Chars,   \* bounds on the lengths
    MaxB64Nonzero,              \* bound on bytes other than 0
    DigestLength, NonceLength   \* what the client encodes: a SHA1, a handshake's key

ASSUME Base64Assumption ==
    /\ B64Bytes \subseteq 0..255 /\ B64Chars \subseteq (0..63) \cup {Pad64, Space, OtherChar}
    /\ {MaxB64Bytes, MaxB64Chars, MaxB64Nonzero, DigestLength, NonceLength} \subseteq Nat

VARIABLES b64Data, b64Text
b64Vars == <<b64Data, b64Text>>

Failed == <<-1>>      \* the return value -1

-----------------------------------------------------------------------------
(* f_b64_ntop *)

\* The characters of a group of three bytes
Quad(a, b, c) == <<a \div 4, (a % 4) * 16 + (b \div 16), (b % 16) * 4 + (c \div 64), c % 64>>
\* The last group, padded
LastGroup(rest) ==
    IF Len(rest) = 1 THEN SubSeq(Quad(rest[1], 0, 0), 1, 2) \o <<Pad64, Pad64>>
    ELSE SubSeq(Quad(rest[1], rest[2], 0), 1, 3) \o <<Pad64>>
B64Group(data, i) ==
    IF 3 * i <= Len(data) THEN Quad(data[3 * i - 2], data[3 * i - 1], data[3 * i])
    ELSE LastGroup(SubSeq(data, 3 * i - 2, Len(data)))
Groups(data) == (Len(data) + 2) \div 3

\* A group that does not fit fails the call, and so does the terminator.
Fails64(data, targsize) == 4 * Groups(data) > targsize \/ 4 * Groups(data) >= targsize
f_b64_ntop(data, targsize) ==
    IF Fails64(data, targsize) THEN Failed
    ELSE FoldLeft(LAMBDA text, i : text \o B64Group(data, i), <<>>, [i \in 1..Groups(data) |-> i])

\* The buffer both callers allocate
CallerBuffer(length) == (length * 3 + 2) \div 2

-----------------------------------------------------------------------------
(* f_b64_pton *)

\* The whole of the first loop is a fold over the characters: phase "digits",
\* then "pad" after a pad character, "failed" for good.
PtonStart == [phase |-> "digits", state |-> 0, tarindex |-> 0, target |-> <<>>]
\* target[tarindex] gets the high bits of digit d, the next byte its low bits
Stored(s, high, low) ==
    [s EXCEPT !.target = Append([@ EXCEPT ![s.tarindex + 1] = @ + high], low), !.tarindex = @ + 1, !.state = @ + 1]
RoomFor(s) == IF s.state \in {1, 2} THEN s.tarindex + 2 ELSE s.tarindex + 1
Digit(s, d, targsize) ==
    IF RoomFor(s) > targsize THEN [s EXCEPT !.phase = "failed"]
    ELSE CASE s.state = 0 -> [s EXCEPT !.target = Append(@, (d * 4) % 256), !.state = 1]
           [] s.state = 1 -> Stored(s, d \div 16, (d % 16) * 16)
           [] s.state = 2 -> Stored(s, d \div 4, (d % 4) * 64)
           [] s.state = 3 -> [s EXCEPT !.target[s.tarindex + 1] = @ + d, !.tarindex = @ + 1, !.state = 0]
\* After the first pad: in state 2 another must follow, then only spaces
AfterPad(s, ch) ==
    CASE ch = Space -> s
      [] ch = Pad64 /\ s.state = 2 -> [s EXCEPT !.state = 3]
      [] OTHER -> [s EXCEPT !.phase = "failed"]
PtonChar(s, ch, targsize) ==
    CASE s.phase = "failed" \/ (s.phase = "digits" /\ ch = Space) -> s
      [] s.phase = "pad" -> AfterPad(s, ch)
      [] s.phase = "digits" /\ ch = Pad64 -> [s EXCEPT !.phase = IF s.state \in {0, 1} THEN "failed" ELSE "pad"]
      [] s.phase = "digits" /\ ch \in 0..63 -> Digit(s, ch, targsize)
      [] OTHER -> [s EXCEPT !.phase = "failed"]
PtonEnd(text, targsize) == FoldLeft(LAMBDA s, ch : PtonChar(s, ch, targsize), PtonStart, text)

\* mutant: bits past the last byte are let through
Complete64Loose(s) == IF s.phase = "pad" THEN s.state = 3 ELSE s.phase = "digits" /\ s.state = 0
\* A text ends on a byte, or with its padding and no bits beyond the byte.
Complete64(s) ==
    IF s.phase = "pad" THEN s.state = 3 /\ s.target[s.tarindex + 1] = 0
    ELSE s.phase = "digits" /\ s.state = 0
f_b64_pton(text, targsize) ==
    LET s == PtonEnd(text, targsize)
    IN  IF Complete64(s) THEN SubSeq(s.target, 1, s.tarindex) ELSE Failed

-----------------------------------------------------------------------------
B64Init == b64Data = <<>> /\ b64Text = <<>>
\* Either bytes to encode or a text to decode, one more at a time
MoreData ==
    /\ b64Text = <<>> /\ Len(b64Data) < MaxB64Bytes
    /\ \E d \in B64Bytes :
         /\ d = 0 \/ Len(SelectSeq(b64Data, LAMBDA x : x # 0)) < MaxB64Nonzero
         /\ b64Data' = Append(b64Data, d)
    /\ UNCHANGED b64Text
MoreText ==
    /\ b64Data = <<>> /\ Len(b64Text) < MaxB64Chars
    /\ \E ch \in B64Chars : b64Text' = Append(b64Text, ch)
    /\ UNCHANGED b64Data
B64Next == MoreData \/ MoreText

\* What f_b64_ntop wrote f_b64_pton reads, if it has a byte of room to spare
\* for the bits it begins.
Base64RoundTrip ==
    LET text == f_b64_ntop(b64Data, 4 * Groups(b64Data) + 1)
    IN  text # Failed /\ f_b64_pton(text, Len(b64Data) + 1) = b64Data

\* f_b64_pton accepts only what f_b64_ntop writes, spaces aside: no two texts
\* stand for the same bytes (the "subliminal channel" of its comment).
Base64Canonical ==
    LET data == f_b64_pton(b64Text, MaxB64Chars)
    IN  data # Failed =>
          f_b64_ntop(data, MaxB64Chars + 1) = SelectSeq(b64Text, LAMBDA ch : ch # Space)

\* Neither function goes past its target: f_b64_ntop with its terminator,
\* f_b64_pton with the byte it has begun, also when it fails later; and the
\* buffer the client allocates is enough for all it encodes.
Base64Bounds ==
    /\ \A size \in 0..(MaxB64Chars + 1) : Len(PtonEnd(b64Text, size).target) <= size
    /\ LET n == 4 * Groups(b64Data)
       IN  \A size \in {n - 1, n} : f_b64_ntop(b64Data, size) = Failed
    /\ Len(b64Data) \in {DigestLength, NonceLength} => f_b64_ntop(b64Data, CallerBuffer(Len(b64Data))) # Failed

\* The client's base64: reversible, unambiguous and within its buffers.
Base64Exact ==
    /\ b64Data # <<>> => Base64RoundTrip
    /\ b64Text # <<>> => Base64Canonical
    /\ b64Data # <<>> \/ b64Text # <<>> => Base64Bounds
=============================================================================
