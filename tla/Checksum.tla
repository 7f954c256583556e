------------------------------ MODULE Checksum ------------------------------
(***************************************************************************)
(* LevelDB's crc32c: bytes until the pointer is aligned, then words by     *)
(* four tables, then the bytes left; and the mask under which a checksum   *)
(* is stored.  Scaled: a byte has ByteBits bits, a word (and the register) *)
(* four bytes, the loop of 16 bytes WordsAtOnce words.                     *)
(***************************************************************************)
EXTENDS Integers, Sequences, SequencesExt, Bitwise

CONSTANTS
    ByteBits,
    Poly,            \* the reversed polynomial
    WordsAtOnce,
    AccelerateOver,  \* 16 in the code: shorter buffers go byte by byte
    kMaskDelta, MaskShift,
    CrcByte,         \* byte values in use
    MaxCrcLength,
    MaxNonzero       \* bound on bytes other than 0

VARIABLE crcData
RegBits == 4 * ByteBits
ByteMax == 2^ByteBits
RegMax == 2^RegBits

ASSUME ChecksumAssumption ==
    /\ ByteBits \in Nat \ {0} /\ Poly \in 1..(RegMax - 1) /\ WordsAtOnce \in Nat \ {0}
    /\ kMaskDelta \in 0..(RegMax - 1) /\ MaskShift \in 0..RegBits /\ CrcByte \subseteq 0..(ByteMax - 1)
    /\ {MaxCrcLength, MaxNonzero} \subseteq Nat /\ AccelerateOver \in Nat /\ AccelerateOver >= 6

XorOf(a, b) == a ^^ b

\* The bit-by-bit definition the tables were made from
RECURSIVE Shifted(_, _)
Shifted(r, n) == IF n = 0 THEN r ELSE Shifted(IF r % 2 = 1 THEN XorOf(r \div 2, Poly) ELSE r \div 2, n - 1)
Reference(crc, data) ==
    XorOf(FoldLeft(LAMBDA r, d : Shifted(XorOf(r, d), ByteBits), XorOf(crc, RegMax - 1), data), RegMax - 1)

\* table0_ to table3_: a byte followed by no, one, two or three zero bytes
Table0 == [c \in 0..(ByteMax - 1) |-> Shifted(c, ByteBits)]
Next0(t) == [c \in 0..(ByteMax - 1) |-> XorOf(Table0[t[c] % ByteMax], t[c] \div ByteMax)]
Table1 == Next0(Table0)
Table2 == Next0(Table1)
Table3 == Next0(Table2)

STEP1(l, d) == XorOf(Table0[XorOf(l % ByteMax, d)], l \div ByteMax)
LE_LOAD32(s) == s[1] + ByteMax * (s[2] + ByteMax * (s[3] + ByteMax * s[4]))
\* mutant: two tables are swapped
STEP4Swapped(l, s) ==
    LET c == XorOf(l, LE_LOAD32(s))
    IN  XorOf(XorOf(Table3[c % ByteMax], Table1[(c \div ByteMax) % ByteMax]),
            XorOf(Table2[(c \div ByteMax^2) % ByteMax], Table0[c \div ByteMax^3]))
STEP4(l, s) ==
    LET c == XorOf(l, LE_LOAD32(s))
    IN  XorOf(XorOf(Table3[c % ByteMax], Table2[(c \div ByteMax) % ByteMax]),
            XorOf(Table1[(c \div ByteMax^2) % ByteMax], Table0[c \div ByteMax^3]))

Bytes(l, s) == FoldLeft(STEP1, l, s)
\* n words of s, the first n * 4 bytes
WordsOf(l, s, n) == FoldLeft(LAMBDA r, w : STEP4(r, SubSeq(s, 4 * w - 3, 4 * w)), l, [w \in 1..n |-> w])

\* Extend of a buffer at an address: up to the next multiple of four if that
\* is in the buffer, WordsAtOnce words at a time, single words, single bytes
Extend(crc, s, address) ==
    LET lead == (4 - (address % 4)) % 4
        head == IF lead <= Len(s) THEN lead ELSE 0
        many == ((Len(s) - head) \div (4 * WordsAtOnce)) * WordsAtOnce
        words == (Len(s) - head) \div 4
        l1 == Bytes(XorOf(crc, RegMax - 1), SubSeq(s, 1, head))
        l2 == WordsOf(l1, SubSeq(s, head + 1, Len(s)), many)
        l3 == WordsOf(l2, SubSeq(s, head + 4 * many + 1, Len(s)), words - many)
    IN  XorOf(Bytes(l3, SubSeq(s, head + 4 * words + 1, Len(s))), RegMax - 1)

\* The processor's instructions: a byte, a word, two words into the register
mm_crc32_u8(l, d) == Shifted(XorOf(l, d), ByteBits)
mm_crc32_u32(l, s) == Shifted(XorOf(l, LE_LOAD32(s)), RegBits)
mm_crc32_u64(l, s) == mm_crc32_u32(mm_crc32_u32(l, SubSeq(s, 1, 4)), SubSeq(s, 5, 8))
\* Where they are there: as many bytes first as the address is past a multiple
\* of eight (which aligns nothing), eight at a time, four once, bytes.
AcceleratedCRC32C(crc, s, address) ==
    LET far == Len(s) > AccelerateOver
        head == IF far THEN address % 8 ELSE 0
        eights == IF far THEN (Len(s) - head) \div 8 ELSE 0
        fours == IF far /\ Len(s) - head - 8 * eights >= 4 THEN 1 ELSE 0
        done == head + 8 * eights + 4 * fours
        From(n, k) == SubSeq(s, n + 1, n + k)
        l1 == FoldLeft(mm_crc32_u8, XorOf(crc, RegMax - 1), From(0, head))
        l2 == FoldLeft(LAMBDA l, i : mm_crc32_u64(l, From(head + 8 * (i - 1), 8)), l1, [i \in 1..eights |-> i])
        l3 == IF fours = 1 THEN mm_crc32_u32(l2, From(head + 8 * eights, 4)) ELSE l2
    IN  XorOf(FoldLeft(mm_crc32_u8, l3, From(done, Len(s) - done)), RegMax - 1)

Mask(crc) == ((crc \div 2^MaskShift) + ((crc * 2^(RegBits - MaskShift)) % RegMax) + kMaskDelta) % RegMax
Unmask(m) ==
    LET rot == (m + RegMax - kMaskDelta) % RegMax
    IN  (rot \div 2^(RegBits - MaskShift)) + ((rot * 2^MaskShift) % RegMax)

CrcInit == crcData = <<>>
CrcNext ==
    /\ Len(crcData) < MaxCrcLength
    /\ \E d \in CrcByte \cup {0} :
         /\ d = 0 \/ Len(SelectSeq(crcData, LAMBDA x : x # 0)) < MaxNonzero
         /\ crcData' = Append(crcData, d)

\* Extend computes the checksum's definition at every alignment and length,
\* by tables and by the processor, also in two parts, so a fragment of a log
\* record has the checksum its reader computes of it, on whatever machine.
ExtendExact ==
    /\ \A address \in 0..7 : AcceleratedCRC32C(0, crcData, address) = Reference(0, crcData)
    /\ \A address \in 0..3 :
      LET whole == Reference(0, crcData)
      IN  /\ Extend(0, crcData, address) = whole
          /\ \A n \in {1, Len(crcData) - 1} : n \in 1..Len(crcData) =>
               Extend(Extend(0, SubSeq(crcData, 1, n), address), SubSeq(crcData, n + 1, Len(crcData)), address + n) = whole

\* A stored checksum unmasks to the one computed, and no damage to a single
\* byte goes unseen.
DamageSeen ==
    LET crc == Reference(0, crcData)
    IN  /\ Unmask(Mask(crc)) = crc
        /\ \A i \in DOMAIN crcData, d \in 0..(ByteMax - 1) :
             d # crcData[i] => Unmask(Mask(Extend(0, [crcData EXCEPT ![i] = d], 0))) # crc

\* The checksum under every log record and block: exact and, stored masked,
\* proof of undamaged bytes.
ChecksumExact == crcData # <<>> => ExtendExact /\ DamageSeen
=============================================================================
