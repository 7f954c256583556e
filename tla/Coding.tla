------------------------------- MODULE Coding -------------------------------
(***************************************************************************)
(* How LevelDB writes down version edits (the records of a manifest),      *)
(* write batches (the records of a log) and file names, and reads them     *)
(* back.  Widths are scaled: a varint byte carries GroupBits bits and a    *)
(* continuation bit; W32 and W64 are the bits of the two integer types.    *)
(***************************************************************************)
EXTENDS Integers, Sequences, SequencesExt, FiniteSets, FiniteSetsExt

CONSTANTS
    GroupBits, W32, W64,
    CodeNumber,      \* 64-bit values in use
    CodeLevel,       \* levels in use
    kNumLevels,
    CodeSlice,       \* byte strings in use: keys, values, names
    MaxFields,       \* bound on calls that fill an edit; a batch has one more
    NameDigits       \* the least digits of a number in a file name

ASSUME CodingAssumption ==
    /\ {GroupBits, W32, W64} \subseteq Nat \ {0} /\ W32 <= W64 /\ CodeNumber \subseteq 0..(2^W64 - 1)
    /\ CodeLevel \subseteq 0..(kNumLevels - 1) /\ kNumLevels <= 2^W32 /\ MaxFields \in Nat /\ NameDigits \in Nat

VARIABLES
    edit,   \* a VersionEdit under construction
    batch,  \* a WriteBatch: rep_ and, as a reference, the updates put in
    digits, \* a number read from or written in a file name; -1: none
    ikeys   \* two internal keys; none: <<>>
codingVars == <<edit, batch, digits, ikeys>>

-----------------------------------------------------------------------------
(* coding.cc: Put appends to a string, Get returns the value and the rest *)

B == 2^GroupBits
RECURSIVE PutVarint(_)
PutVarint(v) == IF v < B THEN <<v>> ELSE <<(v % B) + B>> \o PutVarint(v \div B)
RECURSIVE VarintLength(_)
VarintLength(v) == IF v < B THEN 1 ELSE 1 + VarintLength(v \div B)

Bad == [ok |-> FALSE, val |-> 0, rest |-> <<>>]
\* At most as many bytes as the width has groups; bits beyond it are lost.
VarintOf(in, ends, width) ==
    IF ends = {} THEN Bad
    ELSE [ok |-> TRUE, rest |-> SubSeq(in, Min(ends) + 1, Len(in)),
          val |-> FoldSet(LAMBDA i, a : a + (in[i] % B) * B^(i - 1), 0, 1..Min(ends)) % 2^width]
GetVarint(in, width) ==
    VarintOf(in, {i \in 1..Min({Len(in), (width + GroupBits - 1) \div GroupBits}) : in[i] < B}, width)
GetVarint32(in) == GetVarint(in, W32)
GetVarint64(in) == GetVarint(in, W64)

PutLengthPrefixedSlice(s) == PutVarint(Len(s)) \o s
SliceBehind(g) ==
    IF ~g.ok \/ Len(g.rest) < g.val THEN Bad
    ELSE [ok |-> TRUE, val |-> SubSeq(g.rest, 1, g.val), rest |-> SubSeq(g.rest, g.val + 1, Len(g.rest))]
GetLengthPrefixedSlice(in) == SliceBehind(GetVarint32(in))
LevelRead(g) == IF g.ok /\ g.val < kNumLevels THEN g ELSE Bad
GetLevel(in) == LevelRead(GetVarint32(in))

\* Fixed: little-endian bytes of two groups
CodeByte == B * B
PutFixed(v, n) == [i \in 1..n |-> (v \div CodeByte^(i - 1)) % CodeByte]
DecodeFixed(s) == FoldSet(LAMBDA i, a : a + s[i] * CodeByte^(i - 1), 0, DOMAIN s)

-----------------------------------------------------------------------------
(* VersionEdit *)

kComparator == 1
kLogNumber == 2
kNextFileNumber == 3
kLastSequence == 4
kCompactPointer == 5
kDeletedFile == 6
kNewFile == 7
kPrevLogNumber == 9
NumberTag == {kLogNumber, kNextFileNumber, kLastSequence, kPrevLogNumber}

\* has_... is a tag's presence in the numbers.
EmptyEdit == [comparator |-> <<>>, numbers |-> {}, pointers |-> <<>>, deleted |-> {}, new |-> <<>>]
NumberOf(e, tag) == CHOOSE v \in CodeNumber : <<tag, v>> \in e.numbers
HasNumber(e, tag) == \E v \in CodeNumber : <<tag, v>> \in e.numbers
SetNumber(e, tag, v) == [e EXCEPT !.numbers = {x \in @ : x[1] # tag} \cup {<<tag, v>>}]

Concat(S) == FoldLeft(LAMBDA a, x : a \o x, <<>>, S)
\* The deleted files as std::set orders them
PairLess(x, y) == x[1] < y[1] \/ (x[1] = y[1] /\ x[2] < y[2])
InOrder(S) == [i \in 1..Cardinality(S) |-> CHOOSE x \in S : Cardinality({y \in S : PairLess(y, x)}) = i - 1]

EncodeTo(e) ==
    LET number(tag) == IF HasNumber(e, tag) THEN PutVarint(tag) \o PutVarint(NumberOf(e, tag)) ELSE <<>>
        pointer(p) == PutVarint(kCompactPointer) \o PutVarint(p[1]) \o PutLengthPrefixedSlice(p[2])
        deletion(d) == PutVarint(kDeletedFile) \o PutVarint(d[1]) \o PutVarint(d[2])
        file(f) == PutVarint(kNewFile) \o PutVarint(f[1]) \o PutVarint(f[2]) \o PutVarint(f[3])
                   \o PutLengthPrefixedSlice(f[4]) \o PutLengthPrefixedSlice(f[5])
    IN  Concat(<<IF e.comparator = <<>> THEN <<>> ELSE PutVarint(kComparator) \o PutLengthPrefixedSlice(e.comparator[1]),
                 number(kLogNumber), number(kPrevLogNumber), number(kNextFileNumber), number(kLastSequence)>>
               \o [i \in DOMAIN e.pointers |-> pointer(e.pointers[i])]
               \o [i \in DOMAIN InOrder(e.deleted) |-> deletion(InOrder(e.deleted)[i])]
               \o [i \in DOMAIN e.new |-> file(e.new[i])])

\* The fields of one record, read one after the other by these readers
RECURSIVE GetFields(_, _)
Before(g, more) == IF more.ok THEN [more EXCEPT !.val = <<g.val>> \o @] ELSE Bad
FieldThen(g, readers) == IF g.ok THEN Before(g, GetFields(g.rest, readers)) ELSE Bad
GetFields(in, readers) ==
    IF readers = <<>> THEN [ok |-> TRUE, val |-> <<>>, rest |-> in]
    ELSE FieldThen(CASE Head(readers) = "level" -> GetLevel(in)
                     [] Head(readers) = "number" -> GetVarint64(in)
                     [] Head(readers) = "slice" -> GetLengthPrefixedSlice(in), Tail(readers))
Readers(tag) == CASE tag = kComparator -> <<"slice">>
                  [] tag \in NumberTag -> <<"number">>
                  [] tag = kCompactPointer -> <<"level", "slice">>
                  [] tag = kDeletedFile -> <<"level", "number">>
                  [] tag = kNewFile -> <<"level", "number", "number", "slice", "slice">>
                  [] OTHER -> <<"unknown">>
WithField(e, tag, v) == CASE tag = kComparator -> [e EXCEPT !.comparator = <<v[1]>>]
                          [] tag \in NumberTag -> SetNumber(e, tag, v[1])
                          [] tag = kCompactPointer -> [e EXCEPT !.pointers = Append(@, v)]
                          [] tag = kDeletedFile -> [e EXCEPT !.deleted = @ \cup {v}]
                          [] tag = kNewFile -> [e EXCEPT !.new = Append(@, v)]
RECURSIVE DecodeFields(_, _)
FieldsRead(e, tag, fields) ==
    IF fields.ok THEN DecodeFields(WithField(e, tag, fields.val), fields.rest) ELSE [ok |-> FALSE, edit |-> e]
AfterEditTag(e, in, t) ==
    IF ~t.ok THEN [ok |-> in = <<>>, edit |-> e]        \* "invalid tag"
    ELSE IF Readers(t.val) = <<"unknown">> THEN [ok |-> FALSE, edit |-> e]
    ELSE FieldsRead(e, t.val, GetFields(t.rest, Readers(t.val)))
DecodeFields(e, in) == AfterEditTag(e, in, GetVarint32(in))
DecodeFrom(in) == DecodeFields(EmptyEdit, in)

-----------------------------------------------------------------------------
(* WriteBatch: eight bytes of sequence number and four of count (scaled to *)
(* two and one), then the updates                                          *)

kTypeDeletion == 0
kTypeValue == 1
kHeader == 3
Count(rep) == DecodeFixed(SubSeq(rep, 3, 3))
Sequence(rep) == DecodeFixed(SubSeq(rep, 1, 2))
SetCount(rep, n) == SubSeq(rep, 1, 2) \o PutFixed(n, 1) \o SubSeq(rep, 4, Len(rep))
SetSequence(rep, s) == PutFixed(s, 2) \o SubSeq(rep, 3, Len(rep))
BatchPut(rep, k, v) ==
    SetCount(rep, Count(rep) + 1) \o <<kTypeValue>> \o PutLengthPrefixedSlice(k) \o PutLengthPrefixedSlice(v)
BatchDelete(rep, k) == SetCount(rep, Count(rep) + 1) \o <<kTypeDeletion>> \o PutLengthPrefixedSlice(k)
\* mutant: the counts are not added up
BatchAppendOldCount(dst, src) == dst \o SubSeq(src, kHeader + 1, Len(src))
BatchAppend(dst, src) == SetCount(dst, Count(dst) + Count(src)) \o SubSeq(src, kHeader + 1, Len(src))

\* Iterate with MemTableInserter as the handler: the entries it adds, before
\* an error too
RECURSIVE IterateFrom(_, _, _)
UpdateRead(fields, seq, tag, out) ==
    IF fields.ok THEN IterateFrom(fields.rest, seq + 1, Append(out, <<seq, tag>> \o fields.val))
    ELSE [ok |-> FALSE, out |-> out]
IterateFrom(in, seq, out) ==
    IF in = <<>> THEN [ok |-> TRUE, out |-> out]
    ELSE IF in[1] \notin {kTypeValue, kTypeDeletion} THEN [ok |-> FALSE, out |-> out]
    ELSE UpdateRead(GetFields(Tail(in), IF in[1] = kTypeValue THEN <<"slice", "slice">> ELSE <<"slice">>),
                    seq, in[1], out)
Counted(r, n) == [r EXCEPT !.ok = @ /\ Len(r.out) = n]
InsertInto(rep) ==
    IF Len(rep) < kHeader THEN [ok |-> FALSE, out |-> <<>>]
    ELSE Counted(IterateFrom(SubSeq(rep, kHeader + 1, Len(rep)), Sequence(rep), <<>>), Count(rep))

-----------------------------------------------------------------------------
(* Internal keys: the user key and eight bytes of tag (scaled to two)      *)

kValueTypeForSeek == kTypeValue
kMaxSequenceNumber == CodeByte - 1
ParsedInternalKey == [user : CodeSlice, seq : 0..kMaxSequenceNumber, type : {kTypeDeletion, kTypeValue}]
PackSequenceAndType(seq, t) == seq * CodeByte + t
AppendInternalKey(k) == k.user \o PutFixed(PackSequenceAndType(k.seq, k.type), 2)
ExtractUserKey(s) == SubSeq(s, 1, Len(s) - 2)
TagNumber(s) == DecodeFixed(SubSeq(s, Len(s) - 1, Len(s)))
ParseInternalKey(s) ==
    IF Len(s) < 2 THEN [ok |-> FALSE]
    ELSE [ok |-> TagNumber(s) % CodeByte <= kTypeValue,
          key |-> [user |-> ExtractUserKey(s), seq |-> TagNumber(s) \div CodeByte, type |-> TagNumber(s) % CodeByte]]
\* Slice::compare and InternalKeyComparator::Compare: the larger tag is first.
SliceLess(a, b) ==
    \/ \E i \in DOMAIN a \cap DOMAIN b : a[i] < b[i] /\ \A j \in 1..(i - 1) : a[j] = b[j]
    \/ Len(a) < Len(b) /\ SubSeq(b, 1, Len(a)) = a
InternalKeyLess(a, b) ==
    \/ SliceLess(ExtractUserKey(a), ExtractUserKey(b))
    \/ ExtractUserKey(a) = ExtractUserKey(b) /\ TagNumber(a) > TagNumber(b)

-----------------------------------------------------------------------------
(* DumpFile: what is printed of a record, without its layout               *)

\* Iterate with WriteBatchItemPrinter as the handler
BatchPrinted(r, sequence) ==
    [is |-> IF r.ok THEN "batch" ELSE "error", items |-> [i \in DOMAIN r.out |-> Tail(r.out[i])],
     sequence |-> sequence]
WriteBatchPrinter(rec) ==
    IF Len(rec) < kHeader THEN [is |-> "too small", items |-> <<>>] ELSE BatchPrinted(InsertInto(rec), Sequence(rec))
EditPrinted(d) == IF d.ok THEN <<d.edit>> ELSE <<>>
VersionEditPrinter(rec) == EditPrinted(DecodeFrom(rec))

-----------------------------------------------------------------------------
(* File names: kinds with and without a number *)

RECURSIVE Digits(_)
Digits(n) == IF n < 10 THEN <<n>> ELSE Append(Digits(n \div 10), n % 10)
Padded(ds) == [i \in 1..(Max({NameDigits, Len(ds)}) - Len(ds)) |-> 0] \o ds
NumberedKind == {"log", "ldb", "sst", "dbtmp", "MANIFEST"}
FileName(kind, n) == [kind |-> kind, digits |-> IF kind \in NumberedKind THEN Padded(Digits(n)) ELSE <<>>]

\* ConsumeDecimalNumber, -1 when the value does not fit: the test before each
\* digit does not overflow itself
kMaxUint64 == 2^W64 - 1
NumberFits(v, d) == v < kMaxUint64 \div 10 \/ (v = kMaxUint64 \div 10 /\ d <= kMaxUint64 % 10)
ConsumeDecimalNumber(ds) ==
    FoldLeft(LAMBDA v, d : IF v = -1 \/ ~NumberFits(v, d) THEN -1 ELSE (v * 10 + d) % 2^W64, 0, ds)
FileTypeOf(kind) == CASE kind \in {"ldb", "sst"} -> "table" [] OTHER -> kind
ParseFileName(name) ==
    LET n == ConsumeDecimalNumber(name.digits)
    IN  IF name.kind \in NumberedKind /\ (name.digits = <<>> \/ n = -1) THEN [ok |-> FALSE]
        ELSE [ok |-> TRUE, type |-> FileTypeOf(name.kind), number |-> IF name.kind \in NumberedKind THEN n ELSE 0]
\* The printer for a file; files of the other kinds are refused.
DumpFile(name) ==
    LET t == ParseFileName(name)
    IN  IF ~t.ok THEN "unknown file type"
        ELSE CASE t.type = "log" -> "DumpLog" [] t.type = "MANIFEST" -> "DumpDescriptor" [] t.type = "table" -> "DumpTable"
               [] OTHER -> "not a dump-able file type"

-----------------------------------------------------------------------------

CodingInit == edit = [e |-> EmptyEdit, n |-> 0] /\ batch = [rep |-> <<0, 0, 0>>, ups |-> <<>>, n |-> 0] /\ digits = -1
              /\ ikeys = <<>>

\* One record at a time is filled.
EditCall(e) ==
    /\ edit.n < MaxFields /\ batch.n = 0 /\ digits = -1 /\ ikeys = <<>>
    /\ edit' = [e |-> e, n |-> edit.n + 1] /\ UNCHANGED <<batch, digits, ikeys>>
BatchCall(rep, ups) ==
    /\ batch.n <= MaxFields /\ edit.n = 0 /\ digits = -1 /\ ikeys = <<>>
    /\ batch' = [rep |-> rep, ups |-> batch.ups \o ups, n |-> batch.n + 1] /\ UNCHANGED <<edit, digits, ikeys>>

FillEdit ==
    \/ \E s \in CodeSlice : EditCall([edit.e EXCEPT !.comparator = <<s>>])
    \/ \E tag \in NumberTag, v \in CodeNumber : EditCall(SetNumber(edit.e, tag, v))
    \/ \E l \in CodeLevel, s \in CodeSlice : EditCall([edit.e EXCEPT !.pointers = Append(@, <<l, s>>)])
    \/ \E l \in CodeLevel, v \in CodeNumber : EditCall([edit.e EXCEPT !.deleted = @ \cup {<<l, v>>}])
    \/ \E l \in CodeLevel, v, w \in CodeNumber, s, t \in CodeSlice :
         EditCall([edit.e EXCEPT !.new = Append(@, <<l, v, w, s, t>>)])
FillBatch ==
    \/ \E k, v \in CodeSlice : BatchCall(BatchPut(batch.rep, k, v), << <<kTypeValue, k, v>> >>)
    \/ \E k \in CodeSlice : BatchCall(BatchDelete(batch.rep, k), << <<kTypeDeletion, k>> >>)
    \/ \E k \in CodeSlice : BatchCall(BatchAppend(batch.rep, BatchDelete(<<0, 0, 0>>, k)), << <<kTypeDeletion, k>> >>)
    \/ \E s \in CodeNumber : BatchCall(SetSequence(batch.rep, s), <<>>)

\* Any number, also one too large for 64 bits
ChooseDigits ==
    /\ edit.n = 0 /\ batch.n = 0 /\ digits = -1 /\ ikeys = <<>>
    /\ digits' \in 0..(10 * 2^W64) /\ UNCHANGED <<edit, batch, ikeys>>
ChooseKeys ==
    /\ edit.n = 0 /\ batch.n = 0 /\ digits = -1 /\ ikeys = <<>>
    /\ ikeys' \in ParsedInternalKey \X ParsedInternalKey /\ UNCHANGED <<edit, batch, digits>>

CodingNext == FillEdit \/ FillBatch \/ ChooseDigits \/ ChooseKeys
CodingSpec == CodingInit /\ [][CodingNext]_codingVars

-----------------------------------------------------------------------------
(* Properties *)

\* Every version edit reads back as itself, and a record cut short anywhere
\* is rejected or reads as the fields before the cut: nothing is made up.
NothingMadeUp(d, cut) == d.ok => EncodeTo(d.edit) = cut
EditRoundTrip(rec) ==
    /\ DecodeFrom(rec) = [ok |-> TRUE, edit |-> edit.e]
    /\ \A n \in 0..(Len(rec) - 1) : NothingMadeUp(DecodeFrom(SubSeq(rec, 1, n)), SubSeq(rec, 1, n))

\* A batch's updates reach the memtable in order under consecutive sequence
\* numbers, also when batches were appended to it; a batch cut short is never
\* taken for whole.
BatchRoundTrip(rep) ==
    /\ InsertInto(rep)
       = [ok |-> TRUE, out |-> [i \in DOMAIN batch.ups |-> <<Sequence(rep) + i - 1>> \o batch.ups[i]]]
    /\ \A n \in 0..(Len(rep) - 1) : ~InsertInto(SubSeq(rep, 1, n)).ok

\* A varint takes VarintLength bytes and reads back whatever follows it.
VarintExact(after) ==
    edit.n > 0 =>
        \A v \in CodeNumber, w \in {W32, W64} :
          v < 2^w => /\ GetVarint(PutVarint(v) \o after, w) = [ok |-> TRUE, val |-> v, rest |-> after]
                     /\ VarintLength(v) = Len(PutVarint(v))

\* A file name gives back its number and type for every number there is, and
\* digits that stand for a number too large are refused, never wrapped: a live
\* file is not mistaken for another and deleted.
NamesExact ==
    digits # -1 => \A kind \in NumberedKind :
      LET p == ParseFileName(FileName(kind, digits))
      IN  p.ok = (digits <= kMaxUint64) /\ (p.ok => p.number = digits /\ p.type = FileTypeOf(kind))

\* An internal key reads back as itself, one with any other type byte is
\* refused; the comparator orders by user key and then newest first, and the
\* key a lookup seeks comes before exactly the entries it may return, updates
\* and deletions.
KeysExact ==
    ikeys # <<>> =>
        LET a == ikeys[1]
            b == ikeys[2]
            ea == AppendInternalKey(a)
            eb == AppendInternalKey(b)
            seek == AppendInternalKey([a EXCEPT !.type = kValueTypeForSeek])
        IN  /\ ParseInternalKey(ea) = [ok |-> TRUE, key |-> a]
            /\ \A t \in 0..(CodeByte - 1) :
                 ParseInternalKey(a.user \o PutFixed(PackSequenceAndType(a.seq, t), 2)).ok = (t \in {kTypeDeletion, kTypeValue})
            /\ a # b => (InternalKeyLess(ea, eb) # InternalKeyLess(eb, ea))
            /\ a.user = b.user => (~InternalKeyLess(eb, seek)) = (b.seq <= a.seq)

\* DumpFile prints the updates of a batch in order and the fields of an edit;
\* of a record cut short it prints no update that was not there and says so;
\* and it takes a file for what its name says.
CutPrinted(p) == p.is # "batch" /\ IsPrefix(p.items, batch.ups)
RecordsPrinted(rec) ==
    /\ batch.n > 0 => WriteBatchPrinter(batch.rep)
                      = [is |-> "batch", items |-> batch.ups, sequence |-> Sequence(batch.rep)]
    /\ \A n \in 0..(Len(batch.rep) - 1) : CutPrinted(WriteBatchPrinter(SubSeq(batch.rep, 1, n)))
    /\ edit.n > 0 => VersionEditPrinter(rec) = <<edit.e>>
    /\ digits # -1 => \A kind \in NumberedKind :
         (DumpFile(FileName(kind, digits)) \in {"DumpLog", "DumpDescriptor", "DumpTable"})
           = (kind # "dbtmp" /\ digits <= kMaxUint64)

\* The records of the manifest and the log and the names of the files mean to
\* their readers what they meant to their writers.
CodingExact ==
    /\ BatchRoundTrip(batch.rep) /\ NamesExact /\ KeysExact
    /\ \A rec \in {EncodeTo(edit.e)} : EditRoundTrip(rec) /\ VarintExact(rec) /\ RecordsPrinted(rec)
=============================================================================
