------------------------------- MODULE Nanopb -------------------------------
(***************************************************************************)
(* nanopb, the protocol buffer library below the Firebase pods: pb_encode  *)
(* writes a C struct field by field to a stream, pb_decode reads it back,  *)
(* allocating what its pointer fields need (the pod defines                *)
(* PB_ENABLE_MALLOC), and pb_release frees it.                             *)
(*                                                                         *)
(* A struct is the tuple of the values of its fields:                      *)
(*   static required, singular   the item                                  *)
(*   static optional, oneof      [has, val]                                *)
(*   static repeated, fixed      the sequence of items                     *)
(*   pointer                     <<>> for NULL, <<item>>; oneof [has, val] *)
(*   pointer repeated            [arr, items], arr: is the array allocated *)
(*   callback                    the chunks its function was given         *)
(*   extension placeholder       [has, val] of each registered extension   *)
(* Bytes have Group + 1 bits and integers Word or 2 * Word bits (7 + 1, 32 *)
(* and 64 in the code).  All oneof fields of a message are in one union    *)
(* and share its memory: of them only the one that has is there.           *)
(* Allocation always succeeds, and structs are zeroed before first use.    *)
(***************************************************************************)
EXTENDS NanopbLayout

CONSTANTS
    Group, Word,
    MaxRequired,     \* PB_MAX_REQUIRED_FIELDS
    Types,           \* names of message types
    Fields(_),       \* the descriptor of each, a sequence of fields
    Samples(_),      \* the messages of each to encode
    RawTypes,        \* the types for which bytes of other programs are tried
    MaxMessages, MaxReceived, MaxFaults

Wide == 2 * Word
ASSUME NanopbAssumption ==
    /\ Group \in Nat \ {0} /\ Word \in Nat /\ Word > Group
    /\ {MaxRequired, MaxMessages, MaxReceived, MaxFaults} \subseteq Nat

VARIABLES
    pbType,      \* the message type in use; "none" before it is chosen
    pbMessages,  \* the messages encoded one after the other
    pbBytes,     \* the bytes
    pbReceived,  \* bytes from elsewhere behind them
    pbFaults     \* bytes changed, or the end cut off
nanopbVars == <<pbType, pbMessages, pbBytes, pbReceived, pbFaults>>

Byte == 0..(2 ^ (Group + 1) - 1)
Low(b) == b % 2 ^ Group
More(b) == b >= 2 ^ Group
FixedLen(w) == (w + Group) \div (Group + 1)
Signed(v, w) == LET u == v % 2 ^ w IN IF u >= 2 ^ (w - 1) THEN u - 2 ^ w ELSE u

\* A field descriptor, pb_field_t.  size: bits of an integer, room for bytes.
Field(tag, l, h, a, size, max, sub) ==
    [tag |-> tag, l |-> l, h |-> h, a |-> a, size |-> size, max |-> max, sub |-> sub]
Packable(fd) == fd.l \in {"varint", "uvarint", "svarint", "fixed32", "fixed64"}
InHeap(fd) == fd.l \in {"bytes", "string"}   \* items of pointer fields that are pointers themselves
WireType(fd) ==
    CASE fd.l \in {"varint", "uvarint", "svarint"} -> 0
      [] fd.l = "fixed64" -> 1
      [] fd.l = "fixed32" -> 5
      [] OTHER -> 2

-----------------------------------------------------------------------------
(* Default values and memory *)

RECURSIVE Defaults(_)
ItemDefault(fd) ==
    CASE Packable(fd) -> 0
      [] fd.l = "fixedbytes" -> [i \in 1..fd.size |-> 0]
      [] fd.l = "submessage" -> Defaults(fd.sub)
      [] OTHER -> <<>>
\* The list of pb_extension_t: found, and what dest points to
Extensions(fd) ==
    [i \in DOMAIN fd.sub |-> [has |-> FALSE, val |-> IF fd.sub[i].a = "pointer" THEN <<>> ELSE ItemDefault(fd.sub[i])]]
\* pb_field_set_to_default
FieldDefault(fd) ==
    CASE fd.l = "extension" -> Extensions(fd)
      [] fd.l # "extension" /\ fd.h \in {"oneof", "optional"} /\ fd.a = "static" -> [has |-> FALSE, val |-> ItemDefault(fd)]
      [] fd.l # "extension" /\ fd.h = "oneof" /\ fd.a = "pointer" -> [has |-> FALSE, val |-> <<>>]
      [] fd.l # "extension" /\ fd.h = "repeated" /\ fd.a = "pointer" -> [arr |-> FALSE, items |-> <<>>]
      [] fd.h = "fixed" -> [i \in 1..fd.max |-> ItemDefault(fd)]
      [] fd.l # "extension" /\ fd.h \in {"required", "singular"} /\ fd.a = "static" -> ItemDefault(fd)
      [] OTHER -> <<>>
Defaults(fields) == [i \in DOMAIN fields |-> FieldDefault(fields[i])]

\* What pb_release_single_field frees: the allocations a value holds.
RECURSIVE Allocated(_, _)
Total(s) == FoldLeft(LAMBDA a, b : a + b, 0, s)
ItemHolds(fd, v) == IF fd.l = "submessage" THEN Allocated(fd.sub, v) ELSE 0
PointerHolds(fd, v) == IF v = <<>> THEN 0 ELSE 1 + ItemHolds(fd, v[1])
EntryHolds(fd, v) == IF InHeap(fd) THEN Len(v) ELSE ItemHolds(fd, v)
FieldHolds(fd, v) ==
    CASE fd.l = "extension" ->
           Total([i \in DOMAIN v |-> IF fd.sub[i].a = "pointer" THEN PointerHolds(fd.sub[i], v[i].val)
                                     ELSE ItemHolds(fd.sub[i], v[i].val)])
      [] fd.a = "callback" -> 0
      [] fd.a = "pointer" /\ fd.h = "repeated" ->
           (IF v.arr THEN 1 ELSE 0) + Total([i \in DOMAIN v.items |-> EntryHolds(fd, v.items[i])])
      [] fd.a = "pointer" /\ fd.h = "oneof" -> IF v.has THEN PointerHolds(fd, v.val) ELSE 0
      [] fd.a = "pointer" /\ fd.h \in {"required", "optional"} -> PointerHolds(fd, v)
      [] fd.a = "static" /\ fd.h \in {"repeated", "fixed"} -> Total([i \in DOMAIN v |-> ItemHolds(fd, v[i])])
      [] fd.a = "static" /\ fd.h = "oneof" -> IF v.has THEN ItemHolds(fd, v.val) ELSE 0
      [] fd.a = "static" /\ fd.h = "optional" -> ItemHolds(fd, v.val)
      [] fd.a = "static" /\ fd.h \in {"required", "singular"} /\ fd.l # "extension" -> ItemHolds(fd, v)
Allocated(fields, m) == Total([i \in DOMAIN fields |-> FieldHolds(fields[i], m[i])])

-----------------------------------------------------------------------------
(* Input streams: the bytes from the read position on, how many of them    *)
(* belong to this stream (bytes_left), and the live allocations; wild: a   *)
(* pointer that is none was given to realloc or free, and what the program *)
(* does from there on is undefined.  Readers return the stream and a value.*)

Istream(bytes) == [in |-> bytes, left |-> Len(bytes), live |-> 0, ok |-> TRUE, wild |-> FALSE]
Err(s, v) == [s |-> [s EXCEPT !.ok = FALSE], v |-> v]
Freed(s, n) == [s EXCEPT !.live = @ - n]

pb_read(s, n) ==
    IF s.left < n THEN Err(s, <<>>)
    ELSE [s |-> [s EXCEPT !.in = SubSeq(@, n + 1, Len(@)), !.left = @ - n], v |-> SubSeq(s.in, 1, n)]
pb_readbyte(s) ==
    IF s.left = 0 THEN Err(s, 0)
    ELSE [s |-> [s EXCEPT !.in = Tail(@), !.left = @ - 1], v |-> Head(s.in)]

\* pb_decode_varint, from bitpos on; r: the byte read there
RECURSIVE VarintFrom(_, _, _)
VarintByte(r, bitpos, result) ==
    IF ~r.s.ok THEN r
    ELSE IF More(r.v) THEN VarintFrom(r.s, bitpos + Group, (result + Low(r.v) * 2 ^ bitpos) % 2 ^ Wide)
    ELSE [r EXCEPT !.v = (result + @ * 2 ^ bitpos) % 2 ^ Wide]
VarintFrom(s, bitpos, result) ==
    IF bitpos >= Wide THEN Err(s, 0) ELSE VarintByte(pb_readbyte(s), bitpos, result)
pb_decode_varint(s) == VarintFrom(s, 0, 0)

\* pb_decode_varint32_eof: the bytes after the first
TopPosition == ((Word + Group - 1) \div Group) * Group
RECURSIVE Varint32From(_, _, _)
SignBytes(bitpos) == IF bitpos < Wide - 1 THEN 2 ^ (Group + 1) - 1 ELSE 1
Varint32Value(result, b, bitpos) ==
    IF bitpos >= Word THEN result ELSE (result + Low(b) * 2 ^ bitpos) % 2 ^ Word
Varint32Overflow(result, b, bitpos) ==
    \/ bitpos >= Word /\ Low(b) # 0 /\ (result < 2 ^ (Word - 1) \/ b # SignBytes(bitpos))
    \/ ~More(b) /\ bitpos + Group = TopPosition /\ b \div 2 ^ (Word - bitpos) # 0
Varint32Byte(r, bitpos, result) ==
    IF ~r.s.ok THEN r
    ELSE IF Varint32Overflow(result, r.v, bitpos) THEN Err(r.s, 0)
    ELSE IF More(r.v) THEN Varint32From(r.s, bitpos + Group, Varint32Value(result, r.v, bitpos))
    ELSE [r EXCEPT !.v = Varint32Value(result, @, bitpos)]
Varint32From(s, bitpos, result) == Varint32Byte(pb_readbyte(s), bitpos, result)
Varint32First(r) == IF r.s.ok /\ More(r.v) THEN Varint32From(r.s, Group, Low(r.v)) ELSE r
pb_decode_varint32(s) == Varint32First(pb_readbyte(s))

\* pb_decode_tag: a zero ends the message.
Tag(r) == [s |-> r.s, eof |-> r.s.ok /\ r.v = 0, tag |-> r.v \div 8, wt |-> r.v % 8]
pb_decode_tag(s) == Tag(pb_decode_varint32(s))

RECURSIVE pb_skip_varint(_)
SkipByte(r) == IF r.s.ok /\ More(r.v) THEN pb_skip_varint(r.s) ELSE r.s
pb_skip_varint(s) == SkipByte(pb_readbyte(s))
pb_skip_string(n) == IF n.s.ok THEN pb_read(n.s, n.v).s ELSE n.s
pb_skip_field(s, wt) ==
    CASE wt = 0 -> pb_skip_varint(s)
      [] wt = 1 -> pb_read(s, FixedLen(Wide)).s
      [] wt = 2 -> pb_skip_string(pb_decode_varint32(s))
      [] wt = 5 -> pb_read(s, FixedLen(Word)).s
      [] OTHER -> Err(s, 0).s

\* A substream (v: what is left to its parent), and back to the parent.
Substream(n) ==
    IF ~n.s.ok \/ n.s.left < n.v THEN Err(n.s, 0)
    ELSE [s |-> [n.s EXCEPT !.left = n.v], v |-> n.s.left - n.v]
pb_make_string_substream(s) == Substream(pb_decode_varint32(s))
pb_close_string_substream(sub, rest) == [pb_read(sub, sub.left).s EXCEPT !.left = rest, !.ok = sub.ok]

-----------------------------------------------------------------------------
(* Field decoders: an item read over the old one at its place.  r, n: the  *)
(* varint or the length just read.                                         *)

\* pb_dec_varint, pb_dec_uvarint, pb_dec_svarint, with their checks for overflow
Clamped(r, svalue, size) == IF Signed(svalue, size) # svalue THEN Err(r.s, 0) ELSE [r EXCEPT !.v = svalue]
AsSigned(r, fd) ==
    IF r.s.ok THEN Clamped(r, Signed(r.v, IF fd.size = Wide THEN Wide ELSE Word), fd.size) ELSE r
pb_dec_varint(s, fd) == AsSigned(pb_decode_varint(s), fd)
AsUnsigned(r, fd) == IF r.s.ok /\ r.v % 2 ^ fd.size # r.v THEN Err(r.s, 0) ELSE r
pb_dec_uvarint(s, fd) == AsUnsigned(pb_decode_varint(s), fd)
UnZigZag(r) == IF r.s.ok THEN [r EXCEPT !.v = IF @ % 2 = 1 THEN -(@ \div 2) - 1 ELSE @ \div 2] ELSE r
pb_decode_svarint(s) == UnZigZag(pb_decode_varint(s))
AsZigZag(r, fd) == IF r.s.ok THEN Clamped(r, r.v, fd.size) ELSE r
pb_dec_svarint(s, fd) == AsZigZag(pb_decode_svarint(s), fd)

LittleEndian(r, w) ==
    IF r.s.ok
    THEN [r EXCEPT !.v = Total([i \in DOMAIN @ |-> @[i] * 2 ^ ((i - 1) * (Group + 1))]) % 2 ^ w]
    ELSE [r EXCEPT !.v = 0]
pb_decode_fixed(s, w) == LittleEndian(pb_read(s, FixedLen(w)), w)

\* pb_dec_bytes and pb_dec_string (whose terminator takes room).  A pointer
\* is allocated before the bytes are read.
Pointed(r) == [r EXCEPT !.v = <<@>>]
FieldBytes(n, fd, old) ==
    CASE ~n.s.ok -> Err(n.s, old)
      [] n.s.ok /\ fd.a = "pointer" ->
           Pointed(pb_read(IF old = <<>> THEN [n.s EXCEPT !.live = @ + 1] ELSE n.s, n.v))
      [] n.s.ok /\ fd.a # "pointer" ->
           IF (IF fd.l = "string" THEN n.v + 1 ELSE n.v) > fd.size THEN Err(n.s, old) ELSE pb_read(n.s, n.v)
pb_dec_bytes(s, fd, old) == FieldBytes(pb_decode_varint32(s), fd, old)
FixedBytes(n, fd) ==
    CASE ~n.s.ok -> Err(n.s, ItemDefault(fd))
      [] n.s.ok /\ n.v = 0 -> [n EXCEPT !.v = ItemDefault(fd)]
      [] n.s.ok /\ n.v # 0 -> IF n.v # fd.size THEN Err(n.s, ItemDefault(fd)) ELSE pb_read(n.s, n.v)
pb_dec_fixed_length_bytes(s, fd) == FixedBytes(pb_decode_varint32(s), fd)

RECURSIVE pb_decode_noinit(_, _, _)
\* pb_decode, and pb_dec_submessage: entries of arrays are initialized first.
ReleaseFailed(r, fields) ==
    IF r.s.ok THEN r ELSE [s |-> Freed(r.s, Allocated(fields, r.v)), v |-> Defaults(fields)]
pb_decode(s, fields) == ReleaseFailed(pb_decode_noinit(s, fields, Defaults(fields)), fields)
Closed(r, rest) == [r EXCEPT !.s = pb_close_string_substream(@, rest)]
\* mutant: a submessage that comes again starts from its defaults
SubmessageInit(sub, fd, old) == IF sub.s.ok THEN Closed(pb_decode(sub.s, fd.sub), sub.v) ELSE Err(sub.s, old)
pb_dec_submessageInit(s, fd, old) == SubmessageInit(pb_make_string_substream(s), fd, old)
\* Of entries of arrays, which are initialized, only the default is old.
Submessage(sub, fd, old) ==
    IF ~sub.s.ok THEN Err(sub.s, old)
    ELSE Closed(IF fd.h = "repeated" THEN pb_decode(sub.s, fd.sub) ELSE pb_decode_noinit(sub.s, fd.sub, old), sub.v)
pb_dec_submessage(s, fd, old) == Submessage(pb_make_string_substream(s), fd, old)

\* PB_DECODERS
Decoder(s, fd, old) ==
    CASE fd.l = "varint" -> pb_dec_varint(s, fd)
      [] fd.l = "uvarint" -> pb_dec_uvarint(s, fd)
      [] fd.l = "svarint" -> pb_dec_svarint(s, fd)
      [] fd.l = "fixed32" -> pb_decode_fixed(s, Word)
      [] fd.l = "fixed64" -> pb_decode_fixed(s, Wide)
      [] fd.l \in {"bytes", "string"} -> pb_dec_bytes(s, fd, old)
      [] fd.l = "submessage" -> pb_dec_submessage(s, fd, old)
      [] fd.l = "fixedbytes" -> pb_dec_fixed_length_bytes(s, fd)

-----------------------------------------------------------------------------
(* A field.  n: entries of a fixed count field so far. *)

\* The item r behind the n there are, in s, v and n; not added if it failed.
Added(r, fd, items, n, keep) ==
    [s |-> r.s, n |-> IF keep THEN n + 1 ELSE n,
     v |-> IF ~keep THEN items
           ELSE IF fd.h = "fixed" THEN [items EXCEPT ![n + 1] = r.v] ELSE Append(items, r.v)]
ArrayFull(fd, n) == fd.a = "static" /\ n >= fd.max

\* The loop over a packed array
RECURSIVE PackedFrom(_, _)
PackedItem(r, fd, p) ==
    IF r.s.ok THEN PackedFrom(Added(r, fd, p.v, p.n, TRUE), fd) ELSE Added(r, fd, p.v, p.n, FALSE)
PackedFrom(p, fd) ==
    IF p.s.left = 0 \/ ArrayFull(fd, p.n) THEN p ELSE PackedItem(Decoder(p.s, fd, 0), fd, p)
PackedEnd(p, fd, rest) ==
    IF fd.a = "static" /\ p.s.left # 0 THEN [p EXCEPT !.s.ok = FALSE] ELSE Closed(p, rest)
Packed(sub, fd, items, n) ==
    IF sub.s.ok THEN PackedEnd(PackedFrom([s |-> sub.s, v |-> items, n |-> n], fd), fd, sub.v)
    ELSE [s |-> sub.s, v |-> items, n |-> n]

DecodeArray(s, wt, fd, items, n) ==
    IF wt = 2 /\ Packable(fd) THEN Packed(pb_make_string_substream(s), fd, items, n)
    ELSE IF ArrayFull(fd, n) THEN [s |-> Err(s, 0).s, v |-> items, n |-> n]
    ELSE Added(Decoder(s, fd, IF fd.a = "pointer" /\ InHeap(fd) THEN <<>> ELSE ItemDefault(fd)),
               fd, items, n, TRUE)

Single(r, n) == [s |-> r.s, v |-> r.v, n |-> n]
Present(r, n) == [s |-> r.s, v |-> [has |-> TRUE, val |-> r.v], n |-> n]
decode_static_field(s, wt, fd, old, n) ==
    CASE fd.h \in {"required", "singular"} -> Single(Decoder(s, fd, old), n)
      [] fd.h \in {"optional", "oneof"} ->
           Present(Decoder(s, fd, IF fd.h = "oneof" /\ fd.l = "submessage" THEN Defaults(fd.sub) ELSE old.val), n)
      [] fd.h \in {"repeated", "fixed"} -> DecodeArray(s, wt, fd, old, IF fd.h = "fixed" THEN n ELSE Len(old))

\* A pointer: an old submessage is freed first.
DecodePointer(s, fd, old) ==
    CASE InHeap(fd) -> Decoder(s, fd, old)
      [] ~InHeap(fd) /\ old = <<>> -> Pointed(Decoder([s EXCEPT !.live = @ + 1], fd, ItemDefault(fd)))
      [] ~InHeap(fd) /\ old # <<>> ->
           Pointed(Decoder(IF fd.l = "submessage" THEN [Freed(s, PointerHolds(fd, old)) EXCEPT !.live = @ + 1] ELSE s,
                           fd, ItemDefault(fd)))
\* A repeated pointer: its array is allocated with the first entry.
AnyItems(s, wt, fd, sub) == ~(wt = 2 /\ Packable(fd)) \/ (sub.s.ok /\ sub.s.left > 0)
InArray(a, arr) == [s |-> a.s, v |-> [arr |-> arr, items |-> a.v], n |-> 0]
DecodePointers(s, wt, fd, old, more) ==
    InArray(DecodeArray(IF ~old.arr /\ more THEN [s EXCEPT !.live = @ + 1] ELSE s, wt, fd, old.items, Len(old.items)),
            old.arr \/ more)
decode_pointer_field(s, wt, fd, old) ==
    CASE fd.h \in {"required", "optional"} -> Single(DecodePointer(s, fd, old), 0)
      [] fd.h = "oneof" -> Present(DecodePointer(s, fd, old.val), 0)
      [] fd.h = "repeated" -> DecodePointers(s, wt, fd, old, AnyItems(s, wt, fd, pb_make_string_substream(s)))

\* The bytes of a scalar; a varint of more than the buffer's bytes is an error.
RawValue(s, skipped) ==
    IF skipped.ok /\ s.left - skipped.left <= (Wide + Group - 1) \div Group
    THEN [s |-> skipped, v |-> SubSeq(s.in, 1, s.left - skipped.left)] ELSE Err(s, <<>>)
read_raw_value(s, wt) == RawValue(s, pb_skip_field(s, wt))
\* A callback, here one that takes all it is given (fd.size: is there one).
\* A scalar is copied first, so the function sees its bytes alone.
Given(r, old) == [s |-> r.s, v |-> IF r.s.ok THEN Append(old, r.v) ELSE old, n |-> 0]
AllOf(sub) == IF sub.s.ok THEN Closed(pb_read(sub.s, sub.s.left), sub.v) ELSE sub
decode_callback_field(s, wt, fd, old) ==
    CASE fd.size = 0 -> [s |-> pb_skip_field(s, wt), v |-> old, n |-> 0]
      [] fd.size # 0 /\ wt = 2 -> Given(AllOf(pb_make_string_substream(s)), old)
      [] fd.size # 0 /\ wt # 2 -> Given(read_raw_value(s, wt), old)

decode_field(s, wt, fd, old, n) ==
    CASE fd.a = "static" -> decode_static_field(s, wt, fd, old, n)
      [] fd.a = "pointer" -> decode_pointer_field(s, wt, fd, old)
      [] fd.a = "callback" -> decode_callback_field(s, wt, fd, old)

\* The members of a oneof share one slot, which holds the value of the member
\* set last; the struct shows the others with their defaults.  Releasing a
\* member sets the pointers in it to NULL and leaves the rest of its bytes:
\* does the slot now begin with something else than a NULL pointer?
RECURSIVE LeftInSlot(_, _)
LeftInSlot(fd, v) ==
    CASE fd.a = "pointer" -> FALSE
      [] fd.a = "static" /\ fd.l = "submessage" /\ fd.h # "optional" -> LeftInSlot(fd.sub[1], v[1])
      [] OTHER -> v # (IF fd.h = "oneof" THEN ItemDefault(fd) ELSE FieldDefault(fd))
\* pb_release_union_field: another member of the union is freed.  A pointer
\* member takes what is left in the slot for its allocation, and reallocates
\* it, or frees it on an error before (decode_pointer_field, allocate_field).
UnionOthers(fields, m, i) == {j \in DOMAIN fields : fields[j].h = "oneof" /\ j # i /\ m[j].has}
ReleaseUnion(s, fields, m, old, wild) ==
    [s |-> [Freed(s, SumSet({0} \cup {FieldHolds(fields[j], m[j]) : j \in old})) EXCEPT
              !.wild = wild, !.ok = ~wild],
     v |-> [j \in DOMAIN m |-> IF j \in old THEN FieldDefault(fields[j]) ELSE m[j]]]
ReleaseOthers(s, fields, m, i, old) ==
    ReleaseUnion(s, fields, m, old,
                 fields[i].a = "pointer" /\ \E j \in old : LeftInSlot(fields[j], m[j].val))
pb_release_union_field(s, fields, m, i) ==
    IF fields[i].h = "oneof" THEN ReleaseOthers(s, fields, m, i, UnionOthers(fields, m, i))
    ELSE [s |-> s, v |-> m]

\* decode_extension: the first registered extension with the tag (i, of hits).
ExtensionRead(r, old, i) == [s |-> r.s, v |-> [old EXCEPT ![i] = [has |-> TRUE, val |-> r.v]]]
ExtensionHits(fd, tag) == {i \in DOMAIN fd.sub : fd.sub[i].tag = tag}
ExtensionAt(s, wt, fd, old, i) == ExtensionRead(decode_field(s, wt, fd.sub[i], old[i].val, 0), old, i)
decode_extension(s, wt, fd, old, tag) ==
    IF ExtensionHits(fd, tag) = {} THEN [s |-> pb_skip_field(s, wt), v |-> old]
    ELSE ExtensionAt(s, wt, fd, old, Min(ExtensionHits(fd, tag)))

-----------------------------------------------------------------------------
\* pb_decode_noinit.  st: the loop's variables: the struct m; seen: indices
\* of the required fields met; at: the fixed count field being filled (0:
\* none), with n entries.
RECURSIVE FieldLoop(_, _, _)
Required(fields) == {i \in DOMAIN fields : fields[i].h = "required" /\ fields[i].l # "extension"}
Tracked(fields) ==
    {i \in Required(fields) : Cardinality({j \in Required(fields) : j < i}) < MaxRequired}
Finish(s, fields, st) ==
    IF (st.at # 0 /\ st.n # fields[st.at].max) \/ ~(Tracked(fields) \subseteq st.seen)
    THEN Err(s, st.m) ELSE [s |-> s, v |-> st.m]
Hits(fields, tag) == {i \in DOMAIN fields : fields[i].tag = tag /\ fields[i].l # "extension"}
Placeholders(fields, tag) == {i \in DOMAIN fields : fields[i].l = "extension" /\ tag >= fields[i].tag}

\* Field i, once read (r), and the loop goes on; u: the stream and the struct
\* with the other members of its union released.
FieldRead(r, i, fields, st) ==
    IF ~r.s.ok THEN [s |-> r.s, v |-> [st.m EXCEPT ![i] = r.v]]
    ELSE FieldLoop(r.s, fields,
                   [m |-> [st.m EXCEPT ![i] = r.v], seen |-> st.seen \cup {i},
                    at |-> IF fields[i].h = "fixed" THEN i ELSE st.at,
                    n |-> IF fields[i].h = "fixed" THEN r.n ELSE st.n])
ReadField(u, wt, i, fields, st) ==
    IF ~u.s.ok THEN u
    ELSE FieldRead(decode_field(u.s, wt, fields[i], u.v[i], IF st.at = i THEN st.n ELSE 0),
                   i, fields, [st EXCEPT !.m = u.v])
KnownField(t, i, fields, st) ==
    IF fields[i].h = "fixed" /\ st.at \notin {0, i} /\ st.n # fields[st.at].max THEN Err(t.s, st.m)
    ELSE ReadField(pb_release_union_field(t.s, fields, st.m, i), t.wt, i, fields, st)
\* A field the message does not have: that of an extension, or skipped.
NotAField(next, fields, st) ==
    IF next.s.ok THEN FieldLoop(next.s, fields, [st EXCEPT !.m = next.v]) ELSE next
InExtension(x, m, e) == [s |-> x.s, v |-> [m EXCEPT ![e] = x.v]]
UnknownField(t, exts, fields, m) ==
    IF exts = {} THEN [s |-> pb_skip_field(t.s, t.wt), v |-> m]
    ELSE InExtension(decode_extension(t.s, t.wt, fields[Min(exts)], m[Min(exts)], t.tag), m, Min(exts))
AfterTag(t, fields, st) ==
    CASE t.eof -> Finish(t.s, fields, st)
      [] ~t.s.ok -> [s |-> t.s, v |-> st.m]
      [] t.s.ok /\ ~t.eof /\ Hits(fields, t.tag) # {} -> KnownField(t, Min(Hits(fields, t.tag)), fields, st)
      [] t.s.ok /\ ~t.eof /\ Hits(fields, t.tag) = {} ->
           NotAField(UnknownField(t, Placeholders(fields, t.tag), fields, st.m), fields, st)
FieldLoop(s, fields, st) ==
    IF s.left = 0 THEN Finish(s, fields, st) ELSE AfterTag(pb_decode_tag(s), fields, st)
pb_decode_noinit(s, fields, m) == FieldLoop(s, fields, [m |-> m, seen |-> {}, at |-> 0, n |-> 0])

DelimitedFrom(sub, fields) ==
    IF sub.s.ok THEN Closed(pb_decode(sub.s, fields), sub.v) ELSE Err(sub.s, Defaults(fields))
pb_decode_delimited(s, fields) == DelimitedFrom(pb_make_string_substream(s), fields)

-----------------------------------------------------------------------------
(* Output streams: what was written, how much is counted, the room, and    *)
(* whether this is a sizing stream, which counts and writes nothing.       *)

Ostream(room) == [out |-> <<>>, n |-> 0, room |-> room, sizing |-> FALSE, ok |-> TRUE]
Sizing == [Ostream(0) EXCEPT !.sizing = TRUE]

pb_write(o, bytes) ==
    IF ~o.ok \/ (~o.sizing /\ o.n + Len(bytes) > o.room) THEN [o EXCEPT !.ok = FALSE]
    ELSE [o EXCEPT !.n = @ + Len(bytes), !.out = IF o.sizing THEN @ ELSE @ \o bytes]

RECURSIVE VarintBytes(_)
VarintBytes(v) ==
    IF v < 2 ^ Group THEN <<v>> ELSE <<(v % 2 ^ Group) + 2 ^ Group>> \o VarintBytes(v \div 2 ^ Group)
pb_encode_varint(o, v) == pb_write(o, VarintBytes(v % 2 ^ Wide))
pb_encode_tag(o, wt, tag) == pb_encode_varint(o, tag * 8 + wt)
pb_encode_string(o, bytes) == pb_write(pb_encode_varint(o, Len(bytes)), bytes)
pb_encode_fixed(o, v, w) ==
    pb_write(o, [i \in 1..FixedLen(w) |-> ((v % 2 ^ w) \div 2 ^ ((i - 1) * (Group + 1))) % 2 ^ (Group + 1)])
ZigZag(v) == IF v < 0 THEN -(2 * v) - 1 ELSE 2 * v
CString(bytes) == SubSeq(bytes, 1, SelectInSeq(bytes \o <<0>>, LAMBDA b : b = 0) - 1)

RECURSIVE pb_encode(_, _, _)
\* pb_encode_submessage: measured first, then written through a substream
\* with just that room.
SubmessageAt(head, sub, measured) ==
    IF ~head.ok \/ head.n + measured > head.room \/ ~sub.ok \/ sub.n # measured THEN [head EXCEPT !.ok = FALSE]
    ELSE [head EXCEPT !.out = @ \o sub.out, !.n = @ + sub.n]
MeasuredSubmessage(o, fields, m, measured) ==
    IF ~measured.ok THEN [o EXCEPT !.ok = FALSE]
    ELSE IF o.sizing THEN [pb_encode_varint(o, measured.n) EXCEPT !.n = @ + measured.n]
    ELSE SubmessageAt(pb_encode_varint(o, measured.n), pb_encode(Ostream(measured.n), fields, m), measured.n)
pb_encode_submessage(o, fields, m) == MeasuredSubmessage(o, fields, m, pb_encode(Sizing, fields, m))

\* PB_ENCODERS
Encoder(o, fd, v) ==
    CASE fd.l \in {"varint", "uvarint"} -> pb_encode_varint(o, v)
      [] fd.l = "svarint" -> pb_encode_varint(o, ZigZag(v))
      [] fd.l = "fixed32" -> pb_encode_fixed(o, v, Word)
      [] fd.l = "fixed64" -> pb_encode_fixed(o, v, Wide)
      [] fd.l = "bytes" ->
           IF fd.a = "static" /\ Len(v) > fd.size THEN [o EXCEPT !.ok = FALSE] ELSE pb_encode_string(o, v)
      [] fd.l = "string" -> pb_encode_string(o, CString(v))
      [] fd.l = "submessage" -> pb_encode_submessage(o, fd.sub, v)
      [] fd.l = "fixedbytes" -> pb_encode_string(o, v)

EncodeItem(o, fd, v) == Encoder(pb_encode_tag(o, WireType(fd), fd.tag), fd, v)
EncodeAll(o, fd, items) == FoldLeft(LAMBDA a, v : Encoder(a, fd, v), o, items)

\* encode_array: packed where the type allows it.
encode_array(o, fd, items) ==
    LET size == IF fd.l = "fixed32" THEN FixedLen(Word) * Len(items)
                ELSE IF fd.l = "fixed64" THEN FixedLen(Wide) * Len(items) ELSE EncodeAll(Sizing, fd, items).n
        head == pb_encode_varint(pb_encode_tag(o, 2, fd.tag), size)
        entry(v) == IF fd.a = "pointer" /\ InHeap(fd) THEN IF v = <<>> THEN <<>> ELSE v[1] ELSE v
    IN  IF items = <<>> THEN o
        ELSE IF fd.a = "static" /\ Len(items) > fd.max THEN [o EXCEPT !.ok = FALSE]
        ELSE IF Packable(fd)
        THEN IF o.sizing THEN [head EXCEPT !.n = @ + size] ELSE EncodeAll(head, fd, items)
        ELSE FoldLeft(LAMBDA a, v : EncodeItem(a, fd, entry(v)), o, items)

\* pb_check_proto3_default_value, for singular fields and what is inside them
RECURSIVE IsZero(_, _)
IsZero(fd, v) ==
    CASE fd.h = "required" -> FALSE
      [] fd.h = "repeated" -> (IF fd.a = "pointer" THEN v.items ELSE v) = <<>>
      [] fd.h \in {"oneof", "optional"} /\ fd.a = "static" -> ~v.has
      [] fd.h = "singular" /\ fd.l = "submessage" -> \A i \in DOMAIN fd.sub : IsZero(fd.sub[i], v[i])
      [] fd.h = "singular" /\ fd.l = "fixedbytes" -> fd.size = 0
      [] fd.h = "singular" /\ fd.l = "string" -> CString(v) = <<>>
      [] OTHER -> v = FieldDefault(fd)

encode_basic_field(o, fd, v) ==
    CASE fd.h = "required" /\ fd.a = "static" -> EncodeItem(o, fd, v)
      [] fd.h = "singular" -> IF IsZero(fd, v) THEN o ELSE EncodeItem(o, fd, v)
      [] fd.h \in {"optional", "oneof"} /\ fd.a = "static" -> IF v.has THEN EncodeItem(o, fd, v.val) ELSE o
      [] fd.h = "required" /\ fd.a = "pointer" -> IF v = <<>> THEN [o EXCEPT !.ok = FALSE] ELSE EncodeItem(o, fd, v[1])
      [] fd.h = "optional" /\ fd.a = "pointer" -> IF v = <<>> THEN o ELSE EncodeItem(o, fd, v[1])
      [] fd.h = "oneof" /\ fd.a = "pointer" -> IF v.has THEN EncodeItem(o, fd, v.val[1]) ELSE o
      [] fd.h \in {"repeated", "fixed"} -> encode_array(o, fd, IF fd.a = "pointer" THEN v.items ELSE v)

\* A callback that writes its chunks as strings
encode_callback_field(o, fd, v) ==
    IF fd.size = 0 THEN o
    ELSE FoldLeft(LAMBDA a, c : pb_encode_string(pb_encode_tag(a, 2, fd.tag), c), o, v)

encode_extension_field(o, fd, v) ==
    FoldLeft(LAMBDA a, i : encode_basic_field(a, fd.sub[i], v[i].val), o, [i \in DOMAIN fd.sub |-> i])

pb_encode(o, fields, m) ==
    FoldLeft(LAMBDA a, i :
               CASE fields[i].l = "extension" -> encode_extension_field(a, fields[i], m[i])
                 [] fields[i].l # "extension" /\ fields[i].a = "callback" -> encode_callback_field(a, fields[i], m[i])
                 [] OTHER -> encode_basic_field(a, fields[i], m[i]),
             o, [i \in DOMAIN fields |-> i])
pb_get_encoded_size(fields, m) == pb_encode(Sizing, fields, m).n

-----------------------------------------------------------------------------
NanopbInit == pbType = "none" /\ pbMessages = <<>> /\ pbBytes = <<>> /\ pbReceived = 0 /\ pbFaults = 0

Choose(t) ==
    /\ pbType = "none" /\ pbType' = t
    /\ UNCHANGED <<pbMessages, pbBytes, pbReceived, pbFaults>>

\* pb_encode into a buffer with room enough
Encode(m) ==
    /\ pbType # "none" /\ Len(pbMessages) < MaxMessages /\ pbReceived = 0 /\ pbFaults = 0
    /\ \E o \in {pb_encode(Ostream(pb_get_encoded_size(Fields(pbType), m)), Fields(pbType), m)} :
         o.ok /\ pbBytes' = pbBytes \o o.out
    /\ pbMessages' = Append(pbMessages, m)
    /\ UNCHANGED <<pbType, pbReceived, pbFaults>>

\* A byte some other program wrote
Receive(b) ==
    /\ pbType \in RawTypes /\ pbReceived < MaxReceived /\ pbMessages = <<>>
    /\ pbReceived' = pbReceived + 1
    /\ pbBytes' = Append(pbBytes, b)
    /\ UNCHANGED <<pbType, pbMessages, pbFaults>>

Cut(n) ==
    /\ Len(pbMessages) = 1 /\ pbFaults < MaxFaults /\ pbFaults' = pbFaults + 1
    /\ pbBytes' = SubSeq(pbBytes, 1, n)
    /\ UNCHANGED <<pbType, pbMessages, pbReceived>>
Change(i, b) ==
    /\ Len(pbMessages) = 1 /\ pbFaults < MaxFaults /\ pbFaults' = pbFaults + 1
    /\ pbBytes' = [pbBytes EXCEPT ![i] = b]
    /\ UNCHANGED <<pbType, pbMessages, pbReceived>>

NanopbNext ==
    \/ \E t \in Types : Choose(t)
    \/ pbType # "none" /\ \E m \in Samples(pbType) : Encode(m)
    \/ \E b \in Byte : Receive(b)
    \/ \E n \in 0..(Len(pbBytes) - 1) : Cut(n)
    \/ \E i \in DOMAIN pbBytes, b \in Byte : Change(i, b)

NanopbSpec == NanopbInit /\ [][NanopbNext]_nanopbVars

-----------------------------------------------------------------------------
(* Properties *)

Result == pb_decode(Istream(pbBytes), Fields(pbType))
Intact == pbType # "none" /\ pbFaults = 0 /\ pbReceived = 0

RECURSIVE Fits(_, _)
ItemFits(fd, v) ==
    CASE fd.l \in {"varint", "svarint"} -> v \in -(2 ^ (fd.size - 1))..(2 ^ (fd.size - 1) - 1)
      [] fd.l = "uvarint" -> v \in 0..(2 ^ fd.size - 1)
      [] fd.l = "fixed32" -> v \in 0..(2 ^ Word - 1)
      [] fd.l = "fixed64" -> v \in 0..(2 ^ Wide - 1)
      [] fd.l = "bytes" -> fd.a = "pointer" \/ Len(v) <= fd.size
      [] fd.l = "string" -> fd.a = "pointer" \/ Len(v) < fd.size
      [] fd.l = "fixedbytes" -> Len(v) = fd.size
      [] fd.l = "submessage" -> \A i \in DOMAIN fd.sub : Fits(fd.sub[i], v[i])
Items(fd, v) ==
    CASE fd.h \in {"repeated", "fixed"} /\ fd.a = "static" -> v
      [] fd.h = "repeated" /\ fd.a = "pointer" -> IF InHeap(fd) THEN FlattenSeq(v.items) ELSE v.items
      [] fd.h = "oneof" /\ fd.a = "pointer" -> v.val
      [] fd.h \in {"oneof", "optional"} /\ fd.a = "static" -> <<v.val>>
      [] fd.h \in {"required", "singular"} /\ fd.a = "static" -> <<v>>
      [] OTHER -> v
Fits(fd, v) ==
    \/ fd.l = "extension" \/ fd.a = "callback"
    \/ /\ \A i \in DOMAIN Items(fd, v) : ItemFits(fd, Items(fd, v)[i])
       /\ fd.a = "static" /\ fd.h = "repeated" => Len(v) <= fd.max
       /\ fd.h = "fixed" => Len(v) = fd.max

\* Whatever the bytes, what pb_decode accepts fits the struct: integers their
\* width (not only their 64 bits on the wire), strings and arrays their room.
StructFits(fields, m) == \A i \in DOMAIN fields : Fits(fields[i], m[i])
DecodedFits(r) == r.s.ok => StructFits(Fields(pbType), r.v)

\* pb_decode gives back what pb_encode wrote, also behind a length and before
\* a zero byte, with bytes that are not its own left unread.
Decodes(r, m, rest) == r.s.ok /\ r.v = m /\ r.s.in = rest
Framed(fields, m) == pb_encode_submessage(Ostream(Len(pbBytes) + 9), fields, m).out
RoundTrip(r) ==
    Intact /\ Len(pbMessages) = 1 =>
        /\ Decodes(r, pbMessages[1], <<>>)
        /\ Decodes(pb_decode_delimited(Istream(Framed(Fields(pbType), pbMessages[1]) \o <<5>>), Fields(pbType)),
                   pbMessages[1], <<5>>)
        /\ Decodes(pb_decode(Istream(pbBytes \o <<0, 5>>), Fields(pbType)), pbMessages[1], <<5>>)

\* pb_get_encoded_size is the room pb_encode needs: one byte less and it
\* fails, having written nothing beyond the room (submessages and packed
\* arrays are measured by a pass of their own).
TooShort(o, room) == ~o.ok /\ Len(o.out) <= room
SizeExact ==
    Intact /\ Len(pbMessages) = 1 =>
        /\ pb_get_encoded_size(Fields(pbType), pbMessages[1]) = Len(pbBytes)
        /\ \A room \in 0..(Len(pbBytes) - 1) :
             TooShort(pb_encode(Ostream(room), Fields(pbType), pbMessages[1]), room)

\* Whatever the bytes, the allocations alive after pb_decode are those the
\* struct leads to, none after a failure; so pb_release frees all.  Only a
\* static submessage of a oneof that comes twice loses what it held
\* (decode_static_field clears it without a release).
LosesUnions(fields) ==
    \E i \in DOMAIN fields : fields[i].h = "oneof" /\ fields[i].a = "static" /\ fields[i].l = "submessage"
HeldExactly(r, held) ==
    /\ r.s.live >= held
    /\ r.s.live > held => LosesUnions(Fields(pbType))
    /\ ~r.s.ok => held = 0
NoLeak(r) == HeldExactly(r, Allocated(Fields(pbType), r.v))

\* One encoding after the other decodes to the second message merged into
\* the first: the last scalar stays, arrays are joined, static submessages
\* merged, pointers to submessages and members of a oneof replaced.  What is
\* too long for its array, or a second fixed count array, is refused.
RECURSIVE Merge(_, _, _)
MergedItem(fd, v, w) == IF fd.l = "submessage" THEN Merge(fd.sub, v, w) ELSE w
MergedField(fd, v, w) ==
    CASE fd.l = "extension" -> [i \in DOMAIN v |-> IF w[i].has THEN w[i] ELSE v[i]]
      [] fd.h = "fixed" -> w
      [] fd.a = "callback" -> v \o w
      [] fd.a = "static" /\ fd.h = "required" -> MergedItem(fd, v, w)
      [] fd.a = "static" /\ fd.h = "singular" -> IF IsZero(fd, w) THEN v ELSE MergedItem(fd, v, w)
      [] fd.a = "static" /\ fd.h = "optional" ->
           IF w.has THEN [has |-> TRUE, val |-> MergedItem(fd, v.val, w.val)] ELSE v
      [] fd.a = "static" /\ fd.h = "repeated" -> v \o w
      [] fd.a = "pointer" /\ fd.h = "repeated" -> [arr |-> v.arr \/ w.arr, items |-> v.items \o w.items]
      [] fd.h = "oneof" -> w
      [] OTHER -> IF w = <<>> THEN v ELSE w
Merge(fields, m1, m2) ==
    LET which == \E i \in DOMAIN fields : fields[i].h = "oneof" /\ m2[i].has
    IN  [i \in DOMAIN fields |->
           IF fields[i].h = "oneof" /\ ~which THEN m1[i] ELSE MergedField(fields[i], m1[i], m2[i])]
Acceptable(fields, m) == StructFits(fields, m) /\ \A i \in DOMAIN fields : fields[i].h # "fixed"
MergesTo(r, m) == IF Acceptable(Fields(pbType), m) THEN r.s.ok /\ r.v = m ELSE ~r.s.ok
ConcatenationMerges(r) ==
    Intact /\ Len(pbMessages) = 2 => MergesTo(r, Merge(Fields(pbType), pbMessages[1], pbMessages[2]))

\* pb_decode_varint32 (lengths and tags) and pb_decode_varint (values) agree:
\* on the low bits of whatever both accept, and every value of 32 bits, with
\* or without its sign extended to 64, is accepted by the short one as
\* pb_encode_varint writes it.
Agree(wide, short) ==
    wide.s.ok =>
        /\ short.s.ok => short.v = wide.v % 2 ^ Word
        /\ (/\ wide.v < 2 ^ Word \/ wide.v >= 2 ^ Wide - 2 ^ (Word - 1)
            /\ IsPrefix(VarintBytes(wide.v), pbBytes)) => short.s.ok
VarintsAgree == Agree(pb_decode_varint(Istream(pbBytes)), pb_decode_varint32(Istream(pbBytes)))

\* nanopb, for its callers: what is decoded fits the struct and leaks nothing,
\* whatever the bytes; what was encoded reads back, in the size announced,
\* and merges when it comes twice; and every member of a struct is found.
\* Not so where a oneof mixes static and pointer members: when one of these
\* follows one of those, the old bytes are taken for a pointer (wild).
RECURSIVE MixesUnions(_)
MixesUnions(fields) ==
    \/ {"static", "pointer"} \subseteq {fields[i].a : i \in {j \in DOMAIN fields : fields[j].h = "oneof"}}
    \/ \E i \in DOMAIN fields : fields[i].l = "submessage" /\ MixesUnions(fields[i].sub)
Safe(r) == DecodedFits(r) /\ NoLeak(r) /\ ConcatenationMerges(r)
NanopbExact ==
    /\ LayoutExact /\ VarintsAgree /\ SizeExact
    /\ pbType # "none" =>
         \A r \in {Result} :
             /\ RoundTrip(r)
             /\ IF r.s.wild THEN MixesUnions(Fields(pbType)) ELSE Safe(r)
=============================================================================
