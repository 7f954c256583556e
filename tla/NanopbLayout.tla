---------------------------- MODULE NanopbLayout ----------------------------
(***************************************************************************)
(* How nanopb finds the members of a struct.  A generated header describes *)
(* a struct by the PB_FIELD macros: each descriptor has the distance from  *)
(* the end of the member before and the distance to its has_, _count or    *)
(* which_ member; pb_field_iter_t adds these up again.  The C compiler's   *)
(* layout is modelled with natural alignment.                              *)
(***************************************************************************)
EXTENDS Integers, Sequences, SequencesExt, FiniteSetsExt

CONSTANTS MemberKinds,   \* [rules, alloc, size, max, union]; union 0 outside a oneof
          MaxMembers,
          PointerSize, CallbackSize,
          PB_SIZE_MAX
VARIABLE members         \* the fields of a message as declared
layoutVars == <<members>>

-----------------------------------------------------------------------------
(* The struct *)

MemberSize(d) ==
    CASE d.alloc = "pointer" -> PointerSize
      [] d.alloc = "callback" -> CallbackSize
      [] d.alloc = "static" /\ d.rules \in {"repeated", "fixed"} -> d.size * d.max
      [] OTHER -> d.size
Alignment(d) == IF d.alloc = "static" THEN d.size ELSE PointerSize
\* has_, _count or which_ before the member
HasSize(d) == \/ d.rules = "oneof"
              \/ d.rules = "optional" /\ d.alloc = "static"
              \/ d.rules = "repeated" /\ d.alloc # "callback"
RoundUp(n, a) == ((n + a - 1) \div a) * a
SameUnion(ds, i) == i > 1 /\ ds[i].union # 0 /\ ds[i - 1].union = ds[i].union
Together(ds, i) == IF ds[i].union = 0 THEN {ds[i]} ELSE {d \in Range(ds) : d.union = ds[i].union}
Struct(ds) ==
    LET place[i \in 0..Len(ds)] ==
          IF i = 0 THEN [size |-> 0, at |-> 0, end |-> 0]
          ELSE IF SameUnion(ds, i) THEN place[i - 1]
          ELSE LET alignment == Max({Alignment(d) : d \in Together(ds, i)})
                   from == place[i - 1].end
                   at == RoundUp(IF HasSize(ds[i]) THEN from + 1 ELSE from, alignment)
               IN  [size |-> from, at |-> at,
                    end |-> at + RoundUp(Max({MemberSize(d) : d \in Together(ds, i)}), alignment)]
    IN  place

-----------------------------------------------------------------------------
(* The descriptors *)

\* PB_DATAOFFSET_FIRST, _UNION, _OTHER
DataOffset(ds, i) ==
    CASE i = 1 -> Struct(ds)[1].at
      [] i > 1 /\ SameUnion(ds, i) -> PB_SIZE_MAX
      [] OTHER -> (Struct(ds)[i].at - Struct(ds)[i - 1].at - MemberSize(ds[i - 1])) % (PB_SIZE_MAX + 1)
\* PB_<rules>_<allocation>, PB_REPEATED_FIXED_COUNT, PB_ONEOF_<allocation>
PB_FIELD(ds, i) ==
    LET d == ds[i]
    IN  [tag |-> i, a |-> d.alloc, data_offset |-> DataOffset(ds, i),
         h |-> CASE d.rules = "singular" -> "optional" [] d.rules = "fixed" -> "repeated" [] OTHER -> d.rules,
         size_offset |-> IF HasSize(d) THEN Struct(ds)[i].size - Struct(ds)[i].at ELSE 0,
         data_size |-> IF d.alloc = "callback" THEN CallbackSize ELSE d.size,
         array_size |-> IF d.alloc = "static" /\ d.rules \in {"repeated", "fixed"} THEN d.max ELSE 0]
PB_LAST_FIELD == [tag |-> 0, a |-> "static", h |-> "required", data_offset |-> 0, size_offset |-> 0,
                  data_size |-> 0, array_size |-> 0]
Descriptors(ds) == Append([i \in DOMAIN ds |-> PB_FIELD(ds, i)], PB_LAST_FIELD)

-----------------------------------------------------------------------------
(* The iterator *)

pb_field_iter_begin(fs) ==
    [pos |-> 1, required |-> 0, pData |-> fs[1].data_offset, pSize |-> fs[1].data_offset + fs[1].size_offset]
PreviousSize(f) ==
    IF f.a = "static" /\ f.h = "repeated" THEN f.data_size * f.array_size
    ELSE IF f.a = "pointer" THEN PointerSize ELSE f.data_size
pb_field_iter_next(fs, it) ==
    LET prev == fs[it.pos]
        next == fs[it.pos + 1]
        pData == it.pData + PreviousSize(prev) + next.data_offset
    IN  IF prev.tag = 0 THEN it
        ELSE IF next.tag = 0 THEN pb_field_iter_begin(fs)
        ELSE IF prev.h = "oneof" /\ next.h = "oneof" /\ next.data_offset = PB_SIZE_MAX THEN [it EXCEPT !.pos = @ + 1]
        ELSE [pos |-> it.pos + 1, required |-> it.required + (IF prev.h = "required" THEN 1 ELSE 0),
              pData |-> pData, pSize |-> pData + next.size_offset]
\* The iterator after n steps, and where pb_field_iter_find stops
Steps(fs, it, n) == FoldLeft(LAMBDA j, k : pb_field_iter_next(fs, j), it, [k \in 1..n |-> k])
FindStops(fs, at, from, tag) == fs[at.pos].tag = tag \/ at.pos = from.pos
Found(fs, end, tag) == [it |-> end, found |-> fs[end.pos].tag = tag]
pb_field_iter_find(fs, it, tag) ==
    IF fs[it.pos].tag = tag THEN Found(fs, it, tag)
    ELSE Found(fs, Steps(fs, it, Min({k \in 1..Len(fs) : FindStops(fs, Steps(fs, it, k), it, tag)})), tag)

-----------------------------------------------------------------------------
LayoutInit == members = <<>>
\* The members of a oneof are declared together.
LayoutNext ==
    /\ Len(members) < MaxMembers
    /\ \E d \in MemberKinds :
         /\ d.union # 0 /\ members # <<>> /\ d.union # Last(members).union => \A e \in Range(members) : e.union # d.union
         /\ members' = Append(members, d)

\* Wherever it starts and however often it wraps, the iterator stands at the
\* address the compiler gave the member and at that member's own has_, _count
\* or which_, with the number of required fields before it (decode uses it to
\* tell which ones came); find gets to the one field with the tag or back.
RightPlace(it) ==
    it.pos \in DOMAIN members =>
      /\ it.pData = Struct(members)[it.pos].at
      /\ HasSize(members[it.pos]) => it.pSize = Struct(members)[it.pos].size
      /\ it.required = Cardinality({i \in 1..(it.pos - 1) : members[i].rules = "required"})
RightFind(r, tag) == r.found = (tag <= Len(members)) /\ RightPlace(r.it)
LayoutExact ==
    \A fs \in {Descriptors(members)}, n \in 0..Len(members) :
      \A it \in {Steps(fs, pb_field_iter_begin(fs), n)} :
         /\ RightPlace(it)
         /\ members # <<>> => it.pos = (n % Len(members)) + 1
         /\ \A tag \in 1..(Len(members) + 1) : RightFind(pb_field_iter_find(fs, it, tag), tag)
=============================================================================
