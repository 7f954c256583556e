-------------------------------- MODULE Util --------------------------------
(***************************************************************************)
(* Small tools of LevelDB: the generator Random, the Histogram, Status and *)
(* its memory, the buffers of PosixLogger, the cleanups of an Iterator and *)
(* the options DB::Open corrects.  Words, buckets and buffers are smaller  *)
(* than in the code; doubles are exact fractions.                          *)
(***************************************************************************)
EXTENDS Integers, Sequences, FiniteSets, SequencesExt, FiniteSetsExt

CONSTANTS RandBits,      \* 31 in the code: M = 2^31 - 1, a prime
          RandA,         \* 16807 in the code, a generator modulo M
          BucketLimit,   \* kBucketLimit, without its last entry of 1e200
          HugeLimit,     \* that entry
          Sample, MaxSamples,
          Percents,
          StatusCode, MessageLength,   \* codes but kOk, lengths of messages
          MaxStatusCalls,
          SmallBuffer, LargeBuffer, HeaderLength, MaxTextLength,
          MaxCleanups,
          IntBits,       \* bits of an int, to which ClipToRange casts a size_t
          ClipMin, ClipMax,
          kNumNonTableCacheFiles

VARIABLES tool,      \* which tool this behaviour is about
          seed,      \* Random::seed_
          samples,   \* values added to two histograms
          stat,      \* Status objects, their arrays, and what they should say
          text,      \* length of a message for the log and whether it ends a line
          cleanups,  \* Iterator::cleanup_: the first function and the list behind it
          asked      \* a value a client gives an option
utilVars == <<tool, seed, samples, stat, text, cleanups, asked>>

-----------------------------------------------------------------------------
\* Random
M == 2 ^ RandBits - 1
SeedOf(s) == LET r == s % 2 ^ RandBits IN IF r = 0 \/ r = M THEN 1 ELSE r
NextSeedOnce(s) == LET product == s * RandA IN (product \div 2 ^ RandBits) + (product % 2 ^ RandBits)
NextSeed(s) ==
    LET product == s * RandA
        sum == (product \div 2 ^ RandBits) + (product % 2 ^ RandBits)   \* product & M
    IN  IF sum > M THEN sum - M ELSE sum
Uniform(s, n) == NextSeed(s) % n
OneIn(s, n) == Uniform(s, n) = 0
Skewed(s, max_log) == Uniform(NextSeed(s), 2 ^ Uniform(s, max_log + 1))

-----------------------------------------------------------------------------
\* Histogram
Limit == Append(BucketLimit, HugeLimit)
Clear == [min |-> HugeLimit, max |-> 0, num |-> 0, sum |-> 0, squares |-> 0, buckets |-> [b \in DOMAIN Limit |-> 0]]
BucketOf(v) == Min({b \in DOMAIN Limit : b = Len(Limit) \/ v < Limit[b]})
Add(h, v) ==
    [min |-> IF h.min > v THEN v ELSE h.min, max |-> IF h.max < v THEN v ELSE h.max,
     num |-> h.num + 1, sum |-> h.sum + v, squares |-> h.squares + v * v,
     buckets |-> [h.buckets EXCEPT ![BucketOf(v)] = @ + 1]]
MergeHist(h, o) ==
    [min |-> IF o.min < h.min THEN o.min ELSE h.min, max |-> IF o.max > h.max THEN o.max ELSE h.max,
     num |-> h.num + o.num, sum |-> h.sum + o.sum, squares |-> h.squares + o.squares,
     buckets |-> [b \in DOMAIN Limit |-> h.buckets[b] + o.buckets[b]]]
\* A fraction <<n, d>>; NaN is 0/0, which no comparison holds for.
Percentile(h, p) ==
    LET upTo[b \in 0..Len(Limit)] == IF b = 0 THEN 0 ELSE upTo[b - 1] + h.buckets[b]
        here == {b \in DOMAIN Limit : 100 * upTo[b] >= h.num * p}
        b == Min(here)
        left == IF b = 1 THEN 0 ELSE Limit[b - 1]
        den == 100 * h.buckets[b]
        num == left * den + (Limit[b] - left) * (h.num * p - 100 * upTo[b - 1])
    IN  CASE here = {} -> <<h.max, 1>>
          [] here # {} /\ h.buckets[b] = 0 -> <<0, 0>>
          [] here # {} /\ h.buckets[b] # 0 /\ num < h.min * den -> <<h.min, 1>>
          [] here # {} /\ h.buckets[b] # 0 /\ num > h.max * den -> <<h.max, 1>>
          [] OTHER -> <<num, den>>
Average(h) == IF h.num = 0 THEN <<0, 1>> ELSE <<h.sum, h.num>>
Variance(h) == IF h.num = 0 THEN <<0, 1>> ELSE <<h.squares * h.num - h.sum * h.sum, h.num * h.num>>
HistOf(s) == FoldLeft(Add, Clear, s)

-----------------------------------------------------------------------------
\* Status: objects a and b, each with a pointer to an array (0 is NULL, an OK
\* status); an array is code and message.  `says` is what was assigned.
NewState(code, len1, len2) == [code |-> code, size |-> len1 + (IF len2 > 0 THEN 2 + len2 ELSE 0)]
\* operator=: the array is freed before the other one is copied, so both must
\* not be the same.
AssignAliased(s, to, from) ==
    LET p == s.ptr[from] freed == [a \in DOMAIN s.arrays \ {s.ptr[to]} |-> s.arrays[a]]
    IN  IF p = 0 \/ p \notin DOMAIN freed THEN [s EXCEPT !.arrays = freed, !.ptr[to] = 0]
        ELSE [s EXCEPT !.arrays = [a \in DOMAIN freed \cup {s.next} |-> IF a = s.next THEN freed[p] ELSE freed[a]],
                       !.ptr[to] = s.next, !.next = @ + 1]
Assign(s, to, from) == IF s.ptr[to] = s.ptr[from] THEN s ELSE AssignAliased(s, to, from)
\* s = Status(code, msg, msg2): a temporary, assigned and destroyed.
SetStatus(s, to, code, len1, len2) ==
    LET made == [s EXCEPT !.arrays = [a \in DOMAIN @ \cup {s.next} |-> IF a = s.next THEN NewState(code, len1, len2) ELSE @[a]],
                          !.ptr.tmp = s.next, !.next = @ + 1]
        set == Assign(made, to, "tmp")
    IN  [set EXCEPT !.arrays = [a \in DOMAIN @ \ {set.ptr.tmp} |-> @[a]], !.ptr.tmp = 0]
\* ~Status and a new one in its place.
OKStatus(s, to) == [s EXCEPT !.arrays = [a \in DOMAIN @ \ {s.ptr[to]} |-> @[a]], !.ptr[to] = 0]
Code(s, o) == IF s.ptr[o] = 0 THEN "OK" ELSE s.arrays[s.ptr[o]].code
StatusString(s, o) == IF s.ptr[o] = 0 THEN <<"OK", 0>> ELSE <<Code(s, o), s.arrays[s.ptr[o]].size>>
StatusInit == [ptr |-> [a |-> 0, b |-> 0, tmp |-> 0], arrays |-> <<>>, next |-> 1,
               says |-> [a |-> <<"OK", 0>>, b |-> <<"OK", 0>>], calls |-> 0]
StatusStep ==
    /\ stat.calls < MaxStatusCalls
    /\ \E o \in {"a", "b"} :
         \/ \E c \in StatusCode, m \in MessageLength, n \in MessageLength :
              stat' = [SetStatus(stat, o, c, m, n) EXCEPT
                         !.says[o] = <<c, IF n = 0 THEN m ELSE m + n + 2>>, !.calls = @ + 1]
         \/ \E q \in {"a", "b"} : stat' = [Assign(stat, o, q) EXCEPT !.says[o] = stat.says[q], !.calls = @ + 1]
         \/ stat' = [OKStatus(stat, o) EXCEPT !.says[o] = <<"OK", 0>>, !.calls = @ + 1]

-----------------------------------------------------------------------------
\* PosixLogger::Logv.  The line is the header and n characters, the last one a
\* newline if nl.  snprintf returns the length it wanted, writes at most the
\* space there is, and ends with a NUL.
Line(n, nl) == [i \in 1..(HeaderLength + n) |-> IF i = HeaderLength + n /\ nl /\ n > 0 THEN "newline" ELSE "char"]
Printed(bufsize, n, nl) ==
    LET p == IF HeaderLength < bufsize THEN HeaderLength + n ELSE HeaderLength
    IN  [end |-> p, bytes |-> SubSeq(Line(n, nl), 1, Min({p, bufsize - 1}))]
WithNewline(bytes) == IF bytes = <<>> \/ Last(bytes) # "newline" THEN Append(bytes, "newline") ELSE bytes
Logv(n, nl) ==
    LET small == Printed(SmallBuffer, n, nl)
        large == Printed(LargeBuffer, n, nl)
    IN  IF small.end < SmallBuffer THEN [bytes |-> WithNewline(small.bytes), bufsize |-> SmallBuffer]
        ELSE [bytes |-> WithNewline(large.bytes), bufsize |-> LargeBuffer]

-----------------------------------------------------------------------------
\* Iterator::RegisterCleanup and ~Iterator: the first function is in the
\* iterator itself, the others follow, the newest first.
RegisterCleanup(c, f) ==
    IF c.function = 0 THEN [c EXCEPT !.function = f] ELSE [c EXCEPT !.next = <<f>> \o @]
CleanupsRun(c) == IF c.function = 0 THEN <<>> ELSE <<c.function>> \o c.next

\* ClipToRange(T* ptr, V minvalue, V maxvalue): the comparisons are of ints.
AsInt(v) == LET u == v % 2 ^ IntBits IN IF u >= 2 ^ (IntBits - 1) THEN u - 2 ^ IntBits ELSE u
ClipToRange(v, min, max) ==
    LET high == IF AsInt(v) > max THEN max ELSE v
    IN  IF AsInt(high) < min THEN min ELSE high
\* SanitizeOptions: max_open_files is an int, write_buffer_size, max_file_size
\* and block_size are size_t.  TableCacheSize leaves some descriptors over.
SanitizeOptions(v) == [max_open_files |-> ClipToRange(AsInt(v), ClipMin + kNumNonTableCacheFiles, ClipMax),
                       size |-> ClipToRange(v, ClipMin, ClipMax)]
TableCacheSize(options) == options.max_open_files - kNumNonTableCacheFiles

-----------------------------------------------------------------------------
UtilStart(t, s) == /\ tool = t /\ seed = s
                   /\ samples = <<<<>>, <<>>>> /\ stat = StatusInit /\ text = <<0, FALSE>>
                   /\ cleanups = [function |-> 0, next |-> <<>>] /\ asked = 0
UtilInit == \/ \E t \in {"histogram", "status", "logger", "cleanup", "options"} : UtilStart(t, 1)
            \/ \E s \in 0..(2 ^ (RandBits + 1)) : UtilStart("random", SeedOf(s))
UtilNext ==
    /\ UNCHANGED tool
    /\ \/ tool = "random" /\ seed' = NextSeed(seed)
       \/ tool # "random" /\ UNCHANGED seed
    /\ \/ /\ tool = "histogram" /\ Len(samples[1]) + Len(samples[2]) < MaxSamples
          /\ \E i \in 1..2, v \in Sample : samples' = [samples EXCEPT ![i] = Append(@, v)]
       \/ tool # "histogram" /\ UNCHANGED samples
    /\ \/ tool = "status" /\ StatusStep
       \/ tool # "status" /\ UNCHANGED stat
    /\ \/ tool = "logger" /\ \E n \in 0..MaxTextLength, nl \in BOOLEAN : text' = <<n, nl>>
       \/ tool # "logger" /\ UNCHANGED text
    /\ \/ /\ tool = "cleanup" /\ Len(cleanups.next) + 1 < MaxCleanups
          /\ cleanups' = RegisterCleanup(cleanups, Len(CleanupsRun(cleanups)) + 1)
       \/ tool # "cleanup" /\ UNCHANGED cleanups
    /\ \/ tool = "options" /\ asked < 2 ^ (IntBits + 1) /\ asked' = asked + 1
       \/ tool # "options" /\ UNCHANGED asked
UtilSpec == UtilInit /\ [][UtilNext]_utilVars

-----------------------------------------------------------------------------
\* The reduction by shifting and one subtraction is the remainder modulo M,
\* the seed never falls into 0 or M, where it would stay, and a skewed number
\* stays below 2^max_log.
RandomExact ==
    /\ seed \in 1..(M - 1)
    /\ NextSeed(seed) = (seed * RandA) % M
    /\ \A l \in 0..RandBits : Skewed(seed, l) \in 0..(2 ^ l - 1)

\* Merging histograms is adding all their values, in whatever order; a
\* percentile lies in the bucket of the value of its rank, between min and
\* max, and grows with p.  No deviation has a negative square.
HistogramExact ==
    LET all == samples[1] \o samples[2]
        h == HistOf(all)
        LE(x, y) == x[1] * y[2] <= y[1] * x[2]
        Rank(p) == {v \in Range(all) : /\ 100 * Len(SelectSeq(all, LAMBDA w : w <= v)) >= p * Len(all)
                                       /\ 100 * Len(SelectSeq(all, LAMBDA w : w < v)) < p * Len(all)}
    IN  /\ MergeHist(HistOf(samples[1]), HistOf(samples[2])) = h
        /\ MergeHist(HistOf(samples[2]), HistOf(samples[1])) = h
        /\ Variance(h)[1] >= 0
        /\ all # <<>> => \A p \in Percents :
             LET r == Percentile(h, p)
             IN  /\ LE(<<h.min, 1>>, r) /\ LE(r, <<h.max, 1>>)
                 /\ \E v \in Rank(p) : LET b == BucketOf(v)
                                       IN  /\ b > 1 => LE(<<Limit[b - 1], 1>>, r)
                                           /\ LE(r, <<Limit[b], 1>>)
                 /\ \A q \in Percents : p <= q => LE(r, Percentile(h, q))

\* However statuses are copied, also onto themselves, each owns its array
\* alone, none is lost or used after it is freed, and it says what was
\* assigned to it last.
StatusExact ==
    /\ DOMAIN stat.arrays = {stat.ptr[o] : o \in DOMAIN stat.ptr} \ {0}
    /\ \A o, q \in DOMAIN stat.ptr : stat.ptr[o] = stat.ptr[q] => o = q \/ stat.ptr[o] = 0
    /\ \A o \in {"a", "b"} : StatusString(stat, o) = stat.says[o]

\* A log entry stays in its buffer and ends in one newline of its own or of
\* the message; all of it is written unless the large buffer is too small.
LoggerExact ==
    LET out == Logv(text[1], text[2])
        line == Line(text[1], text[2])
    IN  /\ Len(out.bytes) <= out.bufsize /\ Last(out.bytes) = "newline"
        /\ Len(line) < LargeBuffer => out.bytes = WithNewline(line)
        /\ Len(SelectSeq(out.bytes, LAMBDA c : c = "newline")) = 1

\* The cleanups of an iterator (DBImpl's unreferences a version and its
\* memtables, the table cache's releases a handle) all run, once each.
CleanupExact ==
    LET run == CleanupsRun(cleanups)
    IN  /\ {run[i] : i \in DOMAIN run} = 1..Len(run)
        /\ cleanups.function = 0 => cleanups.next = <<>>

\* "Fix user-supplied options to be reasonable": in their range, the nearest
\* value of it or the one given, and a table cache of some size.  Of the sizes
\* only those count that an int can tell apart: from 2^IntBits on the cast
\* lets values through (4 GB and 64 KB look like 64 KB).
OptionsExact ==
    LET o == SanitizeOptions(asked)
    IN  /\ TableCacheSize(o) >= ClipMin /\ o.max_open_files <= ClipMax
        /\ asked < 2 ^ (IntBits - 1) => o.size = Max({ClipMin, Min({ClipMax, asked})})
        /\ asked < 2 ^ IntBits => o.size \in ClipMin..ClipMax

\* The tools, each with its own behaviours.
UtilExact == CASE tool = "random" -> RandomExact
               [] tool = "histogram" -> HistogramExact
               [] tool = "status" -> StatusExact
               [] tool = "logger" -> LoggerExact
               [] tool = "cleanup" -> CleanupExact
               [] tool = "options" -> OptionsExact
=============================================================================
