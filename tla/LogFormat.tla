----------------------------- MODULE LogFormat ------------------------------
(***************************************************************************)
(* LevelDB's log files (the write-ahead log and the manifest): log::Writer *)
(* cuts records into fragments that never cross a block, log::Reader puts  *)
(* them together again after a crash tore the end of the file off, a block *)
(* was damaged, or a later process went on writing where the file ended.   *)
(*                                                                         *)
(* A file is a sequence of bytes.  A byte is known by what it was written  *)
(* as: the j-th byte of a header, byte b of record r, padding, or damage.  *)
(* The checksum accepts exactly what was written as one fragment.          *)
(***************************************************************************)
EXTENDS Integers, Sequences, SequencesExt, FiniteSetsExt

CONSTANTS BlockSize, HeaderSize,   \* kBlockSize, kHeaderSize
          Length,                  \* lengths of the records written
          MaxRecords, MaxLogFaults

ASSUME LogAssumption ==
    /\ HeaderSize \in Nat \ {0} /\ BlockSize \in Nat /\ BlockSize > HeaderSize
    /\ Length \subseteq Nat /\ MaxRecords \in Nat /\ MaxLogFaults \in Nat

VARIABLES
    logFile,     \* the bytes
    logOffset,   \* Writer::block_offset_; -1: no writer
    logRecords,  \* of each record added: length, where its header and its end are
    logBad,      \* blocks with a damaged byte, or written on after a torn end
    logTorn,     \* the file ends inside a record
    logFaults    \* crashes and damages so far
logVars == <<logFile, logOffset, logRecords, logBad, logTorn, logFaults>>

Pad == [k |-> "pad", j |-> 0, type |-> "zero", len |-> 0, r |-> 0, b |-> 0]
Damaged == [Pad EXCEPT !.k = "bad"]
HeaderByte(j, type, len, r, b) == [k |-> "head", j |-> j, type |-> type, len |-> len, r |-> r, b |-> b]
DataByte(r, b) == [Pad EXCEPT !.k = "data", !.r = r, !.b = b]
Payload(r, b, n) == [i \in 1..n |-> DataByte(r, b + i - 1)]

-----------------------------------------------------------------------------
\* Writer::EmitPhysicalRecord: a header and n bytes of record r from byte b on
EmitPhysicalRecord(type, r, b, n) ==
    [j \in 1..HeaderSize |-> HeaderByte(j, type, n, r, b)] \o Payload(r, b, n)

\* mutant: every fragment is taken for the first of its record
FragmentForgetsBegin(off, begin, r, b, left) ==
    LET leftover == BlockSize - off
        pad == IF leftover < HeaderSize THEN [i \in 1..leftover |-> Pad] ELSE <<>>
        start == IF leftover < HeaderSize THEN 0 ELSE off
        n == Min({left, BlockSize - start - HeaderSize})
        type == IF n = left THEN "full" ELSE "first"
    IN  [bytes |-> pad \o EmitPhysicalRecord(type, r, b, n), off |-> start + HeaderSize + n, n |-> n]
\* Writer::AddRecord: the bytes written, from block_offset_ off, for the left
\* bytes of record r from byte b on.
Fragment(off, begin, r, b, left) ==
    LET leftover == BlockSize - off
        pad == IF leftover < HeaderSize THEN [i \in 1..leftover |-> Pad] ELSE <<>>
        start == IF leftover < HeaderSize THEN 0 ELSE off
        n == Min({left, BlockSize - start - HeaderSize})
        type == IF begin THEN IF n = left THEN "full" ELSE "first" ELSE IF n = left THEN "last" ELSE "middle"
    IN  [bytes |-> pad \o EmitPhysicalRecord(type, r, b, n), off |-> start + HeaderSize + n, n |-> n]
RECURSIVE AddBytes(_, _, _, _, _)
Joined(f, rest) == [bytes |-> f.bytes \o rest.bytes, off |-> rest.off]
Continued(f, r, b, left) ==
    IF left = f.n THEN [bytes |-> f.bytes, off |-> f.off]
    ELSE Joined(f, AddBytes(f.off, FALSE, r, b + f.n, left - f.n))
AddBytes(off, begin, r, b, left) == Continued(Fragment(off, begin, r, b, left), r, b, left)

-----------------------------------------------------------------------------
(* The reader.  rd: the unread bytes of the block in memory (buffer_), how *)
(* much of the file was read (end_of_buffer_offset_), eof_, resyncing_,    *)
(* the bytes of an unfinished record (scratch; frag: there is one) and its *)
(* offset, the records returned, and whether a drop was surely reported (a *)
(* header of garbage at the end of the file may pass for a torn one).      *)

Rest(s, n) == SubSeq(s, n + 1, Len(s))

\* ReadPhysicalRecord: what the header says, and whether the checksum agrees.
HeaderOK(buf) ==
    LET h == buf[1] IN h.k = "head" /\ \A j \in 1..HeaderSize : buf[j] = [h EXCEPT !.j = j]
FragmentOK(buf) ==
    LET h == buf[1]
    IN  SubSeq(buf, HeaderSize + 1, HeaderSize + h.len) = Payload(h.r, h.b, h.len)

\* A step of its loop: reads a block, or returns a type with a fragment.
ReadLogBlock(file, rd) ==
    LET n == Min({BlockSize, Len(file) - rd.end})
    IN  [rd EXCEPT !.buf = SubSeq(file, rd.end + 1, rd.end + n), !.end = @ + n, !.eof = n < BlockSize]

\* No fragment: the rest of the block is dropped, with or without a report.
BadRecord(rd, drop) ==
    [type |-> "bad", bytes |-> <<>>, start |-> 0, drop |-> drop, rd |-> [rd EXCEPT !.buf = <<>>]]
Eof(rd) == [BadRecord(rd, FALSE) EXCEPT !.type = "eof"]

\* A sound fragment that starts at start, with header h; before the initial
\* offset it is passed over.
Sound(rd, h, start, initial) ==
    IF start < initial THEN [BadRecord(rd, FALSE) EXCEPT !.rd.buf = Rest(rd.buf, HeaderSize + h.len)]
    ELSE [type |-> h.type, bytes |-> SubSeq(rd.buf, HeaderSize + 1, HeaderSize + h.len), start |-> start,
          drop |-> FALSE, rd |-> [rd EXCEPT !.buf = Rest(@, HeaderSize + h.len)]]
Physical(rd, headerOK, initial) ==
    CASE headerOK /\ HeaderSize + rd.buf[1].len > Len(rd.buf) -> IF rd.eof THEN Eof(rd) ELSE BadRecord(rd, TRUE)
      [] ~headerOK -> BadRecord(rd, ~rd.eof /\ \E j \in 1..HeaderSize : rd.buf[j] # Pad)
      [] headerOK /\ HeaderSize + rd.buf[1].len <= Len(rd.buf) ->
           IF FragmentOK(rd.buf) THEN Sound(rd, rd.buf[1], rd.end - Len(rd.buf), initial) ELSE BadRecord(rd, TRUE)
RECURSIVE ReadPhysicalRecord(_, _, _)
ReadPhysicalRecord(file, rd, initial) ==
    IF Len(rd.buf) < HeaderSize
    THEN IF rd.eof THEN Eof(rd) ELSE ReadPhysicalRecord(file, ReadLogBlock(file, rd), initial)
    ELSE Physical(rd, HeaderOK(rd.buf), initial)

Returned(rd, bytes, start) ==
    [rd EXCEPT !.out = Append(@, [bytes |-> bytes, start |-> start]), !.frag = FALSE, !.scratch = <<>>]

\* ReadRecord, called until it returns false: p, what ReadPhysicalRecord gave.
Collected(rd, p, partial) ==
    CASE p.type = "full" -> Returned([rd EXCEPT !.drops = @ \/ partial], p.bytes, p.start)
      [] p.type = "first" ->
           [rd EXCEPT !.drops = @ \/ partial, !.scratch = p.bytes, !.frag = TRUE, !.at = p.start]
      [] p.type \in {"middle", "last"} /\ ~rd.frag -> [rd EXCEPT !.drops = TRUE]
      [] p.type = "middle" /\ rd.frag -> [rd EXCEPT !.scratch = @ \o p.bytes]
      [] p.type = "last" /\ rd.frag -> Returned(rd, rd.scratch \o p.bytes, rd.at)
      [] p.type = "bad" -> [rd EXCEPT !.drops = @ \/ rd.frag, !.frag = FALSE, !.scratch = <<>>]
RECURSIVE ReadRecords(_, _, _)
NextRecord(file, p, rd, skip, initial) ==
    IF p.type = "eof" THEN rd
    ELSE ReadRecords(file, IF skip THEN rd ELSE Collected(rd, p, rd.frag /\ rd.scratch # <<>>), initial)
AfterPhysical(file, p, initial) ==
    NextRecord(file, p, [p.rd EXCEPT !.drops = @ \/ p.drop, !.resync = @ /\ p.type = "middle"],
               p.rd.resync /\ p.type \in {"middle", "last"}, initial)
ReadRecords(file, rd, initial) == AfterPhysical(file, ReadPhysicalRecord(file, rd, initial), initial)

\* SkipToInitialBlock
InitialBlock(initial) ==
    LET o == initial % BlockSize
    IN  (initial - o) + IF o > BlockSize - (HeaderSize - 1) THEN BlockSize ELSE 0

Read(file, initial) ==
    ReadRecords(file, [buf |-> <<>>, end |-> Min({InitialBlock(initial), Len(file)}), eof |-> FALSE,
                       resync |-> initial > 0, frag |-> FALSE, scratch |-> <<>>, at |-> 0,
                       out |-> <<>>, drops |-> FALSE], initial)

\* PrintLogContents: every record with the offset it starts at (LastRecordOffset).
RecordPrinted(rd) ==
    [records |-> [i \in DOMAIN rd.out |-> [offset |-> rd.out[i].start, record |-> rd.out[i].bytes]],
     corruption |-> rd.drops]
PrintLogContents(file) == RecordPrinted(Read(file, 0))

-----------------------------------------------------------------------------
LogInit ==
    /\ logFile = <<>> /\ logOffset = 0 /\ logRecords = <<>>
    /\ logBad = {} /\ logTorn = FALSE /\ logFaults = 0

BlockOf(n) == (n - 1) \div BlockSize

\* A record added to the file, all of it.
AddRecord(len) ==
    /\ logOffset # -1 /\ Len(logRecords) < MaxRecords
    /\ \E a \in {AddBytes(logOffset, TRUE, Len(logRecords) + 1, 1, len)} :
         /\ logFile' = logFile \o a.bytes
         /\ logOffset' = a.off
         /\ logRecords' = Append(logRecords,
              [len |-> len, end |-> Len(logFile) + Len(a.bytes),
               start |-> Len(logFile) + IF BlockSize - logOffset < HeaderSize THEN BlockSize - logOffset ELSE 0])
    /\ UNCHANGED <<logBad, logTorn, logFaults>>

\* The process or the machine dies: the file keeps a prefix.  Records behind
\* it are gone for good.
LogCrash(n) ==
    LET kept == SelectSeq(logRecords, LAMBDA x : x.end <= n)
    IN  /\ logOffset # -1 /\ logFaults < MaxLogFaults /\ logFaults' = logFaults + 1
        /\ logFile' = SubSeq(logFile, 1, n)
        /\ logOffset' = -1
        /\ logTorn' = (n > Max({0} \cup {kept[i].end : i \in DOMAIN kept}))
        /\ logRecords' = [i \in DOMAIN logRecords |->
                            [logRecords[i] EXCEPT !.end = IF @ <= n THEN @ ELSE 0]]
        /\ UNCHANGED logBad

\* DB::Open with reuse_logs: a writer that goes on at the end of the file.
Reuse ==
    /\ logOffset = -1
    /\ logOffset' = Len(logFile) % BlockSize
    /\ logBad' = IF logTorn THEN logBad \cup {BlockOf(Len(logFile))} ELSE logBad
    /\ logTorn' = FALSE
    /\ UNCHANGED <<logFile, logRecords, logFaults>>

\* A byte of the file goes bad.
Damage(i) ==
    /\ logFaults < MaxLogFaults /\ logFaults' = logFaults + 1
    /\ logFile' = [logFile EXCEPT ![i] = Damaged]
    /\ logBad' = logBad \cup {BlockOf(i)}
    /\ UNCHANGED <<logOffset, logRecords, logTorn>>

LogNext ==
    \/ \E len \in Length : AddRecord(len)
    \/ \E n \in 0..Len(logFile) : LogCrash(n)
    \/ Reuse
    \/ \E i \in DOMAIN logFile : Damage(i)

LogSpec == LogInit /\ [][LogNext]_logVars

-----------------------------------------------------------------------------
Whole == {r \in DOMAIN logRecords : logRecords[r].end > 0}
BlocksOf(r) == BlockOf(logRecords[r].start + 1)..BlockOf(logRecords[r].end)
IsRecord(bytes, r) == bytes = Payload(r, 1, logRecords[r].len)
ReadIds(rd) ==
    {r \in Whole : \E i \in DOMAIN rd.out :
                    rd.out[i].start = logRecords[r].start /\ IsRecord(rd.out[i].bytes, r)}

\* Writer::block_offset_ is where the file ends in its block, also in a writer
\* that took the file over, and every record not lost is inside the file.
LogTypeOK ==
    /\ logOffset = -1 \/ (logOffset % BlockSize = Len(logFile) % BlockSize /\ logOffset <= BlockSize)
    /\ \A r \in Whole : logRecords[r].end <= Len(logFile)

\* Whatever was torn off or damaged, ReadRecord returns records that were
\* added whole, in their order: no fragments of two records are joined, and
\* none of a record half torn off (recovery replays what is returned), each at
\* the offset where it was added.
OnlyWrittenRead(out) ==
    \A i \in DOMAIN out :
      /\ \E r \in Whole : IsRecord(out[i].record, r) /\ out[i].offset = logRecords[r].start
      /\ i > 1 => out[i - 1].offset < out[i].offset

\* ReadRecord finds every record that lies in sound blocks, however the
\* blocks before it look, and reports nothing of a torn end (a crash is no
\* corruption: with paranoid_checks a report would refuse the database).
UndamagedRead(rd) ==
    /\ \A r \in Whole : BlocksOf(r) \cap logBad = {} => r \in ReadIds(rd)
    /\ logBad = {} => ~rd.drops

\* A record that is added, in the file and not returned is reported as
\* dropped, unless what is wrong is in the last block: there a damaged length
\* passes for a torn end.
NoSilentLoss(rd) == Whole \subseteq ReadIds(rd) \/ rd.drops \/ BlockOf(Len(logFile)) \in logBad

\* A Reader opened at an initial_offset returns exactly the records whose
\* header is at or after it: no tail of an earlier one, none skipped with it.
ReadFromOffset ==
    logBad = {} => \A n \in 0..Len(logFile) :
                     ReadIds(Read(logFile, n)) = {r \in Whole : logRecords[r].start >= n}

\* The log, for recovery: however a file was torn off, damaged and written on,
\* the writer goes on at the right place in its block, and ReadRecord returns
\* what was written, all of it that is sound, reports what it drops, and
\* starts at the record it is asked to.
LogExact ==
    /\ LogTypeOK /\ ReadFromOffset
    /\ \A rd \in {Read(logFile, 0)} : UndamagedRead(rd) /\ NoSilentLoss(rd)
    /\ OnlyWrittenRead(PrintLogContents(logFile).records)
=============================================================================
