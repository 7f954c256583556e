-------------------------------- MODULE Arena --------------------------------
(***************************************************************************)
(* LevelDB's Arena, from which a memtable takes its entries and its skip   *)
(* list nodes: blocks of kBlockSize handed out from the front, an object   *)
(* of its own for what is more than a quarter of a block.  Addresses are   *)
(* numbers; new char[] returns aligned memory that overlaps nothing.       *)
(***************************************************************************)
EXTENDS Integers, Sequences, FiniteSets, SequencesExt

CONSTANTS
    kBlockSize,
    ArenaAlign,       \* sizeof(void*), and the alignment
    ArenaBytes,       \* sizes asked for
    MaxAllocations    \* bound on calls

ASSUME ArenaAssumption ==
    /\ {kBlockSize, ArenaAlign, MaxAllocations} \subseteq Nat \ {0}
    /\ ArenaBytes \subseteq Nat \ {0}

VARIABLE arena
\* alloc_ptr_, alloc_bytes_remaining_, blocks_, memory_usage_, and what was
\* handed out
ArenaInit == arena = [ptr |-> 0, remaining |-> 0, blocks |-> <<>>, usage |-> 0, given |-> <<>>]

RoundUp(a) == ((a + ArenaAlign - 1) \div ArenaAlign) * ArenaAlign
End(r) == r.at + r.size

\* AllocateNewBlock: new char[], at the next aligned address or further on
NewBlocks(size) ==
    LET last == IF arena.blocks = <<>> THEN ArenaAlign ELSE End(Last(arena.blocks))
    IN  {[at |-> RoundUp(last) + gap, size |-> size] : gap \in {0, ArenaAlign}}
AllocateNewBlock(block) ==
    [arena EXCEPT !.blocks = Append(@, block), !.usage = @ + block.size + ArenaAlign]

Given(a, at, bytes, aligned) == [a EXCEPT !.given = Append(@, [at |-> at, size |-> bytes, aligned |-> aligned])]
\* The arenas a call may leave behind: one for each place of the new block
AllocateFallback(bytes, aligned) ==
    IF bytes > kBlockSize \div 4
    THEN {Given(AllocateNewBlock(b), b.at, bytes, aligned) : b \in NewBlocks(bytes)}
    ELSE {Given([AllocateNewBlock(b) EXCEPT !.ptr = b.at + bytes, !.remaining = kBlockSize - bytes], b.at, bytes, aligned)
            : b \in NewBlocks(kBlockSize)}

\* The next bytes of the current block, after slop bytes
FromBlock(bytes, slop, aligned) ==
    Given([arena EXCEPT !.ptr = @ + slop + bytes, !.remaining = @ - slop - bytes], arena.ptr + slop, bytes, aligned)

Allocate(bytes) ==
    IF bytes <= arena.remaining THEN arena' = FromBlock(bytes, 0, FALSE)
    ELSE arena' \in AllocateFallback(bytes, FALSE)

\* mutant: the slop is left out of what must fit
AllocateAlignedNoSlop(bytes) ==
    LET slop == RoundUp(arena.ptr) - arena.ptr
    IN  IF bytes <= arena.remaining THEN arena' = FromBlock(bytes, slop, TRUE)
        ELSE arena' \in AllocateFallback(bytes, TRUE)
AllocateAligned(bytes) ==
    LET slop == RoundUp(arena.ptr) - arena.ptr
    IN  IF bytes + slop <= arena.remaining THEN arena' = FromBlock(bytes, slop, TRUE)
        ELSE arena' \in AllocateFallback(bytes, TRUE)

ArenaNext ==
    /\ Len(arena.given) < MaxAllocations
    /\ \E bytes \in ArenaBytes : Allocate(bytes) \/ AllocateAligned(bytes)
ArenaSpec == ArenaInit /\ [][ArenaNext]_arena

-----------------------------------------------------------------------------
(* Properties *)

Inside(r, block) == block.at <= r.at /\ End(r) <= End(block)
Blocks == {arena.blocks[i] : i \in DOMAIN arena.blocks}

\* Two entries or nodes of a memtable never share a byte, each lies in one of
\* the arena's blocks, and the nodes, which hold pointers, are aligned,
\* however the two kinds of request and the two kinds of block alternate.
ArenaDisjoint ==
    /\ \A i \in DOMAIN arena.given :
         LET r == arena.given[i]
         IN  /\ \E b \in Blocks : Inside(r, b)
             /\ r.aligned => r.at % ArenaAlign = 0
             /\ \A j \in 1..(i - 1) : End(r) <= arena.given[j].at \/ End(arena.given[j]) <= r.at

\* The room left is in a block after everything handed out of it, a block is
\* given up with less than a quarter (and the slop) unused, and MemoryUsage,
\* by which MakeRoomForWrite switches memtables, counts every block.
Current(b) == arena.remaining > 0 /\ End(b) = arena.ptr + arena.remaining
Bytes(r) == r.at .. (End(r) - 1)
BytesUsed(given, b) == {x \in Bytes(b) : \E i \in DOMAIN given : x \in Bytes(given[i])}
AlignedIn(given, b) == {i \in DOMAIN given : given[i].aligned /\ Inside(given[i], b)}
Slop(given, b) == Cardinality(AlignedIn(given, b)) * (ArenaAlign - 1)
ArenaWaste ==
    /\ arena.remaining > 0 =>
         \E b \in Blocks : /\ Current(b)
                           /\ \A i \in DOMAIN arena.given : Inside(arena.given[i], b) => End(arena.given[i]) <= arena.ptr
    /\ \A b \in Blocks :
         ~Current(b) => b.size - Cardinality(BytesUsed(arena.given, b)) < (kBlockSize \div 4) + ArenaAlign + Slop(arena.given, b)
    /\ arena.usage = Cardinality(UNION {Bytes(b) : b \in Blocks}) + Len(arena.blocks) * ArenaAlign

\* A memtable's memory: no two objects overlap, and little is wasted.
ArenaExact == ArenaDisjoint /\ ArenaWaste
=============================================================================
