------------------------------ MODULE Transfer ------------------------------
(***************************************************************************)
(* How a range of a file's bytes becomes device transfers: the splits of   *)
(* src/src/file.rs and src/src/fs.rs, and the staging of src/src/bridge.rs *)
(*                                                                         *)
(* A device is a function from byte addresses to bytes.  A transfer is the *)
(* block it starts at and the blocks it moves.                             *)
(***************************************************************************)
EXTENDS Integers, Sequences, SequencesExt

CONSTANTS BLOCK_SIZE,         \* bytes in a block
          SMALL_SPAN_BLOCKS,  \* blocks a small ragged read is staged through
          ZERO_CHUNK,         \* bytes of zeros written per pass
          ClusterBlocks,      \* blocks in a cluster
          DataStart,          \* the first block of cluster 2
          ClusterCount,       \* clusters of the volume
          MaxU32              \* u32::MAX

ASSUME TransferAssumption ==
    /\ {BLOCK_SIZE, SMALL_SPAN_BLOCKS, ZERO_CHUNK, ClusterBlocks, MaxU32} \subseteq Nat \ {0}
    /\ {DataStart, ClusterCount} \subseteq Nat
    /\ ClusterCount + 1 <= MaxU32

ClusterBytes == ClusterBlocks * BLOCK_SIZE
ClusterBlock(cluster) == DataStart + (cluster - 2) * ClusterBlocks
IsValidCluster(cluster) == cluster \in 2 .. ClusterCount + 1

Least(a, b)    == IF a < b THEN a ELSE b
AtLeast1(n)    == IF n = 0 THEN 1 ELSE n
CeilDiv(n, d)  == (n + d - 1) \div d
Transfer(block, blocks) == [block |-> block, blocks |-> blocks]

\* The pieces of at most `size` that n falls into: offset and length.
Chunks(n, size) ==
    [k \in 1 .. CeilDiv(n, size) |->
        [at |-> (k - 1) * size, length |-> Least(size, n - (k - 1) * size)]]

\* read_blocks and write_blocks: one transfer unless the device's limit is
\* lower; a limit of 0 counts as 1.
Blocks(limit, block, n) ==
    [k \in DOMAIN Chunks(n, AtLeast1(limit)) |->
        LET chunk == Chunks(n, AtLeast1(limit))[k] IN Transfer(block + chunk.at, chunk.length)]

Bytes(device, from, length) == [k \in 1 .. length |-> device[from + k - 1]]
Patched(device, from, data) ==
    [a \in DOMAIN device |->
        IF a \in from .. from + Len(data) - 1 THEN data[a - from + 1] ELSE device[a]]

\* The parts of a span that starts `skip` bytes into a block: what is left of
\* that block, whole blocks, and what is left over.
Parts(skip, length) ==
    LET lead  == IF skip = 0 THEN 0 ELSE Least(BLOCK_SIZE - skip, length)
        whole == (length - lead) \div BLOCK_SIZE
    IN  [lead |-> lead, whole |-> whole, tail |-> length - lead - whole * BLOCK_SIZE]

\* Mutant of ReadSpan: the last partial block is read from the first's place.
ReadSpanTailEarly(device, limit, first, skip, length) ==
    LET parts == Parts(skip, length)
    IN  [data  |-> Bytes(device, first * BLOCK_SIZE + skip, length - parts.tail)
                      \o Bytes(device, (first + parts.whole) * BLOCK_SIZE, parts.tail),
         calls |-> Blocks(limit, first, CeilDiv(skip + length, BLOCK_SIZE))]

\* read_span: a small ragged span in one transfer through scratch, if the
\* device can move it in one; otherwise its parts, each ragged one by itself.
ReadSpan(device, limit, first, skip, length) ==
    LET span     == CeilDiv(skip + length, BLOCK_SIZE)
        ragged   == skip # 0 \/ length % BLOCK_SIZE # 0
        parts    == Parts(skip, length)
        wholeAt  == first + (IF skip = 0 THEN 0 ELSE 1)
        tailAt   == wholeAt + parts.whole
        leading  == Bytes(device, first * BLOCK_SIZE + skip, parts.lead)
        whole    == Bytes(device, wholeAt * BLOCK_SIZE, parts.whole * BLOCK_SIZE)
        trailing == Bytes(device, tailAt * BLOCK_SIZE, parts.tail)
    IN  IF ragged /\ span <= SMALL_SPAN_BLOCKS /\ span <= limit
        THEN [data  |-> SubSeq(Bytes(device, first * BLOCK_SIZE, span * BLOCK_SIZE),
                               skip + 1, skip + length),
              calls |-> <<Transfer(first, span)>>]
        ELSE [data  |-> leading \o whole \o trailing,
              calls |-> (IF skip = 0 THEN <<>> ELSE <<Transfer(first, 1)>>)
                           \o Blocks(limit, wholeAt, parts.whole)
                           \o (IF parts.tail = 0 THEN <<>> ELSE <<Transfer(tailAt, 1)>>)]

\* A block read, changed and written back.
RewriteBlock(device, block, skip, data) ==
    LET scratch == Bytes(device, block * BLOCK_SIZE, BLOCK_SIZE)
    IN  Patched(device, block * BLOCK_SIZE,
                [k \in 1 .. BLOCK_SIZE |->
                    IF k - 1 \in skip .. skip + Len(data) - 1 THEN data[k - skip] ELSE scratch[k]])

\* Mutant of WriteSpan: the last partial block is not read before it is written.
WriteSpanUnread(device, limit, first, skip, data) ==
    LET parts   == Parts(skip, Len(data))
        padding == IF parts.tail = 0 THEN 0 ELSE BLOCK_SIZE - parts.tail
    IN  [device |-> Patched(device, first * BLOCK_SIZE + skip, data \o [k \in 1 .. padding |-> 0]),
         calls  |-> Blocks(limit, first, CeilDiv(skip + Len(data), BLOCK_SIZE))]

\* write_span: the same parts, the ragged ones rewriting their block.
WriteSpan(device, limit, first, skip, data) ==
    LET parts   == Parts(skip, Len(data))
        wholeAt == first + (IF skip = 0 THEN 0 ELSE 1)
        tailAt  == wholeAt + parts.whole
        led     == IF skip = 0 THEN device
                   ELSE RewriteBlock(device, first, skip, SubSeq(data, 1, parts.lead))
        filled  == Patched(led, wholeAt * BLOCK_SIZE,
                           SubSeq(data, parts.lead + 1, Len(data) - parts.tail))
    IN  [device |-> IF parts.tail = 0 THEN filled
                    ELSE RewriteBlock(filled, tailAt, 0,
                                      SubSeq(data, Len(data) - parts.tail + 1, Len(data))),
         calls  |-> (IF skip = 0 THEN <<>> ELSE <<Transfer(first, 1)>>)
                       \o Blocks(limit, wholeAt, parts.whole)
                       \o (IF parts.tail = 0 THEN <<>> ELSE <<Transfer(tailAt, 1)>>)]

\* What one run of the chain adds to the spans of a range of the file.
AddSpan(offset, length, sofar, run) ==
    LET start == run.fileCluster * ClusterBytes
        end   == start + run.clusters * ClusterBytes
        at    == offset + sofar.done
        take  == Least(end - at, length - sofar.done)
        span  == [first |-> ClusterBlock(run.start) + (at - start) \div BLOCK_SIZE,
                  skip  |-> (at - start) % BLOCK_SIZE,
                  done  |-> sofar.done, take |-> take]
    IN  IF sofar.done = length \/ at >= end THEN sofar
        ELSE [done |-> sofar.done + take, spans |-> Append(sofar.spans, span)]

\* The spans that a range of a file takes from the runs of its chain.
Spans(runs, offset, length) ==
    LET after[k \in 0 .. Len(runs)] ==
            IF k = 0 THEN [done |-> 0, spans |-> <<>>]
            ELSE AddSpan(offset, length, after[k - 1], runs[k])
    IN  after[Len(runs)]

AddRead(device, limit, sofar, span) ==
    LET read == ReadSpan(device, limit, span.first, span.skip, span.take)
    IN  [data |-> sofar.data \o read.data, calls |-> sofar.calls \o read.calls]
ReadSpans(device, limit, spans) ==
    LET after[k \in 0 .. Len(spans)] ==
            IF k = 0 THEN [data |-> <<>>, calls |-> <<>>]
            ELSE AddRead(device, limit, after[k - 1], spans[k])
    IN  after[Len(spans)]

\* read_at, of a live file with a chain: short only at the end of the file,
\* and an error if the chain is.
ReadAt(device, limit, runs, size, offset, want) ==
    LET wanted == IF offset >= size THEN 0 ELSE Least(want, size - offset)
        cut    == Spans(runs, offset, wanted)
    IN  [ReadSpans(device, limit, cut.spans)
            EXCEPT !.data = IF cut.done = wanted THEN @ ELSE <<"chain shorter than file">>]

\* write_chain: one span for each run the range crosses.
AddWrite(limit, data, sofar, span) ==
    LET wrote == WriteSpan(sofar.device, limit, span.first, span.skip,
                           SubSeq(data, span.done + 1, span.done + span.take))
    IN  [device |-> wrote.device, calls |-> sofar.calls \o wrote.calls]
WriteChain(device, limit, runs, offset, data) ==
    LET spans == Spans(runs, offset, Len(data)).spans
        after[k \in 0 .. Len(spans)] ==
            IF k = 0 THEN [device |-> device, calls |-> <<>>]
            ELSE AddWrite(limit, data, after[k - 1], spans[k])
    IN  after[Len(spans)]

\* zero_range: a buffer of zeros at a time.
AddZeros(limit, runs, from, sofar, chunk) ==
    LET wrote == WriteChain(sofar.device, limit, runs, from + chunk.at,
                            [k \in 1 .. chunk.length |-> 0])
    IN  [device |-> wrote.device, calls |-> sofar.calls \o wrote.calls]
ZeroPasses(from, to) == IF from >= to THEN <<>> ELSE Chunks(to - from, ZERO_CHUNK)
ZeroRange(device, limit, runs, from, to) ==
    LET chunks == ZeroPasses(from, to)
        after[k \in 0 .. Len(chunks)] ==
            IF k = 0 THEN [device |-> device, calls |-> <<>>]
            ELSE AddZeros(limit, runs, from, after[k - 1], chunks[k])
    IN  after[Len(chunks)]

\* Mutant of AcceptsRun: the last cluster wraps before it is looked at.
AcceptsRunWrapped(start, clusters) ==
    clusters # 0 => IsValidCluster(start) /\ IsValidCluster((start + clusters - 1) % (MaxU32 + 1))

\* read_run, of a run a caller may have made up: both its ends are clusters
\* of the volume, the last not having wrapped.
AcceptsRun(start, clusters) ==
    clusters # 0 =>
        LET last     == start + clusters - 1
            reported == Least(last, MaxU32)
        IN  IsValidCluster(start) /\ last <= MaxU32 /\ IsValidCluster(reported)

\* read_chain: every run of the chain, a transfer each.
AddRun(device, limit, sofar, run) ==
    [data  |-> sofar.data \o Bytes(device, ClusterBlock(run.start) * BLOCK_SIZE,
                                   run.clusters * ClusterBytes),
     calls |-> sofar.calls \o Blocks(limit, ClusterBlock(run.start),
                                     run.clusters * ClusterBlocks)]
ReadChain(device, limit, runs) ==
    LET after[k \in 0 .. Len(runs)] ==
            IF k = 0 THEN [data |-> <<>>, calls |-> <<>>]
            ELSE AddRun(device, limit, after[k - 1], runs[k])
    IN  after[Len(runs)]

\* Mutant of Staged: every batch starts where the first did.
StagedInPlace(capacity, start, n) ==
    [k \in DOMAIN Chunks(n, capacity) |->
        LET chunk == Chunks(n, capacity)[k]
        IN  [from |-> chunk.at, to |-> start % (MaxU32 + 1), blocks |-> chunk.length]]

\* The embedded-sdmmc bridge: batches of what its staging buffer holds, each
\* addressed by a u32.
Staged(capacity, start, n) ==
    [k \in DOMAIN Chunks(n, capacity) |->
        LET chunk == Chunks(n, capacity)[k]
        IN  [from |-> chunk.at, to |-> (start + chunk.at) % (MaxU32 + 1), blocks |-> chunk.length]]
=============================================================================
