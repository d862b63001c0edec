---------------------------- MODULE MCAlgorithms ----------------------------
(* Bounded inputs for the algorithms. *)
EXTENDS Algorithms

MCRun(at, start, clusters) == [fileCluster |-> at, start |-> start, clusters |-> clusters]
MCChains ==
    { <<MCRun(0, 3, 2)>>,
      <<MCRun(0, 5, 1), MCRun(1, 2, 1)>>,
      <<MCRun(0, 4, 2), MCRun(2, 2, 1)>> }
MCLimits == {0, 1, 2, 9}

MCMoments == {[day |-> day, rest |-> (day * 7919) % 86400] : day \in -800 .. 51400}
MCUnknown == -1

MCSector == [of |-> "sector", short |-> FALSE, signature |-> TRUE, bytesPerSector |-> 8,
             sectorsPerCluster |-> 1, reservedSectors |-> 1, fatCount |-> 1,
             total16 |-> 6, total32 |-> 0, sectorsPerFat16 |-> 0, sectorsPerFat32 |-> 2,
             rootEntries |-> 0, fsInfoSector |-> 0,
             entries |-> [k \in 1 .. 2 |-> [status |-> "inactive", kind |-> 0,
                                            firstBlock |-> 0, blocks |-> 0]],
             signatures |-> TRUE, free |-> 2, next |-> 3]

MCBootSectors ==
    { [MCSector EXCEPT !.sectorsPerCluster = perCluster, !.reservedSectors = reserved,
                       !.fatCount = fats, !.total16 = small, !.total32 = large,
                       !.sectorsPerFat16 = old, !.sectorsPerFat32 = table] :
        perCluster \in 0 .. 4, reserved \in {0, 1, 3}, fats \in 0 .. 2, small \in {0, 7, 12},
        large \in {0, 20, 31}, old \in {0, 1}, table \in {0, 1, 2, 5, 9, 15} }
    \cup { [MCSector EXCEPT !.short = TRUE], [MCSector EXCEPT !.signature = FALSE],
           [MCSector EXCEPT !.bytesPerSector = 16] }

MCEntry(status, kind, first, blocks) ==
    [status |-> status, kind |-> kind, firstBlock |-> first, blocks |-> blocks]
MCEntries ==
    { MCEntry("inactive", 0, 0, 0), MCEntry("bootable", 11, 1, 6), MCEntry("inactive", 11, 2, 9),
      MCEntry("inactive", 131, 1, 5), MCEntry("inactive", 238, 1, 12),
      MCEntry("code", 11, 1, 6), MCEntry("inactive", 11, 0, 6), MCEntry("inactive", 12, 3, 0) }
MCDevices ==
    { [reports |-> reports,
       sectors |-> [k \in 0 .. length - 1 |->
            [MCSector EXCEPT !.total16 = total, !.fsInfoSector = hints, !.entries = <<first, second>>,
                             !.bytesPerSector = IF k = 0 /\ first.kind # 0 THEN 0 ELSE 8,
                             !.free = free]]] :
        reports \in {Unknown, 8, 12}, length \in {8, 12}, total \in {5, 6, 9, 12},
        hints \in {0, 1, 7}, free \in {Unknown, 2, 9}, first \in MCEntries, second \in MCEntries }

\* Lower and upper case, a letter both codepages lack or one has as the byte
\* that marks a deleted entry, one that two letters stand for in upper case,
\* and one whose upper case form is another letter's.
MCUpperOf == [c \in {"a", "o~", "e'", "sz", "long s"} |->
                CASE c = "a" -> <<"A">> [] c = "o~" -> <<"O~">> [] c = "e'" -> <<"E'">>
                  [] c = "sz" -> <<"S", "S">> [] c = "long s" -> <<"S">>]
MCLowerOf == [c \in {"A", "O~", "E'", "S"} |->
                CASE c = "A" -> <<"a">> [] c = "O~" -> <<"o~">> [] c = "E'" -> <<"e'">>
                  [] c = "S" -> <<"s">>]
MCLowers == {"a", "o~", "e'", "sz", "long s"}
MCUppers == {"A", "O~", "E'", "S"}
MCAscii == {"A", "S", "_", "~", "+", " ", ".", "0", "1", "2", "3", "4", "5", "6", "7", "8", "9"}
MCByteCode == [byte \in MCAscii \cup {DELETED, ESCAPED_E5} |->
                CASE byte = "A" -> 65 [] byte = "S" -> 83 [] byte = "_" -> 95 [] byte = "~" -> 126
                  [] byte = "+" -> 43 [] byte = " " -> 32 [] byte = "." -> 46 [] byte = "0" -> 48
                  [] byte = "1" -> 49 [] byte = "2" -> 50 [] byte = "3" -> 51 [] byte = "4" -> 52
                  [] byte = "5" -> 53 [] byte = "6" -> 54 [] byte = "7" -> 55 [] byte = "8" -> 56
                  [] byte = "9" -> 57 [] byte = DELETED -> 229 [] byte = ESCAPED_E5 -> 5]
MCIdentity == [c \in MCAscii |-> c]
MCCodepages ==
    { [encode |-> MCIdentity, decode |-> MCIdentity],
      [encode |-> [c \in MCAscii \cup {"O~"} |-> IF c = "O~" THEN DELETED ELSE c],
       decode |-> [byte \in MCAscii \cup {DELETED} |-> IF byte = DELETED THEN "O~" ELSE byte]] }

MCCharacters == {"a", "A", "o~", "e'", "sz", "long s", ".", " ", "+", "*"}
MCNames ==
    UNION {[1 .. n -> MCCharacters] : n \in 0 .. 3}
        \cup UNION {[1 .. n -> {"a", "A", "."}] : n \in 4 .. 6}
        \cup UNION {[1 .. n -> {"a", "A"}] : n \in 7 .. 8}
MCAliases == { {}, {<<"A">>, <<"A", "A">>, <<"A", "~", "1">>, <<"A", "A", "~", "1">>} }
MCStray(sequence, last, checksum) ==
    [sequence |-> sequence, last |-> last, checksum |-> checksum, units |-> <<"S", "S">>]
MCStrays ==
    { <<>>, <<MCStray(2, TRUE, 66)>>, <<MCStray(2, TRUE, 66), MCStray(1, FALSE, 66)>>,
      <<MCStray(1, FALSE, 66), MCStray(9, TRUE, 66)>> }
MCBases == {<<"A">>, <<"A", "S", "A">>, <<"A", "A", "A", "A">>, <<DELETED, "_">>}
MCExtensions == {<<>>, <<"S">>, <<"A", "_">>}
=============================================================================
