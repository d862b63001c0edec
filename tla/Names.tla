-------------------------------- MODULE Names --------------------------------
(***************************************************************************)
(* How a name is stored and how it comes back: src/src/name.rs, the short  *)
(* names and long-name slots of src/src/dir.rs, and src/src/codepage.rs.   *)
(*                                                                         *)
(* A name is a sequence of characters, each of one UTF-16 unit, and a      *)
(* stored name a sequence of bytes; an ASCII character and its byte are    *)
(* written alike.  A codepage is two functions, `encode` from the          *)
(* characters it covers and `decode` from the bytes.                       *)
(***************************************************************************)
EXTENDS Integers, Sequences, SequencesExt

CONSTANTS BASE, EXT,          \* bytes of the two fields: 8 and 3
          CHARS_PER_SLOT,     \* characters a long-name slot holds
          MAX_LONG_NAME,      \* units a long name may have
          MAX_LONG_SLOTS,     \* slots a reader believes a name to have
          MAX_TAIL,           \* the last numeric tail tried
          Uppers, Lowers,     \* the characters that have a case
          UpperOf, LowerOf,   \* their other forms, as sequences of characters
          ByteCode            \* the number each byte is

ASSUME NamesAssumption ==
    /\ {BASE, EXT, CHARS_PER_SLOT, MAX_LONG_NAME, MAX_LONG_SLOTS, MAX_TAIL} \subseteq Nat \ {0}
    /\ Uppers \cap Lowers = {}
    /\ Lowers \subseteq DOMAIN UpperOf /\ Uppers \subseteq DOMAIN LowerOf

None       == "none"
DELETED    == "0xE5"
ESCAPED_E5 == "0x05"
UNDECODED  == "U+FFFD"
Reserved   == {"\"", "*", "/", ":", "<", ">", "?", "\\", "|"}
NotInShort == Reserved \cup {"+", ",", ".", ";", "=", "[", "]", " ", ESCAPED_E5}

ToUpper(c) == IF c \in DOMAIN UpperOf THEN UpperOf[c] ELSE <<c>>
ToLower(c) == IF c \in DOMAIN LowerOf THEN LowerOf[c] ELSE <<c>>

\* What a lookup compares.
Key(name) == FlattenSeq([k \in DOMAIN name |-> ToUpper(name[k])])

\* long_name_units: the names a long-name entry could hold.
Storable(name) ==
    /\ name # <<>> /\ Len(name) <= MAX_LONG_NAME
    /\ Head(name) # " " /\ Last(name) \notin {" ", "."}
    /\ ToSet(name) \cap Reserved = {}

\* rsplit_once('.').
SplitAtDot(name) ==
    LET dots == {k \in DOMAIN name : name[k] = "."}
        dot  == CHOOSE k \in dots : \A j \in dots : j <= k
    IN  IF dots = {} THEN [base |-> name, ext |-> <<>>]
        ELSE [base |-> SubSeq(name, 1, dot - 1), ext |-> SubSeq(name, dot + 1, Len(name))]

\* The byte that stands for a character in a short name, if one does.
ShortByte(c, codepage) ==
    LET upper == ToUpper(c)
    IN  IF /\ Len(upper) = 1 /\ upper[1] \in DOMAIN codepage.encode
           /\ codepage.encode[upper[1]] \notin NotInShort
        THEN codepage.encode[upper[1]] ELSE None

\* Mutant of FieldCase: a field with both cases is an upper case one.
FieldCaseNeverMixed(field) ==
    IF ToSet(field) \cap Uppers = {} /\ ToSet(field) \cap Lowers # {} THEN "lower" ELSE "upper"

\* The case of a field, as its bit can say it.
FieldCase(field) ==
    IF ToSet(field) \cap Lowers = {} THEN "upper"
    ELSE IF ToSet(field) \cap Uppers = {} THEN "lower" ELSE None

Padded(bytes, length) ==
    [k \in 1 .. length |-> IF k <= Len(bytes) THEN bytes[k] ELSE " "]
Raw(base, ext) == Padded(base, BASE) \o Padded(ext, EXT)

\* ShortName::from_raw: a first byte that would mean "deleted" is escaped.
FromRaw(raw, base, ext) ==
    [raw |-> [raw EXCEPT ![1] = IF @ = DELETED THEN ESCAPED_E5 ELSE @], base |-> base, ext |-> ext]

\* Whether a name fits 8.3 with nothing replaced or dropped.
Fits83(name, codepage) ==
    LET split == SplitAtDot(name)
    IN  /\ split.base # <<>> /\ Len(split.base) <= BASE /\ Len(split.ext) <= EXT
        /\ \A c \in ToSet(split.base \o split.ext) : ShortByte(c, codepage) # None

Direct83(name, codepage) ==
    LET split == SplitAtDot(name)
        Bytes(field) == [k \in DOMAIN field |-> ShortByte(field[k], codepage)]
    IN  FromRaw(Raw(Bytes(split.base), Bytes(split.ext)),
                FieldCase(split.base), FieldCase(split.ext))

\* ShortName::checksum, over the bytes as stored: rotate right and add.
Checksum(short) ==
    FoldLeft(LAMBDA sum, byte : ((sum % 2) * 128 + sum \div 2 + ByteCode[byte]) % 256,
             0, short.raw)

\* to_display_string_with: bytes decoded, lower case where a bit says so.
DecodedField(bytes, field, codepage) ==
    LET Shown(byte) ==
            LET c == IF byte \in DOMAIN codepage.decode THEN codepage.decode[byte] ELSE UNDECODED
            IN  IF byte = " " THEN <<>> ELSE IF field = "lower" THEN ToLower(c) ELSE <<c>>
    IN  FlattenSeq([k \in DOMAIN bytes |-> Shown(bytes[k])])
Display(short, codepage) ==
    LET raw  == [short.raw EXCEPT ![1] = IF @ = ESCAPED_E5 THEN DELETED ELSE @]
        base == DecodedField(SubSeq(raw, 1, BASE), short.base, codepage)
        ext  == DecodedField(SubSeq(raw, BASE + 1, BASE + EXT), short.ext, codepage)
    IN  IF ext = <<>> THEN base ELSE base \o <<".">> \o ext

\* mangle: what a field can keep, up to a limit, `_` for the rest.
Mangle(field, limit, codepage) ==
    LET kept == SelectSeq(field, LAMBDA c : c \notin {".", " "})
        Byte(c) == IF ShortByte(c, codepage) = None THEN "_" ELSE ShortByte(c, codepage)
    IN  [k \in 1 .. (IF Len(kept) < limit THEN Len(kept) ELSE limit) |-> Byte(kept[k])]

\* basis_name: leading periods and spaces go before the name is split.
BasisName(name, codepage) ==
    LET first == CHOOSE k \in DOMAIN name :
                    name[k] \notin {".", " "} /\ \A j \in 1 .. k - 1 : name[j] \in {".", " "}
        split == SplitAtDot(SubSeq(name, first, Len(name)))
    IN  [base |-> Mangle(split.base, BASE, codepage), ext |-> Mangle(split.ext, EXT, codepage)]

Digit == <<"1", "2", "3", "4", "5", "6", "7", "8", "9">>
Digits[n \in 1 .. MAX_TAIL] ==
    LET last == IF n % 10 = 0 THEN "0" ELSE Digit[n % 10]
    IN  IF n < 10 THEN <<last>> ELSE Append(Digits[n \div 10], last)

\* Mutant of WithTail: the base keeps its bytes and the tail loses a digit.
WithTailClipped(base, ext, tail) ==
    LET keep == IF Len(base) < BASE - 2 THEN Len(base) ELSE BASE - 2
    IN  Raw(SubSeq(base, 1, keep) \o <<"~">> \o Digits[tail], ext)

\* with_tail: the base gives way to the tail.
WithTail(base, ext, tail) ==
    LET room == BASE - (Len(Digits[tail]) + 1)
        keep == IF Len(base) < room THEN Len(base) ELSE room
    IN  Raw(SubSeq(base, 1, keep) \o <<"~">> \o Digits[tail], ext)

\* long_name_slots: last slot first; one NUL ends the name, if there is room.
LongNameSlots(name, checksum) ==
    LET count == (Len(name) + CHARS_PER_SLOT - 1) \div CHARS_PER_SLOT
        Unit(k) == CASE k <= Len(name) -> name[k] [] k = Len(name) + 1 -> "NUL" [] OTHER -> "PAD"
        Slot(sequence) ==
            [sequence |-> sequence, last |-> sequence = count, checksum |-> checksum,
             units |-> [k \in 1 .. CHARS_PER_SLOT |-> Unit((sequence - 1) * CHARS_PER_SLOT + k)]]
    IN  [k \in 1 .. count |-> Slot(count + 1 - k)]

NoAlias == [raw |-> <<>>, base |-> "upper", ext |-> "upper"]

\* The first mangled alias nothing has; `taken` holds keys.
FreeTail(basis, codepage, taken) ==
    LET Alias(tail) == FromRaw(WithTail(basis.base, basis.ext, tail), "upper", "upper")
        IsTaken(tail) == Key(Display(Alias(tail), codepage)) \in taken
        tail == CHOOSE t \in 1 .. MAX_TAIL : ~IsTaken(t) /\ \A u \in 1 .. t - 1 : IsTaken(u)
    IN  IF \A t \in 1 .. MAX_TAIL : IsTaken(t) THEN NoAlias ELSE Alias(tail)

\* stored_name, of a storable name: as itself if the case bits can say it;
\* else with slots, under its own upper case form or a numbered alias.
StoredName(name, codepage, taken) ==
    LET direct == Direct83(name, codepage)
        cased  == [direct EXCEPT !.base = "upper", !.ext = "upper"]
        own    == Fits83(name, codepage) /\ Key(Display(cased, codepage)) \notin taken
        short  == IF own THEN cased ELSE FreeTail(BasisName(name, codepage), codepage, taken)
    IN  IF Fits83(name, codepage) /\ direct.base # None /\ direct.ext # None
        THEN [short |-> direct, slots |-> <<>>]
        ELSE IF short = NoAlias THEN [short |-> NoAlias, slots |-> <<>>]
        ELSE [short |-> short, slots |-> LongNameSlots(name, Checksum(short))]

\* absorb_long_name_slot: a slot starts a run, goes on with it or ends it.
NoRun == [expected |-> -1, checksum |-> -1, units |-> <<>>]
Absorb(run, slot) ==
    LET starts == slot.last /\ slot.sequence \in 1 .. MAX_LONG_SLOTS
        goesOn == ~slot.last /\ run.expected = slot.sequence /\ slot.sequence # 0
                    /\ run.checksum = slot.checksum
    IN  CASE starts -> [expected |-> slot.sequence - 1, checksum |-> slot.checksum,
                        units |-> slot.units]
          [] goesOn -> [run EXCEPT !.expected = slot.sequence - 1, !.units = slot.units \o @]
          [] OTHER  -> NoRun

\* The name an entry is read as, after the slots in front of it.
ReadBack(slots, short, codepage) ==
    LET run   == FoldLeft(Absorb, NoRun, slots)
        ends  == {k \in DOMAIN run.units : run.units[k] \in {"NUL", "PAD"}}
        first == CHOOSE k \in ends : \A j \in ends : k <= j
        long  == IF ends = {} THEN run.units ELSE SubSeq(run.units, 1, first - 1)
    IN  IF run.expected = 0 /\ run.checksum = Checksum(short) /\ long # <<>>
        THEN long ELSE Display(short, codepage)
=============================================================================
