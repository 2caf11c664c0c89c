------------------------------ MODULE Bencoding ------------------------------
(***************************************************************************)
(* Bencoding: the values (BencodingType), the decoder and the encoder.  A  *)
(* byte is a character.  The decoder's functions return how many bytes     *)
(* they read, 0 when the text is cut or wrong, and the value; positions    *)
(* start at 1 here.  The text has no signs and no blanks, which atoi and   *)
(* sscanf would take in a number.                                          *)
(***************************************************************************)
EXTENDS Integers, SequencesExt, FiniteSetsExt

Integer(n) == [int |-> n]
String(bytes) == [str |-> bytes]
List(values) == [list |-> values]
Dict(entries) == [dict |-> entries]    \* <<key, value>>, in order

IsA(value, type) == type \in DOMAIN value

\* DictType: get_value finds the first entry, set_value does not replace it.
HasKey(entries, key) == \E i \in DOMAIN entries : entries[i][1] = key
GetValue(entries, key) == entries[SelectInSeq(entries, LAMBDA e : e[1] = key)][2]
SetValue(entries, key, value) ==
    IF HasKey(entries, key) THEN entries ELSE Append(entries, <<key, value>>)

\* TypeCast of get_value, which throws unless there is a value of that type.
Casts(dict, key, type) == HasKey(dict, key) /\ IsA(GetValue(dict, key), type)

----------------------------------------------------------------------------
(* Numbers in text.                                                         *)

Digit == <<"0", "1", "2", "3", "4", "5", "6", "7", "8", "9">>
DigitValue(ch) == SelectInSeq(Digit, LAMBDA d : d = ch) - 1     \* -1: not a digit

RECURSIVE Format(_)
Format(n) ==
    IF n < 10 THEN <<Digit[n + 1]>> ELSE Append(Format(n \div 10), Digit[1 + (n % 10)])

Number(digits) == FoldLeft(LAMBDA n, ch : 10 * n + DigitValue(ch), 0, digits)

\* atoi: the number at the start, 0 if there is none.
Atoi(text) ==
    LET other == {i \in DOMAIN text : DigitValue(text[i]) = -1}
    IN  Number(SubSeq(text, 1, IF other = {} THEN Len(text) ELSE Min(other) - 1))

----------------------------------------------------------------------------
(* BencodingDecoder.                                                        *)

Failed == [read |-> 0, value |-> String(<<>>)]

\* The first ch from pos on; 0 if there is none.
Find(bfile, ch, pos) ==
    LET found == {i \in pos..Len(bfile) : bfile[i] = ch}
    IN  IF found = {} THEN 0 ELSE Min(found)

\* A string at the very end of the file is not read: ASSERT_POS(idx + len).
ReadString(bfile, beg_pos) ==
    LET colon == Find(bfile, ":", beg_pos)
        len == Atoi(SubSeq(bfile, beg_pos, colon - 1))
        next == colon + 1 + len
    IN  IF colon = 0 \/ next > Len(bfile) THEN Failed
        ELSE [read |-> next - beg_pos, value |-> String(SubSeq(bfile, colon + 1, next - 1))]

ReadInt(bfile, beg_pos) ==
    LET end == Find(bfile, "e", beg_pos + 1)
        num == SubSeq(bfile, beg_pos + 1, end - 1)
    IN  IF end = 0 \/ num = <<>> \/ \E i \in DOMAIN num : DigitValue(num[i]) = -1
        THEN Failed
        ELSE [read |-> end + 1 - beg_pos, value |-> Integer(Number(num))]

RECURSIVE Analyzer(_, _), ReadItems(_, _, _), ReadEntries(_, _, _)

ReadList(bfile, beg_pos) ==
    LET items == ReadItems(bfile, beg_pos + 1, <<>>)
    IN  IF items.next = 0 THEN Failed
        ELSE [read |-> items.next - beg_pos, value |-> List(items.data)]

ReadDict(bfile, beg_pos) ==
    LET entries == ReadEntries(bfile, beg_pos + 1, <<>>)
    IN  IF entries.next = 0 THEN Failed
        ELSE [read |-> entries.next - beg_pos, value |-> Dict(entries.data)]

\* What is left of a list or a dictionary at idx; next is behind its end, or 0.
Cut == [next |-> 0, data |-> <<>>]

ReadItems(bfile, idx, list_bt) ==
    IF idx > Len(bfile) THEN Cut
    ELSE IF bfile[idx] = "e" THEN [next |-> idx + 1, data |-> list_bt]
    ELSE LET item == Analyzer(bfile, idx)
         IN  IF item.read = 0 THEN Cut
             ELSE ReadItems(bfile, idx + item.read, Append(list_bt, item.value))

ReadEntries(bfile, idx, dict_bt) ==
    IF idx > Len(bfile) THEN Cut
    ELSE IF bfile[idx] = "e" THEN [next |-> idx + 1, data |-> dict_bt]
    ELSE LET key == ReadString(bfile, idx)
             value == Analyzer(bfile, idx + key.read)
         IN  IF key.read = 0 \/ value.read = 0 THEN Cut
             ELSE ReadEntries(bfile, idx + key.read + value.read,
                              SetValue(dict_bt, key.value.str, value.value))

Analyzer(bfile, beg_pos) ==
    IF beg_pos > Len(bfile) THEN Failed
    ELSE CASE bfile[beg_pos] = "i" -> ReadInt(bfile, beg_pos)
           [] bfile[beg_pos] = "l" -> ReadList(bfile, beg_pos)
           [] bfile[beg_pos] = "d" -> ReadDict(bfile, beg_pos)
           [] OTHER -> ReadString(bfile, beg_pos)

\* SetContent: the text from the first d on, in a vector of the old size.
SetContent(text) ==
    LET start == Find(text, "d", 1)
    IN  IF start = 0 THEN <<>>
        ELSE [i \in DOMAIN text |-> IF i + start - 1 <= Len(text)
                                    THEN text[i + start - 1] ELSE "NUL"]

\* Where the value of a key starts, in the dictionary at idx - 1 of the text.
RECURSIVE LocateFrom(_, _, _)
LocateFrom(bfile, idx, key) ==
    IF idx > Len(bfile) \/ bfile[idx] = "e" THEN 0
    ELSE LET name == ReadString(bfile, idx)
             value == Analyzer(bfile, idx + name.read)
         IN  IF name.read = 0 THEN 0
             ELSE IF name.value.str = key THEN idx + name.read
             ELSE IF value.read = 0 THEN 0
             ELSE LocateFrom(bfile, idx + name.read + value.read, key)

LocateKey(bfile, beg_pos, key) == LocateFrom(bfile, beg_pos + 1, key)

----------------------------------------------------------------------------
(* BencodingEncoder.                                                        *)

WriteInt(n) == <<"i">> \o Format(n) \o <<"e">>
WriteString(bytes) == Format(Len(bytes)) \o <<":">> \o bytes

RECURSIVE Write(_)
Write(value) ==
    CASE IsA(value, "int") -> WriteInt(value.int)
      [] IsA(value, "str") -> WriteString(value.str)
      [] IsA(value, "list") ->
            FoldLeft(LAMBDA text, item : text \o Write(item), <<"l">>, value.list) \o <<"e">>
      [] IsA(value, "dict") ->
            FoldLeft(LAMBDA text, e : text \o WriteString(e[1]) \o Write(e[2]),
                     <<"d">>, value.dict) \o <<"e">>

\* GenContent.
GenContent(entries) == Write(Dict(entries))
=============================================================================
