---------------------------- MODULE RegexpBuilder ----------------------------
(***************************************************************************)
(* The builder of regular expressions (deelx.h, CBuilderT): from a pattern *)
(* to the elements that Regexp matches.  The characters of the pattern     *)
(* become tokens, of type 1 where they have a meaning; the builder looks   *)
(* at three of them.                                                       *)
(*                                                                         *)
(* b is the state of the builder: the pattern and at, m_nNextPos; the size *)
(* of a character, 1 in an expression of char, 2 of wchar_t; depth,        *)
(* m_nCharsetDepth; the flags of the part that is built; max, the groups   *)
(* without and with names.  A Build operator returns the element e and the *)
(* state b behind it.                                                      *)
(*                                                                         *)
(* Characters are ASCII.  A call of the group that is the whole expression *)
(* reads it as a list with a bracket (1568), whatever it is, and is left   *)
(* out: such a call finds no group.                                        *)
(***************************************************************************)
EXTENDS Integers, SequencesExt, TLC

Infinite == 2147483647

\* The numbers of the printable characters, but for the two quotes that have
\* no place in a TLA+ string.
From(first, string) ==
    [ch \in {SubSeq(string, i, i) : i \in 1..Len(string)} |->
        first - 1 + (CHOOSE i \in 1..Len(string) : SubSeq(string, i, i) = ch)]
Code ==
    From(32, " !") @@ From(35, "#$%&'()*+,-./0123456789:;<=>?@ABCDEFGHIJKLMNOPQRSTUVWXYZ[\\]^_")
    @@ From(97, "abcdefghijklmnopqrstuvwxyz{|}~")
Codes(string) == [i \in 1..Len(string) |-> Code[SubSeq(string, i, i)]]
OneOf(string) == ToSet(Codes(string))

IsBlank(ch) == ch = 32 \/ ch \in 9..13
IsDecimal(ch) == ch \in 48..57
UpperOf(ch) == IF ch \in 97..122 THEN ch - 32 ELSE ch
LowerOf(ch) == IF ch \in 65..90 THEN ch + 32 ELSE ch

-----------------------------------------------------------------------------
(* Tokens.                                                                 *)

\* The text behind the pattern ends with a zero.
Ch(b, i) == IF i < Len(b.pattern) THEN b.pattern[i + 1] ELSE 0

Is(token, ch) == token.type = 1 /\ token.ch = Code[ch]
IsEnd(token) == token.type = 1 /\ token.ch = 0
IsOneOf(token, chars) == token.type = 1 /\ token.ch \in OneOf(chars)

Take(b, ch, type, delta) ==
    [b EXCEPT !.nex2 = [ch |-> ch, type |-> type, pos |-> b.at], !.at = @ + delta]

HexValue(ch) ==
    CASE IsDecimal(ch) -> ch - 48
      [] ch \in 65..70 -> ch - 55
      [] ch \in 97..102 -> ch - 87
      [] OTHER -> -1

\* The digits from i on, at most length of them.
RECURSIVE Used(_, _, _)
Used(b, i, length) ==
    IF length = 0 \/ HexValue(Ch(b, i)) < 0 THEN 0 ELSE 1 + Used(b, i + 1, length - 1)
Hex2Int(b, i, used) ==
    FoldLeft(LAMBDA n, k : (16 * n + HexValue(Ch(b, i + k - 1))) % 256^b.size,
             0, [k \in 1..used |-> k])

\* From i on, the first position where a character of ends stands.
RECURSIVE Find(_, _, _)
Find(b, i, ends) == IF i >= Len(b.pattern) \/ Ch(b, i) \in ends THEN i ELSE Find(b, i + 1, ends)

\* \xhh, \uhhhh, \x{h...} and \u{h...}.
HexEscape(b, ch1) ==
    LET braces == Ch(b, b.at + 2) = Code["{"]
        from == IF braces THEN b.at + 3 ELSE b.at + 2
        used == Used(b, from, IF braces THEN 8 ELSE IF ch1 = Code["x"] THEN 2 ELSE 4)
        close == Find(b, b.at + 2 + used, {Code["}"]})
    IN  CASE braces -> Take(b, Hex2Int(b, from, used), 0, close + 1 - b.at)
          [] ~braces /\ used > 0 -> Take(b, Hex2Int(b, from, used), 0, 2 + used)
          [] OTHER -> Take(b, ch1, 0, 2)

Control ==
    [a |-> 7, f |-> 12, n |-> 10, r |-> 13, t |-> 9, v |-> 11, e |-> 27]

\* A token, or none: then the next is looked for.
RECURSIVE GetNext2(_)
Skip(b, delta) == GetNext2([b EXCEPT !.at = @ + delta])
Quote(b, fun) == Skip([b EXCEPT !.quoted = TRUE, !.fun = IF @ = "none" THEN fun ELSE @], 2)
EndQuote(b) == Skip([b EXCEPT !.quoted = FALSE, !.fun = "none"], 2)

Quoted(b, ch) ==
    LET Turned(c) == CASE b.fun = "none" -> c
                       [] b.fun = "tolower" -> LowerOf(c)
                       [] b.fun = "toupper" -> UpperOf(c)
    IN  IF ch = Code["\\"] /\ Ch(b, b.at + 1) = Code["E"] THEN EndQuote(b)
        ELSE Take(b, Turned(ch), 0, 1)

Escape(b) ==
    LET ch1 == Ch(b, b.at + 1)
        special(chars) == ch1 \in OneOf(chars)
    IN  CASE IsDecimal(ch1) -> Take(b, Code["\\"], 1, 1)
          [] special("AZzwWsSBdDkg") -> Take(b, ch1, 1, 2)
          [] special("b") -> IF b.depth > 0 THEN Take(b, 8, 0, 2) ELSE Take(b, ch1, 1, 2)
          [] special("xu") -> HexEscape(b, ch1)
          [] special("afnrtve") ->
                Take(b, Control[CHOOSE c \in DOMAIN Control : Code[c] = ch1], 0, 2)
          [] special("G") -> IF b.depth > 0 THEN Skip(b, 2) ELSE Take(b, ch1, 1, 2)
          [] special("L") -> Quote(b, "tolower")
          [] special("U") -> Quote(b, "toupper")
          [] special("Q") -> Quote(b, "none")
          [] special("E") -> EndQuote(b)
          [] b.at + 1 >= Len(b.pattern) -> Take(b, Code["\\"], 0, 1)
          [] OTHER -> Take(b, ch1, 0, 2)

\* (?#...) is passed over; when it is not closed, the last token is there twice.
Remark(b) ==
    LET close == Find(b, b.at + 2, {Code[")"]}) IN
    IF close < Len(b.pattern) THEN GetNext2([b EXCEPT !.at = close + 1])
    ELSE [b EXCEPT !.at = close + 1]

\* A character has its meaning outside of sets, inside of them, or behind
\* certain others.
Meant(b, ch) ==
    CASE ch \in OneOf("*+?.{})|$(") -> b.depth = 0
      [] ch = Code["-"] -> b.depth > 0
      [] ch = Code["]"] -> b.depth > 0
      [] ch = Code["["] -> TRUE
      [] ch = Code[":"] -> Is(b.next, "[")
      [] ch = Code["^"] -> b.depth = 0 \/ Is(b.next, "[") \/ (Is(b.curr, "[") /\ Is(b.next, ":"))
      [] OTHER -> FALSE
Depth(b, ch) ==
    CASE ch = Code["["] -> b.depth + 1
      [] ch = Code["]"] /\ b.depth > 0 -> b.depth - 1
      [] OTHER -> b.depth

Unquoted(b, ch) ==
    CASE ch = Code["\\"] -> Escape(b)
      [] ch = Code["("] /\ Ch(b, b.at + 1) = Code["?"] /\ Ch(b, b.at + 2) = Code["#"] -> Remark(b)
      [] ch = Code["#"] /\ b.extended -> GetNext2([b EXCEPT !.at = Find(b, @ + 1, {10, 13})])
      [] IsBlank(ch) /\ b.extended -> Skip(b, 1)
      [] OTHER -> [Take(b, ch, IF Meant(b, ch) THEN 1 ELSE 0, 1) EXCEPT !.depth = Depth(b, ch)]

GetNext2(b) ==
    LET ch == Ch(b, b.at) IN
    IF b.at >= Len(b.pattern) THEN Take(b, 0, 1, 0)
    ELSE IF b.quoted THEN Quoted(b, ch) ELSE Unquoted(b, ch)

MoveNext(b) == GetNext2([b EXCEPT !.curr = b.next, !.next = b.nex2])

\* The characters of the tokens up to one of stop, which are <<ch, type>>.
RECURSIVE Until(_, _)
Until(b, stop) ==
    IF <<b.curr.ch, b.curr.type>> \in stop THEN [chars |-> <<>>, b |-> b]
    ELSE LET r == Until(MoveNext(b), stop) IN [r EXCEPT !.chars = <<b.curr.ch>> \o @]
UntilChar(b, ch) == Until(b, {0, ch} \X {0, 1})

RECURSIVE SkipBlanks(_)
SkipBlanks(b) == IF IsBlank(b.curr.ch) THEN SkipBlanks(MoveNext(b)) ELSE b

\* A number at the start of a text, of at most three digits for each byte of a
\* character, and the text behind it.
RECURSIVE NoBlanks(_)
NoBlanks(str) == IF str # <<>> /\ IsBlank(Head(str)) THEN NoBlanks(Tail(str)) ELSE str
ReadDec(b, text) ==
    LET str == NoBlanks(text)
        digits == CHOOSE n \in 0..3 * b.size :
                     /\ n <= Len(str) /\ \A i \in 1..n : IsDecimal(str[i])
                     /\ n = 3 * b.size \/ n = Len(str) \/ ~IsDecimal(str[n + 1])
    IN  [ok |-> digits > 0,
         dec |-> FoldLeft(LAMBDA n, ch : 10 * n + ch - 48, 0, SubSeq(str, 1, digits)),
         str |-> IF digits = 0 THEN text ELSE NoBlanks(SubSeq(str, digits + 1, Len(str)))]
IsNumber(b, text) == ReadDec(b, text).ok /\ ReadDec(b, text).str = <<>>

-----------------------------------------------------------------------------
(* Elements.                                                               *)

Left(b) == "RIGHTTOLEFT" \in b.flags
NoCase(b) == "IGNORECASE" \in b.flags
Built(b, e) == [e |-> e, b |-> b]

EMPTY == [op |-> "empty"]
CharSet(b, ranges, chars, yes) ==
    [op |-> "range", ranges |-> ranges, chars |-> chars, embeds |-> {}, yes |-> yes, left |-> Left(b)]

\* The stock element of a class: \s from the right has two blanks more.
GetStockElx(b, ch) ==
    LET yes == ch \in OneOf("wsd")
        letters == {<<65, 90>>, <<97, 122>>, <<48, 57>>}
        blanks == {32, 9, 13, 10} \cup IF Left(b) THEN {12, 11} ELSE {}
    IN  CASE ch = Code["."] -> CharSet(b, {}, IF "SINGLELINE" \in b.flags THEN {} ELSE {10}, FALSE)
          [] ch \in OneOf("wW") -> CharSet(b, letters, {Code["_"]}, yes)
          [] ch \in OneOf("sS") -> CharSet(b, {}, blanks, yes)
          [] ch \in OneOf("dD") -> CharSet(b, {<<48, 57>>}, {}, yes)

RECURSIVE BuildAlternative(_), BuildCharset(_)

\* A part with flags of its own: those around it are as before behind it.
Within(b, flags) ==
    LET r == BuildAlternative([b EXCEPT !.flags = flags]) IN [r EXCEPT !.b.flags = b.flags]

\* [:name:] and [:^name:], up to the bracket behind it.
PosixNames ==
    {"alnum", "alpha", "ascii", "cntrl", "digit", "graph", "lower", "print", "punct", "space",
     "upper", "xdigit", "blank"}
BuildPosix(b) ==
    LET r == Until(b, {<<0, 0>>, <<0, 1>>, <<Code["]"], 1>>})
        no == Len(r.chars) > 1 /\ r.chars[2] = Code["^"]
        named == SubSeq(r.chars, IF no THEN 3 ELSE 2, Len(r.chars))
        known == {n \in PosixNames : IsPrefix(Codes(n \o ":"), named)}
    IN  Built(MoveNext(r.b),
              [op |-> "posix", name |-> IF known = {} THEN "" ELSE CHOOSE n \in known : TRUE,
               known |-> known # {}, yes |-> ~no, left |-> Left(b)])

\* What is inside of [...], to the end of the pattern when it is not closed.
RECURSIVE InSet(_, _)
InSet(b, e) ==
    CASE IsEnd(b.curr) \/ Is(b.curr, "]") -> Built(MoveNext(b), e)
      [] IsOneOf(b.curr, ".wWsSdD") \/ (Is(b.curr, "[") /\ Is(b.next, ":")) ->
            LET r == BuildCharset(b) IN InSet(r.b, [e EXCEPT !.embeds = @ \cup {r.e}])
      [] ~IsOneOf(b.curr, ".wWsSdD") /\ Is(b.next, "-") /\ b.nex2.type = 0 ->
            InSet(MoveNext(MoveNext(MoveNext(b))),
                  [e EXCEPT !.ranges = @ \cup {<<b.curr.ch, b.nex2.ch>>}])
      [] OTHER -> InSet(MoveNext(b), [e EXCEPT !.chars = @ \cup {b.curr.ch}])

BuildCharset(b) ==
    LET in == MoveNext(b) IN
    CASE b.curr.ch # Code["["] -> Built(in, GetStockElx(b, b.curr.ch))
      [] b.curr.ch = Code["["] /\ Is(in.curr, ":") -> BuildPosix(in)
      [] b.curr.ch = Code["["] /\ Is(in.curr, "^") -> InSet(MoveNext(in), CharSet(b, {}, {}, FALSE))
      [] OTHER -> InSet(in, CharSet(b, {}, {}, TRUE))

BuildBoundary(b) ==
    LET ch == b.curr.ch
        lines == "MULTILINE" \in b.flags
        boundary(type, yes) == [op |-> "boundary", type |-> type, yes |-> yes]
        e == CASE ch = Code["^"] -> boundary(IF lines THEN "line_begin" ELSE "file_begin", TRUE)
               [] ch = Code["$"] -> boundary(IF lines THEN "line_end" ELSE "file_end", TRUE)
               [] ch = Code["b"] -> boundary("word_edge", TRUE)
               [] ch = Code["B"] -> boundary("word_edge", FALSE)
               [] ch = Code["A"] -> boundary("file_begin", TRUE)
               [] ch = Code["Z"] -> boundary("file_end_n", TRUE)
               [] ch = Code["z"] -> boundary("file_end", TRUE)
               [] ch = Code["G"] -> IF "GLOBAL" \in b.flags THEN [op |-> "global"] ELSE EMPTY
    IN  Built(MoveNext(b), e)

\* A reference by name has the name until Build knows the numbers.
NoName == <<>>
Reference(b, number, name) ==
    [op |-> "backref", number |-> number, name |-> name, left |-> Left(b), nocase |-> NoCase(b)]

\* At most three digits; of \1 to \9 the digits are tokens.
RECURSIVE Digits(_, _)
Digits(b, n) ==
    IF n = 0 \/ ~IsDecimal(b.curr.ch) THEN [chars |-> <<>>, b |-> b]
    ELSE LET r == Digits(MoveNext(b), n - 1) IN [r EXCEPT !.chars = <<b.curr.ch>> \o @]

Closing(ch) == IF ch = Code["<"] THEN Code[">"] ELSE ch
BuildBackref(b) ==
    LET in == MoveNext(b) IN
    IF in.curr.ch \in OneOf("'<")
    THEN LET r == UntilChar(MoveNext(in), Closing(in.curr.ch)) IN
         Built(MoveNext(r.b),
               IF IsNumber(b, r.chars) THEN Reference(b, ReadDec(b, r.chars).dec, NoName)
               ELSE Reference(b, -1, r.chars))
    ELSE LET r == Digits(in, 3) IN
         Built(r.b, Reference(b, FoldLeft(LAMBDA n, ch : 10 * n + ch - 48, 0, r.chars), NoName))

-----------------------------------------------------------------------------
(* Parentheses.                                                            *)

Bracket(number, right) == [op |-> "bracket", number |-> number, right |-> right]
GroupList(b, number, e) ==
    [op |-> "list", left |-> Left(b),
     elems |-> <<Bracket(number, Left(b)), e, Bracket(number, ~Left(b))>>]

\* (...) has the next number.
BuildGroup(b) ==
    LET number == b.max + 1
        r == Within([b EXCEPT !.max = number], b.flags)
        list == GroupList(b, number, r.e)
    IN  Built([r.b EXCEPT !.groups = @ @@ (number :> list)], list)

\* (?<name>...), (?'name'...), (?P<name>...) and (?<number>...).  The numbers
\* of names are given in the end; until then the k-th has Unnumbered(k).
Unnumbered(k) == -10 - k
BuildNamed(b) ==
    LET r == UntilChar(MoveNext(b), Closing(IF b.curr.ch \in OneOf("'<") THEN b.curr.ch ELSE Code["<"]))
        number == IF IsNumber(b, r.chars) THEN ReadDec(b, r.chars).dec ELSE -1
        name == IF IsNumber(b, r.chars) THEN NoName ELSE r.chars
        in == Within([MoveNext(r.b) EXCEPT !.nextNamed = b.nextNamed + 1], b.flags)
        list == GroupList(b, IF number < 0 THEN Unnumbered(b.nextNamed) ELSE number, in.e)
    IN  Built([in.b EXCEPT !.named =
                  @ @@ (b.nextNamed :> [name |-> name, number |-> number, list |-> list])], list)

\* (?R), (?Rn), (?n), (?R<name>) and (?R'name').
Delegate(number, name) == [op |-> "delegate", number |-> number, name |-> name]
NumberIn(b, chars) == IF ReadDec(b, chars).ok THEN ReadDec(b, chars).dec ELSE 0
BuildCall(b) ==
    IF b.curr.ch \in OneOf("'<")
    THEN LET r == UntilChar(MoveNext(b), Closing(b.curr.ch)) IN
         Built(MoveNext(r.b),
               IF IsNumber(b, r.chars) THEN Delegate(ReadDec(b, r.chars).dec, NoName)
               ELSE Delegate(-3, r.chars))
    ELSE LET r == UntilChar(b, Code[")"]) IN Built(r.b, Delegate(NumberIn(b, r.chars), NoName))

\* (?(condition)yes|no): a number, a name or what to match.  Which of the last
\* two it is turns out in the end.
RECURSIVE BuildRecursive(_), BuildList(_)
BuildAsked(b) ==
    LET in == MoveNext(b)
        r == Within(in, b.flags)
        text == SubSeq(b.pattern, in.curr.pos + 1, r.b.curr.pos)
        ask == [op |-> "assert", elem |-> r.e, yes |-> TRUE]
    IN  Built(MoveNext(r.b),
              IF IsNumber(b, text) THEN [number |-> ReadDec(b, text).dec, name |-> NoName, ask |-> EMPTY]
              ELSE [number |-> -1, name |-> text, ask |-> ask])
BuildCondition(b) ==
    LET found == BuildRecursive(b)
        asked == IF Is(b.next, "?")
                 THEN Built(found.b, [number |-> -1, name |-> NoName, ask |-> found.e])
                 ELSE BuildAsked(b)
        yes == BuildList(asked.b)
        after == [yes.b EXCEPT !.flags = asked.b.flags]
        no == IF after.curr.ch = Code["|"] THEN Within(MoveNext(after), after.flags)
              ELSE Built(after, EMPTY)
    IN  Built(no.b, [op |-> "condition", elems |-> <<yes.e, no.e>>] @@ asked.e)

\* (?ims-ims) changes the flags behind it, (?ims-ims:...) those inside of it.
Changed(ch) ==
    CASE ch \in OneOf("iI") -> {"IGNORECASE"}
      [] ch \in OneOf("sS") -> {"SINGLELINE"}
      [] ch \in OneOf("mM") -> {"MULTILINE"}
      [] ch \in OneOf("gG") -> {"GLOBAL"}
      [] OTHER -> {}
NewFlags(flags, chars) ==
    LET minus == {i \in DOMAIN chars : chars[i] = Code["-"]}
        off(i) == \E k \in minus : k < i
    IN  (flags \cup UNION {Changed(chars[i]) : i \in {k \in DOMAIN chars : ~off(k)}})
            \ UNION {Changed(chars[i]) : i \in {k \in DOMAIN chars : off(k)}}
BuildFlags(b) ==
    LET r == Until(b, {<<0, 1>>, <<Code["("], 1>>} \cup OneOf(":)") \X {0, 1})
        flags == NewFlags(b.flags, r.chars)
    IN  CASE r.b.curr.ch = Code[":"] -> Within(MoveNext(r.b), flags)
          [] Is(r.b.curr, "(") -> Within(r.b, flags)
          [] OTHER -> Built([r.b EXCEPT !.flags = flags], EMPTY)

Look(b, flags, yes) ==
    LET r == Within(b, flags) IN Built(r.b, [op |-> "assert", elem |-> r.e, yes |-> yes])

\* Behind (?.
BuildSpecial(b) ==
    LET ch == b.curr.ch
        behind == ch = Code["<"] /\ b.next.ch \in OneOf("!=")
        past == SkipBlanks(b)
    IN  CASE ch \in OneOf("!=") -> Look(MoveNext(b), b.flags \ {"RIGHTTOLEFT"}, ch = Code["="])
          [] behind -> Look(MoveNext(MoveNext(b)), b.flags \cup {"RIGHTTOLEFT"}, b.next.ch = Code["="])
          [] ch = Code["P"] -> BuildNamed(MoveNext(b))
          [] ch \in OneOf("'<") /\ ~behind -> BuildNamed(b)
          [] ch = Code[">"] ->
                LET r == Within(MoveNext(b), b.flags) IN Built(r.b, [op |-> "independent", elem |-> r.e])
          [] ch = Code["R"] -> BuildCall(SkipBlanks(MoveNext(b)))
          [] ch = Code["("] -> BuildCondition(b)
          [] OTHER -> IF IsDecimal(past.curr.ch)
                      THEN LET r == UntilChar(past, Code[")"]) IN
                           Built(r.b, Delegate(NumberIn(b, r.chars), NoName))
                      ELSE BuildFlags(past)

\* From the bracket that opens to behind the one that closes.
BuildRecursive(b) ==
    LET in == MoveNext(b)
        r == IF Is(in.curr, "?") THEN BuildSpecial(MoveNext(in)) ELSE BuildGroup(in)
    IN  Built(MoveNext(r.b), r.e)

-----------------------------------------------------------------------------
(* Lists, repetitions and characters.                                      *)

\* Characters that stand for themselves, but for the one before a quantifier.
Quantifiers == "{?*+"
RECURSIVE Fixed(_, _)
Fixed(b, chars) ==
    CASE b.curr.type = 0 /\ IsOneOf(b.next, Quantifiers) ->
            IF chars = <<>> THEN [chars |-> <<b.curr.ch>>, b |-> MoveNext(b)]
            ELSE [chars |-> chars, b |-> b]
      [] b.curr.type = 0 /\ ~IsOneOf(b.next, Quantifiers) ->
            Fixed(MoveNext(b), Append(chars, b.curr.ch))
      [] b.curr.type = 1 /\ ~IsEnd(b.curr) /\ chars = <<>> /\ ~IsOneOf(b.curr, ")|([.wWsSdD^$AZzbBG\\kg") ->
            Fixed(MoveNext(b), <<b.curr.ch>>)
      [] OTHER -> [chars |-> chars, b |-> b]

BuildSimple(b) ==
    LET r == Fixed(b, <<>>) IN
    CASE Is(b.curr, "(") -> BuildRecursive(b)
      [] IsOneOf(b.curr, "[.wWsSdD") -> BuildCharset(b)
      [] IsOneOf(b.curr, "^$AZzbBG") -> BuildBoundary(b)
      [] IsOneOf(b.curr, "\\kg") -> BuildBackref(b)
      [] OTHER -> Built(r.b, IF r.chars = <<>> THEN EMPTY
                             ELSE [op |-> "string", chars |-> r.chars, left |-> Left(b), nocase |-> NoCase(b)])

\* {n}, {n,} and {n,m}; {,m} and what is no number are none at all.
BuildBounds(b) ==
    LET r == Until(MoveNext(b), {<<0, 1>>, <<Code["}"], 1>>})
        low == ReadDec(b, r.chars)
        comma == low.ok /\ low.str # <<>> /\ low.str[1] = Code[","]
        high == ReadDec(b, Tail(low.str))
        min == IF low.ok THEN low.dec ELSE 0
        max == IF ~comma THEN min ELSE IF high.ok THEN high.dec ELSE Infinite
    IN  [min |-> min, max |-> IF max < min THEN min ELSE max, b |-> MoveNext(r.b)]

Quantified(b) ==
    CASE Is(b.curr, "{") -> BuildBounds(b)
      [] Is(b.curr, "?") -> [min |-> 0, max |-> 1, b |-> MoveNext(b)]
      [] Is(b.curr, "*") -> [min |-> 0, max |-> Infinite, b |-> MoveNext(b)]
      [] Is(b.curr, "+") -> [min |-> 1, max |-> Infinite, b |-> MoveNext(b)]

BuildRepeat(b) ==
    LET simple == BuildSimple(b)
        q == Quantified(simple.b)
        repeat(op) == [op |-> op, elem |-> simple.e, fixed |-> q.min, vart |-> q.max - q.min]
        lazy == Is(q.b.curr, "?")
        kept == Is(q.b.curr, "+")
        behind == IF lazy \/ kept THEN MoveNext(q.b) ELSE q.b
    IN  CASE ~IsOneOf(simple.b.curr, Quantifiers) -> simple
          [] IsOneOf(simple.b.curr, Quantifiers) /\ q.max = 0 -> Built(q.b, EMPTY)
          [] IsOneOf(simple.b.curr, Quantifiers) /\ q.max > 0 /\ q.min = q.max ->
                Built(behind, repeat("repeat"))
          [] OTHER -> Built(behind, repeat(CASE lazy -> "reluctant"
                                             [] kept -> "possessive"
                                             [] OTHER -> "greedy"))

EndOfList(b) == IsEnd(b.curr) \/ IsOneOf(b.curr, "|)")
RECURSIVE Repeats(_)
Repeats(b) ==
    LET one == BuildRepeat(b)
        rest == Repeats(one.b)
    IN  IF EndOfList(b) THEN [elems |-> <<>>, b |-> b]
        ELSE [elems |-> <<one.e>> \o rest.elems, b |-> rest.b]
BuildList(b) ==
    LET r == Repeats(b) IN
    Built(r.b, CASE Len(r.elems) = 0 -> EMPTY
                 [] Len(r.elems) = 1 -> r.elems[1]
                 [] OTHER -> [op |-> "list", left |-> Left(b), elems |-> r.elems])

RECURSIVE Lists(_)
Lists(b) ==
    LET one == BuildList(b)
        rest == Lists(MoveNext(one.b))
    IN  IF Is(one.b.curr, "|") THEN [elems |-> <<one.e>> \o rest.elems, b |-> rest.b]
        ELSE [elems |-> <<one.e>>, b |-> one.b]
BuildAlternative(b) ==
    LET r == Lists(b) IN
    CASE IsEnd(b.curr) -> Built(b, EMPTY)
      [] ~IsEnd(b.curr) /\ Len(r.elems) = 1 -> Built(r.b, r.elems[1])
      [] OTHER -> Built(r.b, [op |-> "alternative", elems |-> r.elems])

-----------------------------------------------------------------------------
(* Build.                                                                  *)

SameName(a, c) == Len(a) = Len(c) /\ \A i \in DOMAIN a : UpperOf(a[i]) = UpperOf(c[i])

\* The number of the first group with the name, in numbers, or -3.
GetNamedNumber(named, numbers, name) ==
    LET same == {k \in DOMAIN named : SameName(named[k].name, name)}
    IN  IF same = {} THEN -3 ELSE numbers[CHOOSE k \in same : \A j \in same : k <= j]

\* Names get the numbers above those of the groups without, in their order; a
\* name that was there before has its number again.
RECURSIVE Numbered(_, _, _, _)
Numbered(named, k, numbers, max) ==
    LET same == GetNamedNumber(named, numbers, named[k].name) IN
    CASE k \notin DOMAIN named -> [numbers |-> numbers, max |-> max]
      [] k \in DOMAIN named /\ numbers[k] > 0 -> Numbered(named, k + 1, numbers, max)
      [] k \in DOMAIN named /\ numbers[k] <= 0 /\ same >= 0 ->
            Numbered(named, k + 1, [numbers EXCEPT ![k] = same], max)
      [] OTHER -> Numbered(named, k + 1, [numbers EXCEPT ![k] = max + 1], max + 1)

\* The names in an element are replaced by numbers.
RECURSIVE Connected(_, _, _)
Connected(e, named, numbers) ==
    LET in(f) == Connected(f, named, numbers)
        all == [i \in DOMAIN e.elems |-> in(e.elems[i])]
        number == GetNamedNumber(named, numbers, e.name)
    IN  CASE e.op = "bracket" ->
                IF e.number < 0 THEN [e EXCEPT !.number = numbers[-10 - @]] ELSE e
          [] e.op \in {"backref", "delegate"} ->
                IF e.name = NoName THEN e ELSE [e EXCEPT !.number = number]
          [] e.op = "condition" ->
                [e EXCEPT !.elems = all, !.ask = in(@),
                          !.number = IF e.name # NoName /\ number >= 0 THEN number ELSE @]
          [] e.op \in {"list", "alternative"} -> [e EXCEPT !.elems = all]
          [] e.op \in {"repeat", "greedy", "reluctant", "possessive", "independent", "assert"} ->
                [e EXCEPT !.elem = in(@)]
          [] OTHER -> e

Start(pattern, flags, size) ==
    LET none == [ch |-> 0, type |-> 0, pos |-> 0] IN
    MoveNext(MoveNext(MoveNext(
        [pattern |-> pattern, size |-> size, at |-> 0, depth |-> 0, quoted |-> FALSE, fun |-> "none",
         extended |-> "EXTENDED" \in flags, flags |-> flags, curr |-> none, next |-> none,
         nex2 |-> none, max |-> 0, nextNamed |-> 0, groups |-> <<>>, named |-> <<>>])))

Build(pattern, flags, size) ==
    LET r == Within(Start(pattern, flags, size), flags)
        named == r.b.named
        given == Numbered(named, 0, [k \in DOMAIN named |-> named[k].number], r.b.max)
        lists == [i \in 1..r.b.max |-> r.b.groups[i]]
                     \o [i \in 1..Cardinality(DOMAIN named) |-> named[i - 1].list]
        connected == [i \in DOMAIN lists |-> Connected(lists[i], named, given.numbers)]
        number(i) == connected[i].elems[1].number
        all == {number(i) : i \in DOMAIN lists}
    IN  [top |-> Connected(r.e, named, given.numbers),
         groups |-> [n \in all |-> connected[CHOOSE i \in DOMAIN lists :
                                       number(i) = n /\ \A j \in 1..i - 1 : number(j) # n]],
         max |-> CHOOSE n \in all \cup {given.max} : \A k \in all \cup {given.max} : k <= n,
         left |-> "RIGHTTOLEFT" \in flags, named |-> named, numbers |-> given.numbers]
=============================================================================
