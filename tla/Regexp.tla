------------------------------- MODULE Regexp -------------------------------
(***************************************************************************)
(* The matching of regular expressions (deelx.h).  An expression is a tree *)
(* of elements, which find their matches one after the other: Match finds  *)
(* the first at the position of the context, MatchNext gives it back and   *)
(* finds the next.  What an element needs to go on is on the stack of the  *)
(* context, so that elements are called in the order of a stack.           *)
(*                                                                         *)
(* Characters are numbers, positions count from zero as in the code.  An   *)
(* element has its class in op; left is m_brightleft.  An entry of the     *)
(* capture stack is [number, from, to, z]; Restore leaves the entries      *)
(* above in the buffer, where a stale index finds them.                    *)
(***************************************************************************)
EXTENDS Integers, SequencesExt

RECURSIVE Match(_, _), MatchNext(_, _)

Yes(c) == [ok |-> TRUE, c |-> c]
No(c) == [ok |-> FALSE, c |-> c]

Push(c, n) == [c EXCEPT !.stack = Append(@, n)]
Top(c) == Last(c.stack)
Pop(c) == [c EXCEPT !.stack = Front(@)]
RestoreTo(c, size) == [c EXCEPT !.stack = SubSeq(@, 1, size)]

\* The capture stack, its entries counted from zero; None is an index below it.
None == -1
Capture(c, n) == c.captures[n + 1]
PushCapture(c, entry) ==
    [c EXCEPT !.captures = SubSeq(@, 1, c.ncaptures) \o <<entry>> \o SubSeq(@, c.ncaptures + 2, Len(@)),
              !.ncaptures = @ + 1]

IsUpper(ch) == ch \in 65..90
IsLower(ch) == ch \in 97..122
IsDigit(ch) == ch \in 48..57
toupper(ch) == IF IsLower(ch) THEN ch - 32 ELSE ch

-----------------------------------------------------------------------------
(* Elements that look at the text.                                         *)

\* The characters s stand at the position, or end there when left.
Stands(s, left, nocase, c) ==
    LET from == IF left THEN c.pos - Len(s) ELSE c.pos
        Same(a, b) == a = b \/ (nocase /\ toupper(a) = toupper(b))
    IN  /\ from >= 0 /\ from + Len(s) <= Len(c.text)
        /\ \A i \in DOMAIN s : Same(s[i], c.text[from + i])

Step(e, n) == IF e.left THEN -n ELSE n
Moved(c, n) == [c EXCEPT !.pos = @ + n]

StringMatch(e, c) ==
    IF Stands(e.chars, e.left, e.nocase, c) THEN Yes(Moved(c, Step(e, Len(e.chars)))) ELSE No(c)
StringMatchNext(e, c) == No(Moved(c, -Step(e, Len(e.chars))))

Posix(name, ch) ==
    CASE name = "alnum" -> IsUpper(ch) \/ IsLower(ch) \/ IsDigit(ch)
      [] name = "alpha" -> IsUpper(ch) \/ IsLower(ch)
      [] name = "ascii" -> ch < 128
      [] name = "cntrl" -> ch < 32 \/ ch = 127
      [] name = "digit" -> IsDigit(ch)
      [] name = "graph" -> ch \in 33..126
      [] name = "lower" -> IsLower(ch)
      [] name = "print" -> ch \in 32..126
      [] name = "punct" -> ch \in 33..126 /\ ~(IsUpper(ch) \/ IsLower(ch) \/ IsDigit(ch))
      [] name = "space" -> ch = 32 \/ ch \in 9..13
      [] name = "upper" -> IsUpper(ch)
      [] name = "xdigit" -> IsDigit(ch) \/ ch \in 65..70 \/ ch \in 97..102
      [] name = "blank" -> ch \in {32, 9}
      [] OTHER -> FALSE

\* Of a set: its ranges, characters and the sets and classes embedded in it.
\* A class without a name of those above matches nothing, negated or not.
RECURSIVE Has(_, _)
Has(e, ch) ==
    IF e.op = "posix" THEN e.known /\ (Posix(e.name, ch) <=> e.yes)
    ELSE (\/ \E r \in e.ranges : r[1] <= ch /\ ch <= r[2]
          \/ ch \in e.chars
          \/ \E m \in e.embeds : Has(m, ch)) <=> e.yes

SetMatch(e, c) ==
    LET at == IF e.left THEN c.pos - 1 ELSE c.pos IN
    IF at \in 0..Len(c.text) - 1 /\ Has(e, c.text[at + 1]) THEN Yes(Moved(c, Step(e, 1))) ELSE No(c)
SetMatchNext(e, c) == No(Moved(c, -Step(e, 1)))

NewLine == 10
Return == 13
IsWordChar(ch) == IsUpper(ch) \/ IsLower(ch) \/ IsDigit(ch) \/ ch = 95

Boundary(type, c) ==
    LET n == Len(c.text)
        chL == IF c.pos > 0 THEN c.text[c.pos] ELSE 0
        chR == IF c.pos < n THEN c.text[c.pos + 1] ELSE 0
    IN  CASE type = "file_begin" -> c.pos <= 0
          [] type = "file_end" -> c.pos >= n
          [] type = "file_end_n" ->
                \/ c.pos >= n
                \/ c.text[n] = NewLine /\ (c.pos = n - 1 \/ (n > 1 /\ c.text[n - 1] = Return /\ c.pos = n - 2))
          [] type = "line_begin" ->
                c.pos <= 0 \/ chL = NewLine \/ (chL = Return /\ chR # NewLine)
          [] type = "line_end" ->
                c.pos >= n \/ chR = Return \/ (chR = NewLine /\ chL # Return)
          [] type = "word_edge" -> IsWordChar(chL) # IsWordChar(chR)
BoundaryMatch(e, c) == IF Boundary(e.type, c) = e.yes THEN Yes(c) ELSE No(c)

\* \G: where the last match ended.
GlobalMatch(c) == IF c.pos = c.begin THEN Yes(c) ELSE No(c)

-----------------------------------------------------------------------------
(* Groups.  The bracket a text meets first opens the entry of the group,   *)
(* the other closes it.  A group inside of itself (recursion) keeps the    *)
(* entry of the outermost, which counts the others in z.                   *)

BracketMatch(e, c) ==
    LET index == c.index[e.number]
        entry == Capture(c, index)
    IN  CASE ~e.right ->
                IF index > 0 /\ index < c.ncaptures /\ entry.to < 0
                THEN Yes([c EXCEPT !.captures[index + 1].z = @ - 1])
                ELSE Yes([PushCapture(c, [number |-> e.number, from |-> c.pos, to |-> -1, z |-> 0])
                             EXCEPT !.index[e.number] = c.ncaptures])
          [] e.right ->
                IF entry.z < 0 THEN Yes([c EXCEPT !.captures[index + 1].z = @ + 1])
                ELSE Yes([c EXCEPT !.captures[index + 1].to = c.pos,
                                   !.captures[index + 1].z = c.zindex, !.zindex = @ + 1])

BracketMatchNext(e, c) ==
    LET index == c.index[e.number]
        below == {n \in 0..c.ncaptures - 2 : Capture(c, n).number = e.number}
    IN  CASE index < 0 -> No(c)
          [] index >= 0 /\ Capture(c, index).z < 0 ->
                No([c EXCEPT !.captures[index + 1].z = IF e.right THEN @ - 1 ELSE @ + 1])
          [] index >= 0 /\ Capture(c, index).z >= 0 /\ e.right ->
                No([c EXCEPT !.captures[index + 1].to = -1, !.captures[index + 1].z = 0])
          [] OTHER ->
                No([c EXCEPT !.ncaptures = @ - 1,
                             !.index[e.number] = IF below = {} THEN None
                                                 ELSE CHOOSE n \in below : \A k \in below : k <= n])

\* A back reference to a group that is still open reaches to the position.
Referred(e, c) ==
    LET entry == Capture(c, c.index[e.number])
        to == IF entry.to < 0 THEN c.pos ELSE entry.to
    IN  IF entry.from < to THEN SubSeq(c.text, entry.from + 1, to)
        ELSE SubSeq(c.text, to + 1, entry.from)
BackrefMatch(e, c) ==
    IF e.number \in DOMAIN c.index /\ c.index[e.number] >= 0 /\ Stands(Referred(e, c), e.left, e.nocase, c)
    THEN Yes(Moved(Push(c, c.pos), Step(e, Len(Referred(e, c)))))
    ELSE No(c)
BackrefMatchNext(c) == No([Pop(c) EXCEPT !.pos = Top(c)])

\* A call of a group by its number; of none that exists, it is empty.
DelegateMatch(e, c) ==
    IF e.number \in DOMAIN c.groups THEN Match(c.groups[e.number], c) ELSE Yes(c)
DelegateMatchNext(e, c) ==
    IF e.number \in DOMAIN c.groups THEN MatchNext(c.groups[e.number], c) ELSE No(c)

-----------------------------------------------------------------------------
(* Elements made of others.                                                *)

RECURSIVE TryFrom(_, _, _)
TryFrom(e, n, c) ==
    IF n > Len(e.elems) THEN No(c)
    ELSE LET r == Match(e.elems[n], c) IN
         IF r.ok THEN Yes(Push(r.c, n)) ELSE TryFrom(e, n + 1, r.c)
AlternativeMatch(e, c) == TryFrom(e, 1, c)
AlternativeMatchNext(e, c) ==
    LET n == Top(c)
        r == MatchNext(e.elems[n], Pop(c))
    IN  IF r.ok THEN Yes(Push(r.c, n)) ELSE TryFrom(e, n + 1, r.c)

\* A list matches its elements in the direction of the text; when one has no
\* match, the one before it goes on.
RECURSIVE Onward(_, _, _), Backward(_, _, _)
Onward(elems, n, c) ==
    IF n > Len(elems) THEN Yes(c)
    ELSE LET r == Match(elems[n], c) IN
         IF r.ok THEN Onward(elems, n + 1, r.c) ELSE Backward(elems, n - 1, r.c)
Backward(elems, n, c) ==
    IF n = 0 THEN No(c)
    ELSE LET r == MatchNext(elems[n], c) IN
         IF r.ok THEN Onward(elems, n + 1, r.c) ELSE Backward(elems, n - 1, r.c)

Directed(e) == IF e.left THEN Reverse(e.elems) ELSE e.elems
ListMatch(e, c) == Onward(Directed(e), 1, c)
ListMatchNext(e, c) == Backward(Directed(e), Len(e.elems), c)

\* Repetitions: m_nfixed times as a list, then up to m_nvart times more.
Copies(e) == [n \in 1..e.fixed |-> e.elem]
MatchFixed(e, c) == Onward(Copies(e), 1, c)
MatchNextFixed(e, c) == Backward(Copies(e), e.fixed, c)

\* The element again while it stays where it is.
RECURSIVE LeavesPos(_, _, _)
LeavesPos(elem, begin, r) ==
    IF r.ok /\ r.c.pos = begin THEN LeavesPos(elem, begin, MatchNext(elem, r.c)) ELSE r

RECURSIVE GreedyVart(_, _, _)
GreedyVart(e, n, c) ==
    LET r == IF n < e.vart THEN LeavesPos(e.elem, c.pos, Match(e.elem, c)) ELSE No(c) IN
    IF r.ok THEN GreedyVart(e, n + 1, r.c) ELSE Yes(Push(r.c, n))

\* The last repetition is exchanged for its next match or given up.  After an
\* exchange no further repetition is tried.
GreedyNextVart(e, c) ==
    LET n == Top(c)
        r == MatchNext(e.elem, Pop(c))
    IN  IF n = 0 THEN No(Pop(c)) ELSE Yes(Push(r.c, IF r.ok THEN n ELSE n - 1))

ReluctantVart(e, c) == Yes(Push(c, 0))

RECURSIVE ReluctantBack(_, _, _)
ReluctantBack(e, n, c) ==
    LET begin == Top(c)
        r == LeavesPos(e.elem, begin, MatchNext(e.elem, Pop(c)))
    IN  CASE n = 0 -> No(c)
          [] n > 0 /\ r.ok -> Yes(Push(Push(r.c, begin), n))
          [] n > 0 /\ ~r.ok -> ReluctantBack(e, n - 1, r.c)
ReluctantNextVart(e, c) ==
    LET n == Top(c)
        r == IF n < e.vart THEN LeavesPos(e.elem, c.pos, Match(e.elem, Pop(c))) ELSE No(Pop(c))
    IN  IF r.ok THEN Yes(Push(Push(r.c, c.pos), n + 1)) ELSE ReluctantBack(e, n, r.c)

\* MatchVart of both always succeeds.
Vart(e, c) == IF e.op = "reluctant" THEN ReluctantVart(e, c) ELSE GreedyVart(e, 0, c)
RepeatMatch(e, c) ==
    LET r == MatchFixed(e, c) IN IF r.ok /\ e.op # "repeat" THEN Vart(e, r.c) ELSE r
NextVart(e, c) == IF e.op = "reluctant" THEN ReluctantNextVart(e, c) ELSE GreedyNextVart(e, c)
RepeatMatchNext(e, c) ==
    LET next == IF e.op = "repeat" THEN No(c) ELSE NextVart(e, c)
        fixed == MatchNextFixed(e, next.c)
    IN  CASE next.ok -> next
          [] ~next.ok /\ fixed.ok /\ e.op # "repeat" -> Vart(e, fixed.c)
          [] OTHER -> fixed

\* (?>...) and possessive repetitions: one match, with nothing to go on from.
Kept(c, r) ==
    LET back == RestoreTo(r.c, Len(c.stack)) IN
    IF r.ok THEN Yes(Push(Push(back, c.pos), c.ncaptures)) ELSE No(back)
IndependentMatch(e, c) == Kept(c, Match(e.elem, c))
PossessiveMatch(e, c) ==
    LET r == MatchFixed(e, c) IN Kept(c, IF r.ok THEN GreedyVart(e, 0, r.c) ELSE r)
KeptMatchNext(c) ==
    No([Pop(Pop(c)) EXCEPT !.ncaptures = Top(c), !.pos = Top(Pop(c))])

\* Look ahead and behind.
AssertMatch(e, c) ==
    LET r == Match(e.elem, c)
        back == [RestoreTo(r.c, Len(c.stack)) EXCEPT !.pos = c.pos]
    IN  IF r.ok = e.yes THEN Yes(Push(back, c.ncaptures))
        ELSE No([back EXCEPT !.ncaptures = c.ncaptures])
AssertMatchNext(c) == No([Pop(c) EXCEPT !.ncaptures = Top(c)])

\* (?(condition)yes|no): on a group, or on an element that matches here.
Condition(e, c) ==
    IF e.number >= 0
    THEN [ok |-> e.number \in DOMAIN c.index /\ c.index[e.number] >= 0, c |-> c]
    ELSE LET r == Match(e.ask, c) IN
         [r EXCEPT !.c = [RestoreTo(@, Len(c.stack)) EXCEPT !.pos = c.pos]]
Chosen(r, ncaptures, n) ==
    IF r.ok THEN Yes(Push(Push(r.c, ncaptures), n)) ELSE No([r.c EXCEPT !.ncaptures = ncaptures])
ConditionMatch(e, c) ==
    LET asked == Condition(e, c)
        n == IF asked.ok THEN 1 ELSE 2
    IN  Chosen(Match(e.elems[n], asked.c), c.ncaptures, n)
ConditionMatchNext(e, c) ==
    LET n == Top(c) IN Chosen(MatchNext(e.elems[n], Pop(Pop(c))), Top(Pop(c)), n)

Match(e, c) ==
    CASE e.op = "empty" -> Yes(c)
      [] e.op = "string" -> StringMatch(e, c)
      [] e.op \in {"range", "posix"} -> SetMatch(e, c)
      [] e.op = "boundary" -> BoundaryMatch(e, c)
      [] e.op = "global" -> GlobalMatch(c)
      [] e.op = "bracket" -> BracketMatch(e, c)
      [] e.op = "backref" -> BackrefMatch(e, c)
      [] e.op = "delegate" -> DelegateMatch(e, c)
      [] e.op = "alternative" -> AlternativeMatch(e, c)
      [] e.op = "list" -> ListMatch(e, c)
      [] e.op \in {"repeat", "greedy", "reluctant"} -> RepeatMatch(e, c)
      [] e.op = "possessive" -> PossessiveMatch(e, c)
      [] e.op = "independent" -> IndependentMatch(e, c)
      [] e.op = "assert" -> AssertMatch(e, c)
      [] e.op = "condition" -> ConditionMatch(e, c)

MatchNext(e, c) ==
    CASE e.op \in {"empty", "boundary", "global"} -> No(c)
      [] e.op = "string" -> StringMatchNext(e, c)
      [] e.op \in {"range", "posix"} -> SetMatchNext(e, c)
      [] e.op = "bracket" -> BracketMatchNext(e, c)
      [] e.op = "backref" -> BackrefMatchNext(c)
      [] e.op = "delegate" -> DelegateMatchNext(e, c)
      [] e.op = "alternative" -> AlternativeMatchNext(e, c)
      [] e.op = "list" -> ListMatchNext(e, c)
      [] e.op \in {"repeat", "greedy", "reluctant"} -> RepeatMatchNext(e, c)
      [] e.op \in {"possessive", "independent"} -> KeptMatchNext(c)
      [] e.op = "assert" -> AssertMatchNext(c)
      [] e.op = "condition" -> ConditionMatchNext(e, c)

-----------------------------------------------------------------------------
(* CRegexpT.  re is what the builder made: the element top, the groups by  *)
(* their numbers, the greatest number, and whether it runs from the right. *)

PrepareMatch(re, text, start) ==
    LET pos == IF start >= 0 THEN start ELSE IF re.left THEN Len(text) ELSE 0 IN
    [text |-> text, groups |-> re.groups, stack |-> <<>>, captures |-> <<>>, ncaptures |-> 0,
     index |-> <<>>, zindex |-> 0, last |-> -1, begin |-> pos, pos |-> pos]

Cleared(re, c) ==
    PushCapture([c EXCEPT !.stack = <<>>, !.ncaptures = 0,
                          !.index = [n \in 0..re.max |-> IF n = 0 THEN 0 ELSE None]],
                [number |-> 0, from |-> c.pos, to |-> -1, z |-> -1])

\* Group 0 is the match.
Closed(c) == [c EXCEPT !.captures[1].to = c.pos]
MatchResult(re, c) ==
    [n \in 0..re.max |->
        IF c.index[n] < 0 THEN <<-1, -1>>
        ELSE LET entry == Capture(c, c.index[n]) IN
             IF entry.from < entry.to THEN <<entry.from, entry.to>> ELSE <<entry.to, entry.from>>]
NotMatched(c) == [ok |-> FALSE, c |-> c]
Matched(re, c) == [ok |-> TRUE, c |-> Closed(c), groups |-> MatchResult(re, Closed(c))]

\* From the position of the context on.  A match without characters where the
\* last one ended is passed over.
RECURSIVE Search(_, _)
Search(re, c) ==
    LET delta == IF re.left THEN -1 ELSE 1
        r == Match(re.top, Cleared(re, c))
    IN  IF c.pos = (IF re.left THEN -1 ELSE Len(c.text) + 1) THEN NotMatched(c)
        ELSE IF ~r.ok \/ (c.last = c.begin /\ c.begin = r.c.pos) THEN Search(re, Moved(r.c, delta))
        ELSE Matched(re, [r.c EXCEPT !.last = c.begin, !.begin = r.c.pos])

\* All of the text.
RECURSIVE Exact(_, _)
Exact(re, r) ==
    CASE ~r.ok -> NotMatched(r.c)
      [] r.ok /\ r.c.pos = (IF re.left THEN 0 ELSE Len(r.c.text)) -> Matched(re, r.c)
      [] OTHER ->
            LET next == MatchNext(re.top, r.c) IN
            IF next.ok /\ next.c.last = next.c.begin /\ next.c.begin = next.c.pos
            THEN NotMatched(next.c)
            ELSE Exact(re, [next EXCEPT !.c.last = next.c.pos])
MatchExact(re, text) ==
    LET c == Cleared(re, PrepareMatch(re, text, -1)) IN Exact(re, Match(re.top, c))

-----------------------------------------------------------------------------
(* Replace (3279-3573).  What matches are replaced by is first compiled to *)
(* pieces: Text is put as it is, Group n stands for what the group matched,*)
(* Around for what "$" and a sign stand for.                               *)

Builder == INSTANCE RegexpBuilder

Text(from, len) == [is |-> "text", from |-> from, len |-> len]
Group(n) == [is |-> "group", number |-> n]
Around(ch) == [is |-> "around", ch |-> ch]

\* $$ $& $` $' $+ $_ $1 ${name}; 96 is the backquote.
References ==
    Builder!Build(Builder!Codes("\\$(?:[$&") \o <<96>> \o Builder!Codes("'+_\\d]|\\{.*?\\})"), {}, 1)

GetNamedGroupNumber(re, name) == Builder!GetNamedNumber(re.named, re.numbers, name)

-----------------------------------------------------------------------------
(* One reference at position at, up to position end, in what replaces: its *)
(* pieces and the characters it takes.                                     *)

\* The name in the braces; what has none has a name of no length, which is
\* the name of no group.
Braced(re, to, at, end) ==
    LET named == IF end - at < 3 THEN -3 ELSE GetNamedGroupNumber(re, SubSeq(to, at + 3, end - 1)) IN
    [pieces |-> IF named \in 1..re.max THEN <<Group(named)>> ELSE <<Text(at, end - at)>>,
     delta |-> end - at]

\* Up to three digits, of which the last are left out until a group has the
\* number.
Numbers(to, at) ==
    LET digits == {n \in 0..3 : \A i \in 1..n : at + 1 + i <= Len(to) /\ IsDigit(to[at + 1 + i])}
    IN  [n \in digits |-> FoldLeft(LAMBDA val, i : 10 * val + to[at + 1 + i] - 48, 0, [i \in 1..n |-> i])]
Numeric(re, to, at) ==
    LET numbers == Numbers(to, at)
        fits == {n \in DOMAIN numbers : numbers[n] <= re.max}
        most == CHOOSE n \in fits : \A k \in fits : k <= n
        n == IF fits = DOMAIN numbers \/ numbers[most] > 0 THEN most ELSE 0
    IN  IF n = 0 THEN [pieces |-> <<Text(at, 1)>>, delta |-> 1]
        ELSE [pieces |-> <<Group(numbers[n])>>, delta |-> n + 1]

\* A sign is replaced and, in the code, goes on as a name in braces.
Reference(re, to, at, end) ==
    LET ch == to[at + 2] IN
    CASE ch = Builder!Code["$"] -> [pieces |-> <<Text(at, 1)>>, delta |-> 2]
      [] ch \in Builder!OneOf("&'+_") \cup {96} ->
            LET kept == Braced(re, to, at, end) IN [kept EXCEPT !.pieces = <<Around(ch)>> \o @]
      [] ch = Builder!Code["{"] -> Braced(re, to, at, end)
      [] OTHER -> Numeric(re, to, at)

RECURSIVE CompiledFrom(_, _, _, _)
CompiledFrom(re, to, c, lastIndex) ==
    LET r == Search(References, c)
        at == r.groups[0][1]
        before == IF at > lastIndex THEN <<Text(lastIndex, at - lastIndex)>> ELSE <<>>
        one == Reference(re, to, at, r.groups[0][2])
    IN  IF r.ok THEN before \o one.pieces \o CompiledFrom(re, to, r.c, at + one.delta)
        ELSE IF lastIndex < Len(to) THEN <<Text(lastIndex, Len(to) - lastIndex)>>
        ELSE <<>>
CompiledTo(re, to) == CompiledFrom(re, to, PrepareMatch(References, to, -1), 0)

-----------------------------------------------------------------------------
(* The matches.                                                            *)

Part(text, from, end) == SubSeq(text, from + 1, end)
LastGroup(groups) ==
    groups[CHOOSE n \in DOMAIN groups :
               groups[n][1] >= 0 /\ \A k \in DOMAIN groups : k > n => groups[k][1] < 0]

Piece(piece, to, text, groups) ==
    LET start == groups[0][1]
        end == groups[0][2]
        last == LastGroup(groups)
    IN  CASE piece.is = "text" -> Part(to, piece.from, piece.from + piece.len)
          [] piece.is = "group" -> Part(text, groups[piece.number][1], groups[piece.number][2])
          [] piece.is = "around" ->
                CASE piece.ch = Builder!Code["&"] -> Part(text, start, end)
                  [] piece.ch = 96 -> Part(text, 0, start)
                  [] piece.ch = Builder!Code["'"] -> Part(text, end, Len(text))
                  [] piece.ch = Builder!Code["+"] -> Part(text, last[1], last[2])
                  [] piece.ch = Builder!Code["_"] -> text
Middle(pieces, to, text, groups) ==
    FlattenSeq([i \in DOMAIN pieces |-> Piece(pieces[i], to, text, groups)])

\* out is what is joined so far, to0 and to1 the bounds of the last match in
\* it, counted from the side the matches are found from.
RECURSIVE Replaced(_, _, _, _, _, _)
Replaced(re, pieces, to, ntimes, c, done) ==
    LET r == Search(re, c)
        text == c.text
        range == r.groups[0]
        between == IF re.left THEN Part(text, range[2], done.last) ELSE Part(text, done.last, range[1])
        new == Middle(pieces, to, text, r.groups)
        after == IF re.left THEN Part(text, 0, done.last) ELSE Part(text, done.last, Len(text))
        Joined(a, b) == IF re.left THEN b \o a ELSE a \o b
    IN  IF done.ntime = ntimes \/ ~r.ok THEN [done EXCEPT !.out = Joined(@, after)]
        ELSE Replaced(re, pieces, to, ntimes, r.c,
                      [out |-> Joined(Joined(done.out, between), new),
                       last |-> IF re.left THEN range[1] ELSE range[2],
                       to0 |-> done.to1 + Step(re, Len(between)),
                       to1 |-> done.to1 + Step(re, Len(between) + Len(new)),
                       ntime |-> done.ntime + 1])

\* The text, the number of matches and the place of the last.
Replace(re, text, to, start, ntimes) ==
    LET done == Replaced(re, CompiledTo(re, to), to, ntimes, PrepareMatch(re, text, start),
                         [out |-> <<>>, last |-> IF re.left THEN Len(text) ELSE 0,
                          to0 |-> 0, to1 |-> 0, ntime |-> 0])
    IN  [text |-> done.out, ntime |-> done.ntime,
         place |-> IF re.left THEN <<Len(done.out) - done.to1, Len(done.out) - done.to0>>
                   ELSE <<done.to0, done.to1>>]
=============================================================================
