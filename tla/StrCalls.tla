------------------------------ MODULE StrCalls ------------------------------
(***************************************************************************)
(* What common/String.cpp compares and looks for in texts, and the calls   *)
(* of an lfStr and of another that parts of it are extracted to, each      *)
(* beside what it says of texts, without a buffer.                         *)
(***************************************************************************)
EXTENDS LfStr
LOCAL INSTANCE SequencesExt

CONSTANTS
  StrTexts,   \* what the string is set to first
  StrParts,   \* the texts that calls are given, none of them empty
  StrFilters, \* what Filter is given
  StrNumbers, \* what FormatNumber is given
  MaxStrCalls \* bound: how many calls are made

VARIABLES
  str, dest,           \* the two strings
  text, destText,      \* history: what they should say
  answered,            \* history: was the last question answered as it should be
  calls                \* how many were made

strVars == <<str, dest, text, destText, answered, calls>>

------------------------------------------------------------------------------
(* Comparing and looking for texts.  A text is read up to its zero; the    *)
(* loops go on as long as the code's do.                                   *)

\* The character at a place, counted from 1, or the zero behind the text.
At(t, i) == IF i <= Len(t) THEN t[i] ELSE NUL
\* ( INTSIGNBITNOTSET( d ) << 1 ) - 1
Sign(d) == IF d >= 0 THEN 1 ELSE -1

\* The first place, up to the nth, where characters differ; 0 if there is none.
Differ(s1, s2, n, D(_, _)) ==
  LET places == {i \in 1 .. Min({n, Len(s1) + 1}) : D(At(s1, i), At(s2, i)) # 0}
  IN IF places = {} THEN 0 ELSE Min(places)
Compared(s1, s2, n, D(_, _)) ==
  LET i == Differ(s1, s2, n, D) IN IF i = 0 THEN 0 ELSE Sign(D(At(s1, i), At(s2, i)))

\* The difference is corrected for a capital in the first text, then for one in the second.
AsIs(c1, c2) == c1 - c2
NoCase(c1, c2) ==
  LET d == IF c1 \in 65 .. 90 THEN c1 - c2 + 32 ELSE c1 - c2
  IN IF c1 = c2 \/ d = 0 THEN 0 ELSE IF c2 \in 65 .. 90 THEN d - 32 ELSE d
PathNoCase(c1, c2) ==
  LET d1 == IF c1 \in 65 .. 90 THEN c1 - c2 + 32 ELSE c1 - c2
      d2 == IF c1 = Backslash THEN d1 + (Slash - Backslash) ELSE d1
      d3 == IF c2 \in 65 .. 90 THEN d2 - 32 ELSE d2
      d4 == IF c2 = Backslash THEN d3 - (Slash - Backslash) ELSE d3
  IN IF 0 \in {c1 - c2, d1, d2, d3} THEN 0 ELSE d4

Cmpn(s1, s2, n) == Compared(s1, s2, n, AsIs)
Cmp(s1, s2) == Cmpn(s1, s2, Len(s1) + 1)
Icmpn(s1, s2, n) == Compared(s1, s2, n, NoCase)
Icmp(s1, s2) == Icmpn(s1, s2, Len(s1) + 1)

\* Color escapes are skipped on both sides before every character.
IcmpNoColor(s1, s2) ==
  LET skip(t, i) == IF IsColorAt(t \o <<NUL>>, i) /\ i < Len(t) THEN i + 2 ELSE i
      cmp[i \in 1 .. Len(s1) + 2, j \in 1 .. Len(s2) + 2] ==
        LET a == skip(s1, i)  b == skip(s2, j)
        IN IF a # i \/ b # j THEN cmp[a, b]
           ELSE IF NoCase(At(s1, i), At(s2, j)) # 0 THEN Sign(NoCase(At(s1, i), At(s2, j)))
           ELSE IF i > Len(s1) THEN 0
           ELSE cmp[i + 1, j + 1]
  IN cmp[1, 1]

\* Folders come first: a slash from the first difference on decides before the characters.
InFolder(t, i) == \E k \in i .. Len(t) : IsSlash(t[k])
IcmpnPath(s1, s2, n) ==
  LET i == Differ(s1, s2, n, PathNoCase)
  IN IF i = 0 THEN 0
     ELSE IF InFolder(s1, i) /\ ~InFolder(s2, i) THEN -1
     ELSE IF InFolder(s2, i) /\ ~InFolder(s1, i) THEN 1
     ELSE Sign(PathNoCase(At(s1, i), At(s2, i)))
IcmpPath(s1, s2) == IcmpnPath(s1, s2, Len(s1) + 1)

------------------------------------------------------------------------------
First0(S) == IF S = {} THEN -1 ELSE Min(S)

\* Both are asked with an end or with -1 for all of the text; places are counted from 0.
FindChar(t, c, start, end) ==
  First0({i \in start .. (IF end = -1 THEN Len(t) - 1 ELSE end) : At(t, i + 1) = c})
Same(c1, c2, casesensitive) == IF casesensitive THEN c1 = c2 ELSE Upper(c1) = Upper(c2)
FindText(t, sought, casesensitive, start, end) ==
  First0({i \in start .. (IF end = -1 THEN Len(t) ELSE end) - Len(sought) :
            \A j \in 1 .. Len(sought) : Same(At(t, i + j), sought[j], casesensitive)})
LastOf(t, c) == Max({i \in 0 .. Len(t) - 1 : t[i + 1] = c} \cup {-1})

\* CheckExtension compares from the ends on and stops when one pointer is at a first
\* character, which it does not compare any more unless it is the only one.
CheckExtension(name, ext) ==
  LET n == Min({Len(name), Len(ext)})
      compared == IF n = 1 THEN 1 ELSE n - 1
  IN /\ \A k \in 0 .. compared - 1 : NoCase(name[Len(name) - k], ext[Len(ext) - k]) = 0
     /\ Len(name) - compared >= 1

IsNumeric(t) ==
  LET s == IF At(t, 1) = Hyphen THEN From(t, 1) ELSE t
  IN /\ \A i \in DOMAIN s : s[i] \in 48 .. 57 \cup {Dot}
     /\ Cardinality({i \in DOMAIN s : s[i] = Dot}) <= 1
LengthWithoutColors(t) == Len(KeptColors(t))

------------------------------------------------------------------------------
(* Filter: what is left of the filter and of the name, to the end of the   *)
(* filter.                                                                 *)

Star == 42
QMark == 63
Open == 91
Close == 93

\* The literal characters behind a star, and where the filter goes on.
RECURSIVE Literal(_)
Literal(f) ==
  IF f = <<>> \/ f[1] \in {Star, QMark} \/ (f[1] = Open /\ At(f, 2) # Open)
    THEN [text |-> <<>>, rest |-> f]
    ELSE LET l == Literal(From(f, IF f[1] = Open THEN 2 ELSE 1))
         IN [l EXCEPT !.text = <<f[1]>> \o @]

EndsClass(f) == f[1] = Close /\ At(f, 2) # Close
Caseless(c, casesensitive) == IF casesensitive THEN c ELSE Upper(c)

\* Whether a class names the character, and the rest of the filter behind the bracket.
RECURSIVE InClass(_, _, _)
InClass(f, c, casesensitive) ==
  IF f = <<>> \/ EndsClass(f) THEN [found |-> FALSE, rest |-> f]
  ELSE IF At(f, 2) = Hyphen /\ At(f, 3) # NUL /\ (At(f, 3) # Close \/ At(f, 4) = Close)
    THEN IF Caseless(c, casesensitive) \in Caseless(f[1], casesensitive) .. Caseless(f[3], casesensitive)
           THEN [found |-> TRUE, rest |-> From(f, 3)] ELSE InClass(From(f, 3), c, casesensitive)
  ELSE IF Same(f[1], c, casesensitive)
    THEN [found |-> TRUE, rest |-> From(f, 1)] ELSE InClass(From(f, 1), c, casesensitive)
RECURSIVE BehindClass(_)
BehindClass(f) ==
  IF f = <<>> THEN f ELSE IF EndsClass(f) THEN From(f, 1) ELSE BehindClass(From(f, 1))

\* A name that is used up is read behind its zero: what Filter then finds is not in it.
RECURSIVE Filter(_, _, _)
Filter(f, name, casesensitive) ==
  IF f = <<>> THEN TRUE
  ELSE CASE f[1] = Star ->
         LET l == Literal(From(f, 1))
             index == FindText(name, l.text, casesensitive, 0, Len(name))
         IN IF l.text = <<>> THEN Filter(l.rest, name, casesensitive)
            ELSE index # -1 /\ Filter(l.rest, From(name, index + Len(l.text)), casesensitive)
    [] f[1] = QMark -> Filter(From(f, 1), From(name, 1), casesensitive)
    [] f[1] = Open /\ At(f, 2) = Open ->
         At(name, 1) = Open /\ Filter(From(f, 2), From(name, 1), casesensitive)
    [] f[1] = Open /\ At(f, 2) # Open ->
         LET c == InClass(From(f, 1), At(name, 1), casesensitive)
         IN c.found /\ Filter(BehindClass(c.rest), From(name, 1), casesensitive)
    [] OTHER ->
         Same(f[1], At(name, 1), casesensitive)
           /\ Filter(From(f, 1), From(name, 1), casesensitive)

------------------------------------------------------------------------------
(* The two strings. *)

StrInit ==
  /\ str = Fresh /\ text = <<>> /\ dest = Fresh /\ destText = <<>>
  /\ answered = TRUE /\ calls = 0

------------------------------------------------------------------------------
(* What the calls mean. *)

Times(t, n) == FlattenSeq([i \in 1 .. n |-> t])
\* The text without any number of parts at its front, or at its end.
WithoutFronts(t, part) ==
  CHOOSE r \in {From(t, n) : n \in 0 .. Len(t)} :
    /\ ~IsPrefix(part, r)
    /\ \E n \in 0 .. Len(t) : t = Times(part, n) \o r
WithoutEnds(t, part) == Reverse(WithoutFronts(Reverse(t), Reverse(part)))

\* Where a text is cut: at the first or the last character of a kind.
HasOne(t, kind) == ToSet(t) \cap kind # {}
AfterLast(t, kind) ==
  CHOOSE r \in {From(t, n) : n \in 0 .. Len(t)} :
    /\ ~HasOne(r, kind)
    /\ Len(r) = Len(t) \/ t[Len(t) - Len(r)] \in kind
ThroughLast(t, kind) == SubSeq(t, 1, Len(t) - Len(AfterLast(t, kind)))
BeforeLast(t, kind) == IF HasOne(t, kind) THEN Front(ThroughLast(t, kind)) ELSE t
BeforeFirst(t, kind) == Reverse(AfterLast(Reverse(t), kind))
Slashes == {Slash, Backslash}
Dotted(extension) == IF IsPrefix(<<Dot>>, extension) THEN extension ELSE <<Dot>> \o extension
Uncapital(t) == [i \in DOMAIN t |-> Lower(t[i])]
Straight(t) == ReplaceAll(t, Backslash, Slash)
\* The name in a path: a slash at the very end belongs to it.
NameIn(t) == IF t = <<>> THEN t ELSE AfterLast(Front(t), Slashes) \o <<Last(t)>>

RECURSIVE Replaced(_, _, _)
Replaced(t, old, nw) ==
  IF t = <<>> THEN t
  ELSE IF IsPrefix(old, t) THEN nw \o Replaced(From(t, Len(old)), old, nw)
  ELSE <<t[1]>> \o Replaced(Tail(t), old, nw)
RECURSIVE Colorless(_)
Colorless(t) ==
  IF Len(t) < 2 THEN t
  ELSE IF t[1] = Escape /\ t[2] # Space THEN Colorless(From(t, 2))
  ELSE <<t[1]>> \o Colorless(Tail(t))

Inserted(t, part, n) == SubSeq(t, 1, n) \o part \o From(t, n)

\* The path below another.
Joined(t, part) ==
  IF part = <<>> THEN t
  ELSE t \o (IF t = <<>> \/ Last(t) = Slash THEN <<>> ELSE <<Slash>>)
         \o Straight(IF part[1] = Slash THEN Tail(part) ELSE part)
Unquoted(t) ==
  IF ~IsPrefix(<<Quote>>, t) THEN t
  ELSE IF t = <<Quote>> THEN Broken
  ELSE IF Last(t) = Quote THEN SubSeq(t, 2, Len(t) - 1) ELSE Tail(t)

------------------------------------------------------------------------------
CanCall == str # Broken /\ dest # Broken /\ calls < MaxStrCalls
Called == CanCall /\ calls' = calls + 1

\* A call makes a new buffer of the string's, which should hold a new text.
Turns(s, t) ==
  /\ str' = s /\ text' = t
  /\ UNCHANGED <<dest, destText, answered>>
Extracts(s, t) ==
  /\ dest' = s /\ destText' = t
  /\ UNCHANGED <<str, text, answered>>
Asks(is, shouldBe) ==
  /\ answered' = (is = shouldBe)
  /\ UNCHANGED <<str, text, dest, destText>>

\* The constructor, or the first assignment.
StrSet(t) ==
  /\ str' = Assign(str, t) /\ text' = t
  /\ UNCHANGED <<dest, destText, answered>>

StrAdds(p) ==
  \/ Turns(Assign(str, p), p)
  \/ Turns(AppendTo(str, p), text \o p)
  \/ Turns(AppendPath(str, p), Joined(text, p))
  \/ Turns(SetFileExtension(str, p), BeforeLast(text, {Dot}) \o Dotted(p))
  \/ Turns(DefaultFileExtension(str, p),
              IF HasOne(text, {Dot}) THEN text ELSE text \o Dotted(p))
  \/ Turns(DefaultPath(str, p), IF IsSlash(At(text, 1)) THEN text ELSE p \o text)
  \/ \E n \in -1 .. Len(text) + 1 :
       Turns(Insert(str, p, n), Inserted(text, p, Max({0, Min({n, Len(text)})})))

StrStrips(p) ==
  \/ Turns(StripLeading(str, p), WithoutFronts(text, p))
  \/ Turns(StripTrailing(str, p), WithoutEnds(text, p))
  \/ Turns(Strip(str, p), WithoutEnds(WithoutFronts(text, p), p))
  \/ Turns(StripLeadingOnce(str, p), IF IsPrefix(p, text) THEN From(text, Len(p)) ELSE text)
  \/ Turns(StripTrailingOnce(str, p),
              IF IsSuffix(p, text) THEN SubSeq(text, 1, Len(text) - Len(p)) ELSE text)
  \/ \E q \in StrParts \cup {<<>>} : Turns(Replace(str, p, q), Replaced(text, p, q))

StrChanges ==
  \/ Turns(Empty(str), <<>>)
  \/ Turns(Fresh, <<>>)
  \/ Turns(AppendTo(str, CString(str)), text \o text)
  \/ Turns(AppendOwn(str),
             IF text = <<>> \/ (str.alloced = STR_ALLOC_BASE /\ str.alloced <= 2 * Len(text))
               THEN text \o text ELSE Broken)
  \/ Turns(StripTrailingWhitespace(str), WithoutEnds(text, <<Space>>))
  \/ Turns(StripQuotes(str), Unquoted(text))
  \/ Turns(ToLower(str), Uncapital(text))
  \/ Turns(ToUpper(str), [i \in DOMAIN text |-> Upper(text[i])])
  \/ Turns(BackSlashesToSlashes(str), Straight(text))
  \/ Turns(RemoveColors(str), Colorless(text))
  \/ Turns(StripFileExtension(str), BeforeLast(text, {Dot}))
  \/ Turns(StripAbsoluteFileExtension(str), BeforeFirst(text, {Dot}))
  \/ Turns(StripFilename(str),
              IF HasOne(SubSeq(text, 2, Len(text)), Slashes) THEN BeforeLast(text, Slashes) ELSE <<>>)
  \/ Turns(StripPath(str), AfterLast(text, Slashes))
  \/ \E n \in 0 .. Len(text) + 1 :
       \/ Turns(CapLength(str, n), SubSeq(text, 1, Min({n, Len(text)})))
       \/ Turns(Fill(str, 97, n), Times(<<97>>, n))
       \/ n <= Len(text) /\ Turns(AssignOwn(str, n), From(text, n))

StrExtracts ==
  \/ Extracts(ExtractFilePath(str, dest), ThroughLast(text, Slashes))
  \/ Extracts(ExtractFileName(str, dest), NameIn(text))
  \/ text # <<>> /\ Extracts(ExtractFileBase(str, dest), BeforeFirst(NameIn(text), {Dot}))
  \/ Extracts(ExtractFileExtension(str, dest),
              IF text # <<>> /\ HasOne(Front(text), {Dot})
                THEN AfterLast(Front(text), {Dot}) \o <<Last(text)>> ELSE <<>>)
  \/ Extracts(StripMediaName(CString(str), dest), Uncapital(Straight(BeforeFirst(text, {Dot}))))
  \/ \E n \in 0 .. Len(text) + 1, m \in 0 .. Len(text) + 1 :
       \/ Extracts(Mid(str, n, m, dest), SubSeq(text, n + 1, Min({n + m, Len(text)})))
       \/ Extracts(SubStr(text, n - 1, m), SubSeq(text, Max({1, n}), Min({m, Len(text)})))
  \/ \E n \in 0 .. Len(text) + 1 :
       \/ Extracts(LeftInto(str, n, dest), SubSeq(text, 1, Min({n, Len(text)})))
       \/ Extracts(RightInto(str, n, dest), From(text, Max({0, Len(text) - n})))

\* Before another in the order of a dictionary.
Precedes(t, u) ==
  \E n \in 0 .. Len(t) :
    /\ n < Len(u) /\ SubSeq(t, 1, n) = SubSeq(u, 1, n)
    /\ n = Len(t) \/ t[n + 1] < u[n + 1]
Order(t, u) == IF t = u THEN 0 ELSE IF Precedes(t, u) THEN -1 ELSE 1

\* Paths in IcmpPath's order: the same but for case and slashes, or one before the other,
\* and then it is before all that the other is before.
OrdersPaths(t, u) ==
  /\ IcmpPath(t, u) = -IcmpPath(u, t)
  /\ (IcmpPath(t, u) = 0) <=> (Uncapital(Straight(t)) = Uncapital(Straight(u)))
  /\ \A v \in StrTexts : IcmpPath(t, u) = -1 /\ IcmpPath(u, v) <= 0 => IcmpPath(t, v) = -1
\* A path into a folder comes before one that is not in it and has the same beginning.
FoldersFirst(t, u) ==
  t # <<>> /\ ~HasOne(u, Slashes) /\ ~IsSlash(t[1]) /\ HasOne(t, Slashes) => IcmpPath(t, u) = -1

\* What a filter says: a star stands for any characters, a question mark for one, a class for
\* one of its own, and all of the name has to be accounted for.
RECURSIVE Conforms(_, _)
Conforms(f, t) ==
  IF f = <<>> THEN t = <<>>
  ELSE IF f[1] = Star THEN \E n \in 0 .. Len(t) : Conforms(Tail(f), From(t, n))
  ELSE IF f[1] = Open /\ At(f, 2) # Open
    THEN LET class == InClass(Tail(f), At(t, 1), TRUE)
         IN t # <<>> /\ class.found /\ Conforms(BehindClass(class.rest), Tail(t))
  ELSE IF f[1] = Open THEN t # <<>> /\ t[1] = Open /\ Conforms(From(f, 2), Tail(t))
  ELSE t # <<>> /\ (f[1] = QMark \/ f[1] = t[1]) /\ Conforms(Tail(f), Tail(t))

\* A number: digits with at most one dot among them and perhaps a minus before them.
IsDigits(t) == ToSet(t) \subseteq 48 .. 57
IsNumber(t) ==
  \E minus \in {<<>>, <<Hyphen>>} :
    LET r == From(t, Len(minus))
    IN /\ IsPrefix(minus, t)
       /\ \/ IsDigits(r)
          \/ HasOne(r, {Dot}) /\ IsDigits(BeforeFirst(r, {Dot})) /\ IsDigits(AfterLast(r, {Dot}))
             /\ Cardinality({i \in DOMAIN r : r[i] = Dot}) = 1

\* A number as it is written, with a comma before every third digit from the end.
Written(n) ==
  LET digits == Digits(n)
      Split[k \in 0 .. Len(digits)] ==
        IF k <= 3 THEN SubSeq(digits, 1, k)
        ELSE Split[k - 3] \o <<Comma>> \o SubSeq(digits, k - 2, k)
  IN Split[Len(digits)]

Places(t, u) == {n \in 0 .. Len(t) - Len(u) : IsPrefix(u, From(t, n))}

StrAsks(u) ==
  \/ Asks(Cmp(text, u), Order(text, u))
  \/ Asks(Icmp(text, u), Order(Uncapital(text), Uncapital(u)))
  \/ Asks(IcmpNoColor(text, u), Order(Uncapital(Colorless(text)), Uncapital(Colorless(u))))
  \/ Asks(OrdersPaths(text, u) /\ FoldersFirst(text, u), TRUE)
  \/ \E n \in 0 .. Len(text) :
       \/ Asks(Cmpn(text, u, n),
               Order(SubSeq(text, 1, n), SubSeq(u, 1, Min({n, Len(u)}))))
       \/ Asks(FindText(text, u, FALSE, n, -1),
               First0({p \in Places(Uncapital(text), Uncapital(u)) : p >= n}))
       \/ Asks(FindText(text, u, TRUE, 0, n), First0(Places(SubSeq(text, 1, n), u)))
  \/ Asks(LastOf(text, u[1]),
          IF HasOne(text, {u[1]}) THEN Len(BeforeLast(text, {u[1]})) ELSE -1)
  \/ Asks(FindChar(text, u[1], 0, -1),
          IF HasOne(text, {u[1]}) THEN Len(BeforeFirst(text, {u[1]})) ELSE -1)
  \/ /\ Len(text) > 1 /\ IsSuffix(Uncapital(u), Uncapital(text))
     /\ Asks(CheckExtension(text, u), TRUE)
  \/ \E f \in StrFilters : Conforms(f, text) /\ Asks(Filter(f, text, TRUE), TRUE)
  \/ Asks(IsNumeric(text), IsNumber(text))
  \/ \E n \in StrNumbers :
       LET written == IF n < 0 THEN <<Hyphen>> \o Digits(-n) ELSE Written(n)
       IN Asks(FormatNumber(n), Repeated(Space, 11 - Len(written)) \o written)
  \/ Asks(LengthWithoutColors(text), Len(Colorless(text)))

StrNext ==
  /\ Called
  /\ \/ calls = 0 /\ \E t \in StrTexts : StrSet(t)
     \/ calls > 0 /\ \E p \in StrParts : StrAdds(p) \/ StrStrips(p) \/ StrAsks(p)
     \/ calls > 0 /\ (StrChanges \/ StrExtracts)

------------------------------------------------------------------------------
\* The buffer holds the text, its length and room for its zero.
Holds(s, t) ==
  IF t = Broken THEN s = Broken
  ELSE s # Broken /\ CString(s) = t /\ s.len = Len(t) /\ s.len < s.alloced

\* Whatever calls came before, with a text that still lies in the object or was moved to
\* a larger buffer once or twice, both strings say what the calls mean and every question
\* is answered as it should be; only the calls that are known to break do so: StripQuotes
\* of a lone quote, and an Append of the string's own buffer (the buffer, the file names
\* and the comparisons of String.cpp together).
StringsAsMeant ==
  /\ Holds(str, text) /\ Holds(dest, destText)
  /\ answered

\* A comment says that Filter "returns true if the string conforms the given filter".
FilterConforms ==
  str # Broken => \A f \in StrFilters : Filter(f, text, TRUE) = Conforms(f, text)
==============================================================================
