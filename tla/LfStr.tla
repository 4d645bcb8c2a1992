-------------------------------- MODULE LfStr --------------------------------
(***************************************************************************)
(* lfStr of common/String.cpp: a text in a buffer that starts out inside   *)
(* of the object and is allocated anew when it gets too small.  What is    *)
(* kept is the buffer, the length and how much is allocated; the text is   *)
(* what stands before the first zero.  A cell that nothing was written to  *)
(* is Junk, and a call that writes outside of its buffer, or never comes   *)
(* back, is Broken.                                                        *)
(*                                                                         *)
(* Characters are their codes.  A text is a sequence of them.              *)
(***************************************************************************)
EXTENDS Integers, Sequences, FiniteSets, FiniteSetsExt
LOCAL INSTANCE SequencesExt

CONSTANTS
  STR_ALLOC_BASE,  \* the size of baseBuffer
  STR_ALLOC_GRAN,  \* what allocations are rounded up to
  Junk,            \* a cell that nothing was written to
  Broken           \* what is left by a call that goes wrong

ASSUME AllocAssumption == STR_ALLOC_BASE \in Nat \ {0} /\ STR_ALLOC_GRAN \in Nat \ {0}

NUL == 0
Space == 32
Quote == 34
Comma == 44
Hyphen == 45
Dot == 46
Slash == 47
Backslash == 92
Escape == 94

Lower(c) == IF c \in 65 .. 90 THEN c + 32 ELSE c
Upper(c) == IF c \in 97 .. 122 THEN c - 32 ELSE c
IsSlash(c) == c \in {Slash, Backslash}
Repeated(c, n) == [i \in 1 .. n |-> c]
From(t, n) == SubSeq(t, n + 1, Len(t))

------------------------------------------------------------------------------
(* The buffer. *)

Fresh == [len |-> 0, alloced |-> STR_ALLOC_BASE,
          data |-> [i \in 0 .. STR_ALLOC_BASE - 1 |-> IF i = 0 THEN NUL ELSE Junk]]

\* What a caller of c_str sees.
CString(s) ==
  LET end == Min({i \in DOMAIN s.data : s.data[i] = NUL} \cup {s.alloced})
  IN [i \in 1 .. end |-> s.data[i - 1]]

Write(s, at, cells) ==
  IF s = Broken THEN Broken
  ELSE IF at < 0 \/ at + Len(cells) > s.alloced THEN Broken
  ELSE [s EXCEPT !.data = [i \in DOMAIN @ |->
          IF i \in at .. at + Len(cells) - 1 THEN cells[i - at + 1] ELSE @[i]]]
WithLen(s, len) == IF s = Broken THEN Broken ELSE [s EXCEPT !.len = len]

RoundUp(n) ==
  LET mod == n % STR_ALLOC_GRAN IN IF mod = 0 THEN n ELSE n + STR_ALLOC_GRAN - mod

ReAllocate(s, amount, keepold) ==
  LET old == CString([s EXCEPT !.data[s.len] = NUL]) \o <<NUL>>
      size == RoundUp(amount)
  IN [s EXCEPT !.alloced = size,
               !.data = [i \in 0 .. size - 1 |->
                           IF keepold /\ i < Len(old) THEN old[i + 1] ELSE Junk]]

EnsureAlloced(s, amount, keepold) ==
  IF amount > s.alloced THEN ReAllocate(s, amount, keepold) ELSE s

\* The text and its zero are written, and the length is set.
Terminated(s, t, len) == WithLen(Write(s, len, t \o <<NUL>>), len + Len(t))
\* memmove of the text behind the first n characters, with its zero, to the front.
Shift(s, n) == Write(s, 0, [i \in 1 .. s.len - n + 1 |-> s.data[n + i - 1]])

------------------------------------------------------------------------------
(* Setting and adding. *)

Assign(s, t) == Terminated(EnsureAlloced(s, Len(t) + 1, FALSE), t, 0)
\* operator= with a pointer into the string's own buffer.
AssignOwn(s, from) == IF from = 0 THEN s ELSE WithLen(Shift(s, from), s.len - from)
Empty(s) == WithLen(Write(EnsureAlloced(s, 1, TRUE), 0, <<NUL>>), 0)

\* A slip: there is no room for the zero.
AppendTight(s, t) == Terminated(EnsureAlloced(s, s.len + Len(t), TRUE), t, s.len)

AppendTo(s, t) == Terminated(EnsureAlloced(s, s.len + Len(t) + 1, TRUE), t, s.len)

Fill(s, c, newlen) ==
  Terminated(EnsureAlloced(s, newlen + 1, TRUE), Repeated(c, newlen), 0)
CapLength(s, newlen) ==
  IF s.len <= newlen THEN s ELSE WithLen(Write(s, newlen, <<NUL>>), newlen)

\* The cells from index on, the zero with them, move up to make room.
Insert(s, t, at) ==
  LET index == Max({0, Min({at, s.len})})
      r == EnsureAlloced(s, s.len + Len(t) + 1, TRUE)
      rest == [i \in 1 .. s.len - index + 1 |-> r.data[index + i - 1]]
  IN WithLen(Write(Write(r, index + Len(t), rest), index, t), s.len + Len(t))

------------------------------------------------------------------------------
(* Taking away and changing in place. *)

\* Cmpn(data + at, t, Len(t)) = 0
StandsAt(s, t, at) ==
  /\ at >= 0
  /\ \A i \in 1 .. Len(t) : at + i - 1 \in DOMAIN s.data /\ s.data[at + i - 1] = t[i]

\* How often t stands at the front, and at the end.
Fronts(s, t) ==
  Max({n \in 0 .. s.len : \A k \in 0 .. n - 1 : StandsAt(s, t, k * Len(t))})
Ends(s, t) ==
  Max({n \in 0 .. s.len : \A k \in 1 .. n : StandsAt(s, t, s.len - k * Len(t))})

StripLeading(s, t) ==
  LET n == Fronts(s, t) * Len(t) IN WithLen(Shift(s, n), s.len - n)
StripTrailing(s, t) == CapLength(s, s.len - Ends(s, t) * Len(t))
StripLeadingOnce(s, t) ==
  IF StandsAt(s, t, 0) THEN WithLen(Shift(s, Len(t)), s.len - Len(t)) ELSE s
StripTrailingOnce(s, t) ==
  IF StandsAt(s, t, s.len - Len(t)) THEN CapLength(s, s.len - Len(t)) ELSE s
Strip(s, t) ==
  IF StripLeading(s, t) = Broken THEN Broken ELSE StripTrailing(StripLeading(s, t), t)

StripTrailingWhitespace(s) ==
  CapLength(s, Max({n \in 0 .. s.len : n = 0 \/ s.data[n - 1] > Space}))

\* The quote at the end goes first; memmove then takes its length from what is left,
\* which is one too few for a string that is one quote.
StripQuotes(s) ==
  IF s.data[0] # Quote THEN s
  ELSE LET r == IF s.data[s.len - 1] = Quote THEN CapLength(s, s.len - 1) ELSE s
       IN IF r.len = 0 THEN Broken
          ELSE Terminated(r, [i \in 1 .. r.len - 1 |-> r.data[i]], 0)

\* Replace counts, makes room and copies from a copy of itself.  With nothing to replace
\* i += oldLen - 1 goes back and the loop never ends.
ReplaceFrom(t, old, nw) ==
  LET rest[i \in 1 .. Len(t) + 1] ==
        IF i > Len(t) THEN <<>>
        ELSE IF IsPrefix(old, From(t, i - 1)) THEN nw \o rest[i + Len(old)]
        ELSE <<t[i]>> \o rest[i + 1]
  IN rest[1]
Count(t, old) ==
  LET count[i \in 1 .. Len(t) + 1] ==
        IF i > Len(t) THEN 0
        ELSE IF IsPrefix(old, From(t, i - 1)) THEN 1 + count[i + Len(old)]
        ELSE count[i + 1]
  IN count[1]
Replace(s, old, nw) ==
  LET t == CString(s)
      count == Count(t, old)
  IN IF old = <<>> THEN IF t = <<>> THEN s ELSE Broken
     ELSE IF count = 0 THEN s
     ELSE Terminated(EnsureAlloced(s, s.len + (Len(nw) - Len(old)) * count + 2, FALSE),
                     ReplaceFrom(t, old, nw), 0)

InPlace(s, Change(_)) ==
  [s EXCEPT !.data = [i \in DOMAIN @ |-> IF i < s.len THEN Change(@[i]) ELSE @[i]]]
ToLower(s) == InPlace(s, Lower)
ToUpper(s) == InPlace(s, Upper)
BackSlashesToSlashes(s) == InPlace(s, LAMBDA c : IF c = Backslash THEN Slash ELSE c)

IsColorAt(t, i) == t[i] = Escape /\ i < Len(t) /\ t[i + 1] # Space
\* The places that RemoveColors copies: those no escape takes, from left to right.
KeptColors(t) ==
  LET kept[i \in 1 .. Len(t) + 2] ==
        IF i > Len(t) THEN <<>>
        ELSE IF IsColorAt(t, i) THEN kept[i + 2] ELSE <<t[i]>> \o kept[i + 1]
  IN kept[1]
RemoveColors(s) == Terminated(s, KeptColors(CString(s)), 0)

------------------------------------------------------------------------------
(* Parts. *)

\* Mid empties the result before it looks at the string, which may be the same.
Mid(s, start, len, result) ==
  LET r == Empty(result)
      n == IF start + len >= s.len THEN s.len - start ELSE len
  IN IF s.len = 0 \/ len <= 0 \/ start >= s.len THEN r
     ELSE AppendTo(r, [i \in 1 .. n |-> s.data[start + i - 1]])
LeftInto(s, len, result) == Mid(s, 0, len, result)
RightInto(s, len, result) ==
  IF len >= s.len THEN Assign(result, CString(s)) ELSE Mid(s, s.len - len, len, result)
Right(s, len) == CString(RightInto(s, len, Fresh))

\* The constructor from a part of a text.
SubStr(t, start, end) ==
  LET first == Max({0, Min({start, Len(t)})})
  IN Assign(Fresh, SubSeq(t, first + 1, Min({end, Len(t)})))

\* Back from a place to one behind a character like this, or to the start.
BackFrom(s, pos, Stops(_)) ==
  Max({p \in 0 .. pos : p = 0 \/ Stops(s.data[p - 1])} \cup {Min({pos, 0})})

\* FormatNumber: what is taken away as often as it fits, from the largest on, and what
\* is left; from the first of them on with three digits each.
Digits(n) ==
  LET digits[k \in 0 .. n] == IF k < 10 THEN <<48 + k>> ELSE Append(digits[k \div 10], 48 + (k % 10))
  IN digits[n]
ThreeDigits(n) == <<48 + n \div 100, 48 + ((n \div 10) % 10), 48 + (n % 10)>>
FormatNumber(n) ==
  LET Part(i) == IF i = 1 THEN n \div 1000000000 ELSE (n \div (1000 ^ (4 - i))) % 1000
      Shown(i) == IF \E j \in 1 .. i - 1 : Part(j) # 0 THEN ThreeDigits(Part(i))
                  ELSE IF Part(i) # 0 \/ i = 4 THEN Digits(Part(i)) ELSE <<>>
      t == FlattenSeq([i \in 1 .. 4 |->
             IF i < 4 /\ Shown(i) # <<>> THEN Append(Shown(i), Comma) ELSE Shown(i)])
  IN IF n < 0 THEN Repeated(Space, 11 - Len(Digits(-n)) - 1) \o <<Hyphen>> \o Digits(-n)
     ELSE Repeated(Space, 11 - Len(t)) \o t

------------------------------------------------------------------------------
(* File names. *)

StripFileExtension(s) ==
  CapLength(s, IF \E i \in 0 .. s.len - 1 : s.data[i] = Dot
                 THEN Max({i \in 0 .. s.len - 1 : s.data[i] = Dot}) ELSE s.len)
StripAbsoluteFileExtension(s) ==
  CapLength(s, Min({i \in 0 .. s.len - 1 : s.data[i] = Dot} \cup {s.len}))
WithDot(s, extension) ==
  IF extension = <<>> \/ extension[1] # Dot THEN AppendTo(s, <<Dot>>) ELSE s
AddExtension(s, extension) == AppendTo(WithDot(s, extension), extension)
SetFileExtension(s, extension) == AddExtension(StripFileExtension(s), extension)
DefaultFileExtension(s, extension) ==
  IF \E i \in 0 .. s.len - 1 : s.data[i] = Dot THEN s ELSE AddExtension(s, extension)

DefaultPath(s, basepath) ==
  IF IsSlash(s.data[0]) THEN s ELSE Assign(s, CString(AppendTo(Assign(Fresh, basepath), CString(s))))

AppendPath(s, text) ==
  LET r == EnsureAlloced(s, s.len + Len(text) + 2, TRUE)
      sep == IF s.len > 0 /\ r.data[s.len - 1] # Slash THEN <<Slash>> ELSE <<>>
      path == [i \in DOMAIN text |-> IF text[i] = Backslash THEN Slash ELSE text[i]]
      part == IF text[1] = Slash THEN From(path, 1) ELSE path
  IN IF text = <<>> THEN s ELSE Terminated(r, sep \o part, s.len)

\* Back to the last slash, which is not looked for in the first place.
StripFilename(s) ==
  CapLength(s, Max({p \in 1 .. s.len - 1 : IsSlash(s.data[p])} \cup {0}))
StripPath(s) == Assign(s, Right(s, s.len - BackFrom(s, s.len, IsSlash)))
ExtractFilePath(s, dest) == LeftInto(s, BackFrom(s, s.len, IsSlash), dest)
ExtractFileName(s, dest) == RightInto(s, s.len - BackFrom(s, s.len - 1, IsSlash), dest)
\* Of an empty string the place before the first is asked for a dot.
ExtractFileBase(s, dest) ==
  LET start == BackFrom(s, s.len - 1, IsSlash)
      pos == Min({p \in start .. s.len : p = s.len \/ s.data[p] = Dot})
  IN IF s.len = 0 THEN Broken ELSE Mid(s, start, pos - start, dest)
ExtractFileExtension(s, dest) ==
  LET pos == BackFrom(s, s.len - 1, LAMBDA c : c = Dot)
  IN IF pos = 0 THEN Empty(dest) ELSE RightInto(s, s.len - pos, dest)
StripMediaName(t, dest) ==
  LET end == Min({i \in DOMAIN t : t[i] = Dot} \cup {Len(t) + 1}) - 1
  IN AppendTo(Empty(dest), [i \in 1 .. end |-> IF t[i] = Backslash THEN Slash ELSE Lower(t[i])])

\* A pointer into the string's own buffer is read while it is written to: the zero that
\* ends the reading is the first cell that is overwritten, unless the text moves away from
\* baseBuffer, which stays as it was.
AppendOwn(s) ==
  IF s.len = 0 THEN s
  ELSE IF s.alloced = STR_ALLOC_BASE /\ 2 * s.len + 1 > s.alloced THEN AppendTo(s, CString(s))
  ELSE Broken

\* The hash of HashTable.cpp over such a text: hash += (*string++) * (i + 119), i from 0.
StrHash(s) == FoldLeftDomain(LAMBDA hash, i : hash + s[i] * (i - 1 + 119), 0, s)
==============================================================================
