------------------------------ MODULE Material ------------------------------
(***************************************************************************)
(* Material::LoadMemory and the Lexer under it: the text of a .mtr file is *)
(* read token by token, and the programs, attributes and uniforms that it  *)
(* speaks of are handed to the shader.                                     *)
(*                                                                         *)
(* A text is a sequence of atoms: a name or a number of several characters *)
(* is one atom, a brace is one, and every other character (blanks, '=',    *)
(* punctuation) is Sep.  The NUL that ends the text is Nul.  A file is     *)
(* made of the sections that its author had in mind: Meant... below says   *)
(* what they are, and is what the reading is compared with.                *)
(***************************************************************************)
EXTENDS Naturals, Sequences, SequencesExt

CONSTANTS
  Sections,     \* what an author writes: [kw, gap, body, closed]
  MaxSections,  \* how many of them a text has at most
  NoProgram       \* a pointer that was not initialised

Attributes == {"vPosition", "vTexCoord", "vNormal", "vTangent", "vBinormal", "vColor"}
\* The names that set a flag in each of the two programs.
Flags == [vert |-> {"vColor", "WVP", "modelView", "invModelView"},
          frag |-> {"WVP", "COLOR", "texture1", "modelView", "invModelView"}]
\* The flags that the constructor sets to false: it leaves out all the others.
Initialised == {"COLOR", "texture1"}
MaxAttri == 9
Sep == ";"
Nul == "NUL"
Zero == "0"
Braces == {"{", "}"}
\* The atoms whose reading swallows the character behind them.
IsWord(a) == a \notin Braces \cup {Sep, Nul, Zero}

ASSUME SectionsAssumption ==
  \A s \in Sections : /\ s.kw \in {"vert", "frag"}
                      /\ s.gap \in BOOLEAN /\ s.closed \in BOOLEAN
                      /\ \A i \in 1 .. Len(s.body) - 1 :   \* else they were one atom
                           IsWord(s.body[i]) => s.body[i + 1] \in Braces \cup {Sep}

VARIABLES
  written,    \* the sections of the text, which the program does not see
  textPos,        \* _bufferPtr - _buffer, counted from 1
  parsing,    \* "idle", "file", "vert", "frag", and then "loaded", "overrun" or "broken"
  start, openParen,
  programs,   \* _vert and _frag
  attriArr,   \* _attriArr up to _numAttri
  flags,      \* the flags that were set, each known by the name that sets it
  asked       \* what the shader was asked to bind or look up

materialVars == <<written, textPos, parsing, start, openParen, programs, attriArr, flags, asked>>

TextOf(s) == <<s.kw>> \o (IF s.gap THEN <<Sep>> ELSE <<>>) \o <<"{">> \o s.body
             \o (IF s.closed THEN <<"}">> ELSE <<>>)
Text == FlattenSeq([i \in DOMAIN written |-> TextOf(written[i])])

MaterialStart ==
  /\ textPos = 1 /\ start = 1 /\ openParen = 0
  /\ programs = [vert |-> NoProgram, frag |-> NoProgram]
  /\ attriArr = <<>> /\ flags = {} /\ asked = {}

\* F_ReadFileData, new Material and the first lines of LoadMemory.
InitMaterial ==
  /\ \E n \in 0 .. MaxSections : written \in [1 .. n -> Sections]
  /\ parsing = "file" /\ MaterialStart
IdleMaterial == written = <<>> /\ parsing = "idle" /\ MaterialStart

------------------------------------------------------------------------------
(***************************************************************************)
(* The lexer                                                               *)
(***************************************************************************)

CharAt(p) == IF p \in DOMAIN Text THEN Text[p] ELSE Nul

\* Where the next token starts.
TokenAt == CHOOSE p \in textPos .. Len(Text) + 1 :
             CharAt(p) # Sep /\ \A q \in textPos .. p - 1 : CharAt(q) = Sep

\* A slip to test the properties with: words put back the character behind them,
\* and the loops that count braces from 0 are left as they are.
ReadExactly(p) == p + 1

\* CurrentAndNext of a brace or of a lone '0'; ReadName and ReadNumber leave the
\* pointer behind the character that ended the word.
ReadPast(p) == IF IsWord(CharAt(p)) THEN p + 2 ELSE p + 1

AddAttri(a) == IF Contains(attriArr, a) THEN attriArr ELSE Append(attriArr, a)

\* Lexer::Lex finds a token; past the NUL it would read what is not the text.
Lexes == textPos <= Len(Text) + 1 /\ CharAt(TokenAt) # Nul
AtEnd == textPos <= Len(Text) + 1 /\ CharAt(TokenAt) = Nul

------------------------------------------------------------------------------
(***************************************************************************)
(* The loop of LoadMemory                                                  *)
(***************************************************************************)

\* A program begins where the pointer is after its keyword.
BeginProgram ==
  /\ parsing = "file" /\ Lexes
  /\ CharAt(TokenAt) \in {"vert", "frag"}
  /\ parsing' = CharAt(TokenAt)
  /\ textPos' = ReadPast(TokenAt) /\ start' = ReadPast(TokenAt) /\ openParen' = 0
  /\ UNCHANGED <<written, programs, attriArr, flags, asked>>

\* Anything else is printed by Sys_Error, which goes on.
ReportToken ==
  /\ parsing = "file" /\ Lexes
  /\ CharAt(TokenAt) \notin {"vert", "frag"}
  /\ textPos' = ReadPast(TokenAt)
  /\ UNCHANGED <<written, parsing, start, openParen, programs, attriArr, flags, asked>>

\* The flags as the code reads them: one that nothing set may be anything,
\* unless the constructor did.  No name sets _hasPosition.
ReadFlags == {flags \cup more : more \in SUBSET ({"WVP", "vColor", "vPosition"} \ flags)}

\* Compile, PreLink, the binds, Link and the lookups of uniforms.
CompileAndLink ==
  /\ parsing = "file" /\ AtEnd
  /\ IF NoProgram \in {programs.vert, programs.frag}
     THEN /\ parsing' = "broken" /\ UNCHANGED asked
     ELSE /\ parsing' = "loaded"
          /\ \E read \in ReadFlags :
               asked' = read \cap {"vPosition", "vColor", "WVP", "COLOR", "texture1"}
  /\ UNCHANGED <<written, textPos, start, openParen, programs, attriArr, flags>>

------------------------------------------------------------------------------
(***************************************************************************)
(* ParseVertProgram and ParseFragProgram                                   *)
(***************************************************************************)

InProgram == parsing \in {"vert", "frag"}

ProgramWord ==
  /\ InProgram /\ Lexes /\ CharAt(TokenAt) \notin Braces
  /\ LET word == CharAt(TokenAt) IN
       /\ attriArr' = IF parsing = "vert" /\ word \in Attributes
                      THEN AddAttri(word) ELSE attriArr
       /\ flags' = flags \cup (Flags[parsing] \cap {word})
  /\ textPos' = ReadPast(TokenAt)
  /\ UNCHANGED <<written, parsing, start, openParen, programs, asked>>

ProgramOpen ==
  /\ InProgram /\ Lexes /\ CharAt(TokenAt) = "{"
  /\ openParen' = openParen + 1
  /\ textPos' = ReadPast(TokenAt)
  /\ UNCHANGED <<written, parsing, start, programs, attriArr, flags, asked>>

\* A brace that was not opened ends the program: SubStr up to it.
ProgramClose ==
  /\ InProgram /\ Lexes /\ CharAt(TokenAt) = "}"
  /\ textPos' = ReadPast(TokenAt)
  /\ IF openParen = 0
     THEN /\ programs' = [programs EXCEPT ![parsing] = SubSeq(Text, start, textPos' - 2)]
          /\ parsing' = "file" /\ UNCHANGED openParen
     ELSE /\ openParen' = openParen - 1
          /\ UNCHANGED <<programs, parsing>>
  /\ UNCHANGED <<written, start, attriArr, flags, asked>>

\* The text ends first: the caller lexes the same NUL and compiles.
ProgramUnclosed ==
  /\ InProgram /\ AtEnd
  /\ parsing' = "file"
  /\ UNCHANGED <<written, textPos, start, openParen, programs, attriArr, flags, asked>>

\* A word that ends the text swallows its NUL, and the lexer goes on behind the
\* buffer: nothing is said of what comes of it.
ReadBehindBuffer ==
  /\ parsing \in {"file", "vert", "frag"} /\ textPos > Len(Text) + 1
  /\ parsing' = "overrun"
  /\ UNCHANGED <<written, textPos, start, openParen, programs, attriArr, flags, asked>>

NextMaterial ==
  \/ BeginProgram \/ ReportToken \/ CompileAndLink
  \/ ProgramWord \/ ProgramOpen \/ ProgramClose \/ ProgramUnclosed
  \/ ReadBehindBuffer

------------------------------------------------------------------------------
(***************************************************************************)
(* Properties                                                              *)
(***************************************************************************)

\* The variables have their types; every attribute is in the array of nine once,
\* and the pointer is never more than one place behind the NUL.
MaterialTypeOK ==
  /\ written \in Seq(Sections) /\ Len(written) <= MaxSections
  /\ textPos \in 1 .. Len(Text) + 2 /\ start \in 1 .. Len(Text) + 2
  /\ openParen \in 0 .. Len(Text)
  /\ parsing \in {"idle", "file", "vert", "frag", "loaded", "overrun", "broken"}
  /\ \A kind \in {"vert", "frag"} : programs[kind] \in {NoProgram} \cup Seq(ToSet(Text))
  /\ attriArr \in Seq(Attributes) /\ Len(attriArr) <= MaxAttri /\ IsInjective(attriArr)
  /\ flags \subseteq Flags.vert \cup Flags.frag

CountOf(s, a) == Len(SelectSeq(s, LAMBDA x : x = a))
\* Braces come in pairs, each after the one that opened it.
Balanced(s) ==
  /\ CountOf(s, "{") = CountOf(s, "}")
  /\ \A i \in DOMAIN s : CountOf(SubSeq(s, 1, i), "{") >= CountOf(SubSeq(s, 1, i), "}")

\* The way the files under Media are written: the keyword right before its brace,
\* and something else between a word and any other brace.
Tidy(s) ==
  /\ ~s.gap /\ s.closed /\ Balanced(s.body)
  /\ \A i \in DOMAIN s.body : IsWord(s.body[i]) => i < Len(s.body) /\ s.body[i + 1] = Sep

\* What an author means by the sections: the last of a kind is the program, and
\* the names in all of one kind count.
Meant(kind) == SelectSeq(written, LAMBDA s : s.kw = kind)
MeantProgram(kind) == IF Meant(kind) = <<>> THEN NoProgram ELSE Last(Meant(kind)).body
MeantWords(kind) == FlattenSeq([i \in DOMAIN Meant(kind) |-> Meant(kind)[i].body])
\* In the order in which they are first named.
IsFirst(s, i) == \A j \in 1 .. i - 1 : s[j] # s[i]
MeantAttributes ==
  LET words == MeantWords("vert")
      firsts == SelectSeq([i \in DOMAIN words |-> i],
                          LAMBDA i : words[i] \in Attributes /\ IsFirst(words, i))
  IN  [n \in DOMAIN firsts |-> words[firsts[n]]]

\* A tidy text is read as it was meant, although words swallow what is behind
\* them: the reading is not broken off, both programs are the sections' bodies,
\* the attributes come in the order they are named in, and the shader is asked for
\* exactly the uniforms of colour and texture that some fragment program names.
ReadAsMeant ==
  /\ MaterialTypeOK
  /\ (\A i \in DOMAIN written : Tidy(written[i])) =>
       /\ parsing # "overrun"
       /\ parsing \in {"loaded", "broken"} =>
            /\ \A kind \in {"vert", "frag"} : programs[kind] = MeantProgram(kind)
            /\ attriArr = MeantAttributes
            /\ flags = (ToSet(MeantWords("vert")) \cap Flags.vert)
                       \cup (ToSet(MeantWords("frag")) \cap Flags.frag)
       /\ parsing = "loaded" =>
            asked \cap Initialised = ToSet(MeantWords("frag")) \cap Initialised
==============================================================================
