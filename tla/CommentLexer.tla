---------------------------- MODULE CommentLexer ----------------------------
(***************************************************************************)
(* How the reference generator finds the documentation comments of a file  *)
(* (tools/docs/generate_api_docs.py: _regions, _skip_quoted and            *)
(* _doc_spans).  One action per branch of each loop; `index' is also the   *)
(* cursor of _skip_quoted while `quote' is the literal it is in.           *)
(*                                                                         *)
(* The file is a program: a sequence of C++ tokens, written side by side.  *)
(* The tokens say what is a comment; the lexer sees their characters only. *)
(*                                                                         *)
(* Offsets count from one and a region ends before its `end'.  Definitions *)
(* named for a slip are not the code's; see AppleDeliveryCore.             *)
(***************************************************************************)
EXTENDS Naturals, Sequences

CONSTANT Files     \* programs: sequences of records with kind, doc and chars

NL       == "newline"
Quote    == "\""
Tick     == "'"
Escape   == "\\"
Literals == {Quote, Tick}
Word     == {"a", "R", "1", "_"}       \* what isalnum and _ tell apart
Blank    == {NL, " "}

VARIABLES program, text,               \* the tokens and their characters
          phase,                       \* Lex, Group, Done
          index, quote, codeStart,     \* locals of _regions and _skip_quoted
          regions,
          at, inRun, docs              \* locals of _doc_spans

file    == <<program, text>>
lexing  == <<index, quote, codeStart, regions>>
grouping == <<at, inRun, docs>>
vars == <<file, phase, lexing, grouping>>

End == Len(text) + 1
Char(p) == text[p]

(* str.find: the first hit, and the end of the text without one.           *)
Finds(hits, width, e) ==
    \/ hits = {} /\ e = End
    \/ \E p \in hits : (\A q \in hits : p <= q) /\ e = p + width

Region(kind, start, end) == [kind |-> kind, start |-> start, end |-> end]

(* The empty regions the code filters out at its end are never appended.   *)
WithRegion(rs, kind, start, end) ==
    IF start < end THEN Append(rs, Region(kind, start, end)) ELSE rs

-----------------------------------------------------------------------------
(* What a file may be: the tokens of C++, as far as their characters can   *)
(* be taken for a comment or a literal, and such as stay the tokens they   *)
(* are when written side by side.  `doc' is what the token documents by: a *)
(* block, a line of a run, or nothing.                                     *)

Token == [kind : {"code", "line", "block"}, doc : {"none", "block", "line"},
          chars : Seq(STRING) \ {<<>>}]

First(t) == t.chars[1]
Final(t) == t.chars[Len(t.chars)]

(* A character or a string: characters and escapes between two quotes;     *)
(* `units' is where each of them begins, and the closing quote.            *)
Units(cs, units) ==
    /\ 2 \in units /\ Len(cs) \in units
    /\ \A n \in units \ {Len(cs)} :
          /\ cs[n] \notin {cs[1], NL}
          /\ (IF cs[n] = Escape THEN n + 2 ELSE n + 1) \in units

IsLiteral(cs) ==
    /\ cs[1] \in Literals /\ cs[Len(cs)] = cs[1]
    /\ \E units \in SUBSET (2 .. Len(cs)) : Units(cs, units)

(* R"delimiter(...)delimiter", to the first place that ends it.            *)
IsRawString(cs) ==
    \E open \in 3 .. Len(cs) :
        LET terminator == <<")">> \o SubSeq(cs, 3, open - 1) \o <<Quote>>
            EndsAt(n)  == SubSeq(cs, n - Len(terminator) + 1, n) = terminator
        IN  /\ cs[1] = "R" /\ cs[2] = Quote /\ cs[open] = "("
            /\ \A n \in 3 .. open - 1 : cs[n] \notin Blank \union {"(", ")", Quote, Escape}
            /\ \A n \in open + Len(terminator) .. Len(cs) : EndsAt(n) <=> n = Len(cs)
            /\ Len(cs) >= open + Len(terminator)

(* The text of an #error, which is read as no literal.                     *)
IsErrorText(cs) ==
    /\ cs[1] = "#" /\ \E n \in 1 .. Len(cs) : cs[n] = Tick
    /\ \A n \in 1 .. Len(cs) : cs[n] \notin {NL, Quote, Escape, "/"}

IsOtherCode(cs) ==
    /\ \A n \in 1 .. Len(cs) : cs[n] \notin Literals
    /\ \A n \in 2 .. Len(cs) : cs[n - 1] = "/" => cs[n] \notin {"/", "*"}

Opens(cs, prefix) == Len(prefix) <= Len(cs) /\ SubSeq(cs, 1, Len(prefix)) = prefix

WellFormed(t) ==
    CASE t.kind = "code" ->
            /\ IsLiteral(t.chars) \/ IsRawString(t.chars)
               \/ IsErrorText(t.chars) \/ IsOtherCode(t.chars)
            /\ t.doc = "none"
      [] t.kind = "line" ->
            /\ Opens(t.chars, <<"/", "/">>)
            /\ \A n \in 1 .. Len(t.chars) : t.chars[n] # NL
            /\ t.doc = IF Opens(t.chars, <<"/", "/", "/">>) /\ ~Opens(t.chars, <<"/", "/", "/", "<">>)
                       THEN "line" ELSE "none"
      [] t.kind = "block" ->
            /\ Opens(t.chars, <<"/", "*">>) /\ Len(t.chars) >= 4
            /\ \A n \in 3 .. Len(t.chars) - 1 :
                  t.chars[n] = "*" /\ t.chars[n + 1] = "/" <=> n = Len(t.chars) - 1
            /\ t.doc = IF Opens(t.chars, <<"/", "*", "*">>) \/ Opens(t.chars, <<"/", "*", "!">>)
                       THEN "block" ELSE "none"

MayFollow(s, t) ==
    /\ s.kind = "line" => First(t) = NL
    /\ s.kind = "code" /\ IsErrorText(s.chars) => First(t) = NL
    /\ s.kind = "code" /\ Final(s) = "/" => First(t) \notin {"/", "*"}
    /\ First(t) = "R" => s.kind = "block" \/ Final(s) \notin Word \union Literals
    /\ Final(s) = "R" => First(t) # Quote

ASSUME FilesAssumption ==
    \A f \in Files :
        /\ f \in Seq(Token) /\ f # <<>>
        /\ \A i \in 1 .. Len(f) : WellFormed(f[i])
        /\ \A i \in 1 .. Len(f) - 1 : MayFollow(f[i], f[i + 1])

(* Where token i of a program begins.                                      *)
Begins(p, i) ==
    LET start[k \in 1 .. Len(p)] ==
            IF k = 1 THEN 1 ELSE start[k - 1] + Len(p[k - 1].chars)
    IN  start[i]

Written(p) ==
    LET upTo[k \in 0 .. Len(p)] == IF k = 0 THEN <<>> ELSE upTo[k - 1] \o p[k].chars
    IN  upTo[Len(p)]

-----------------------------------------------------------------------------
Init ==
    /\ program \in Files
    /\ text = Written(program)
    /\ phase = "Lex"
    /\ index = 1 /\ quote = "None" /\ codeStart = 1 /\ regions = <<>>
    /\ at = 1 /\ inRun = FALSE /\ docs = <<>>

-----------------------------------------------------------------------------
(* _regions.                                                               *)

Lexing == phase = "Lex" /\ quote = "None" /\ index < End

IsRawStringPrefix == index > 1 => Char(index - 1) \notin Word

Follows(c) == index + 1 < End /\ Char(index + 1) = c

OpensRawString ==
    /\ Char(index) = "R" /\ Follows(Quote)
    /\ IsRawStringPrefix
    /\ \E p \in index .. Len(text) : Char(p) = "("

Terminates(p, opening) ==
    LET terminator == <<")">> \o SubSeq(text, index + 2, opening - 1) \o <<Quote>>
    IN  /\ p + Len(terminator) <= End
        /\ SubSeq(text, p, p + Len(terminator) - 1) = terminator

RawString ==
    /\ Lexing /\ OpensRawString
    /\ \E opening \in index .. Len(text), end \in index + 1 .. End :
          /\ Finds({p \in index .. Len(text) : Char(p) = "("}, 0, opening)
          /\ Finds({p \in opening .. Len(text) : Terminates(p, opening)}, opening - index, end)
          /\ index' = end
    /\ UNCHANGED <<file, phase, quote, codeStart, regions, grouping>>

OpenLiteral ==
    /\ Lexing /\ Char(index) \in Literals
    /\ quote' = Char(index) /\ index' = index + 1
    /\ UNCHANGED <<file, phase, codeStart, regions, grouping>>

CodeStaysAt(end) == codeStart
CodeGoesOn(end)  == end

TakeComment(kind, end) ==
    /\ index' = end /\ codeStart' = CodeGoesOn(end)
    /\ regions' = WithRegion(WithRegion(regions, "code", codeStart, index), kind, index, end)
    /\ UNCHANGED <<file, phase, quote, grouping>>

LineEnd(end) == Finds({p \in index .. Len(text) : Char(p) = NL}, 0, end)

LineComment ==
    /\ Lexing /\ Char(index) = "/" /\ Follows("/")
    /\ \E end \in index + 1 .. End : LineEnd(end) /\ TakeComment("line", end)

ClosesBlock(p) == p + 1 < End /\ Char(p) = "*" /\ Char(p + 1) = "/"

BlockFromStar == index + 1
BlockFrom     == index + 2

BlockComment ==
    /\ Lexing /\ Char(index) = "/" /\ Follows("*")
    /\ \E end \in index + 1 .. End :
          /\ Finds({p \in BlockFrom .. Len(text) : ClosesBlock(p)}, 2, end)
          /\ TakeComment("block", end)

Advance ==
    /\ Lexing /\ ~OpensRawString
    /\ Char(index) \notin Literals
    /\ Char(index) = "/" => ~Follows("/") /\ ~Follows("*")
    /\ index' = index + 1
    /\ UNCHANGED <<file, phase, quote, codeStart, regions, grouping>>

(* The last region, and _doc_spans begins.                                 *)
FinishRegions ==
    /\ phase = "Lex" /\ quote = "None" /\ index = End
    /\ phase' = "Group"
    /\ regions' = WithRegion(regions, "code", codeStart, End)
    /\ codeStart' = End
    /\ UNCHANGED <<file, index, quote, grouping>>

-----------------------------------------------------------------------------
(* _skip_quoted.                                                           *)

InLiteral(c) == phase = "Lex" /\ quote # "None" /\ index < End /\ Char(index) = c

EscapeStays == index
EscapedEnd  == IF index + 2 <= End THEN index + 2 ELSE End

SkipEscaped ==
    /\ InLiteral(Escape)
    /\ index' = EscapedEnd
    /\ UNCHANGED <<file, phase, quote, codeStart, regions, grouping>>

CloseLiteral ==
    /\ quote # "None" /\ InLiteral(quote)
    /\ index' = index + 1 /\ quote' = "None"
    /\ UNCHANGED <<file, phase, codeStart, regions, grouping>>

(* A character literal does not run over the end of its line.              *)
NoCharacterLiteral ==
    /\ InLiteral(NL) /\ quote = Tick
    /\ quote' = "None"
    /\ UNCHANGED <<file, phase, index, codeStart, regions, grouping>>

InsideLiteral ==
    /\ phase = "Lex" /\ quote # "None" /\ index < End
    /\ Char(index) \notin {Escape, quote}
    /\ ~(Char(index) = NL /\ quote = Tick)
    /\ index' = index + 1
    /\ UNCHANGED <<file, phase, quote, codeStart, regions, grouping>>

LiteralAtEnd ==
    /\ phase = "Lex" /\ quote # "None" /\ index = End
    /\ quote' = "None"
    /\ UNCHANGED <<file, phase, index, codeStart, regions, grouping>>

-----------------------------------------------------------------------------
(* _doc_spans.                                                             *)

Grouping == phase = "Group" /\ at <= Len(regions)

StartsWith(r, prefix) ==
    /\ r.end - r.start >= Len(prefix)
    /\ SubSeq(text, r.start, r.start + Len(prefix) - 1) = prefix

IsBlockDoc(r) ==
    /\ r.kind = "block"
    /\ StartsWith(r, <<"/", "*", "*">>) \/ StartsWith(r, <<"/", "*", "!">>)

IsLineDoc(r) ==
    /\ r.kind = "line"
    /\ StartsWith(r, <<"/", "/", "/">>) /\ ~StartsWith(r, <<"/", "/", "/", "<">>)

AnyGap(r)    == TRUE
OnlyBlank(r) == \A p \in r.start .. r.end - 1 : Char(p) \in Blank

(* The next line comment continues the run that is being read.             *)
Joined ==
    /\ at + 1 <= Len(regions)
    /\ regions[at].kind = "code" /\ OnlyBlank(regions[at])
    /\ IsLineDoc(regions[at + 1])

Span(r) == [start |-> r.start, end |-> r.end]

TakeBlockDoc ==
    /\ Grouping /\ ~inRun /\ IsBlockDoc(regions[at])
    /\ docs' = Append(docs, Span(regions[at])) /\ at' = at + 1
    /\ UNCHANGED <<file, phase, lexing, inRun>>

StartRun ==
    /\ Grouping /\ ~inRun /\ IsLineDoc(regions[at])
    /\ docs' = Append(docs, Span(regions[at])) /\ at' = at + 1
    /\ inRun' = TRUE
    /\ UNCHANGED <<file, phase, lexing>>

ExtendRun ==
    /\ Grouping /\ inRun /\ Joined
    /\ docs' = [docs EXCEPT ![Len(docs)].end = regions[at + 1].end]
    /\ at' = at + 2
    /\ UNCHANGED <<file, phase, lexing, inRun>>

EndRun ==
    /\ phase = "Group" /\ inRun /\ ~Joined
    /\ inRun' = FALSE
    /\ UNCHANGED <<file, phase, lexing, at, docs>>

SkipRegion ==
    /\ Grouping /\ ~inRun
    /\ ~IsBlockDoc(regions[at]) /\ ~IsLineDoc(regions[at])
    /\ at' = at + 1
    /\ UNCHANGED <<file, phase, lexing, inRun, docs>>

FinishDocs ==
    /\ phase = "Group" /\ ~inRun /\ at > Len(regions)
    /\ phase' = "Done"
    /\ UNCHANGED <<file, lexing, grouping>>

-----------------------------------------------------------------------------
SkipQuoted == SkipEscaped \/ CloseLiteral \/ NoCharacterLiteral \/ InsideLiteral \/ LiteralAtEnd
Regions    == RawString \/ OpenLiteral \/ LineComment \/ BlockComment \/ Advance \/ FinishRegions
DocSpans   == TakeBlockDoc \/ StartRun \/ ExtendRun \/ EndRun \/ SkipRegion \/ FinishDocs

Next == SkipQuoted \/ Regions \/ DocSpans

Spec == Init /\ [][Next]_vars

(* Every step of the two loops is the process's own.                       *)
FairSpec == Spec /\ WF_vars(Next)

-----------------------------------------------------------------------------
(* What later passes read: _blank_comments keeps offsets and line ends.    *)
Blanked ==
    [p \in 1 .. Len(text) |->
        IF /\ Char(p) # NL
           /\ \E k \in 1 .. Len(regions) :
                /\ regions[k].kind # "code"
                /\ regions[k].start <= p /\ p < regions[k].end
        THEN " " ELSE Char(p)]

-----------------------------------------------------------------------------
TokenSpan(i) ==
    [start |-> Begins(program, i), end |-> Begins(program, i) + Len(program[i].chars)]

CommentTokens == {i \in 1 .. Len(program) : program[i].kind # "code"}
DocTokens     == {i \in 1 .. Len(program) : program[i].doc # "none"}

(* At every moment the regions found so far lie end to end from the start  *)
(* of the file to code_start, none empty, and the cursor is not behind     *)
(* them: no character is lost or read twice, whatever the text.            *)
RegionsTile ==
    /\ codeStart \in 1 .. index /\ index <= End
    /\ \A k \in 1 .. Len(regions) : regions[k].start < regions[k].end
    /\ \A k \in 1 .. Len(regions) :
          regions[k].start = IF k = 1 THEN 1 ELSE regions[k - 1].end
    /\ codeStart = IF regions = <<>> THEN 1 ELSE regions[Len(regions)].end
    /\ phase # "Lex" => codeStart = End

(* The regions of a file that has been read are its comments and the code  *)
(* between them, by C++'s own tokens: a quote, a slash or a star inside a  *)
(* literal, a raw string or another comment opens and closes nothing.      *)
CommentsAsInCpp ==
    phase # "Lex" =>
        /\ {Span(regions[k]) : k \in {j \in 1 .. Len(regions) : regions[j].kind # "code"}}
              = {TokenSpan(i) : i \in CommentTokens}
        /\ \A k \in 1 .. Len(regions), i \in CommentTokens :
              Span(regions[k]) = TokenSpan(i) => regions[k].kind = program[i].kind
        /\ \A p \in 1 .. Len(text) :
              Blanked[p] # text[p] => \E i \in CommentTokens :
                  TokenSpan(i).start <= p /\ p < TokenSpan(i).end

(* Two documentation comments are read as one exactly when they are lines  *)
(* of one run: only blanks and further such lines stand between them.  A   *)
(* trailing comment or a block is never drawn into a run, and no comment   *)
(* that documents something is left out.                                   *)
SameRun(i, j) ==
    \A k \in i .. j : \/ program[k].doc = "line"
                      \/ program[k].kind = "code" /\ \A n \in 1 .. Len(program[k].chars) :
                                                        program[k].chars[n] \in Blank

Documents(d) == {i \in CommentTokens : d.start <= TokenSpan(i).start /\ TokenSpan(i).end <= d.end}

RunsReadTogether ==
    phase = "Done" =>
        /\ \A d \in 1 .. Len(docs) : Documents(docs[d]) # {} /\ Documents(docs[d]) \subseteq DocTokens
        /\ \A i \in DocTokens : \E d \in 1 .. Len(docs) :
              Documents(docs[d]) =
                  {j \in DocTokens : j = i \/ (j < i /\ SameRun(j, i)) \/ (i < j /\ SameRun(i, j))}

(* The loops come to their end, on every file: none of the branches leaves *)
(* the cursor where it was, an apostrophe in a directive's text and a line *)
(* without an end among them.                                              *)
ReadToTheEnd == <>(phase = "Done")
=============================================================================
