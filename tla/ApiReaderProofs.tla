-------------------------- MODULE ApiReaderProofs ---------------------------
(***************************************************************************)
(* What the page generator does to the comments of any text whatever.      *)
(* CommentLexer: the regions lie end to end, and so do not lose or repeat  *)
(* a character; they are the comments that C++ has in a program, and those *)
(* that document are grouped by their runs.  DocComments: an example       *)
(* reaches the reference as it was written, and every line that says       *)
(* something is told once.                                                 *)
(***************************************************************************)
EXTENDS CommentLexer, DocComments, SequenceTheorems, FiniteSetTheorems, WellFoundedInduction,
        TLAPS

-----------------------------------------------------------------------------
(* Numbers: a set of them has a least one, and from 0 on they are all.     *)

LEMMA LeastMember ==
    ASSUME NEW T \in SUBSET Nat, T # {}
    PROVE  \E least \in T : \A other \in T : least <= other
<1> DEFINE R == OpToRel(<, Nat)
<1>1. IsWellFoundedOn(R, Nat)
  BY NatLessThanWellFounded
<1>2. \A x, y \in Nat : x < y => <<x, y>> \in R
  BY DEF OpToRel
<1> HIDE DEF R
<1>3. PICK least \in T : \A other \in T : ~(<<other, least>> \in R)
  BY <1>1, WFMin
<1>4. ASSUME NEW other \in T PROVE least <= other
  <2> SUFFICES ASSUME ~(least <= other) PROVE FALSE
    OBVIOUS
  <2>1. other < least /\ other \in Nat /\ least \in Nat
    OBVIOUS
  <2>2. <<other, least>> \in R
    BY <2>1, <1>2
  <2> QED
    BY <2>2, <1>3
<1> QED
  BY <1>4

(* A set that contains zero and the successor of each member is Nat.       *)
LEMMA Induction ==
    ASSUME NEW S \in SUBSET Nat, 0 \in S, \A n \in S : n + 1 \in S
    PROVE  S = Nat
<1> SUFFICES ASSUME Nat \ S # {} PROVE FALSE
  OBVIOUS
<1>1. PICK least \in Nat \ S : \A other \in Nat \ S : least <= other
  BY LeastMember
<1>2. least # 0 /\ least - 1 \in Nat
  BY <1>1
<1>3. least - 1 \in S
  BY <1>1, <1>2
<1> QED
  BY <1>1, <1>2, <1>3

-----------------------------------------------------------------------------
(* The lexer.                                                              *)

RegionType == [kind : {"code", "line", "block"}, start : Nat, end : Nat]

(* A sequence of regions that lie end to end, from the start of the file   *)
(* to an offset.                                                           *)
TilesUpTo(rs, offset) ==
    /\ rs \in Seq(RegionType)
    /\ \A k \in 1 .. Len(rs) : rs[k].start < rs[k].end
    /\ \A k \in 1 .. Len(rs) : rs[k].start = IF k = 1 THEN 1 ELSE rs[k - 1].end
    /\ offset = IF rs = <<>> THEN 1 ELSE rs[Len(rs)].end

IndInv ==
    /\ index \in Nat /\ codeStart \in 1 .. index /\ index <= End
    /\ TilesUpTo(regions, codeStart)
    /\ phase # "Lex" => codeStart = End

LEMMA EndIsNat == End \in Nat \ {0}
BY DEF End

(* A region from where the last one ended goes on tiling.                  *)
LEMMA WithRegionTiles ==
    ASSUME NEW rs, NEW kind \in {"code", "line", "block"}, NEW from \in Nat, NEW to \in Nat,
           TilesUpTo(rs, from), from <= to
    PROVE  TilesUpTo(WithRegion(rs, kind, from, to), to)
<1>1. CASE from = to
  BY <1>1 DEF WithRegion
<1>2. CASE from < to
  <2> DEFINE r  == Region(kind, from, to)
             qs == Append(rs, r)
  <2>1. r \in RegionType /\ r.start = from /\ r.end = to
    BY DEF Region, RegionType
  <2>2. rs \in Seq(RegionType)
    BY DEF TilesUpTo
  <2> HIDE DEF r
  <2>3. /\ qs \in Seq(RegionType) /\ Len(qs) = Len(rs) + 1 /\ qs # <<>>
        /\ \A k \in 1 .. Len(rs) : qs[k] = rs[k]
        /\ qs[Len(rs) + 1] = r
    BY <2>1, <2>2
  <2>4. Len(rs) \in Nat /\ (rs = <<>> <=> Len(rs) = 0)
    BY <2>2
  <2> HIDE DEF qs
  <2>5. \A k \in 1 .. Len(qs) : qs[k].start < qs[k].end
    BY <1>2, <2>1, <2>3, <2>4 DEF TilesUpTo
  <2>6. \A k \in 1 .. Len(qs) : qs[k].start = IF k = 1 THEN 1 ELSE qs[k - 1].end
    <3> SUFFICES ASSUME NEW k \in 1 .. Len(qs)
                 PROVE  qs[k].start = IF k = 1 THEN 1 ELSE qs[k - 1].end
      OBVIOUS
    <3>1. CASE k \in 1 .. Len(rs)
      BY <2>3, <2>4, <3>1 DEF TilesUpTo
    <3>2. CASE k = Len(rs) + 1
      BY <2>1, <2>3, <2>4, <3>2 DEF TilesUpTo
    <3> QED BY <2>3, <2>4, <3>1, <3>2
  <2>7. to = IF qs = <<>> THEN 1 ELSE qs[Len(qs)].end
    BY <2>1, <2>3
  <2>8. TilesUpTo(qs, to)
    BY <2>3, <2>5, <2>6, <2>7 DEF TilesUpTo
  <2> QED BY <1>2, <2>8 DEF WithRegion, qs, r
<1> QED BY <1>1, <1>2

(* A comment ends the code before it and is a region of its own.           *)
LEMMA CommentTiles ==
    ASSUME IndInv, phase = "Lex", NEW kind \in {"line", "block"}, NEW end \in index + 1 .. End,
           TakeComment(kind, end)
    PROVE  IndInv'
<1> USE DEF IndInv
<1>1. /\ index' = end /\ codeStart' = end /\ phase' = "Lex" /\ text' = text
      /\ regions' = WithRegion(WithRegion(regions, "code", codeStart, index), kind, index, end)
  BY DEF TakeComment, CodeGoesOn, file
<1>2. end \in Nat /\ codeStart \in Nat /\ index <= end
  BY EndIsNat
<1>3. TilesUpTo(WithRegion(regions, "code", codeStart, index), index)
  BY <1>2, WithRegionTiles
<1>4. TilesUpTo(regions', end)
  BY <1>1, <1>2, <1>3, WithRegionTiles
<1> QED BY <1>1, <1>2, <1>4, EndIsNat DEF End

(* A step that only moves the cursor on, within the file.                  *)
LEMMA CursorMoves ==
    ASSUME IndInv, phase = "Lex", index' \in index .. End,
           UNCHANGED <<text, phase, codeStart, regions>>
    PROVE  IndInv'
BY EndIsNat DEF IndInv, End

(* _doc_spans reads the regions and changes nothing of theirs.             *)
LEMMA DocSpansOnlyReads ==
    ASSUME IndInv, phase = "Group", phase' # "Lex",
           UNCHANGED <<text, index, codeStart, regions>>
    PROVE  IndInv'
BY DEF IndInv, End

LEMMA SkipQuotedStep == ASSUME IndInv, SkipQuoted PROVE IndInv'
<1> USE DEF file
<1>1. CASE SkipEscaped
  <2>1. index' \in index .. End
    BY <1>1, EndIsNat DEF SkipEscaped, InLiteral, EscapedEnd, IndInv
  <2> QED BY <1>1, <2>1, CursorMoves DEF SkipEscaped, InLiteral
<1>2. CASE CloseLiteral
  <2>1. index' \in index .. End
    BY <1>2, EndIsNat DEF CloseLiteral, InLiteral, IndInv
  <2> QED BY <1>2, <2>1, CursorMoves DEF CloseLiteral, InLiteral
<1>3. CASE NoCharacterLiteral
  <2>1. index' \in index .. End
    BY <1>3, EndIsNat DEF NoCharacterLiteral, InLiteral, IndInv
  <2> QED BY <1>3, <2>1, CursorMoves DEF NoCharacterLiteral, InLiteral
<1>4. CASE InsideLiteral
  <2>1. index' \in index .. End
    BY <1>4, EndIsNat DEF InsideLiteral, IndInv
  <2> QED BY <1>4, <2>1, CursorMoves DEF InsideLiteral
<1>5. CASE LiteralAtEnd
  <2>1. index' \in index .. End
    BY <1>5, EndIsNat DEF LiteralAtEnd, IndInv
  <2> QED BY <1>5, <2>1, CursorMoves DEF LiteralAtEnd
<1> QED BY <1>1, <1>2, <1>3, <1>4, <1>5 DEF SkipQuoted

LEMMA RegionsStep == ASSUME IndInv, Regions PROVE IndInv'
<1> USE DEF file
<1>1. CASE RawString
  <2>1. index' \in index .. End
    BY <1>1, EndIsNat DEF RawString, IndInv
  <2> QED BY <1>1, <2>1, CursorMoves DEF RawString, Lexing
<1>2. CASE OpenLiteral
  <2>1. index' \in index .. End
    BY <1>2, EndIsNat DEF OpenLiteral, Lexing, IndInv
  <2> QED BY <1>2, <2>1, CursorMoves DEF OpenLiteral, Lexing
<1>3. CASE LineComment
  <2>1. PICK end \in index + 1 .. End : TakeComment("line", end)
    BY <1>3 DEF LineComment
  <2> QED BY <1>3, <2>1, CommentTiles DEF LineComment, Lexing
<1>4. CASE BlockComment
  <2>1. PICK end \in index + 1 .. End : TakeComment("block", end)
    BY <1>4 DEF BlockComment
  <2> QED BY <1>4, <2>1, CommentTiles DEF BlockComment, Lexing
<1>5. CASE Advance
  <2>1. index' \in index .. End
    BY <1>5, EndIsNat DEF Advance, Lexing, IndInv
  <2> QED BY <1>5, <2>1, CursorMoves DEF Advance, Lexing
<1>6. CASE FinishRegions
  <2>1. /\ index = End /\ index' = index /\ text' = text /\ codeStart' = End
        /\ regions' = WithRegion(regions, "code", codeStart, End)
    BY <1>6 DEF FinishRegions
  <2>2. TilesUpTo(regions', End)
    BY <2>1, EndIsNat, WithRegionTiles DEF IndInv
  <2> QED BY <2>1, <2>2, EndIsNat DEF IndInv, End
<1> QED BY <1>1, <1>2, <1>3, <1>4, <1>5, <1>6 DEF Regions

LEMMA DocSpansStep == ASSUME IndInv, DocSpans PROVE IndInv'
<1> USE DEF file, lexing
<1>1. CASE TakeBlockDoc
  BY <1>1, DocSpansOnlyReads DEF TakeBlockDoc, Grouping
<1>2. CASE StartRun
  BY <1>2, DocSpansOnlyReads DEF StartRun, Grouping
<1>3. CASE ExtendRun
  BY <1>3, DocSpansOnlyReads DEF ExtendRun, Grouping
<1>4. CASE EndRun
  BY <1>4, DocSpansOnlyReads DEF EndRun
<1>5. CASE SkipRegion
  BY <1>5, DocSpansOnlyReads DEF SkipRegion, Grouping
<1>6. CASE FinishDocs
  BY <1>6, DocSpansOnlyReads DEF FinishDocs
<1> QED BY <1>1, <1>2, <1>3, <1>4, <1>5, <1>6 DEF DocSpans

LEMMA TilesBegin == Init => IndInv
<1> SUFFICES ASSUME Init PROVE IndInv
  OBVIOUS
<1>1. regions \in Seq(RegionType) /\ Len(regions) = 0
  BY DEF Init
<1> QED BY <1>1, EndIsNat DEF Init, IndInv, TilesUpTo

LEMMA TilesKeep == IndInv /\ [Next]_vars => IndInv'
<1> SUFFICES ASSUME IndInv, [Next]_vars PROVE IndInv'
  OBVIOUS
<1>1. CASE UNCHANGED vars
  BY <1>1 DEF vars, file, lexing, IndInv, End
<1> QED BY <1>1, SkipQuotedStep, RegionsStep, DocSpansStep DEF Next

(* The regions found so far lie end to end from the start of the file to   *)
(* code_start, and reach its end when the lexer is done (RegionsTile).     *)
THEOREM RegionsLieEndToEnd == Spec => []RegionsTile
<1>1. IndInv => RegionsTile
  BY EndIsNat DEF IndInv, TilesUpTo, RegionsTile
<1> QED BY <1>1, TilesBegin, TilesKeep, PTL DEF Spec

-----------------------------------------------------------------------------
(* Where the tokens of a file are in its text.                             *)

(* A function defined by what each value makes of the one before it.       *)
Iterates(f, base, F, n) == f[0] = base /\ \A i \in 1 .. n : f[i] = F[<<i, f[i - 1]>>]

LEMMA Iteration ==
    ASSUME NEW V, NEW base \in V, NEW F \in [Nat \X V -> V], NEW N \in Nat
    PROVE  \E f \in [0 .. N -> V] : Iterates(f, base, F, N)
<1> DEFINE S == {n \in Nat : \E f \in [0 .. n -> V] : Iterates(f, base, F, n)}
<1>1. 0 \in S
  <2>1. [i \in 0 .. 0 |-> base] \in [0 .. 0 -> V] /\ Iterates([i \in 0 .. 0 |-> base], base, F, 0)
    BY DEF Iterates
  <2> QED BY <2>1
<1>2. ASSUME NEW n \in S PROVE n + 1 \in S
  <2>1. n \in Nat
    OBVIOUS
  <2>2. PICK f \in [0 .. n -> V] : Iterates(f, base, F, n)
    OBVIOUS
  <2> DEFINE next == F[<<n + 1, f[n]>>]
             g == [i \in 0 .. n + 1 |-> IF i = n + 1 THEN next ELSE f[i]]
  <2>3. next \in V
    <3>1. f[n] \in V
      BY <2>1, <2>2
    <3>2. <<n + 1, f[n]>> \in Nat \X V
      BY <2>1, <3>1
    <3> QED BY <3>2
  <2>4. g \in [0 .. n + 1 -> V]
    <3> HIDE DEF next
    <3>1. \A i \in 0 .. n + 1 : i # n + 1 => i \in 0 .. n
      BY <2>1
    <3> QED BY <2>2, <2>3, <3>1
  <2>5. g[0] = base
    BY <2>1, <2>2 DEF Iterates
  <2>6. ASSUME NEW i \in 1 .. n + 1 PROVE g[i] = F[<<i, g[i - 1]>>]
    <3>1. CASE i = n + 1
      <4>1. g[i] = next /\ g[i - 1] = f[n]
        BY <2>1, <3>1
      <4> QED BY <3>1, <4>1
    <3>2. CASE i \in 1 .. n
      <4>1. g[i] = f[i] /\ g[i - 1] = f[i - 1]
        BY <2>1, <3>2
      <4> QED BY <2>2, <3>2, <4>1 DEF Iterates
    <3> QED BY <2>1, <3>1, <3>2
  <2>7. Iterates(g, base, F, n + 1)
    BY <2>5, <2>6 DEF Iterates
  <2> HIDE DEF g
  <2> QED BY <2>1, <2>4, <2>7
<1>3. S = Nat
  <2> HIDE DEF S
  <2>1. S \in SUBSET Nat
    BY DEF S
  <2> QED BY <1>1, <1>2, <2>1, Induction
<1> QED BY <1>3

Tokens(p) == p \in Seq(Token) /\ p # <<>>

LEMMA TokenTypes ==
    ASSUME NEW p, Tokens(p)
    PROVE  /\ Len(p) \in Nat \ {0}
           /\ \A i \in 1 .. Len(p) : /\ p[i] \in Token
                                     /\ p[i].chars \in Seq(STRING)
                                     /\ Len(p[i].chars) \in Nat \ {0}
<1>1. p \in Seq(Token) /\ Len(p) \in Nat \ {0}
  BY EmptySeq DEF Tokens
<1>2. ASSUME NEW i \in 1 .. Len(p)
      PROVE  p[i] \in Token /\ p[i].chars \in Seq(STRING) /\ Len(p[i].chars) \in Nat \ {0}
  <2>1. p[i] \in Token
    BY <1>1
  <2>2. p[i].chars \in Seq(STRING) \ {<<>>}
    BY <2>1 DEF Token
  <2> QED BY <2>1, <2>2, EmptySeq
<1> QED BY <1>1, <1>2

(* Each token begins where the one before it ends.                         *)
LEMMA BeginsInTurn ==
    ASSUME NEW p, Tokens(p)
    PROVE  /\ Begins(p, 1) = 1
           /\ \A i \in 1 .. Len(p) : Begins(p, i) \in Nat
           /\ \A i \in 2 .. Len(p) : Begins(p, i) = Begins(p, i - 1) + Len(p[i - 1].chars)
<1> DEFINE N == Len(p)
           Body(f) == [k \in 1 .. N |-> IF k = 1 THEN 1 ELSE f[k - 1] + Len(p[k - 1].chars)]
           start == CHOOSE f : f = Body(f)
           Long(i) == IF i \in 1 .. N THEN Len(p[i].chars) ELSE 0
           F == [w \in Nat \X Nat |-> w[2] + Long(w[1])]
<1>1. \A i : Begins(p, i) = start[i]
  BY DEF Begins
<1>2. /\ N \in Nat \ {0} /\ \A i \in 1 .. N : Len(p[i].chars) \in Nat
  BY TokenTypes
<1>3. \A i \in Nat : Long(i) \in Nat
  BY <1>2
<1>4. F \in [Nat \X Nat -> Nat] /\ \A i, n \in Nat : F[<<i, n>>] = n + Long(i)
  <2> HIDE DEF Long
  <2> QED BY <1>3
<1> HIDE DEF F
<1>5. PICK g \in [0 .. N -> Nat] : Iterates(g, 1, F, N)
  BY <1>2, <1>4, Iteration
<1> DEFINE h == [k \in 1 .. N |-> g[k - 1]]
<1>6. ASSUME NEW k \in 1 .. N PROVE h[k] = IF k = 1 THEN 1 ELSE h[k - 1] + Len(p[k - 1].chars)
  <2>1. CASE k = 1
    BY <1>5, <2>1 DEF Iterates
  <2>2. CASE k # 1
    <3>1. k - 1 \in 1 .. N /\ k - 2 \in 0 .. N /\ k - 1 \in Nat
      BY <1>2, <2>2
    <3>2. g[k - 1] = F[<<k - 1, g[k - 2]>>] /\ g[k - 2] \in Nat
      BY <1>5, <3>1 DEF Iterates
    <3>3. g[k - 1] = g[k - 2] + Long(k - 1)
      BY <1>4, <3>1, <3>2
    <3>4. h[k] = g[k - 1] /\ h[k - 1] = g[k - 2]
      BY <1>2, <3>1
    <3> QED BY <2>2, <3>1, <3>3, <3>4
  <2> QED BY <2>1, <2>2
<1>7. h = Body(h)
  BY <1>6
<1>8. start = Body(start)
  <2> HIDE DEF h, Body
  <2> QED BY <1>7
<1> HIDE DEF start
<1>9. \A k \in 1 .. N : start[k] = IF k = 1 THEN 1 ELSE start[k - 1] + Len(p[k - 1].chars)
  <2>1. \A k \in 1 .. N : start[k] = Body(start)[k]
    BY <1>8
  <2> QED BY <2>1
<1>10. start[1] = 1 /\ \A i \in 2 .. N : start[i] = start[i - 1] + Len(p[i - 1].chars)
  BY <1>2, <1>9
<1> DEFINE S == {n \in Nat : n + 1 \in 1 .. N => start[n + 1] \in Nat}
<1>11. 0 \in S /\ \A n \in S : n + 1 \in S
  <2>1. 0 \in S
    BY <1>10
  <2>2. ASSUME NEW n \in S PROVE n + 1 \in S
    <3>1. SUFFICES ASSUME n + 2 \in 1 .. N PROVE start[n + 2] \in Nat
      OBVIOUS
    <3>2. n + 1 \in 1 .. N /\ n + 2 \in 2 .. N /\ (n + 2) - 1 = n + 1
      BY <1>2, <3>1
    <3>3. start[n + 1] \in Nat /\ Len(p[n + 1].chars) \in Nat
      BY <1>2, <3>2
    <3> QED BY <1>10, <3>2, <3>3
  <2> QED BY <2>1, <2>2
<1>12. S = Nat
  <2>1. S \in SUBSET Nat
    OBVIOUS
  <2> HIDE DEF S
  <2> QED BY <1>11, <2>1, Induction
<1>13. ASSUME NEW i \in 1 .. N PROVE start[i] \in Nat
  <2>1. i - 1 \in Nat /\ (i - 1) + 1 = i
    BY <1>2
  <2>2. i - 1 \in S
    BY <1>12, <2>1
  <2> QED BY <2>1, <2>2
<1> QED BY <1>1, <1>10, <1>13

(* Where token i begins; the place behind the last token is the end.       *)
Place(p, i) == IF i = Len(p) + 1 THEN Len(Written(p)) + 1 ELSE Begins(p, i)

Holds(t, from, cs) == \A k \in 1 .. Len(cs) : t[from + k - 1] = cs[k]

(* What has been written after each token.                                 *)
LEMMA WrittenInTurn ==
    ASSUME NEW p, Tokens(p)
    PROVE  \E u : /\ u \in [0 .. Len(p) -> Seq(STRING)]
                  /\ u[0] = <<>> /\ u[Len(p)] = Written(p)
                  /\ \A k \in 1 .. Len(p) : u[k] = u[k - 1] \o p[k].chars
<1> DEFINE N == Len(p)
           Body(f) == [k \in 0 .. N |-> IF k = 0 THEN <<>> ELSE f[k - 1] \o p[k].chars]
           upTo == CHOOSE f : f = Body(f)
           Chars(i) == IF i \in 1 .. N THEN p[i].chars ELSE <<>>
           F == [w \in Nat \X Seq(STRING) |-> w[2] \o Chars(w[1])]
<1>1. Written(p) = upTo[N]
  BY DEF Written
<1>2. N \in Nat \ {0} /\ \A i \in 1 .. N : p[i].chars \in Seq(STRING)
  BY TokenTypes
<1>3. \A i \in Nat : Chars(i) \in Seq(STRING)
  <2>1. <<>> \in Seq(STRING)
    OBVIOUS
  <2> QED BY <1>2, <2>1
<1>4. F \in [Nat \X Seq(STRING) -> Seq(STRING)]
      /\ \A i \in Nat, s \in Seq(STRING) : F[<<i, s>>] = s \o Chars(i)
  <2> HIDE DEF Chars
  <2>1. \A s, t \in Seq(STRING) : s \o t \in Seq(STRING)
    OBVIOUS
  <2> QED BY <1>3, <2>1
<1> HIDE DEF F
<1>5. PICK g \in [0 .. N -> Seq(STRING)] : Iterates(g, <<>>, F, N)
  <2>1. <<>> \in Seq(STRING) /\ N \in Nat
    BY <1>2
  <2> HIDE DEF N
  <2> QED BY <1>4, <2>1, Iteration
<1>6. ASSUME NEW k \in 0 .. N PROVE g[k] = IF k = 0 THEN <<>> ELSE g[k - 1] \o p[k].chars
  <2>1. CASE k = 0
    BY <1>5, <2>1 DEF Iterates
  <2>2. CASE k # 0
    <3>1. k \in 1 .. N /\ k \in Nat /\ k - 1 \in 0 .. N
      BY <1>2, <2>2
    <3>2. g[k] = F[<<k, g[k - 1]>>] /\ g[k - 1] \in Seq(STRING)
      BY <1>5, <3>1 DEF Iterates
    <3>3. g[k] = g[k - 1] \o Chars(k)
      BY <1>4, <3>1, <3>2
    <3> QED BY <2>2, <3>1, <3>3
  <2> QED BY <2>1, <2>2
<1>7. g = Body(g)
  BY <1>6
<1>8. upTo = Body(upTo)
  <2> HIDE DEF Body
  <2> QED BY <1>7
<1> HIDE DEF upTo
<1>9. \A k \in 0 .. N : upTo[k] = IF k = 0 THEN <<>> ELSE upTo[k - 1] \o p[k].chars
  <2>1. \A k \in 0 .. N : upTo[k] = Body(upTo)[k]
    BY <1>8
  <2> QED BY <2>1
<1>10. upTo[0] = <<>> /\ \A i \in 1 .. N : upTo[i] = upTo[i - 1] \o p[i].chars
  <2>1. 0 \in 0 .. N /\ \A i \in 1 .. N : i \in 0 .. N /\ i # 0
    BY <1>2
  <2> HIDE DEF N
  <2> QED BY <1>9, <2>1
<1> DEFINE S == {n \in Nat : n \in 0 .. N => upTo[n] \in Seq(STRING)}
<1>11. 0 \in S /\ \A n \in S : n + 1 \in S
  <2>1. 0 \in S
    BY <1>10
  <2>2. ASSUME NEW n \in S PROVE n + 1 \in S
    <3>1. SUFFICES ASSUME n + 1 \in 0 .. N PROVE upTo[n + 1] \in Seq(STRING)
      OBVIOUS
    <3>2. n + 1 \in 1 .. N /\ n \in 0 .. N /\ (n + 1) - 1 = n
      BY <1>2, <3>1
    <3>3. upTo[n] \in Seq(STRING) /\ p[n + 1].chars \in Seq(STRING)
      BY <1>2, <3>2
    <3>4. upTo[n + 1] = upTo[n] \o p[n + 1].chars
      BY <1>10, <3>2
    <3> QED BY <3>3, <3>4
  <2> QED BY <2>1, <2>2
<1>12. S = Nat
  <2>1. S \in SUBSET Nat
    OBVIOUS
  <2> HIDE DEF S
  <2> QED BY <1>11, <2>1, Induction
<1>13. \A i \in 0 .. N : upTo[i] \in Seq(STRING)
  BY <1>2, <1>12
<1>14. upTo \in [0 .. N -> Seq(STRING)]
  <2>1. upTo = [k \in 0 .. N |-> upTo[k]]
    BY <1>8
  <2> HIDE DEF N
  <2> QED BY <1>13, <2>1
<1> QED BY <1>1, <1>10, <1>14

(* The tokens of a program lie side by side in its text.                   *)
LEMMA Layout ==
    ASSUME NEW p, Tokens(p)
    PROVE  /\ Written(p) \in Seq(STRING)
           /\ Place(p, 1) = 1
           /\ Place(p, Len(p) + 1) = Len(Written(p)) + 1
           /\ \A i \in 1 .. Len(p) + 1 : Place(p, i) \in Nat \ {0}
           /\ \A i \in 1 .. Len(p) : /\ Place(p, i) = Begins(p, i)
                                     /\ Place(p, i + 1) = Place(p, i) + Len(p[i].chars)
                                     /\ Holds(Written(p), Place(p, i), p[i].chars)
<1> DEFINE N == Len(p)
<1>1. N \in Nat \ {0} /\ \A i \in 1 .. N : p[i].chars \in Seq(STRING) /\ Len(p[i].chars) \in Nat \ {0}
  BY TokenTypes
<1>2. PICK u : /\ u \in [0 .. N -> Seq(STRING)] /\ u[0] = <<>> /\ u[N] = Written(p)
               /\ \A k \in 1 .. N : u[k] = u[k - 1] \o p[k].chars
  BY WrittenInTurn
<1>3. /\ Begins(p, 1) = 1
      /\ \A i \in 1 .. N : Begins(p, i) \in Nat
      /\ \A i \in 2 .. N : Begins(p, i) = Begins(p, i - 1) + Len(p[i - 1].chars)
  BY BeginsInTurn
<1>4. \A k \in 0 .. N : u[k] \in Seq(STRING) /\ Len(u[k]) \in Nat
  BY <1>2
<1>5. ASSUME NEW k \in 1 .. N
      PROVE  /\ k - 1 \in 0 .. N
             /\ Len(u[k]) = Len(u[k - 1]) + Len(p[k].chars)
             /\ \A m \in 1 .. Len(u[k - 1]) : u[k][m] = u[k - 1][m]
             /\ \A m \in 1 .. Len(p[k].chars) : u[k][Len(u[k - 1]) + m] = p[k].chars[m]
  <2>1. k - 1 \in 0 .. N
    BY <1>1
  <2>2. PICK s, t : s = u[k - 1] /\ t = p[k].chars
    OBVIOUS
  <2>3. s \in Seq(STRING) /\ t \in Seq(STRING) /\ u[k] = s \o t
    BY <1>1, <1>2, <1>4, <2>1, <2>2
  <2>4. /\ Len(s \o t) = Len(s) + Len(t)
        /\ \A m \in 1 .. Len(s) : (s \o t)[m] = s[m]
        /\ \A m \in 1 .. Len(t) : (s \o t)[Len(s) + m] = t[m]
    BY <2>3
  <2> QED BY <2>1, <2>2, <2>3, <2>4
<1> DEFINE Laid(n) == /\ n + 1 \in 1 .. N => Begins(p, n + 1) = Len(u[n]) + 1
                      /\ \A i \in 1 .. n : /\ Begins(p, i) + Len(p[i].chars) <= Len(u[n]) + 1
                                           /\ Holds(u[n], Begins(p, i), p[i].chars)
           S == {n \in Nat : n \in 0 .. N => Laid(n)}
<1>6. Laid(0)
  BY <1>2, <1>3
<1>7. ASSUME NEW n \in Nat, n + 1 \in 0 .. N, Laid(n) PROVE Laid(n + 1)
  <2>1. n + 1 \in 1 .. N /\ (n + 1) - 1 = n /\ n \in 0 .. N
    BY <1>1, <1>7
  <2>2. PICK v, w, cs : v = u[n] /\ w = u[n + 1] /\ cs = p[n + 1].chars
    OBVIOUS
  <2>3. /\ v \in Seq(STRING) /\ Len(v) \in Nat /\ Len(w) \in Nat /\ cs \in Seq(STRING) /\ Len(cs) \in Nat \ {0}
        /\ Len(w) = Len(v) + Len(cs)
        /\ \A m \in 1 .. Len(v) : w[m] = v[m]
        /\ \A m \in 1 .. Len(cs) : w[Len(v) + m] = cs[m]
    <3>1. v \in Seq(STRING) /\ Len(v) \in Nat /\ Len(w) \in Nat
      BY <1>4, <1>7, <2>1, <2>2
    <3>2. cs \in Seq(STRING) /\ Len(cs) \in Nat \ {0}
      BY <1>1, <2>1, <2>2
    <3> HIDE DEF N, Laid
    <3>3. /\ Len(u[n + 1]) = Len(u[(n + 1) - 1]) + Len(p[n + 1].chars)
          /\ \A m \in 1 .. Len(u[(n + 1) - 1]) : u[n + 1][m] = u[(n + 1) - 1][m]
          /\ \A m \in 1 .. Len(p[n + 1].chars) :
                u[n + 1][Len(u[(n + 1) - 1]) + m] = p[n + 1].chars[m]
      BY <1>5, <2>1
    <3> QED BY <2>1, <2>2, <3>1, <3>2, <3>3
  <2>4. Begins(p, n + 1) = Len(v) + 1
    BY <1>7, <2>1, <2>2
  <2>5. (n + 1) + 1 \in 1 .. N => Begins(p, (n + 1) + 1) = Len(w) + 1
    <3>1. SUFFICES ASSUME (n + 1) + 1 \in 1 .. N PROVE Begins(p, (n + 1) + 1) = Len(w) + 1
      OBVIOUS
    <3>2. (n + 1) + 1 \in 2 .. N /\ ((n + 1) + 1) - 1 = n + 1
      BY <3>1
    <3>3. Begins(p, (n + 1) + 1) = Begins(p, ((n + 1) + 1) - 1) + Len(p[((n + 1) + 1) - 1].chars)
      BY <1>3, <3>2
    <3>4. Begins(p, (n + 1) + 1) = Begins(p, n + 1) + Len(cs)
      BY <2>2, <3>2, <3>3
    <3> QED BY <2>3, <2>4, <3>4
  <2>6. ASSUME NEW i \in 1 .. n + 1
        PROVE  /\ Begins(p, i) + Len(p[i].chars) <= Len(w) + 1
               /\ Holds(w, Begins(p, i), p[i].chars)
    <3>1. CASE i = n + 1
      <4>1. Begins(p, i) + Len(p[i].chars) <= Len(w) + 1
        <5>1. Begins(p, i) = Len(v) + 1 /\ p[i].chars = cs
          BY <2>2, <2>4, <3>1
        <5> QED BY <2>3, <5>1
      <4>2. \A k \in 1 .. Len(cs) : (Len(v) + 1) + k - 1 = Len(v) + k
        BY <2>3
      <4>3. Holds(w, Len(v) + 1, cs)
        BY <2>3, <4>2 DEF Holds
      <4>4. Begins(p, i) = Len(v) + 1 /\ p[i].chars = cs
        BY <2>2, <2>4, <3>1
      <4> QED BY <4>1, <4>3, <4>4
    <3>2. CASE i \in 1 .. n
      <4>1. /\ Begins(p, i) + Len(p[i].chars) <= Len(v) + 1
            /\ Holds(v, Begins(p, i), p[i].chars)
        BY <1>7, <2>2, <3>2
      <4>2. i \in 1 .. N
        BY <2>1, <3>2
      <4>3. Begins(p, i) \in Nat /\ Len(p[i].chars) \in Nat
        BY <1>1, <1>3, <4>2
      <4>4. Begins(p, i) >= 1
        <5> DEFINE T == {m \in Nat : m + 1 \in 1 .. N => Begins(p, m + 1) >= 1}
        <5>1. 0 \in T
          BY <1>3
        <5>2. ASSUME NEW m \in T PROVE m + 1 \in T
          <6>1. SUFFICES ASSUME (m + 1) + 1 \in 1 .. N PROVE Begins(p, (m + 1) + 1) >= 1
            OBVIOUS
          <6>2. (m + 1) + 1 \in 2 .. N /\ ((m + 1) + 1) - 1 = m + 1 /\ m + 1 \in 1 .. N
            BY <6>1
          <6>3. Begins(p, m + 1) >= 1 /\ Begins(p, m + 1) \in Nat /\ Len(p[m + 1].chars) \in Nat
            BY <1>1, <1>3, <6>2
          <6> QED BY <1>3, <6>2, <6>3
        <5>3. T = Nat
          <6>1. T \in SUBSET Nat
            OBVIOUS
          <6> HIDE DEF T
          <6> QED BY <5>1, <5>2, <6>1, Induction
        <5>4. i - 1 \in Nat /\ (i - 1) + 1 = i
          BY <4>2, <1>1
        <5>5. i - 1 \in T
          BY <5>3, <5>4
        <5> QED BY <4>2, <5>4, <5>5
      <4>5. ASSUME NEW k \in 1 .. Len(p[i].chars) PROVE w[Begins(p, i) + k - 1] = p[i].chars[k]
        <5>1. Begins(p, i) + k - 1 \in 1 .. Len(v)
          BY <2>3, <4>1, <4>3, <4>4
        <5> QED BY <2>3, <4>1, <5>1 DEF Holds
      <4> QED BY <2>3, <4>1, <4>3, <4>5 DEF Holds
    <3> QED BY <2>1, <3>1, <3>2
  <2> QED BY <2>2, <2>5, <2>6
<1>8. S = Nat
  <2>1. 0 \in S
    BY <1>6
  <2>2. ASSUME NEW n \in S PROVE n + 1 \in S
    <3>1. n + 1 \in 0 .. N => n \in 0 .. N
      BY <1>1
    <3> HIDE DEF Laid
    <3> QED BY <1>7, <3>1
  <2>3. S \in SUBSET Nat
    OBVIOUS
  <2> HIDE DEF S
  <2> QED BY <2>1, <2>2, <2>3, Induction
<1>9. \A n \in 0 .. N : Laid(n)
  <2>1. \A n \in 0 .. N : n \in Nat
    BY <1>1
  <2> HIDE DEF Laid, N
  <2> QED BY <1>8, <2>1
<1>10. Written(p) \in Seq(STRING) /\ N \in 0 .. N
  BY <1>1, <1>2
<1>11. ASSUME NEW i \in 1 .. N
       PROVE  /\ Place(p, i) = Begins(p, i)
              /\ Place(p, i + 1) = Place(p, i) + Len(p[i].chars)
              /\ Holds(Written(p), Place(p, i), p[i].chars)
  <2>1. Place(p, i) = Begins(p, i)
    BY <1>1 DEF Place
  <2>2. Holds(Written(p), Begins(p, i), p[i].chars)
    BY <1>2, <1>9, <1>10
  <2>3. Place(p, i + 1) = Begins(p, i) + Len(p[i].chars)
    <3>1. CASE i = N
      <4>0. N - 1 \in 0 .. N /\ (N - 1) + 1 = N /\ N \in 1 .. N /\ N \in 0 .. N
        BY <1>1
      <4>1. Laid(N - 1)
        <5> HIDE DEF Laid, N
        <5> QED BY <1>9, <4>0
      <4>2. Begins(p, N) = Len(u[N - 1]) + 1
        BY <4>0, <4>1
      <4>3. Len(u[N]) = Len(u[N - 1]) + Len(p[N].chars)
        <5> HIDE DEF Laid, N
        <5> QED BY <1>5, <4>0
      <4>4. Len(u[N - 1]) \in Nat /\ Len(p[N].chars) \in Nat
        <5> HIDE DEF Laid, N
        <5> QED BY <1>1, <1>4, <4>0
      <4>5. Place(p, i + 1) = Len(u[N]) + 1
        BY <1>2, <3>1 DEF Place
      <4> HIDE DEF Laid, S, N
      <4>6. Place(p, i + 1) = Begins(p, N) + Len(p[N].chars)
        <5>1. PICK a, b : a = Len(u[N - 1]) /\ b = Len(p[N].chars)
          OBVIOUS
        <5>2. a \in Nat /\ b \in Nat
          BY <4>4, <5>1
        <5>3. Begins(p, N) = a + 1
          BY <4>2, <5>1
        <5>4. Len(u[N]) = a + b
          BY <4>3, <5>1
        <5>5. Place(p, i + 1) = (a + b) + 1
          BY <4>5, <5>4
        <5>6. (a + b) + 1 = (a + 1) + b
          BY <5>2
        <5> QED BY <5>1, <5>3, <5>5, <5>6
      <4> QED BY <3>1, <4>6
    <3>2. CASE i # N
      <4>1. i + 1 \in 2 .. N /\ (i + 1) - 1 = i /\ i + 1 # N + 1
        BY <1>1, <3>2
      <4> QED BY <1>3, <4>1 DEF Place
    <3> QED BY <3>1, <3>2
  <2> QED BY <2>1, <2>2, <2>3
<1>12. Place(p, 1) = 1
  BY <1>1, <1>3, <1>11
<1>13. Place(p, N + 1) = Len(Written(p)) + 1
  BY DEF Place
<1>14. ASSUME NEW i \in 1 .. N + 1 PROVE Place(p, i) \in Nat \ {0}
  <2> DEFINE T == {m \in Nat : m + 1 \in 1 .. N + 1 => Place(p, m + 1) \in Nat \ {0}}
  <2>1. 0 \in T
    BY <1>12
  <2>2. ASSUME NEW m \in T PROVE m + 1 \in T
    <3>1. SUFFICES ASSUME (m + 1) + 1 \in 1 .. N + 1 PROVE Place(p, (m + 1) + 1) \in Nat \ {0}
      OBVIOUS
    <3>2. m + 1 \in 1 .. N /\ m + 1 \in 1 .. N + 1
      BY <1>1, <3>1
    <3>3. Place(p, m + 1) \in Nat \ {0} /\ Len(p[m + 1].chars) \in Nat
      BY <1>1, <3>2
    <3> QED BY <1>11, <3>2, <3>3
  <2>3. T = Nat
    <3>1. T \in SUBSET Nat
      OBVIOUS
    <3> HIDE DEF T
    <3> QED BY <2>1, <2>2, <3>1, Induction
  <2>4. i - 1 \in Nat /\ (i - 1) + 1 = i
    BY <1>1
  <2>5. i - 1 \in T
    BY <2>3, <2>4
  <2> QED BY <2>4, <2>5
<1> QED BY <1>10, <1>11, <1>12, <1>13, <1>14

(* What a program of Files is, and how its text holds its tokens.          *)
Chars(p, i) == p[i].chars

Proper(p) ==
    /\ Len(p) \in Nat \ {0}
    /\ \A i \in 1 .. Len(p) :
          /\ p[i] \in Token /\ WellFormed(p[i])
          /\ Chars(p, i) \in Seq(STRING) /\ Len(Chars(p, i)) \in Nat \ {0}
          /\ Place(p, i) = Begins(p, i)
          /\ Place(p, i + 1) = Place(p, i) + Len(Chars(p, i))
    /\ \A i \in 1 .. Len(p) - 1 : MayFollow(p[i], p[i + 1])
    /\ Place(p, 1) = 1
    /\ \A i \in 1 .. Len(p) + 1 : Place(p, i) \in Nat \ {0}

LEMMA FilesAreProper ==
    ASSUME NEW p \in Files
    PROVE  /\ Proper(p)
           /\ Written(p) \in Seq(STRING) /\ Len(Written(p)) + 1 = Place(p, Len(p) + 1)
           /\ \A i \in 1 .. Len(p) : Holds(Written(p), Place(p, i), Chars(p, i))
<1>1. /\ Tokens(p)
      /\ \A i \in 1 .. Len(p) : WellFormed(p[i])
      /\ \A i \in 1 .. Len(p) - 1 : MayFollow(p[i], p[i + 1])
  BY FilesAssumption DEF Tokens
<1> QED BY <1>1, TokenTypes, Layout DEF Proper, Chars

(* Tokens stand in order and do not overlap.                               *)
LEMMA InOrder ==
    ASSUME NEW p, Proper(p), NEW i \in 1 .. Len(p) + 1, NEW j \in 1 .. Len(p) + 1, i < j
    PROVE  Place(p, i) < Place(p, j)
<1> DEFINE S == {n \in Nat : i + n + 1 <= Len(p) + 1 => Place(p, i) < Place(p, i + n + 1)}
<1>1. Len(p) \in Nat /\ i \in Nat /\ j \in Nat
  BY DEF Proper
<1>2. 0 \in S
  <2>1. SUFFICES ASSUME i + 0 + 1 <= Len(p) + 1 PROVE Place(p, i) < Place(p, i + 0 + 1)
    OBVIOUS
  <2>2. i \in 1 .. Len(p) /\ i + 0 + 1 = i + 1
    BY <1>1, <2>1
  <2>3. Place(p, i + 1) = Place(p, i) + Len(Chars(p, i)) /\ Place(p, i) \in Nat
        /\ Len(Chars(p, i)) \in Nat \ {0}
    BY <2>2 DEF Proper
  <2> QED BY <2>2, <2>3
<1>3. ASSUME NEW n \in S PROVE n + 1 \in S
  <2>1. SUFFICES ASSUME i + (n + 1) + 1 <= Len(p) + 1 PROVE Place(p, i) < Place(p, i + (n + 1) + 1)
    OBVIOUS
  <2>2. i + n + 1 \in 1 .. Len(p) /\ i + (n + 1) + 1 = (i + n + 1) + 1 /\ i + n + 1 <= Len(p) + 1
    BY <1>1, <2>1
  <2>3. Place(p, i) < Place(p, i + n + 1)
    BY <2>2
  <2>4. Place(p, (i + n + 1) + 1) = Place(p, i + n + 1) + Len(Chars(p, i + n + 1))
        /\ Place(p, i + n + 1) \in Nat /\ Len(Chars(p, i + n + 1)) \in Nat \ {0}
    BY <2>2 DEF Proper
  <2>5. Place(p, i) \in Nat
    BY DEF Proper
  <2> QED BY <2>2, <2>3, <2>4, <2>5
<1>4. S = Nat
  <2>1. S \in SUBSET Nat
    OBVIOUS
  <2> HIDE DEF S
  <2> QED BY <1>2, <1>3, <2>1, Induction
<1>5. j - i - 1 \in Nat /\ i + (j - i - 1) + 1 = j
  BY <1>1
<1>6. j - i - 1 \in S
  BY <1>4, <1>5
<1> QED BY <1>1, <1>5, <1>6

(* The program that is read, its text and its parts.                       *)
FileInv == program \in Files /\ text = Written(program)

Size     == Len(program)
Start(i) == Place(program, i)
Cs(i)    == Chars(program, i)

LEMMA FileFacts ==
    ASSUME FileInv
    PROVE  /\ Proper(program)
           /\ Size \in Nat \ {0} /\ End \in Nat /\ Len(text) \in Nat /\ End = Len(text) + 1
           /\ text \in Seq(STRING)
           /\ Start(1) = 1 /\ Start(Size + 1) = End
           /\ \A i \in 1 .. Size + 1 : Start(i) \in Nat \ {0} /\ Start(i) <= End
<1>1. /\ Proper(program)
      /\ text \in Seq(STRING) /\ Len(text) + 1 = Start(Size + 1)
  BY FilesAreProper DEF FileInv, Size, Start
<1>2. Size \in Nat \ {0} /\ Len(text) \in Nat /\ Start(1) = 1
      /\ \A i \in 1 .. Size + 1 : Start(i) \in Nat \ {0}
  BY <1>1 DEF Proper, Size, Start
<1>3. ASSUME NEW i \in 1 .. Size + 1 PROVE Start(i) <= End
  <2>1. CASE i = Size + 1
    BY <1>1, <1>2, <2>1 DEF End
  <2>2. CASE i < Size + 1
    <3>1. Size + 1 \in 1 .. Size + 1
      BY <1>2
    <3>2. Start(i) < Start(Size + 1)
      BY <1>1, <2>2, <3>1, InOrder DEF Size, Start
    <3> QED BY <1>1, <1>2, <3>1, <3>2 DEF End
  <2> QED BY <1>2, <2>1, <2>2
<1> QED BY <1>1, <1>2, <1>3 DEF End

(* One token in the text: where it begins and ends, and its characters.    *)
LEMMA TokenFacts ==
    ASSUME FileInv, NEW i \in 1 .. Size
    PROVE  /\ i + 1 \in 1 .. Size + 1 /\ i \in 1 .. Size + 1
           /\ program[i] \in Token /\ WellFormed(program[i]) /\ program[i].chars = Cs(i)
           /\ Cs(i) \in Seq(STRING) /\ Len(Cs(i)) \in Nat \ {0}
           /\ Start(i) \in Nat \ {0} /\ Start(i + 1) \in Nat /\ Start(i + 1) <= End
           /\ Start(i + 1) = Start(i) + Len(Cs(i))
           /\ \A k \in 1 .. Len(Cs(i)) : Char(Start(i) + k - 1) = Cs(i)[k]
           /\ First(program[i]) = Cs(i)[1] /\ Final(program[i]) = Cs(i)[Len(Cs(i))]
           /\ Char(Start(i)) = Cs(i)[1]
<1>1. /\ Proper(program) /\ Size \in Nat \ {0}
      /\ \A j \in 1 .. Size + 1 : Start(j) \in Nat \ {0} /\ Start(j) <= End
  BY FileFacts
<1>2. i + 1 \in 1 .. Size + 1 /\ i \in 1 .. Size + 1
  BY <1>1
<1>3. /\ program[i] \in Token /\ WellFormed(program[i])
      /\ Cs(i) \in Seq(STRING) /\ Len(Cs(i)) \in Nat \ {0}
      /\ Start(i + 1) = Start(i) + Len(Cs(i))
  BY <1>1 DEF Proper, Size, Start, Cs
<1>4. Holds(text, Start(i), Cs(i))
  BY FilesAreProper DEF FileInv, Size, Start, Cs
<1>5. program[i].chars = Cs(i)
  BY DEF Cs, Chars
<1>6. Char(Start(i)) = Cs(i)[1]
  <2>1. 1 \in 1 .. Len(Cs(i)) /\ Start(i) + 1 - 1 = Start(i)
    BY <1>1, <1>2, <1>3
  <2>2. text[Start(i) + 1 - 1] = Cs(i)[1]
    BY <1>4, <2>1 DEF Holds
  <2> QED BY <2>1, <2>2 DEF Char
<1>7. \A k \in 1 .. Len(Cs(i)) : Char(Start(i) + k - 1) = Cs(i)[k]
  BY <1>4 DEF Holds, Char
<1> QED BY <1>1, <1>2, <1>3, <1>5, <1>6, <1>7 DEF First, Final

(* The character at an offset within a token, and the one behind it.       *)
LEMMA WithinToken ==
    ASSUME FileInv, NEW i \in 1 .. Size, NEW ix \in Start(i) .. Start(i + 1) - 1
    PROVE  LET k == ix - Start(i) + 1 IN
           /\ k \in 1 .. Len(Cs(i)) /\ ix \in Nat /\ ix < End /\ ix = Start(i) + k - 1
           /\ Char(ix) = Cs(i)[k]
           /\ k < Len(Cs(i)) => /\ ix + 1 \in Start(i) + 1 .. Start(i + 1) - 1 /\ ix + 1 < End
                                /\ Char(ix + 1) = Cs(i)[k + 1]
           /\ k = Len(Cs(i)) => ix + 1 = Start(i + 1)
           /\ k = Len(Cs(i)) /\ ix + 1 < End =>
                 /\ i + 1 \in 1 .. Size
                 /\ Char(ix + 1) = First(program[i + 1])
                 /\ MayFollow(program[i], program[i + 1])
<1> DEFINE k == ix - Start(i) + 1
<1>1. /\ Start(i) \in Nat \ {0} /\ Start(i + 1) \in Nat /\ Start(i + 1) <= End
      /\ Start(i + 1) = Start(i) + Len(Cs(i)) /\ Len(Cs(i)) \in Nat \ {0}
      /\ \A n \in 1 .. Len(Cs(i)) : Char(Start(i) + n - 1) = Cs(i)[n]
      /\ i + 1 \in 1 .. Size + 1
  BY TokenFacts
<1>2. End \in Nat /\ Size \in Nat /\ Start(Size + 1) = End /\ Proper(program)
  BY FileFacts
<1>3. k \in 1 .. Len(Cs(i)) /\ ix \in Nat /\ ix < End /\ ix = Start(i) + k - 1
  BY <1>1, <1>2
<1>4. Char(ix) = Cs(i)[k]
  BY <1>1, <1>3
<1>5. ASSUME k < Len(Cs(i))
      PROVE  /\ ix + 1 \in Start(i) + 1 .. Start(i + 1) - 1 /\ ix + 1 < End
             /\ Char(ix + 1) = Cs(i)[k + 1]
  <2>1. k + 1 \in 1 .. Len(Cs(i)) /\ Start(i) + (k + 1) - 1 = ix + 1
    BY <1>1, <1>3, <1>5, SMTT(30)
  <2>2. Char(ix + 1) = Cs(i)[k + 1]
    BY <1>1, <2>1
  <2>3. PICK s, t, l \in Nat : s = Start(i) /\ t = Start(i + 1) /\ l = Len(Cs(i))
    BY <1>1
  <2>4. t = s + l /\ t <= End /\ End \in Nat /\ ix \in Nat /\ k < l /\ k = ix - s + 1 /\ k \in 1 .. l
    BY <1>1, <1>2, <1>3, <1>5, <2>3
  <2> HIDE DEF k
  <2>5. ix + 1 \in s + 1 .. t - 1 /\ ix + 1 < End
    BY <2>4
  <2> QED BY <2>2, <2>3, <2>5
<1>6. k = Len(Cs(i)) => ix + 1 = Start(i + 1)
  BY <1>1, <1>3
<1>7. ASSUME k = Len(Cs(i)), ix + 1 < End
      PROVE  /\ i + 1 \in 1 .. Size
             /\ Char(ix + 1) = First(program[i + 1])
             /\ MayFollow(program[i], program[i + 1])
  <2>1. i + 1 # Size + 1
    BY <1>2, <1>6, <1>7
  <2>2. i + 1 \in 1 .. Size /\ i \in 1 .. Size - 1
    BY <1>1, <1>2, <2>1
  <2>3. Char(Start(i + 1)) = First(program[i + 1])
    BY <2>2, TokenFacts
  <2>4. MayFollow(program[i], program[i + 1])
    BY <1>2, <2>2 DEF Proper, Size
  <2> QED BY <1>6, <1>7, <2>2, <2>3, <2>4
<1> HIDE DEF k
<1>8. LET m == k IN
      /\ m \in 1 .. Len(Cs(i)) /\ ix \in Nat /\ ix < End /\ ix = Start(i) + m - 1
      /\ Char(ix) = Cs(i)[m]
      /\ m < Len(Cs(i)) => /\ ix + 1 \in Start(i) + 1 .. Start(i + 1) - 1 /\ ix + 1 < End
                           /\ Char(ix + 1) = Cs(i)[m + 1]
      /\ m = Len(Cs(i)) => ix + 1 = Start(i + 1)
      /\ m = Len(Cs(i)) /\ ix + 1 < End =>
            /\ i + 1 \in 1 .. Size
            /\ Char(ix + 1) = First(program[i + 1])
            /\ MayFollow(program[i], program[i + 1])
  BY <1>3, <1>4, <1>5, <1>6, <1>7
<1> QED BY <1>8 DEF k

-----------------------------------------------------------------------------
(* What the characters of a token say, and where it ends.                  *)

LEMMA FindsFirst ==
    ASSUME NEW hits \in SUBSET Nat, NEW first \in hits, \A q \in hits : first <= q,
           NEW width, NEW e, Finds(hits, width, e)
    PROVE  e = first + width
<1>1. PICK p \in hits : (\A q \in hits : p <= q) /\ e = p + width
  BY DEF Finds
<1>2. p = first
  BY <1>1
<1> QED BY <1>1, <1>2

(* What opens a token tells its kind.                                      *)
LEMMA LineToken ==
    ASSUME FileInv, NEW i \in 1 .. Size, program[i].kind = "line"
    PROVE  /\ Len(Cs(i)) >= 2 /\ Cs(i)[1] = "/" /\ Cs(i)[2] = "/"
           /\ \A n \in 1 .. Len(Cs(i)) : Cs(i)[n] # NL
<1>1. /\ WellFormed(program[i]) /\ program[i].chars = Cs(i) /\ Cs(i) \in Seq(STRING)
      /\ Len(Cs(i)) \in Nat
  BY TokenFacts
<1>2. /\ Opens(Cs(i), <<"/", "/">>)
      /\ \A n \in 1 .. Len(Cs(i)) : Cs(i)[n] # NL
  BY <1>1 DEF WellFormed
<1>3. Len(Cs(i)) >= 2 /\ SubSeq(Cs(i), 1, 2) = <<"/", "/">>
  BY <1>1, <1>2 DEF Opens
<1>4. SubSeq(Cs(i), 1, 2)[1] = Cs(i)[1] /\ SubSeq(Cs(i), 1, 2)[2] = Cs(i)[2]
  BY <1>1, <1>3
<1>5. Cs(i)[1] = "/" /\ Cs(i)[2] = "/"
  <2>1. <<"/", "/">>[1] = "/" /\ <<"/", "/">>[2] = "/"
    OBVIOUS
  <2> QED BY <1>3, <1>4, <2>1
<1> QED BY <1>2, <1>3, <1>5

LEMMA BlockToken ==
    ASSUME FileInv, NEW i \in 1 .. Size, program[i].kind = "block"
    PROVE  /\ Len(Cs(i)) >= 4 /\ Cs(i)[1] = "/" /\ Cs(i)[2] = "*"
           /\ Cs(i)[Len(Cs(i))] = "/"
           /\ \A n \in 3 .. Len(Cs(i)) - 1 :
                 Cs(i)[n] = "*" /\ Cs(i)[n + 1] = "/" <=> n = Len(Cs(i)) - 1
<1>1. /\ WellFormed(program[i]) /\ program[i].chars = Cs(i) /\ Cs(i) \in Seq(STRING)
      /\ Len(Cs(i)) \in Nat
  BY TokenFacts
<1>2. /\ Opens(Cs(i), <<"/", "*">>) /\ Len(Cs(i)) >= 4
      /\ \A n \in 3 .. Len(Cs(i)) - 1 :
            Cs(i)[n] = "*" /\ Cs(i)[n + 1] = "/" <=> n = Len(Cs(i)) - 1
  BY <1>1 DEF WellFormed
<1>3. SubSeq(Cs(i), 1, 2) = <<"/", "*">>
  BY <1>1, <1>2 DEF Opens
<1>4. SubSeq(Cs(i), 1, 2)[1] = Cs(i)[1] /\ SubSeq(Cs(i), 1, 2)[2] = Cs(i)[2]
  BY <1>1, <1>2
<1>5. Cs(i)[Len(Cs(i))] = "/"
  <2>1. Len(Cs(i)) - 1 \in 3 .. Len(Cs(i)) - 1 /\ (Len(Cs(i)) - 1) + 1 = Len(Cs(i))
    BY <1>1, <1>2
  <2> QED BY <1>2, <2>1
<1>6. Cs(i)[1] = "/" /\ Cs(i)[2] = "*"
  <2>1. <<"/", "*">>[1] = "/" /\ <<"/", "*">>[2] = "*"
    OBVIOUS
  <2> QED BY <1>3, <1>4, <2>1
<1> QED BY <1>2, <1>5, <1>6

(* The four sorts of code, of which a token is of one only.                *)
LEMMA CodeToken ==
    ASSUME FileInv, NEW i \in 1 .. Size, program[i].kind = "code"
    PROVE  /\ \/ IsLiteral(Cs(i)) \/ IsRawString(Cs(i))
              \/ IsErrorText(Cs(i)) \/ IsOtherCode(Cs(i))
           /\ program[i].doc = "none"
BY TokenFacts DEF WellFormed

LEMMA LiteralToken ==
    ASSUME NEW cs \in Seq(STRING), IsLiteral(cs)
    PROVE  /\ cs[1] \in Literals /\ cs[Len(cs)] = cs[1] /\ Len(cs) >= 2
           /\ \E units \in SUBSET (2 .. Len(cs)) : Units(cs, units)
<1>1. PICK units \in SUBSET (2 .. Len(cs)) : Units(cs, units)
  BY DEF IsLiteral
<1>2. 2 \in 2 .. Len(cs)
  BY <1>1 DEF Units
<1> QED BY <1>1, <1>2 DEF IsLiteral

LEMMA ErrorText ==
    ASSUME FileInv, NEW i \in 1 .. Size, IsErrorText(Cs(i))
    PROVE  /\ Cs(i)[1] = "#"
           /\ \A n \in 1 .. Len(Cs(i)) : Cs(i)[n] \notin {NL, Quote, Escape, "/"}
BY DEF IsErrorText

(* A stretch of a token's characters is where the token is in the text.    *)
LEMMA Stretch ==
    ASSUME FileInv, NEW i \in 1 .. Size,
           NEW a \in 1 .. Len(Cs(i)) + 1, NEW b \in 0 .. Len(Cs(i))
    PROVE  SubSeq(text, Start(i) + a - 1, Start(i) + b - 1) = SubSeq(Cs(i), a, b)
<1>1. /\ Cs(i) \in Seq(STRING) /\ Len(Cs(i)) \in Nat /\ Start(i) \in Nat \ {0}
      /\ Start(i + 1) = Start(i) + Len(Cs(i)) /\ Start(i + 1) <= End /\ Start(i + 1) \in Nat
      /\ \A k \in 1 .. Len(Cs(i)) : Char(Start(i) + k - 1) = Cs(i)[k]
  BY TokenFacts
<1>2. text \in Seq(STRING) /\ Len(text) \in Nat /\ End = Len(text) + 1
  BY FileFacts
<1>3. PICK s, n : s = Start(i) /\ n = Len(Cs(i))
  OBVIOUS
<1>4. /\ s \in Nat \ {0} /\ n \in Nat /\ a \in 1 .. n + 1 /\ b \in 0 .. n
      /\ s + n <= Len(text) + 1
      /\ \A k \in 1 .. n : text[s + k - 1] = Cs(i)[k]
  BY <1>1, <1>2, <1>3 DEF Char
<1>5. PICK u, v : u = SubSeq(text, s + a - 1, s + b - 1) /\ v = SubSeq(Cs(i), a, b)
  OBVIOUS
<1>6. /\ u \in Seq(STRING)
      /\ Len(u) = IF a <= b THEN b - a + 1 ELSE 0
      /\ \A m \in 1 .. (s + b - 1) - (s + a - 1) + 1 : u[m] = text[(s + a - 1) + m - 1]
  <2>1. \A k \in s + a - 1 .. s + b - 1 : text[k] \in STRING
    BY <1>2, <1>4
  <2>2. s + a - 1 \in Int /\ s + b - 1 \in Int
    BY <1>4
  <2>3. /\ u \in Seq(STRING)
        /\ Len(u) = IF s + a - 1 <= s + b - 1 THEN (s + b - 1) - (s + a - 1) + 1 ELSE 0
        /\ \A m \in 1 .. (s + b - 1) - (s + a - 1) + 1 : u[m] = text[(s + a - 1) + m - 1]
    BY <1>5, <2>1, <2>2, SubSeqProperties, SMTT(30)
  <2>4. (s + a - 1 <= s + b - 1 <=> a <= b) /\ (s + b - 1) - (s + a - 1) + 1 = b - a + 1
    BY <1>4
  <2> QED BY <2>3, <2>4
<1>7. /\ v \in Seq(STRING)
      /\ Len(v) = IF a <= b THEN b - a + 1 ELSE 0
      /\ \A m \in 1 .. b - a + 1 : v[m] = Cs(i)[a + m - 1]
  <2>1. a \in Int /\ b \in Int
    BY <1>4
  <2>2. \A k \in a .. b : Cs(i)[k] \in STRING
    BY <1>1, <1>3, <1>4, SMTT(30)
  <2> QED BY <1>5, <2>1, <2>2, SubSeqProperties
<1>8. ASSUME NEW m \in 1 .. Len(u) PROVE u[m] = v[m]
  <2>1. a <= b /\ m \in 1 .. b - a + 1 /\ m \in 1 .. (s + b - 1) - (s + a - 1) + 1
    BY <1>4, <1>6
  <2>2. u[m] = text[(s + a - 1) + m - 1]
    BY <1>6, <2>1
  <2>3. v[m] = Cs(i)[a + m - 1]
    BY <1>7, <2>1
  <2>4. a + m - 1 \in 1 .. n /\ (s + a - 1) + m - 1 = s + (a + m - 1) - 1
    BY <1>4, <2>1
  <2> QED BY <1>4, <2>2, <2>3, <2>4
<1>9. u = v
  BY <1>6, <1>7, <1>8, SeqEqual
<1> QED BY <1>3, <1>5, <1>9

(* Each comment, and a raw string, is read to its own end.                 *)
LEMMA LineEnds ==
    ASSUME FileInv, NEW i \in 1 .. Size, program[i].kind = "line", index = Start(i),
           NEW end, LineEnd(end)
    PROVE  end = Start(i + 1)
<1> DEFINE hits == {p \in index .. Len(text) : Char(p) = NL}
<1>1. /\ Start(i) \in Nat \ {0} /\ Start(i + 1) \in Nat /\ Start(i + 1) <= End
      /\ Start(i + 1) = Start(i) + Len(Cs(i)) /\ Len(Cs(i)) \in Nat \ {0}
      /\ End = Len(text) + 1 /\ Len(text) \in Nat
  BY TokenFacts, FileFacts
<1>2. ASSUME NEW p \in hits PROVE p >= Start(i + 1)
  <2> SUFFICES ASSUME p < Start(i + 1) PROVE FALSE
    BY <1>1
  <2>1. p \in Start(i) .. Start(i + 1) - 1
    BY <1>1
  <2>2. PICK k \in 1 .. Len(Cs(i)) : Char(p) = Cs(i)[k]
    BY <2>1, WithinToken
  <2> QED BY <2>2, LineToken
<1>3. Finds(hits, 0, end)
  BY DEF LineEnd
<1>4. CASE Start(i + 1) = End
  <2>1. hits = {}
    BY <1>1, <1>2, <1>4
  <2> QED BY <1>3, <1>4, <2>1 DEF Finds
<1>5. CASE Start(i + 1) # End
  <2>1. i + 1 \in 1 .. Size /\ i \in 1 .. Size - 1
    BY <1>5, FileFacts, TokenFacts, SMTT(30)
  <2>2. Char(Start(i + 1)) = First(program[i + 1])
    BY <2>1, TokenFacts
  <2>3. MayFollow(program[i], program[i + 1])
    BY <2>1, FileFacts DEF Proper, Size
  <2>4. Char(Start(i + 1)) = NL
    BY <2>2, <2>3 DEF MayFollow
  <2>5. Start(i + 1) \in hits /\ hits \in SUBSET Nat
    BY <1>1, <1>5, <2>4
  <2>6. \A p \in hits : Start(i + 1) <= p
    BY <1>1, <1>2
  <2> HIDE DEF hits
  <2>7. end = Start(i + 1) + 0
    BY <1>3, <2>5, <2>6, FindsFirst
  <2> QED BY <1>1, <2>7
<1> QED BY <1>4, <1>5

LEMMA BlockEnds ==
    ASSUME FileInv, NEW i \in 1 .. Size, program[i].kind = "block", index = Start(i),
           NEW end, Finds({p \in BlockFrom .. Len(text) : ClosesBlock(p)}, 2, end)
    PROVE  end = Start(i + 1)
<1> DEFINE hits == {p \in BlockFrom .. Len(text) : ClosesBlock(p)}
           last == Start(i) + Len(Cs(i)) - 2
<1>1. /\ Start(i) \in Nat \ {0} /\ Start(i + 1) \in Nat /\ Start(i + 1) <= End
      /\ Start(i + 1) = Start(i) + Len(Cs(i)) /\ Len(Cs(i)) \in Nat \ {0}
      /\ End = Len(text) + 1 /\ Len(text) \in Nat
      /\ \A k \in 1 .. Len(Cs(i)) : Char(Start(i) + k - 1) = Cs(i)[k]
  BY TokenFacts, FileFacts
<1>2. /\ Len(Cs(i)) >= 4
      /\ \A n \in 3 .. Len(Cs(i)) - 1 :
            Cs(i)[n] = "*" /\ Cs(i)[n + 1] = "/" <=> n = Len(Cs(i)) - 1
  BY BlockToken
<1>3. BlockFrom = Start(i) + 2
  BY DEF BlockFrom
<1>4. ASSUME NEW n \in 3 .. Len(Cs(i)) - 1
      PROVE  ClosesBlock(Start(i) + n - 1) <=> n = Len(Cs(i)) - 1
  <2>1. n \in 1 .. Len(Cs(i)) /\ n + 1 \in 1 .. Len(Cs(i))
        /\ (Start(i) + n - 1) + 1 = Start(i) + (n + 1) - 1 /\ (Start(i) + n - 1) + 1 < End
    BY <1>1, <1>2
  <2>2. Char(Start(i) + n - 1) = Cs(i)[n] /\ Char((Start(i) + n - 1) + 1) = Cs(i)[n + 1]
    BY <1>1, <2>1
  <2> QED BY <1>2, <2>1, <2>2 DEF ClosesBlock
<1>5. last \in hits
  <2>1. Len(Cs(i)) - 1 \in 3 .. Len(Cs(i)) - 1 /\ last = Start(i) + (Len(Cs(i)) - 1) - 1
    BY <1>1, <1>2
  <2>2. ClosesBlock(last)
    BY <1>4, <2>1
  <2> QED BY <1>1, <1>2, <1>3, <2>2, SMTT(30)
<1>6. ASSUME NEW p \in hits PROVE last <= p
  <2> SUFFICES ASSUME p < last PROVE FALSE
    BY <1>1, <1>3
  <2> DEFINE n == p - Start(i) + 1
  <2>1. n \in 3 .. Len(Cs(i)) - 1 /\ p = Start(i) + n - 1 /\ n # Len(Cs(i)) - 1 /\ ClosesBlock(p)
    <3>1. PICK s, l \in Nat : s = Start(i) /\ l = Len(Cs(i))
      BY <1>1
    <3>2. ClosesBlock(p) /\ p \in s + 2 .. Len(text) /\ Len(text) \in Nat /\ p < s + l - 2
      BY <1>1, <1>3, <3>1
    <3>3. p - s + 1 \in 3 .. l - 1 /\ p = s + (p - s + 1) - 1 /\ p - s + 1 # l - 1
      BY <3>2, SMTT(30)
    <3> QED BY <3>1, <3>2, <3>3
  <2> HIDE DEF n
  <2>2. ClosesBlock(Start(i) + n - 1)
    BY <2>1
  <2> QED BY <1>4, <2>1, <2>2
<1>7. hits \in SUBSET Nat
  BY <1>1, <1>3
<1>8. last + 2 = Start(i + 1)
  BY <1>1
<1> HIDE DEF hits, last
<1>9. Finds(hits, 2, end)
  BY DEF hits
<1> QED BY <1>5, <1>6, <1>7, <1>8, <1>9, FindsFirst

LEMMA RawEnds ==
    ASSUME FileInv, NEW i \in 1 .. Size, IsRawString(Cs(i)), index = Start(i),
           NEW opening \in index .. Len(text), NEW end,
           Finds({p \in index .. Len(text) : Char(p) = "("}, 0, opening),
           Finds({p \in opening .. Len(text) : Terminates(p, opening)}, opening - index, end)
    PROVE  end = Start(i + 1)
<1>1. PICK cs, s, n, L : cs = Cs(i) /\ s = Start(i) /\ n = Len(cs) /\ L = Len(text)
  OBVIOUS
<1>2. /\ s \in Nat \ {0} /\ n \in Nat \ {0} /\ L \in Nat /\ s + n <= L + 1
      /\ End = L + 1 /\ Start(i + 1) = s + n /\ index = s /\ opening \in s .. L
      /\ cs \in Seq(STRING)
      /\ \A k \in 1 .. n : Char(s + k - 1) = cs[k]
  BY <1>1, TokenFacts, FileFacts
<1>0. \A k \in 1 .. n : cs[k] \in STRING
  BY <1>1, <1>2
<1> DEFINE Term(o) == <<")">> \o SubSeq(cs, 3, o - 1) \o <<Quote>>
<1>3. PICK o \in 3 .. n :
          /\ cs[1] = "R" /\ cs[2] = Quote /\ cs[o] = "("
          /\ \A m \in 3 .. o - 1 : cs[m] \notin Blank \union {"(", ")", Quote, Escape}
          /\ \A m \in o + Len(Term(o)) .. n :
                SubSeq(cs, m - Len(Term(o)) + 1, m) = Term(o) <=> m = n
          /\ n >= o + Len(Term(o))
  BY <1>1 DEF IsRawString
<1>4. PICK term, w : term = Term(o) /\ w = o - 1
  OBVIOUS
<1>5. w \in Nat /\ w >= 2 /\ o = w + 1 /\ o \in Nat
  BY <1>2, <1>4
<1>6. Len(term) = w /\ term[1] = ")"
  <2> DEFINE S == STRING \union {")", Quote}
  <2>1. PICK mid : mid = SubSeq(cs, 3, o - 1)
    OBVIOUS
  <2>2. mid \in Seq(S) /\ Len(mid) = w - 2
    <3>0. \A m \in 3 .. o - 1 : m \in 1 .. n
      BY <1>2, <1>5
    <3>1. \A m \in 3 .. o - 1 : cs[m] \in S
      BY <1>0, <3>0
    <3>2. 3 \in Int /\ o - 1 \in Int
      BY <1>5
    <3> HIDE DEF S
    <3>3. mid \in Seq(S) /\ Len(mid) = IF 3 <= o - 1 THEN (o - 1) - 3 + 1 ELSE 0
      BY <2>1, <3>1, <3>2, SubSeqProperties
    <3> QED BY <1>5, <3>3
  <2>3. PICK open, close : open = <<")">> /\ close = <<Quote>>
    OBVIOUS
  <2>4. open \in Seq(S) /\ close \in Seq(S) /\ Len(open) = 1 /\ Len(close) = 1 /\ open[1] = ")"
    BY <2>3
  <2>5. term = open \o mid \o close
    BY <1>4, <2>1, <2>3
  <2> HIDE DEF S
  <2>6. PICK front : front = open \o mid
    OBVIOUS
  <2>7. front \in Seq(S) /\ Len(front) = w - 1 /\ front[1] = ")"
    <3>1. /\ open \o mid \in Seq(S) /\ Len(open \o mid) = Len(open) + Len(mid)
          /\ \A m \in 1 .. Len(open) + Len(mid) :
                (open \o mid)[m] = IF m <= Len(open) THEN open[m] ELSE mid[m - Len(open)]
      BY <2>2, <2>4, ConcatProperties
    <3>2. 1 \in 1 .. Len(open) + Len(mid) /\ 1 <= Len(open)
      BY <1>5, <2>2, <2>4
    <3> QED BY <1>5, <2>2, <2>4, <2>6, <3>1, <3>2
  <2>8. /\ Len(front \o close) = Len(front) + Len(close)
        /\ \A m \in 1 .. Len(front) + Len(close) :
              (front \o close)[m] = IF m <= Len(front) THEN front[m] ELSE close[m - Len(front)]
    BY <2>4, <2>7, ConcatProperties
  <2>9. term = front \o close /\ 1 \in 1 .. Len(front) + Len(close) /\ 1 <= Len(front)
    BY <1>5, <2>4, <2>5, <2>6, <2>7
  <2> QED BY <1>5, <2>4, <2>7, <2>8, <2>9
<1>7. /\ n >= o + w
      /\ \A m \in o + w .. n : SubSeq(cs, m - w + 1, m) = term <=> m = n
  BY <1>3, <1>4, <1>6
<1>8. ASSUME NEW a \in 1 .. n + 1, NEW b \in 0 .. n
      PROVE  SubSeq(text, s + a - 1, s + b - 1) = SubSeq(cs, a, b)
  BY <1>1, Stretch
<1> HIDE DEF Term
(* The first parenthesis opens the string.                                 *)
<1>9. opening = s + w
  <2>1. PICK hits : hits = {p \in s .. L : Char(p) = "("}
    OBVIOUS
  <2>2. s + w \in hits /\ hits \in SUBSET Nat
    <3>1. s + o - 1 = s + w /\ s + w \in s .. L
      BY <1>2, <1>5, <1>7
    <3>2. Char(s + o - 1) = "("
      BY <1>2, <1>3
    <3>3. s .. L \in SUBSET Nat
      BY <1>2
    <3> QED BY <2>1, <3>1, <3>2, <3>3
  <2>3. ASSUME NEW p \in hits PROVE s + w <= p
    <3>1. p \in s .. L /\ Char(p) = "("
      BY <2>1
    <3> SUFFICES ASSUME p < s + w PROVE FALSE
      BY <1>2, <1>5, <3>1
    <3>2. PICK m : m = p - s + 1
      OBVIOUS
    <3>3. m \in 1 .. n /\ m \in 1 .. o - 1 /\ p = s + m - 1
      BY <1>2, <1>5, <1>7, <3>1, <3>2
    <3>4. cs[m] = "("
      BY <1>2, <3>1, <3>3
    <3>5. m \in 3 .. o - 1 \/ m = 1 \/ m = 2
      BY <1>5, <3>3
    <3>6. "R" # "(" /\ Quote # "("
      BY DEF Quote
    <3> QED BY <1>3, <3>4, <3>5, <3>6
  <2>4. Finds(hits, 0, opening)
    BY <1>1, <1>2, <2>1
  <2>5. opening = (s + w) + 0
    BY <2>2, <2>3, <2>4, FindsFirst
  <2> QED BY <1>2, <1>5, <2>5
<1>10. \A p : Terminates(p, opening) <=> p + w <= L + 1 /\ SubSeq(text, p, p + w - 1) = term
  <2>1. index + 2 = s + 3 - 1 /\ opening - 1 = s + (o - 1) - 1
        /\ 3 \in 1 .. n + 1 /\ o - 1 \in 0 .. n
    BY <1>2, <1>5, <1>7, <1>9
  <2>2. SubSeq(text, s + 3 - 1, s + (o - 1) - 1) = SubSeq(cs, 3, o - 1)
    BY <1>8, <2>1
  <2>3. term = <<")">> \o SubSeq(text, index + 2, opening - 1) \o <<Quote>>
    BY <1>4, <2>1, <2>2 DEF Term
  <2> QED BY <1>2, <1>6, <2>3 DEF Terminates
(* No terminator stands before the one that ends the token.                *)
<1>11. ASSUME NEW m \in o + 1 .. n - w + 1
       PROVE  Terminates(s + m - 1, opening) <=> m = n - w + 1
  <2>1. PICK p, e : p = s + m - 1 /\ e = m + w - 1
    OBVIOUS
  <2>2. /\ m \in 1 .. n + 1 /\ e \in 0 .. n /\ e \in o + w .. n
        /\ p + w - 1 = s + e - 1 /\ p + w <= L + 1 /\ e - w + 1 = m
        /\ (e = n <=> m = n - w + 1)
    BY <1>2, <1>5, <1>7, <2>1
  <2>3. SubSeq(text, s + m - 1, s + e - 1) = SubSeq(cs, m, e)
    BY <1>8, <2>2
  <2>4. SubSeq(cs, m, e) = term <=> e = n
    BY <1>7, <2>2
  <2>5. SubSeq(text, p, p + w - 1) = SubSeq(cs, m, e)
    BY <2>1, <2>2, <2>3
  <2>6. Terminates(p, opening) <=> m = n - w + 1
    BY <1>10, <2>2, <2>4, <2>5
  <2> QED BY <2>1, <2>6
<1>12. ~Terminates(opening, opening)
  <2>1. opening + w - 1 = s + (o + w - 1) - 1 /\ opening = s + o - 1
        /\ o \in 1 .. n + 1 /\ o + w - 1 \in 0 .. n
    BY <1>2, <1>5, <1>7, <1>9
  <2>2. SubSeq(text, s + o - 1, s + (o + w - 1) - 1) = SubSeq(cs, o, o + w - 1)
    BY <1>8, <2>1
  <2>3. SubSeq(cs, o, o + w - 1)[1] = "("
    <3>1. PICK q : q = o + w - 1
      OBVIOUS
    <3>2. o \in Int /\ q \in Int /\ 1 \in 1 .. q - o + 1 /\ o + 1 - 1 = o /\ \A m \in o .. q : m \in 1 .. n
      BY <1>2, <1>5, <2>1, <3>1
    <3>3. \A m \in o .. q : cs[m] \in STRING
      BY <1>0, <3>2
    <3>4. \A m \in 1 .. q - o + 1 : SubSeq(cs, o, q)[m] = cs[o + m - 1]
      BY <3>2, <3>3, SubSeqProperties
    <3> QED BY <1>3, <3>1, <3>2, <3>4
  <2>4. SubSeq(text, opening, opening + w - 1) # term
    <3>1. "(" # ")"
      OBVIOUS
    <3> QED BY <1>6, <2>1, <2>2, <2>3, <3>1
  <2> QED BY <1>10, <2>4
<1>13. PICK hits, last : hits = {p \in opening .. L : Terminates(p, opening)} /\ last = s + (n - w + 1) - 1
  OBVIOUS
<1>14. last \in hits /\ hits \in SUBSET Nat
  <2>1. n - w + 1 \in o + 1 .. n - w + 1
    BY <1>2, <1>5, <1>7
  <2>2. Terminates(last, opening)
    BY <1>11, <1>13, <2>1
  <2>3. last \in opening .. L
    BY <1>2, <1>5, <1>7, <1>9, <1>13
  <2>4. opening .. L \in SUBSET Nat
    BY <1>2, <1>9
  <2> QED BY <1>13, <2>2, <2>3, <2>4
<1>15. ASSUME NEW p \in hits PROVE last <= p
  <2>1. p \in opening .. L /\ Terminates(p, opening)
    BY <1>13
  <2>2. p # opening
    BY <1>12, <2>1
  <2> SUFFICES ASSUME p < last PROVE FALSE
    BY <1>2, <1>5, <1>7, <1>9, <1>13, <2>1
  <2>3. PICK m : m = p - s + 1
    OBVIOUS
  <2>4. m \in o + 1 .. n - w + 1 /\ p = s + m - 1 /\ m # n - w + 1
    BY <1>2, <1>5, <1>7, <1>9, <1>13, <2>1, <2>2, <2>3
  <2> QED BY <1>11, <2>1, <2>4
<1>16. Finds(hits, w, end)
  <2>1. opening - index = w
    BY <1>2, <1>5, <1>9
  <2> QED BY <1>1, <1>13, <2>1
<1>17. end = last + w
  BY <1>14, <1>15, <1>16, FindsFirst
<1>18. last + w = s + n
  BY <1>2, <1>5, <1>13
<1> QED BY <1>2, <1>17, <1>18

-----------------------------------------------------------------------------
(* The cursor goes from token to token.                                    *)

(* Where the cursor may be: at the beginning of a token; there after the   *)
(* text of an #error, with a character literal open that is none; or       *)
(* within a token of code, inside a literal where one of its units begins. *)
WithinCode(cs, k, q) ==
    \/ IsOtherCode(cs) /\ q = "None"
    \/ IsErrorText(cs) /\ q \in {"None", Tick}
    \/ /\ IsLiteral(cs) /\ q = cs[1]
       /\ \E units \in SUBSET (2 .. Len(cs)) : Units(cs, units) /\ k \in units

AtToken(i, ix, q) == ix = Start(i) /\ q = "None"

AfterErrorText(i, ix, q) ==
    ix = Start(i) /\ q = Tick /\ i > 1 /\ program[i - 1].kind = "code" /\ IsErrorText(Cs(i - 1))

InCode(i, ix, q) ==
    /\ i <= Size /\ program[i].kind = "code"
    /\ ix \in Start(i) + 1 .. Start(i + 1) - 1
    /\ WithinCode(Cs(i), ix - Start(i) + 1, q)

PositionAt(i, ix, q) == AtToken(i, ix, q) \/ AfterErrorText(i, ix, q) \/ InCode(i, ix, q)

(* The cursor is at token i, or has left it and it was code.               *)
Onward(i, ix, q) ==
    \/ PositionAt(i, ix, q)
    \/ i \in 1 .. Size /\ program[i].kind = "code" /\ PositionAt(i + 1, ix, q)

StaysInCode == UNCHANGED <<program, text, phase, codeStart, regions, at, inRun, docs>>

LexStep == SkipQuoted \/ Regions

LEMMA OtherMoves ==
    ASSUME FileInv, NEW i \in 1 .. Size, program[i].kind = "code", IsOtherCode(Cs(i)),
           NEW ix \in Start(i) .. Start(i + 1) - 1
    PROVE  Onward(i, ix + 1, "None")
<1>1. /\ Start(i) \in Nat /\ Start(i + 1) \in Nat /\ Size \in Nat
  BY TokenFacts, FileFacts
<1>2. CASE ix + 1 = Start(i + 1)
  BY <1>2 DEF Onward, PositionAt, AtToken
<1>3. CASE ix + 1 # Start(i + 1)
  <2>1. ix + 1 \in Start(i) + 1 .. Start(i + 1) - 1 /\ i <= Size
    BY <1>1, <1>3
  <2> QED BY <2>1 DEF Onward, PositionAt, InCode, WithinCode
<1> QED BY <1>2, <1>3

LEMMA ErrorMoves ==
    ASSUME FileInv, NEW i \in 1 .. Size, program[i].kind = "code", IsErrorText(Cs(i)),
           NEW ix \in Start(i) .. Start(i + 1) - 1, NEW q \in {"None", Tick}
    PROVE  Onward(i, ix + 1, q)
<1>1. /\ Start(i) \in Nat /\ Start(i + 1) \in Nat /\ Size \in Nat /\ i + 1 > 1 /\ (i + 1) - 1 = i
  BY TokenFacts, FileFacts
<1>2. CASE ix + 1 = Start(i + 1)
  BY <1>1, <1>2 DEF Onward, PositionAt, AtToken, AfterErrorText
<1>3. CASE ix + 1 # Start(i + 1)
  <2>1. ix + 1 \in Start(i) + 1 .. Start(i + 1) - 1 /\ i <= Size
    BY <1>1, <1>3
  <2> QED BY <2>1 DEF Onward, PositionAt, InCode, WithinCode
<1> QED BY <1>2, <1>3

LEMMA LiteralMoves ==
    ASSUME FileInv, NEW i \in 1 .. Size, program[i].kind = "code", IsLiteral(Cs(i)),
           NEW units \in SUBSET (2 .. Len(Cs(i))), Units(Cs(i), units), NEW k \in units,
           NEW ix, ix = Start(i) + k - 1
    PROVE  Onward(i, ix, Cs(i)[1])
<1>1. /\ Start(i) \in Nat /\ Start(i + 1) = Start(i) + Len(Cs(i)) /\ Len(Cs(i)) \in Nat
      /\ Size \in Nat /\ k \in 2 .. Len(Cs(i))
  BY TokenFacts, FileFacts
<1>2. ix \in Start(i) + 1 .. Start(i + 1) - 1 /\ i <= Size /\ ix - Start(i) + 1 = k
  BY <1>1
<1> QED BY <1>2 DEF Onward, PositionAt, InCode, WithinCode

(* One step from each place.                                               *)
LEMMA FromOther ==
    ASSUME FileInv, phase = "Lex", LexStep,
           NEW i \in 1 .. Size, program[i].kind = "code", IsOtherCode(Cs(i)),
           index \in Start(i) .. Start(i + 1) - 1, quote = "None"
    PROVE  StaysInCode /\ index' = index + 1 /\ quote' = "None"
<1>1. PICK k : k = index - Start(i) + 1
  OBVIOUS
<1>2. /\ k \in 1 .. Len(Cs(i)) /\ index \in Nat /\ index < End
      /\ Char(index) = Cs(i)[k]
      /\ k < Len(Cs(i)) => Char(index + 1) = Cs(i)[k + 1]
      /\ k = Len(Cs(i)) /\ index + 1 < End =>
            /\ Char(index + 1) = First(program[i + 1])
            /\ MayFollow(program[i], program[i + 1])
      /\ Len(Cs(i)) \in Nat
  BY <1>1, WithinToken, TokenFacts
<1>3. /\ \A n \in 1 .. Len(Cs(i)) : Cs(i)[n] \notin Literals
      /\ \A n \in 2 .. Len(Cs(i)) : Cs(i)[n - 1] = "/" => Cs(i)[n] \notin {"/", "*"}
      /\ Final(program[i]) = Cs(i)[Len(Cs(i))]
  BY TokenFacts DEF IsOtherCode
<1>4. Char(index) \notin Literals
  BY <1>2, <1>3
<1>5. Follows(Quote) => Char(index) # "R"
  <2> SUFFICES ASSUME index + 1 < End, Char(index + 1) = Quote PROVE Char(index) # "R"
    BY DEF Follows
  <2>1. CASE k < Len(Cs(i))
    <3>1. k + 1 \in 1 .. Len(Cs(i))
      BY <1>2, <2>1
    <3> QED BY <1>2, <1>3, <2>1, <3>1 DEF Literals
  <2>2. CASE k = Len(Cs(i))
    BY <1>2, <1>3, <2>2 DEF MayFollow
  <2> QED BY <1>2, <2>1, <2>2
<1>6. Char(index) = "/" => ~Follows("/") /\ ~Follows("*")
  <2> SUFFICES ASSUME index + 1 < End, Char(index) = "/" PROVE Char(index + 1) \notin {"/", "*"}
    BY DEF Follows
  <2>1. CASE k < Len(Cs(i))
    <3>1. k + 1 \in 2 .. Len(Cs(i)) /\ (k + 1) - 1 = k
      BY <1>2, <2>1
    <3> QED BY <1>2, <1>3, <2>1, <3>1
  <2>2. CASE k = Len(Cs(i))
    BY <1>2, <1>3, <2>2 DEF MayFollow
  <2> QED BY <1>2, <2>1, <2>2
<1>7. Advance
  <2>1. ~SkipQuoted
    BY DEF SkipQuoted, SkipEscaped, CloseLiteral, NoCharacterLiteral, InsideLiteral, LiteralAtEnd, InLiteral
  <2>2. ~RawString
    BY <1>5 DEF RawString, OpensRawString
  <2>3. ~OpenLiteral
    BY <1>4 DEF OpenLiteral
  <2>4. ~LineComment /\ ~BlockComment
    BY <1>6 DEF LineComment, BlockComment
  <2>5. ~FinishRegions
    BY <1>2, EndIsNat DEF FinishRegions
  <2> QED BY <2>1, <2>2, <2>3, <2>4, <2>5 DEF LexStep, Regions
<1> QED BY <1>7 DEF Advance, StaysInCode, file, grouping

LEMMA FromError ==
    ASSUME FileInv, phase = "Lex", LexStep,
           NEW i \in 1 .. Size, program[i].kind = "code", IsErrorText(Cs(i)),
           index \in Start(i) .. Start(i + 1) - 1, quote \in {"None", Tick}
    PROVE  StaysInCode /\ index' = index + 1 /\ quote' \in {"None", Tick}
<1>1. PICK k : k = index - Start(i) + 1
  OBVIOUS
<1>2. /\ k \in 1 .. Len(Cs(i)) /\ index \in Nat /\ index < End
      /\ Char(index) = Cs(i)[k]
      /\ k < Len(Cs(i)) => Char(index + 1) = Cs(i)[k + 1]
      /\ k = Len(Cs(i)) /\ index + 1 < End =>
            /\ Char(index + 1) = First(program[i + 1])
            /\ MayFollow(program[i], program[i + 1])
      /\ Len(Cs(i)) \in Nat /\ program[i].chars = Cs(i)
  BY <1>1, WithinToken, TokenFacts
<1>3. \A n \in 1 .. Len(Cs(i)) : Cs(i)[n] \notin {NL, Quote, Escape, "/"}
  BY ErrorText
<1>4. Char(index) \notin {NL, Quote, Escape, "/"}
  BY <1>2, <1>3
<1>5. ~Follows(Quote)
  <2> SUFFICES ASSUME index + 1 < End, Char(index + 1) = Quote PROVE FALSE
    BY DEF Follows
  <2>1. CASE k < Len(Cs(i))
    <3>1. k + 1 \in 1 .. Len(Cs(i))
      BY <1>2, <2>1
    <3> QED BY <1>2, <1>3, <2>1, <3>1
  <2>2. CASE k = Len(Cs(i))
    <3>1. NL # Quote
      BY DEF NL, Quote
    <3> QED BY <1>2, <2>2, <3>1 DEF MayFollow
  <2> QED BY <1>2, <2>1, <2>2
<1>6. index # End /\ Tick # "None"
  BY <1>2, EndIsNat DEF Tick
<1>7. CASE quote = "None"
  <2>1. ~SkipQuoted
    BY <1>7 DEF SkipQuoted, SkipEscaped, CloseLiteral, NoCharacterLiteral, InsideLiteral, LiteralAtEnd, InLiteral
  <2>2. ~RawString
    BY <1>5 DEF RawString, OpensRawString
  <2>3. ~LineComment /\ ~BlockComment
    BY <1>4 DEF LineComment, BlockComment
  <2>4. ~FinishRegions
    BY <1>6 DEF FinishRegions
  <2>5. OpenLiteral \/ Advance
    BY <2>1, <2>2, <2>3, <2>4 DEF LexStep, Regions
  <2>6. CASE OpenLiteral
    BY <1>4, <2>6 DEF OpenLiteral, StaysInCode, file, grouping, Literals
  <2>7. CASE Advance
    BY <1>7, <2>7 DEF Advance, StaysInCode, file, grouping
  <2> QED BY <2>5, <2>6, <2>7
<1>8. CASE quote = Tick
  <2>1. ~Regions
    BY <1>6, <1>8 DEF Regions, RawString, OpenLiteral, LineComment, BlockComment, Advance, FinishRegions, Lexing
  <2>2. ~SkipEscaped /\ ~NoCharacterLiteral /\ ~LiteralAtEnd
    BY <1>4, <1>6 DEF SkipEscaped, NoCharacterLiteral, LiteralAtEnd, InLiteral
  <2>3. CloseLiteral \/ InsideLiteral
    BY <2>1, <2>2 DEF LexStep, SkipQuoted
  <2>4. CASE CloseLiteral
    BY <2>4 DEF CloseLiteral, StaysInCode, file, grouping
  <2>5. CASE InsideLiteral
    BY <1>8, <2>5 DEF InsideLiteral, StaysInCode, file, grouping
  <2> QED BY <2>3, <2>4, <2>5
<1> QED BY <1>7, <1>8

LEMMA AfterError ==
    ASSUME FileInv, phase = "Lex", LexStep, NEW i \in 1 .. Size + 1,
           AfterErrorText(i, index, quote)
    PROVE  StaysInCode /\ index' = index /\ quote' = "None"
<1>1. i \in Nat /\ i > 1 /\ i - 1 \in 1 .. Size /\ (i - 1) + 1 = i /\ Size \in Nat
  BY FileFacts DEF AfterErrorText
<1>2. Tick # "None" /\ NL \notin {Escape, Tick}
  BY DEF Tick, NL, Escape
<1>3. ~Regions
  BY <1>2 DEF AfterErrorText, Regions, RawString, OpenLiteral, LineComment, BlockComment, Advance,
              FinishRegions, Lexing
<1>4. index = End \/ (index < End /\ Char(index) = NL)
  <2>1. CASE i = Size + 1
    <3>1. index = Start(i)
      BY DEF AfterErrorText
    <3>2. Start(Size + 1) = End
      BY FileFacts
    <3> QED BY <2>1, <3>1, <3>2
  <2>2. CASE i # Size + 1
    <3>1. i \in 1 .. Size /\ i - 1 \in 1 .. Size - 1
      BY <1>1, <2>2
    <3>2. MayFollow(program[i - 1], program[(i - 1) + 1])
      BY <3>1, FileFacts DEF Proper, Size
    <3>3. program[i - 1].chars = Cs(i - 1)
      BY <1>1, TokenFacts
    <3>4. First(program[i]) = NL
      BY <1>1, <3>2, <3>3 DEF MayFollow, AfterErrorText
    <3>5. /\ Start(i) \in Nat /\ Start(i + 1) = Start(i) + Len(Cs(i)) /\ Start(i + 1) <= End
          /\ Len(Cs(i)) \in Nat \ {0} /\ End \in Nat /\ First(program[i]) = Cs(i)[1]
          /\ Char(Start(i)) = Cs(i)[1]
      BY <3>1, TokenFacts, EndIsNat
    <3> QED BY <3>4, <3>5 DEF AfterErrorText
  <2> QED BY <2>1, <2>2
<1>5. ~SkipEscaped /\ ~CloseLiteral /\ ~InsideLiteral
  BY <1>2, <1>4, EndIsNat DEF SkipEscaped, CloseLiteral, InsideLiteral, InLiteral, AfterErrorText
<1>6. NoCharacterLiteral \/ LiteralAtEnd
  BY <1>3, <1>5 DEF LexStep, SkipQuoted
<1> QED BY <1>6 DEF NoCharacterLiteral, LiteralAtEnd, StaysInCode, file, grouping

LEMMA FromLiteral ==
    ASSUME FileInv, phase = "Lex", LexStep,
           NEW i \in 1 .. Size, program[i].kind = "code", IsLiteral(Cs(i)),
           NEW units \in SUBSET (2 .. Len(Cs(i))), Units(Cs(i), units), NEW k \in units,
           index = Start(i) + k - 1, quote = Cs(i)[1]
    PROVE  StaysInCode /\ Onward(i, index', quote')
<1>1. PICK cs : cs = Cs(i)
  OBVIOUS
<1>2. /\ k \in 2 .. Len(cs) /\ Len(cs) \in Nat /\ Start(i) \in Nat /\ Start(i + 1) = Start(i) + Len(cs)
      /\ Start(i + 1) <= End /\ End \in Nat
      /\ Char(index) = cs[k] /\ index \in Nat /\ index < End
      /\ cs[1] \in Literals /\ cs[Len(cs)] = cs[1]
  <2>1. /\ Len(cs) \in Nat /\ Start(i) \in Nat /\ Start(i + 1) = Start(i) + Len(cs)
        /\ Start(i + 1) <= End /\ End \in Nat /\ cs \in Seq(STRING)
        /\ \A n \in 1 .. Len(cs) : Char(Start(i) + n - 1) = cs[n]
    BY <1>1, TokenFacts, EndIsNat
  <2>2. k \in 2 .. Len(cs) /\ k \in 1 .. Len(cs)
    BY <1>1, <2>1
  <2>3. index \in Nat /\ index < End
    BY <2>1, <2>2
  <2>4. cs[1] \in Literals /\ cs[Len(cs)] = cs[1]
    BY <1>1 DEF IsLiteral
  <2> QED BY <2>1, <2>2, <2>3, <2>4
<1>3. \A n \in units \ {Len(cs)} :
          /\ cs[n] \notin {cs[1], NL}
          /\ (IF cs[n] = Escape THEN n + 2 ELSE n + 1) \in units
  BY <1>1 DEF Units
<1>4. quote # "None" /\ Escape \notin Literals /\ index # End
  <2>1. "None" \notin Literals /\ Escape \notin Literals
    BY DEF Literals, Quote, Tick, Escape
  <2>2. quote \in Literals
    BY <1>1, <1>2
  <2>3. index # End
    BY <1>2
  <2> QED BY <2>1, <2>2, <2>3
<1>5. ~Regions /\ ~LiteralAtEnd
  BY <1>4 DEF Regions, RawString, OpenLiteral, LineComment, BlockComment, Advance, FinishRegions,
              Lexing, LiteralAtEnd
<1>6. CASE k = Len(cs)
  <2>1. Char(index) = quote /\ quote \in Literals
    BY <1>1, <1>2, <1>6
  <2>2. ~SkipEscaped /\ ~InsideLiteral
    BY <1>4, <2>1 DEF SkipEscaped, InsideLiteral, InLiteral
  <2>3. ~NoCharacterLiteral
    <3>1. NL \notin Literals
      BY DEF NL, Literals, Quote, Tick
    <3> QED BY <2>1, <3>1 DEF NoCharacterLiteral, InLiteral
  <2>4. CloseLiteral
    BY <1>5, <2>2, <2>3 DEF LexStep, SkipQuoted
  <2>5. index' = Start(i + 1) /\ quote' = "None"
    BY <1>2, <1>6, <2>4 DEF CloseLiteral
  <2>6. Onward(i, index', quote')
    BY <2>5 DEF Onward, PositionAt, AtToken
  <2> QED BY <2>4, <2>6 DEF CloseLiteral, StaysInCode, file, grouping
<1>7. CASE k # Len(cs)
  <2>1. /\ cs[k] \notin {cs[1], NL}
        /\ (IF cs[k] = Escape THEN k + 2 ELSE k + 1) \in units
    BY <1>3, <1>7
  <2>2. ~CloseLiteral /\ ~NoCharacterLiteral
    BY <1>1, <1>2, <2>1 DEF CloseLiteral, NoCharacterLiteral, InLiteral
  <2>3. SkipEscaped \/ InsideLiteral
    BY <1>5, <2>2 DEF LexStep, SkipQuoted
  <2>4. CASE SkipEscaped
    <3>1. Char(index) = Escape
      BY <2>4 DEF SkipEscaped, InLiteral
    <3>2. k + 2 \in units /\ k + 2 \in 2 .. Len(cs)
      BY <1>1, <1>2, <2>1, <3>1
    <3>3. EscapedEnd = index + 2
      BY <1>2, <3>2, SMTT(30) DEF EscapedEnd
    <3>4. index' = Start(i) + (k + 2) - 1 /\ quote' = Cs(i)[1]
      BY <1>2, <2>4, <3>3, SMTT(30) DEF SkipEscaped
    <3>5. Onward(i, index', Cs(i)[1])
      BY <3>2, <3>4, LiteralMoves
    <3>6. Onward(i, index', quote')
      BY <3>4, <3>5
    <3> QED BY <2>4, <3>6 DEF SkipEscaped, StaysInCode, file, grouping
  <2>5. CASE InsideLiteral
    <3>1. Char(index) # Escape
      BY <2>5 DEF InsideLiteral
    <3>2. k + 1 \in units
      BY <1>2, <2>1, <3>1
    <3>3. index' = Start(i) + (k + 1) - 1 /\ quote' = Cs(i)[1]
      BY <1>2, <2>5 DEF InsideLiteral
    <3>4. Onward(i, index', Cs(i)[1])
      BY <3>2, <3>3, LiteralMoves
    <3>5. Onward(i, index', quote')
      BY <3>3, <3>4
    <3> QED BY <2>5, <3>5 DEF InsideLiteral, StaysInCode, file, grouping
  <2> QED BY <2>3, <2>4, <2>5
<1> QED BY <1>6, <1>7

(* From the beginning of a token.                                          *)
LEMMA AtLiteral ==
    ASSUME FileInv, phase = "Lex", LexStep, NEW i \in 1 .. Size, program[i].kind = "code",
           IsLiteral(Cs(i)), index = Start(i), quote = "None"
    PROVE  StaysInCode /\ Onward(i, index', quote')
<1>1. /\ Cs(i) \in Seq(STRING) /\ Len(Cs(i)) \in Nat /\ Start(i) \in Nat /\ Start(i + 1) <= End
      /\ Start(i + 1) = Start(i) + Len(Cs(i)) /\ Char(Start(i)) = Cs(i)[1] /\ End \in Nat
  BY TokenFacts, EndIsNat
<1>2. Cs(i)[1] \in Literals /\ Len(Cs(i)) >= 2
  BY <1>1, LiteralToken
<1>3. PICK units \in SUBSET (2 .. Len(Cs(i))) : Units(Cs(i), units)
  BY <1>1, LiteralToken
<1>4. index < End /\ index # End /\ Char(index) \in Literals
  BY <1>1, <1>2
<1>5. ~SkipQuoted
  BY DEF SkipQuoted, SkipEscaped, CloseLiteral, NoCharacterLiteral, InsideLiteral, LiteralAtEnd, InLiteral
<1>6. "R" \notin Literals /\ "/" \notin Literals
  BY DEF Literals, Quote, Tick
<1>7. ~RawString /\ ~LineComment /\ ~BlockComment /\ ~Advance /\ ~FinishRegions
  BY <1>4, <1>6 DEF RawString, OpensRawString, LineComment, BlockComment, Advance, FinishRegions
<1>8. OpenLiteral
  BY <1>5, <1>7 DEF LexStep, Regions
<1>9. index' = Start(i) + 2 - 1 /\ quote' = Cs(i)[1]
  BY <1>1, <1>8 DEF OpenLiteral
<1>10. 2 \in units
  BY <1>3 DEF Units
<1>11. Onward(i, index', Cs(i)[1])
  BY <1>3, <1>9, <1>10, LiteralMoves
<1>12. Onward(i, index', quote')
  BY <1>9, <1>11
<1> QED BY <1>8, <1>12 DEF OpenLiteral, StaysInCode, file, grouping

LEMMA AtRawString ==
    ASSUME FileInv, phase = "Lex", LexStep, NEW i \in 1 .. Size, program[i].kind = "code",
           IsRawString(Cs(i)), index = Start(i), quote = "None"
    PROVE  StaysInCode /\ Onward(i, index', quote')
<1>1. /\ Cs(i) \in Seq(STRING) /\ Len(Cs(i)) \in Nat /\ Start(i) \in Nat \ {0} /\ Start(i + 1) <= End
      /\ Start(i + 1) = Start(i) + Len(Cs(i)) /\ End = Len(text) + 1 /\ Len(text) \in Nat /\ Size \in Nat
      /\ \A n \in 1 .. Len(Cs(i)) : Char(Start(i) + n - 1) = Cs(i)[n]
      /\ First(program[i]) = Cs(i)[1]
  BY TokenFacts, FileFacts
<1>2. PICK o \in 3 .. Len(Cs(i)) : Cs(i)[1] = "R" /\ Cs(i)[2] = Quote /\ Cs(i)[o] = "("
  BY DEF IsRawString
<1>3. PICK s, n : s = Start(i) /\ n = Len(Cs(i))
  OBVIOUS
<1>4. /\ s \in Nat \ {0} /\ n \in Nat /\ o \in 3 .. n /\ s + n <= End /\ End = Len(text) + 1
      /\ Len(text) \in Nat /\ index = s
      /\ Char(s + 1 - 1) = "R" /\ Char(s + 2 - 1) = Quote /\ Char(s + o - 1) = "("
  <2>1. 1 \in 1 .. n /\ 2 \in 1 .. n /\ o \in 1 .. n
    BY <1>1, <1>3
  <2> QED BY <1>1, <1>2, <1>3, <2>1
<1>5. Char(index) = "R" /\ Follows(Quote) /\ index < End /\ index # End
  <2>1. s + 1 - 1 = index /\ s + 2 - 1 = index + 1 /\ index + 1 < End
    BY <1>4
  <2> QED BY <1>4, <2>1 DEF Follows
<1>6. \E p \in index .. Len(text) : Char(p) = "("
  <2>1. s + o - 1 \in index .. Len(text)
    BY <1>4
  <2> QED BY <1>4, <2>1
<1>7. IsRawStringPrefix
  <2> SUFFICES ASSUME index > 1 PROVE Char(index - 1) \notin Word
    BY DEF IsRawStringPrefix
  <2>1. i # 1
    BY <1>1, FileFacts
  <2>2. i - 1 \in 1 .. Size /\ i - 1 \in 1 .. Size - 1 /\ (i - 1) + 1 = i
    BY <1>1, <2>1
  <2>3. /\ Start(i - 1) \in Nat /\ Len(Cs(i - 1)) \in Nat \ {0}
        /\ Start((i - 1) + 1) = Start(i - 1) + Len(Cs(i - 1))
        /\ \A m \in 1 .. Len(Cs(i - 1)) : Char(Start(i - 1) + m - 1) = Cs(i - 1)[m]
        /\ Final(program[i - 1]) = Cs(i - 1)[Len(Cs(i - 1))]
        /\ program[i - 1] \in Token
    BY <2>2, TokenFacts
  <2>4. Len(Cs(i - 1)) \in 1 .. Len(Cs(i - 1)) /\ Start(i - 1) + Len(Cs(i - 1)) - 1 = index - 1
    BY <2>2, <2>3
  <2>5. Char(index - 1) = Final(program[i - 1])
    BY <2>3, <2>4
  <2>6. MayFollow(program[i - 1], program[(i - 1) + 1])
    BY <2>2, FileFacts DEF Proper, Size
  <2>7. program[i - 1].kind = "block" \/ Final(program[i - 1]) \notin Word \union Literals
    BY <1>1, <1>2, <2>2, <2>6 DEF MayFollow
  <2>8. CASE program[i - 1].kind = "block"
    <3>1. Final(program[i - 1]) = "/"
      BY <2>2, <2>3, <2>8, BlockToken
    <3>2. "/" \notin Word
      BY DEF Word
    <3> QED BY <2>5, <3>1, <3>2
  <2> QED BY <2>5, <2>7, <2>8
<1>8. OpensRawString
  BY <1>5, <1>6, <1>7 DEF OpensRawString
<1>9. ~SkipQuoted
  BY DEF SkipQuoted, SkipEscaped, CloseLiteral, NoCharacterLiteral, InsideLiteral, LiteralAtEnd, InLiteral
<1>10. "R" \notin Literals /\ "R" # "/"
  BY DEF Literals, Quote, Tick
<1>11. ~OpenLiteral /\ ~LineComment /\ ~BlockComment /\ ~Advance /\ ~FinishRegions
  BY <1>5, <1>8, <1>10 DEF OpenLiteral, LineComment, BlockComment, Advance, FinishRegions
<1>12. RawString
  BY <1>9, <1>11 DEF LexStep, Regions
<1>13. PICK opening \in index .. Len(text), end \in index + 1 .. End :
          /\ Finds({p \in index .. Len(text) : Char(p) = "("}, 0, opening)
          /\ Finds({p \in opening .. Len(text) : Terminates(p, opening)}, opening - index, end)
          /\ index' = end
  BY <1>12 DEF RawString
<1>14. end = Start(i + 1)
  BY <1>13, RawEnds
<1>15. Onward(i, index', "None")
  BY <1>13, <1>14 DEF Onward, PositionAt, AtToken
<1>16. quote' = "None"
  BY <1>12 DEF RawString
<1>17. Onward(i, index', quote')
  BY <1>15, <1>16
<1> QED BY <1>12, <1>17 DEF RawString, StaysInCode, file, grouping

LEMMA AtComment ==
    ASSUME FileInv, phase = "Lex", LexStep, NEW i \in 1 .. Size,
           program[i].kind \in {"line", "block"}, index = Start(i), quote = "None"
    PROVE  TakeComment(program[i].kind, Start(i + 1)) /\ phase' = phase /\ quote' = quote
<1>1. /\ Cs(i) \in Seq(STRING) /\ Len(Cs(i)) \in Nat /\ Start(i) \in Nat \ {0} /\ Start(i + 1) <= End
      /\ Start(i + 1) = Start(i) + Len(Cs(i)) /\ End \in Nat
      /\ \A n \in 1 .. Len(Cs(i)) : Char(Start(i) + n - 1) = Cs(i)[n]
  BY TokenFacts, EndIsNat
<1>2. Len(Cs(i)) >= 2 /\ Cs(i)[1] = "/" /\ Cs(i)[2] = IF program[i].kind = "line" THEN "/" ELSE "*"
  BY <1>1, LineToken, BlockToken
<1>3. /\ Char(index) = "/" /\ index < End /\ index # End /\ index + 1 < End
      /\ Char(index + 1) = IF program[i].kind = "line" THEN "/" ELSE "*"
  <2>1. 1 \in 1 .. Len(Cs(i)) /\ 2 \in 1 .. Len(Cs(i))
        /\ Start(i) + 1 - 1 = index /\ Start(i) + 2 - 1 = index + 1 /\ index + 1 < End
    BY <1>1, <1>2
  <2> QED BY <1>1, <1>2, <2>1
<1>4. ~SkipQuoted
  BY DEF SkipQuoted, SkipEscaped, CloseLiteral, NoCharacterLiteral, InsideLiteral, LiteralAtEnd, InLiteral
<1>5. "/" # "R" /\ "/" \notin Literals /\ "/" # "*"
  BY DEF Literals, Quote, Tick
<1>6. ~RawString /\ ~OpenLiteral /\ ~Advance /\ ~FinishRegions
  BY <1>3, <1>5 DEF RawString, OpensRawString, OpenLiteral, Advance, FinishRegions, Follows
<1>7. LineComment \/ BlockComment
  BY <1>4, <1>6 DEF LexStep, Regions
<1>8. CASE program[i].kind = "line"
  <2>1. LineComment
    BY <1>3, <1>5, <1>7, <1>8 DEF BlockComment, Follows
  <2>2. PICK end \in index + 1 .. End : LineEnd(end) /\ TakeComment("line", end)
    BY <2>1 DEF LineComment
  <2>3. end = Start(i + 1)
    BY <1>8, <2>2, LineEnds
  <2> QED BY <1>8, <2>2, <2>3 DEF TakeComment
<1>9. CASE program[i].kind = "block"
  <2>1. BlockComment
    BY <1>3, <1>5, <1>7, <1>9 DEF LineComment, Follows
  <2>2. PICK end \in index + 1 .. End :
            /\ Finds({p \in BlockFrom .. Len(text) : ClosesBlock(p)}, 2, end)
            /\ TakeComment("block", end)
    BY <2>1 DEF BlockComment
  <2>3. end = Start(i + 1)
    BY <1>9, <2>2, BlockEnds
  <2> QED BY <1>9, <2>2, <2>3 DEF TakeComment
<1> QED BY <1>8, <1>9

LEMMA AtTheEnd ==
    ASSUME FileInv, phase = "Lex", LexStep, index = End, quote = "None"
    PROVE  FinishRegions
<1>1. ~SkipQuoted
  BY DEF SkipQuoted, SkipEscaped, CloseLiteral, NoCharacterLiteral, InsideLiteral, LiteralAtEnd, InLiteral
<1>2. ~(index < End)
  BY EndIsNat
<1>3. ~RawString /\ ~OpenLiteral /\ ~LineComment /\ ~BlockComment /\ ~Advance
  BY <1>2 DEF RawString, OpenLiteral, LineComment, BlockComment, Advance, Lexing
<1> QED BY <1>1, <1>3 DEF LexStep, Regions

(* A step of the lexer goes on in the code of token i, takes the comment   *)
(* that token i is, or ends behind the last token.                         *)
LEMMA LexerStep ==
    ASSUME FileInv, phase = "Lex", LexStep, NEW i \in 1 .. Size + 1, PositionAt(i, index, quote)
    PROVE  \/ StaysInCode /\ Onward(i, index', quote')
           \/ /\ i \in 1 .. Size /\ program[i].kind \in {"line", "block"} /\ index = Start(i)
              /\ TakeComment(program[i].kind, Start(i + 1)) /\ phase' = phase /\ quote' = "None"
           \/ i = Size + 1 /\ index = End /\ FinishRegions
<1>0. Size \in Nat /\ Start(Size + 1) = End
  BY FileFacts
<1>1. CASE AtToken(i, index, quote)
  <2>0. index = Start(i) /\ quote = "None"
    BY <1>1 DEF AtToken
  <2>1. CASE i = Size + 1
    BY <1>0, <2>0, <2>1, AtTheEnd
  <2>2. CASE i # Size + 1
    <3>1. i \in 1 .. Size
      BY <1>0, <2>2
    <3>2. /\ program[i].kind \in {"code", "line", "block"}
          /\ Start(i + 1) = Start(i) + Len(Cs(i)) /\ Start(i) \in Nat /\ Len(Cs(i)) \in Nat \ {0}
      BY <3>1, TokenFacts DEF Token
    <3>3. CASE program[i].kind # "code"
      BY <2>0, <3>1, <3>2, <3>3, AtComment
    <3>4. CASE program[i].kind = "code"
      <4>1. index \in Start(i) .. Start(i + 1) - 1
        BY <2>0, <3>2
      <4>2. CASE IsOtherCode(Cs(i))
        <5>1. StaysInCode /\ index' = index + 1 /\ quote' = "None"
          BY <2>0, <3>1, <3>4, <4>1, <4>2, FromOther
        <5>2. Onward(i, index + 1, "None")
          BY <3>1, <3>4, <4>1, <4>2, OtherMoves
        <5> QED BY <5>1, <5>2
      <4>3. CASE IsErrorText(Cs(i))
        <5>1. StaysInCode /\ index' = index + 1 /\ quote' \in {"None", Tick}
          BY <2>0, <3>1, <3>4, <4>1, <4>3, FromError
        <5>2. \A q \in {"None", Tick} : Onward(i, index + 1, q)
          BY <3>1, <3>4, <4>1, <4>3, ErrorMoves
        <5> QED BY <5>1, <5>2
      <4>4. CASE IsLiteral(Cs(i))
        BY <2>0, <3>1, <3>4, <4>4, AtLiteral
      <4>5. CASE IsRawString(Cs(i))
        BY <2>0, <3>1, <3>4, <4>5, AtRawString
      <4> QED BY <3>1, <3>4, <4>2, <4>3, <4>4, <4>5, CodeToken
    <3> QED BY <3>3, <3>4
  <2> QED BY <2>1, <2>2
<1>2. CASE AfterErrorText(i, index, quote)
  <2>1. StaysInCode /\ index' = index /\ quote' = "None"
    BY <1>2, AfterError
  <2>2. Onward(i, index', quote')
    BY <1>2, <2>1 DEF Onward, PositionAt, AtToken, AfterErrorText
  <2> QED BY <2>1, <2>2
<1>3. CASE InCode(i, index, quote)
  <2>1. /\ i \in 1 .. Size /\ program[i].kind = "code"
        /\ index \in Start(i) + 1 .. Start(i + 1) - 1
        /\ WithinCode(Cs(i), index - Start(i) + 1, quote)
    BY <1>0, <1>3 DEF InCode
  <2>2. /\ Start(i) \in Nat /\ Start(i + 1) \in Nat /\ Cs(i) \in Seq(STRING)
    BY <2>1, TokenFacts
  <2>3. index \in Start(i) .. Start(i + 1) - 1
    BY <2>1, <2>2
  <2>4. CASE IsOtherCode(Cs(i)) /\ quote = "None"
    <3>1. StaysInCode /\ index' = index + 1 /\ quote' = "None"
      BY <2>1, <2>3, <2>4, FromOther
    <3>2. Onward(i, index + 1, "None")
      BY <2>1, <2>3, <2>4, OtherMoves
    <3> QED BY <3>1, <3>2
  <2>5. CASE IsErrorText(Cs(i)) /\ quote \in {"None", Tick}
    <3>1. StaysInCode /\ index' = index + 1 /\ quote' \in {"None", Tick}
      BY <2>1, <2>3, <2>5, FromError
    <3>2. \A q \in {"None", Tick} : Onward(i, index + 1, q)
      BY <2>1, <2>3, <2>5, ErrorMoves
    <3> QED BY <3>1, <3>2
  <2>6. CASE /\ IsLiteral(Cs(i)) /\ quote = Cs(i)[1]
             /\ \E units \in SUBSET (2 .. Len(Cs(i))) : Units(Cs(i), units) /\ index - Start(i) + 1 \in units
    <3>1. PICK units \in SUBSET (2 .. Len(Cs(i))) : Units(Cs(i), units) /\ index - Start(i) + 1 \in units
      BY <2>6
    <3>2. PICK k : k = index - Start(i) + 1
      OBVIOUS
    <3>3. k \in units /\ index = Start(i) + k - 1
      BY <2>1, <2>2, <3>1, <3>2
    <3> QED BY <2>1, <2>6, <3>1, <3>3, FromLiteral
  <2> QED BY <2>1, <2>4, <2>5, <2>6 DEF WithinCode
<1> QED BY <1>1, <1>2, <1>3 DEF PositionAt

-----------------------------------------------------------------------------
(* The regions found are the comments, and the code between them.          *)

(* The regions found, of the tokens before token c: a region for every     *)
(* comment among them, and code, each from one comment to the next.        *)
Has(rs, r) == \E k \in 1 .. Len(rs) : rs[k] = r

AllCode(a, b) == \A j \in a .. b - 1 : program[j].kind = "code"

Borders(a, b) ==
    /\ a = 1 \/ program[a - 1].kind # "code"
    /\ b = Size + 1 \/ program[b].kind # "code"

CodeRegion(r) ==
    \E a, b \in 1 .. Size + 1 :
        a < b /\ AllCode(a, b) /\ Borders(a, b) /\ r = Region("code", Start(a), Start(b))

TokenRegion(a) == Region(program[a].kind, Start(a), Start(a + 1))

CommentRegion(r) == \E a \in CommentTokens : r = TokenRegion(a)

RegionsFound(rs, c) ==
    /\ \A r : Has(rs, r) => CodeRegion(r) \/ CommentRegion(r)
    /\ \A a \in CommentTokens : a < c => Has(rs, TokenRegion(a))

ReadTo(i, rs, from) ==
    \E c \in 1 .. i :
        /\ from = Start(c) /\ AllCode(c, i)
        /\ c = 1 \/ program[c - 1].kind # "code"
        /\ RegionsFound(rs, c)

LexedInv ==
    /\ FileInv
    /\ phase = "Lex" => \E i \in 1 .. Size + 1 :
                            PositionAt(i, index, quote) /\ ReadTo(i, regions, codeStart)
    /\ phase # "Lex" => RegionsFound(regions, Size + 1)

HoldsAlso(ts, rs, kind, from, to) ==
    /\ ts \in Seq(RegionType)
    /\ \A r : Has(ts, r) <=> Has(rs, r) \/ (from < to /\ r = Region(kind, from, to))

LEMMA RegionAdded ==
    ASSUME NEW rs \in Seq(RegionType), NEW kind \in {"code", "line", "block"},
           NEW from \in Nat, NEW to \in Nat
    PROVE  HoldsAlso(WithRegion(rs, kind, from, to), rs, kind, from, to)
<1>1. CASE ~(from < to)
  BY <1>1 DEF WithRegion, HoldsAlso
<1>2. CASE from < to
  <2>1. PICK r, qs : r = Region(kind, from, to) /\ qs = Append(rs, r)
    OBVIOUS
  <2>2. r \in RegionType
    BY <2>1 DEF Region, RegionType
  <2>3. /\ qs \in Seq(RegionType) /\ Len(qs) = Len(rs) + 1 /\ Len(rs) \in Nat
        /\ \A k \in 1 .. Len(rs) : qs[k] = rs[k]
        /\ qs[Len(rs) + 1] = r
    BY <2>1, <2>2
  <2>4. ASSUME NEW x PROVE Has(qs, x) <=> Has(rs, x) \/ x = r
    <3>1. ASSUME Has(qs, x) PROVE Has(rs, x) \/ x = r
      <4>1. PICK k \in 1 .. Len(qs) : qs[k] = x
        BY <3>1 DEF Has
      <4>2. k = Len(rs) + 1 \/ k \in 1 .. Len(rs)
        BY <2>3
      <4> QED BY <2>3, <4>1, <4>2 DEF Has
    <3>2. ASSUME Has(rs, x) PROVE Has(qs, x)
      <4>1. PICK k \in 1 .. Len(rs) : rs[k] = x
        BY <3>2 DEF Has
      <4>2. k \in 1 .. Len(qs)
        BY <2>3
      <4> QED BY <2>3, <4>1, <4>2 DEF Has
    <3>3. Has(qs, r)
      <4>1. Len(rs) + 1 \in 1 .. Len(qs)
        BY <2>3
      <4> QED BY <2>3, <4>1 DEF Has
    <3> QED BY <3>1, <3>2, <3>3
  <2>5. WithRegion(rs, kind, from, to) = qs
    BY <1>2, <2>1 DEF WithRegion
  <2>6. HoldsAlso(qs, rs, kind, from, to)
    BY <1>2, <2>1, <2>3, <2>4 DEF HoldsAlso
  <2> QED BY <2>5, <2>6
<1> QED BY <1>1, <1>2

(* The code before token i, from the last comment on, is a region of code. *)
LEMMA CodeBefore ==
    ASSUME FileInv, NEW rs \in Seq(RegionType), NEW i \in 1 .. Size + 1, NEW c \in 1 .. i,
           AllCode(c, i), c = 1 \/ program[c - 1].kind # "code",
           i = Size + 1 \/ program[i].kind # "code", RegionsFound(rs, c)
    PROVE  /\ WithRegion(rs, "code", Start(c), Start(i)) \in Seq(RegionType)
           /\ RegionsFound(WithRegion(rs, "code", Start(c), Start(i)), i)
<1>1. c \in 1 .. Size + 1 /\ Size \in Nat /\ Start(c) \in Nat /\ Start(i) \in Nat /\ Proper(program)
  <2>1. Size \in Nat /\ Proper(program) /\ \A j \in 1 .. Size + 1 : Start(j) \in Nat
    BY FileFacts
  <2>2. c \in 1 .. Size + 1
    BY <2>1
  <2> QED BY <2>1, <2>2
<1>2. PICK qs : qs = WithRegion(rs, "code", Start(c), Start(i))
  OBVIOUS
<1>3. /\ qs \in Seq(RegionType)
      /\ \A r : Has(qs, r) <=> Has(rs, r) \/ (Start(c) < Start(i) /\ r = Region("code", Start(c), Start(i)))
  <2>1. HoldsAlso(qs, rs, "code", Start(c), Start(i))
    BY <1>1, <1>2, RegionAdded
  <2> QED BY <2>1 DEF HoldsAlso
<1>4. Start(c) < Start(i) => CodeRegion(Region("code", Start(c), Start(i)))
  <2> SUFFICES ASSUME Start(c) < Start(i) PROVE CodeRegion(Region("code", Start(c), Start(i)))
    OBVIOUS
  <2>1. c # i
    BY <1>1
  <2>2. c < i
    BY <1>1, <2>1
  <2> QED BY <1>1, <2>2 DEF CodeRegion, Borders
<1>5. \A r : Has(qs, r) => CodeRegion(r) \/ CommentRegion(r)
  BY <1>3, <1>4 DEF RegionsFound
<1>6. ASSUME NEW a \in CommentTokens, a < i PROVE Has(qs, TokenRegion(a))
  <2>1. a \in 1 .. Size /\ program[a].kind # "code"
    BY DEF CommentTokens, Size
  <2>2. a \notin c .. i - 1
    BY <2>1 DEF AllCode
  <2>3. a < c
    BY <1>1, <1>6, <2>1, <2>2
  <2> QED BY <1>3, <2>3 DEF RegionsFound
<1> QED BY <1>2, <1>3, <1>5, <1>6 DEF RegionsFound

LEMMA CommentTaken ==
    ASSUME FileInv, NEW rs \in Seq(RegionType), NEW i \in 1 .. Size, program[i].kind \in {"line", "block"},
           ReadTo(i, rs, codeStart)
    PROVE  ReadTo(i + 1,
                  WithRegion(WithRegion(rs, "code", codeStart, Start(i)), program[i].kind, Start(i), Start(i + 1)),
                  Start(i + 1))
<1>1. /\ Size \in Nat /\ i \in 1 .. Size + 1 /\ i + 1 \in 1 .. i + 1 /\ Start(i) \in Nat /\ Start(i + 1) \in Nat
      /\ Start(i) < Start(i + 1)
  BY FileFacts, TokenFacts
<1>2. PICK c \in 1 .. i :
          /\ codeStart = Start(c) /\ AllCode(c, i)
          /\ c = 1 \/ program[c - 1].kind # "code"
          /\ RegionsFound(rs, c)
  BY DEF ReadTo
<1>3. PICK qs : qs = WithRegion(rs, "code", codeStart, Start(i))
  OBVIOUS
<1>4. qs \in Seq(RegionType) /\ RegionsFound(qs, i)
  BY <1>1, <1>2, <1>3, CodeBefore
<1>5. PICK ts : ts = WithRegion(qs, program[i].kind, Start(i), Start(i + 1))
  OBVIOUS
<1>6. \A r : Has(ts, r) <=> Has(qs, r) \/ r = TokenRegion(i)
  <2>1. \A r : Has(ts, r) <=> Has(qs, r) \/ (Start(i) < Start(i + 1) /\ r = Region(program[i].kind, Start(i), Start(i + 1)))
    <3>1. HoldsAlso(ts, qs, program[i].kind, Start(i), Start(i + 1))
      BY <1>1, <1>4, <1>5, RegionAdded
    <3> QED BY <3>1 DEF HoldsAlso
  <2> QED BY <1>1, <2>1 DEF TokenRegion
<1>7. i \in CommentTokens
  BY DEF CommentTokens, Size
<1>8. RegionsFound(ts, i + 1)
  <2>1. \A r : Has(ts, r) => CodeRegion(r) \/ CommentRegion(r)
    BY <1>4, <1>6, <1>7 DEF RegionsFound, CommentRegion
  <2>2. ASSUME NEW a \in CommentTokens, a < i + 1 PROVE Has(ts, TokenRegion(a))
    <3>1. a \in Nat
      BY FileFacts DEF CommentTokens, Size
    <3>2. a = i \/ a < i
      BY <1>1, <2>2, <3>1
    <3> QED BY <1>4, <1>6, <3>2 DEF RegionsFound
  <2> QED BY <2>1, <2>2 DEF RegionsFound
<1>9. AllCode(i + 1, i + 1) /\ (i + 1) - 1 = i
  BY <1>1 DEF AllCode
<1> QED BY <1>1, <1>3, <1>5, <1>8, <1>9 DEF ReadTo

LEMMA SameProgram ==
    ASSUME program' = program
    PROVE  /\ Size' = Size
           /\ \A i : PositionAt(i, index, quote)' <=> PositionAt(i, index', quote')
           /\ \A i : ReadTo(i, regions, codeStart)' <=> ReadTo(i, regions', codeStart')
           /\ \A i : RegionsFound(regions, i)' <=> RegionsFound(regions', i)
<1>1. Size' = Size
  BY DEF Size
<1>2. ASSUME NEW i PROVE PositionAt(i, index, quote)' <=> PositionAt(i, index', quote')
  BY DEF PositionAt, AtToken, AfterErrorText, InCode, Size, Start, Cs
<1>3. ASSUME NEW i PROVE RegionsFound(regions, i)' <=> RegionsFound(regions', i)
  BY DEF RegionsFound, CodeRegion, CommentRegion, CommentTokens, TokenRegion, AllCode, Borders, Start, Size
<1>4. ASSUME NEW i PROVE ReadTo(i, regions, codeStart)' <=> ReadTo(i, regions', codeStart')
  BY <1>3 DEF ReadTo, AllCode, Start
<1> QED BY <1>1, <1>2, <1>3, <1>4

LEMMA LexedBegins == Init => LexedInv
<1> SUFFICES ASSUME Init PROVE LexedInv
  OBVIOUS
<1>1. FileInv /\ phase = "Lex"
  BY DEF Init, FileInv
<1>2. Size \in Nat \ {0} /\ Start(1) = 1
  BY <1>1, FileFacts
<1>3. PositionAt(1, index, quote)
  BY <1>2 DEF Init, PositionAt, AtToken
<1>4. RegionsFound(regions, 1)
  <2>1. Len(regions) = 0
    BY DEF Init
  <2>2. \A a \in CommentTokens : ~(a < 1)
    BY <1>2 DEF CommentTokens, Size
  <2> QED BY <2>1, <2>2 DEF RegionsFound, Has
<1>5. ReadTo(1, regions, codeStart)
  <2>1. AllCode(1, 1) /\ 1 \in 1 .. 1
    BY DEF AllCode
  <2>2. codeStart = Start(1)
    BY <1>2 DEF Init
  <2> QED BY <1>4, <2>1, <2>2 DEF ReadTo
<1>6. 1 \in 1 .. Size + 1
  BY <1>2
<1> QED BY <1>1, <1>3, <1>5, <1>6 DEF LexedInv

LEMMA LexedKeeps == IndInv /\ LexedInv /\ [Next]_vars => LexedInv'
<1> SUFFICES ASSUME IndInv, LexedInv, [Next]_vars PROVE LexedInv'
  OBVIOUS
<1>1. program' = program /\ text' = text
  BY DEF Next, SkipQuoted, Regions, DocSpans, SkipEscaped, CloseLiteral, NoCharacterLiteral, InsideLiteral,
         LiteralAtEnd, RawString, OpenLiteral, LineComment, BlockComment, TakeComment, Advance, FinishRegions,
         TakeBlockDoc, StartRun, ExtendRun, EndRun, SkipRegion, FinishDocs, vars, file
<1>2. FileInv /\ FileInv' /\ regions \in Seq(RegionType)
  BY <1>1 DEF LexedInv, FileInv, IndInv, TilesUpTo
<1>3. /\ Size' = Size
      /\ \A i : PositionAt(i, index, quote)' <=> PositionAt(i, index', quote')
      /\ \A i : ReadTo(i, regions, codeStart)' <=> ReadTo(i, regions', codeStart')
      /\ \A i : RegionsFound(regions, i)' <=> RegionsFound(regions', i)
  BY <1>1, SameProgram
<1>4. Size \in Nat
  BY <1>2, FileFacts
<1>5. CASE UNCHANGED vars
  <2>1. UNCHANGED <<phase, index, quote, codeStart, regions>>
    BY <1>5 DEF vars, lexing
  <2>2. phase' = "Lex" => \E i \in 1 .. Size' + 1 :
            PositionAt(i, index, quote)' /\ ReadTo(i, regions, codeStart)'
    BY <1>3, <2>1 DEF LexedInv
  <2>3. phase' # "Lex" => RegionsFound(regions, Size + 1)'
    <3>1. phase' # "Lex" => RegionsFound(regions', Size + 1)
      BY <2>1 DEF LexedInv
    <3>2. RegionsFound(regions, Size + 1)' <=> RegionsFound(regions', Size' + 1)
      BY <1>1 DEF RegionsFound, CodeRegion, CommentRegion, CommentTokens, TokenRegion, AllCode, Borders, Start, Size
    <3> QED BY <1>3, <3>1, <3>2
  <2> QED BY <1>2, <2>2, <2>3 DEF LexedInv
<1>6. CASE DocSpans
  <2>1. phase # "Lex" /\ phase' # "Lex" /\ regions' = regions
    BY <1>6 DEF DocSpans, TakeBlockDoc, StartRun, ExtendRun, EndRun, SkipRegion, FinishDocs, Grouping, lexing
  <2>2. RegionsFound(regions', Size + 1)
    BY <2>1 DEF LexedInv
  <2>3. RegionsFound(regions, Size + 1)' <=> RegionsFound(regions', Size' + 1)
    BY <1>1 DEF RegionsFound, CodeRegion, CommentRegion, CommentTokens, TokenRegion, AllCode, Borders, Start, Size
  <2> QED BY <1>2, <1>3, <2>1, <2>2, <2>3 DEF LexedInv
<1>7. CASE LexStep
  <2>1. phase = "Lex"
    BY <1>7 DEF LexStep, SkipQuoted, Regions, SkipEscaped, CloseLiteral, NoCharacterLiteral, InsideLiteral,
                LiteralAtEnd, InLiteral, RawString, OpenLiteral, LineComment, BlockComment, Advance, Lexing, FinishRegions
  <2>2. PICK i \in 1 .. Size + 1 : PositionAt(i, index, quote) /\ ReadTo(i, regions, codeStart)
    BY <2>1 DEF LexedInv
  <2>3. PICK c \in 1 .. i :
            /\ codeStart = Start(c) /\ AllCode(c, i)
            /\ c = 1 \/ program[c - 1].kind # "code"
            /\ RegionsFound(regions, c)
    BY <2>2 DEF ReadTo
  <2>4. CASE StaysInCode /\ Onward(i, index', quote')
    <3>1. phase' = "Lex" /\ codeStart' = codeStart /\ regions' = regions
      BY <2>1, <2>4 DEF StaysInCode
    <3>2. CASE PositionAt(i, index', quote')
      <4>1. ReadTo(i, regions', codeStart')
        BY <2>2, <3>1
      <4>2. PositionAt(i, index, quote)' /\ ReadTo(i, regions, codeStart)' /\ i \in 1 .. Size' + 1
        BY <1>3, <3>2, <4>1
      <4> QED BY <1>2, <3>1, <4>2 DEF LexedInv
    <3>3. CASE i \in 1 .. Size /\ program[i].kind = "code" /\ PositionAt(i + 1, index', quote')
      <4>1. AllCode(c, i + 1) /\ c \in 1 .. i + 1 /\ i + 1 \in 1 .. Size + 1
        <5>1. \A j \in c .. (i + 1) - 1 : j = i \/ j \in c .. i - 1
          BY <1>4
        <5> QED BY <1>4, <2>3, <3>3, <5>1 DEF AllCode
      <4>2. ReadTo(i + 1, regions', codeStart')
        BY <2>3, <3>1, <4>1 DEF ReadTo
      <4>3. PositionAt(i + 1, index, quote)' /\ ReadTo(i + 1, regions, codeStart)' /\ i + 1 \in 1 .. Size' + 1
        BY <1>3, <3>3, <4>1, <4>2
      <4> QED BY <1>2, <3>1, <4>3 DEF LexedInv
    <3> QED BY <2>4, <3>2, <3>3 DEF Onward
  <2>5. CASE /\ i \in 1 .. Size /\ program[i].kind \in {"line", "block"} /\ index = Start(i)
             /\ TakeComment(program[i].kind, Start(i + 1)) /\ phase' = phase /\ quote' = "None"
    <3>1. /\ index' = Start(i + 1) /\ codeStart' = Start(i + 1) /\ quote' = "None"
          /\ regions' = WithRegion(WithRegion(regions, "code", codeStart, Start(i)),
                                   program[i].kind, Start(i), Start(i + 1))
      BY <2>5 DEF TakeComment, CodeGoesOn
    <3>2. ReadTo(i + 1, regions', codeStart')
      BY <1>2, <2>2, <2>5, <3>1, CommentTaken
    <3>3. PositionAt(i + 1, index', quote')
      BY <3>1 DEF PositionAt, AtToken
    <3>4. i + 1 \in 1 .. Size' + 1
      BY <1>3, <1>4, <2>5
    <3>5. PositionAt(i + 1, index, quote)' /\ ReadTo(i + 1, regions, codeStart)'
      BY <1>3, <3>2, <3>3
    <3> QED BY <1>2, <2>1, <2>5, <3>4, <3>5 DEF LexedInv
  <2>6. CASE i = Size + 1 /\ index = End /\ FinishRegions
    <3>1. phase' = "Group" /\ regions' = WithRegion(regions, "code", codeStart, End)
      BY <2>6 DEF FinishRegions
    <3>2. regions' = WithRegion(regions, "code", Start(c), Start(i))
      <4>1. Start(Size + 1) = End
        BY <1>2, FileFacts
      <4> QED BY <2>3, <2>6, <3>1, <4>1
    <3>3. RegionsFound(regions', i)
      BY <1>2, <2>3, <2>6, <3>2, CodeBefore
    <3>4. RegionsFound(regions, Size + 1)' <=> RegionsFound(regions', Size' + 1)
      BY <1>1 DEF RegionsFound, CodeRegion, CommentRegion, CommentTokens, TokenRegion, AllCode, Borders, Start, Size
    <3> QED BY <1>2, <1>3, <2>6, <3>1, <3>3, <3>4 DEF LexedInv
  <2> QED BY <1>2, <1>7, <2>1, <2>2, <2>4, <2>5, <2>6, LexerStep
<1> QED BY <1>5, <1>6, <1>7 DEF Next, LexStep

(* What has been found are the comments of C++.                            *)
LEMMA FoundAreComments ==
    ASSUME IndInv, LexedInv, phase # "Lex"
    PROVE  CommentsAsInCpp
<1>1. FileInv /\ RegionsFound(regions, Size + 1) /\ Proper(program) /\ Size \in Nat
  BY FileFacts DEF LexedInv
<1>2. ASSUME NEW a \in CommentTokens
      PROVE  /\ a \in 1 .. Size /\ program[a].kind # "code" /\ a < Size + 1
             /\ TokenSpan(a) = [start |-> Start(a), end |-> Start(a + 1)]
             /\ Has(regions, TokenRegion(a)) /\ Span(TokenRegion(a)) = TokenSpan(a)
             /\ TokenRegion(a).kind = program[a].kind
  <2>1. a \in 1 .. Size /\ program[a].kind # "code" /\ a < Size + 1
    BY <1>1 DEF CommentTokens, Size
  <2>2. /\ Begins(program, a) = Start(a)
        /\ Start(a + 1) = Start(a) + Len(program[a].chars)
    BY <1>1, <2>1 DEF Proper, Start, Size, Chars
  <2>3. TokenSpan(a) = [start |-> Start(a), end |-> Start(a + 1)]
    BY <2>2 DEF TokenSpan
  <2> QED BY <1>1, <2>1, <2>3 DEF RegionsFound, Span, TokenRegion, Region
<1>3. \A k \in 1 .. Len(regions) : CodeRegion(regions[k]) \/ CommentRegion(regions[k])
  BY <1>1 DEF RegionsFound, Has
<1>4. \A r : CodeRegion(r) => r.kind = "code"
  BY DEF CodeRegion, Region
<1>5. ASSUME NEW k \in 1 .. Len(regions), regions[k].kind # "code"
      PROVE  \E a \in CommentTokens : regions[k] = TokenRegion(a)
  BY <1>3, <1>4, <1>5 DEF CommentRegion
<1>6. {Span(regions[k]) : k \in {j \in 1 .. Len(regions) : regions[j].kind # "code"}}
         = {TokenSpan(i) : i \in CommentTokens}
  <2>1. ASSUME NEW k \in 1 .. Len(regions), regions[k].kind # "code"
        PROVE  \E a \in CommentTokens : Span(regions[k]) = TokenSpan(a)
    BY <1>2, <1>5, <2>1
  <2>2. ASSUME NEW a \in CommentTokens
        PROVE  \E k \in 1 .. Len(regions) : regions[k].kind # "code" /\ Span(regions[k]) = TokenSpan(a)
    <3>1. PICK k \in 1 .. Len(regions) : regions[k] = TokenRegion(a)
      BY <1>2 DEF Has
    <3> QED BY <1>2, <3>1
  <2> QED BY <2>1, <2>2
<1>7. ASSUME NEW k \in 1 .. Len(regions), NEW i \in CommentTokens, Span(regions[k]) = TokenSpan(i)
      PROVE  regions[k].kind = program[i].kind
  <2>0. i \in 1 .. Size /\ program[i].kind # "code" /\ TokenSpan(i) = [start |-> Start(i), end |-> Start(i + 1)]
    BY <1>2
  <2>1. regions[k].start = Start(i)
    BY <1>7, <2>0 DEF Span
  <2>2. ASSUME NEW a \in 1 .. Size + 1, Start(a) = Start(i) PROVE a = i
    <3>1. a \in 1 .. Len(program) + 1 /\ i \in 1 .. Len(program) + 1 /\ a \in Nat /\ i \in Nat
      BY <1>1, <2>0 DEF Size
    <3>2. \A j \in 1 .. Len(program) + 1 : Start(j) \in Nat
      BY <1>1 DEF Proper, Start
    <3>3. ~(a < i)
      BY <1>1, <2>2, <3>1, <3>2, InOrder DEF Start
    <3>4. ~(i < a)
      BY <1>1, <2>2, <3>1, <3>2, InOrder DEF Start
    <3> QED BY <3>1, <3>3, <3>4
  <2>3. CASE CodeRegion(regions[k])
    <3>1. PICK a, b \in 1 .. Size + 1 : a < b /\ AllCode(a, b) /\ regions[k] = Region("code", Start(a), Start(b))
      BY <2>3 DEF CodeRegion
    <3>2. a = i
      BY <2>1, <2>2, <3>1 DEF Region
    <3>3. a \in a .. b - 1
      BY <1>1, <3>1
    <3> QED BY <2>0, <3>1, <3>2, <3>3 DEF AllCode
  <2>4. CASE CommentRegion(regions[k])
    <3>1. PICK a \in CommentTokens : regions[k] = TokenRegion(a)
      BY <2>4 DEF CommentRegion
    <3>2. a \in 1 .. Size + 1
      BY <1>1, <1>2
    <3>3. a = i
      BY <2>1, <2>2, <3>1, <3>2 DEF TokenRegion, Region
    <3> QED BY <1>2, <3>1, <3>3
  <2> QED BY <1>3, <2>3, <2>4
<1>8. ASSUME NEW p \in 1 .. Len(text), Blanked[p] # text[p]
      PROVE  \E i \in CommentTokens : TokenSpan(i).start <= p /\ p < TokenSpan(i).end
  <2>1. PICK k \in 1 .. Len(regions) :
            regions[k].kind # "code" /\ regions[k].start <= p /\ p < regions[k].end
    BY <1>8 DEF Blanked, Char
  <2>2. PICK a \in CommentTokens : regions[k] = TokenRegion(a)
    BY <1>5, <2>1
  <2>3. regions[k].start = Start(a) /\ regions[k].end = Start(a + 1)
    BY <2>2 DEF TokenRegion, Region
  <2>4. TokenSpan(a).start = Start(a) /\ TokenSpan(a).end = Start(a + 1)
    BY <1>2
  <2> QED BY <2>1, <2>3, <2>4
<1> QED BY <1>6, <1>7, <1>8 DEF CommentsAsInCpp

(* The regions of a file that has been read are its comments and the code  *)
(* between them, by C++'s own tokens (CommentsAsInCpp).                    *)
THEOREM CommentsFoundAsInCpp == Spec => []CommentsAsInCpp
<1>1. Init => IndInv /\ LexedInv
  BY TilesBegin, LexedBegins
<1>2. IndInv /\ LexedInv /\ [Next]_vars => (IndInv /\ LexedInv)'
  BY TilesKeep, LexedKeeps
<1>3. IndInv /\ LexedInv => CommentsAsInCpp
  <2>1. CASE phase = "Lex"
    BY <2>1 DEF CommentsAsInCpp
  <2>2. CASE phase # "Lex"
    BY <2>2, FoundAreComments
  <2> QED BY <2>1, <2>2
<1> QED BY <1>1, <1>2, <1>3, PTL DEF Spec

-----------------------------------------------------------------------------
(* The runs of documentation lines.                                        *)

LEMMA StartsInOrder ==
    ASSUME FileInv, NEW a \in 1 .. Size + 1, NEW b \in 1 .. Size + 1
    PROVE  /\ a \in Nat /\ b \in Nat /\ Start(a) \in Nat /\ Start(b) \in Nat
           /\ a < b <=> Start(a) < Start(b)
           /\ a <= b <=> Start(a) <= Start(b)
           /\ a = b <=> Start(a) = Start(b)
<1>1. /\ Proper(program) /\ a \in 1 .. Len(program) + 1 /\ b \in 1 .. Len(program) + 1
      /\ a \in Nat /\ b \in Nat /\ Start(a) \in Nat /\ Start(b) \in Nat
  BY FileFacts DEF Size
<1>2. a < b => Start(a) < Start(b)
  BY <1>1, InOrder DEF Start
<1>3. b < a => Start(b) < Start(a)
  BY <1>1, InOrder DEF Start
<1> QED BY <1>1, <1>2, <1>3

(* Every offset lies in a token.                                           *)
LEMMA Located ==
    ASSUME FileInv, NEW a \in 1 .. Size + 1, NEW b \in 1 .. Size + 1,
           NEW p \in Start(a) .. Start(b) - 1
    PROVE  \E m \in a .. b - 1 : m \in 1 .. Size /\ p \in Start(m) .. Start(m + 1) - 1
<1>1. /\ Size \in Nat /\ a \in Nat /\ b \in Nat /\ Start(a) \in Nat /\ Start(b) \in Nat /\ p \in Nat
      /\ a < b
  <2>1. a \in Nat /\ b \in Nat /\ Start(a) \in Nat /\ Start(b) \in Nat /\ (a < b <=> Start(a) < Start(b))
    BY StartsInOrder
  <2>2. Size \in Nat
    BY FileFacts
  <2> QED BY <2>1, <2>2
<1>2. PICK T : T = {m \in a .. b : p < Start(m)}
  OBVIOUS
<1>3. T \in SUBSET Nat /\ b \in T /\ a \notin T
  BY <1>1, <1>2
<1>4. PICK m \in T : \A other \in T : m <= other
  BY <1>3, LeastMember
<1>5. m \in a .. b /\ m # a /\ p < Start(m)
  BY <1>2, <1>3
<1>6. m - 1 \in a .. b - 1 /\ m - 1 \in a .. b /\ m - 1 \in 1 .. Size /\ (m - 1) + 1 = m
      /\ m - 1 \in 1 .. Size + 1 /\ m \in 1 .. Size + 1
  BY <1>1, <1>5
<1>7. Start(m - 1) \in Nat /\ Start(m) \in Nat
  BY <1>6, StartsInOrder
<1>8. m - 1 \notin T
  BY <1>1, <1>4, <1>5
<1>9. ~(p < Start(m - 1))
  BY <1>2, <1>6, <1>8
<1>10. p \in Start(m - 1) .. Start((m - 1) + 1) - 1
  BY <1>1, <1>5, <1>6, <1>7, <1>9
<1> QED BY <1>6, <1>10

(* The tokens a region covers.                                             *)
Covers(r, a, b) ==
    /\ a < b /\ r.start = Start(a) /\ r.end = Start(b)
    /\ \/ r.kind = "code" /\ AllCode(a, b) /\ Borders(a, b)
       \/ b = a + 1 /\ program[a].kind # "code" /\ r.kind = program[a].kind

RegionsInv == IndInv /\ FileInv /\ RegionsFound(regions, Size + 1) /\ phase # "Lex"

LEMMA RegionCovers ==
    ASSUME RegionsInv, NEW k \in 1 .. Len(regions)
    PROVE  \E a, b \in 1 .. Size + 1 : Covers(regions[k], a, b)
<1>1. Size \in Nat
  BY FileFacts DEF RegionsInv
<1>2. CodeRegion(regions[k]) \/ CommentRegion(regions[k])
  BY DEF RegionsInv, RegionsFound, Has
<1>3. CASE CodeRegion(regions[k])
  <2>1. PICK a, b \in 1 .. Size + 1 :
            a < b /\ AllCode(a, b) /\ Borders(a, b) /\ regions[k] = Region("code", Start(a), Start(b))
    BY <1>3 DEF CodeRegion
  <2>2. Covers(regions[k], a, b)
    BY <2>1 DEF Covers, Region
  <2> QED BY <2>2
<1>4. CASE CommentRegion(regions[k])
  <2>1. PICK a \in CommentTokens : regions[k] = TokenRegion(a)
    BY <1>4 DEF CommentRegion
  <2>2. a \in 1 .. Size /\ program[a].kind # "code" /\ a < a + 1
    BY <1>1 DEF CommentTokens, Size
  <2>3. Covers(regions[k], a, a + 1)
    BY <2>1, <2>2 DEF Covers, TokenRegion, Region
  <2>4. a \in 1 .. Size + 1 /\ a + 1 \in 1 .. Size + 1
    BY <1>1, <2>2
  <2> QED BY <2>3, <2>4
<1> QED BY <1>2, <1>3, <1>4

(* Region n begins with token e; behind the last region is the end.        *)
AtRegion(e, n) ==
    \/ n \in 1 .. Len(regions) /\ regions[n].start = Start(e)
    \/ n = Len(regions) + 1 /\ e = Size + 1

LEMMA NextRegion ==
    ASSUME RegionsInv, NEW k \in 1 .. Len(regions), NEW a \in 1 .. Size + 1, NEW b \in 1 .. Size + 1,
           Covers(regions[k], a, b)
    PROVE  AtRegion(b, k + 1)
<1>1. /\ FileInv /\ regions \in Seq(RegionType) /\ Len(regions) \in Nat /\ Size \in Nat
      /\ Start(Size + 1) = End /\ codeStart = End
      /\ codeStart = regions[Len(regions)].end
      /\ \A n \in 1 .. Len(regions) : regions[n].start = IF n = 1 THEN 1 ELSE regions[n - 1].end
  <2>1. FileInv
    BY DEF RegionsInv
  <2>2. Size \in Nat /\ Start(Size + 1) = End
    BY <2>1, FileFacts
  <2>3. regions \in Seq(RegionType) /\ Len(regions) \in Nat /\ regions # <<>>
    BY DEF RegionsInv, IndInv, TilesUpTo
  <2> QED BY <2>1, <2>2, <2>3 DEF RegionsInv, IndInv, TilesUpTo
<1>2. regions[k].end = Start(b)
  BY DEF Covers
<1>3. CASE k = Len(regions)
  <2>1. Start(b) = Start(Size + 1) /\ Size + 1 \in 1 .. Size + 1
    BY <1>1, <1>2, <1>3
  <2>2. b = Size + 1
    BY <1>1, <2>1, StartsInOrder
  <2> QED BY <1>3, <2>2 DEF AtRegion
<1>4. CASE k # Len(regions)
  <2>1. k + 1 \in 1 .. Len(regions) /\ k + 1 # 1 /\ (k + 1) - 1 = k
    BY <1>1, <1>4
  <2>2. regions[k + 1].start = Start(b)
    BY <1>1, <1>2, <2>1
  <2> QED BY <2>1, <2>2 DEF AtRegion
<1> QED BY <1>3, <1>4

(* The region that begins with a token covers that token first.            *)
LEMMA CoversFrom ==
    ASSUME RegionsInv, NEW e \in 1 .. Size + 1, NEW n \in 1 .. Len(regions), AtRegion(e, n)
    PROVE  \E b \in 1 .. Size + 1 : Covers(regions[n], e, b) /\ AtRegion(b, n + 1)
<1>1. regions[n].start = Start(e) /\ FileInv
  <2>1. Len(regions) \in Nat
    BY DEF RegionsInv, IndInv, TilesUpTo
  <2> QED BY <2>1 DEF AtRegion, RegionsInv
<1>2. PICK a, b \in 1 .. Size + 1 : Covers(regions[n], a, b)
  BY RegionCovers
<1>3. a = e
  <2>1. Start(a) = Start(e)
    BY <1>1, <1>2 DEF Covers
  <2> QED BY <1>1, <2>1, StartsInOrder
<1>4. AtRegion(b, n + 1)
  BY <1>2, NextRegion
<1> QED BY <1>2, <1>3, <1>4

(* What a token documents is what the region of it is read as.             *)
LEMMA DocKinds ==
    ASSUME FileInv, NEW i \in 1 .. Size
    PROVE  /\ program[i].doc = "line" => program[i].kind = "line"
           /\ program[i].doc = "block" => program[i].kind = "block"
           /\ program[i].kind = "code" => program[i].doc = "none"
           /\ program[i].doc \in {"none", "line", "block"} /\ program[i].kind \in {"code", "line", "block"}
           /\ program[i].kind = "line" =>
                 (program[i].doc = "line" <=>
                     Opens(Cs(i), <<"/", "/", "/">>) /\ ~Opens(Cs(i), <<"/", "/", "/", "<">>))
           /\ program[i].kind = "block" =>
                 (program[i].doc = "block" <=>
                     Opens(Cs(i), <<"/", "*", "*">>) \/ Opens(Cs(i), <<"/", "*", "!">>))
<1>1. WellFormed(program[i]) /\ program[i] \in Token /\ program[i].chars = Cs(i)
  BY TokenFacts
<1>2. program[i].doc \in {"none", "line", "block"} /\ program[i].kind \in {"code", "line", "block"}
  BY <1>1 DEF Token
<1>3. CASE program[i].kind = "code"
  BY <1>1, <1>3 DEF WellFormed
<1>4. CASE program[i].kind = "line"
  BY <1>1, <1>4 DEF WellFormed
<1>5. CASE program[i].kind = "block"
  BY <1>1, <1>5 DEF WellFormed
<1> QED BY <1>2, <1>3, <1>4, <1>5

LEMMA OpensAsToken ==
    ASSUME FileInv, NEW i \in 1 .. Size, NEW r, r.start = Start(i), r.end = Start(i + 1),
           NEW prefix, Len(prefix) \in Nat \ {0}
    PROVE  StartsWith(r, prefix) <=> Opens(Cs(i), prefix)
<1>1. /\ Start(i) \in Nat /\ Start(i + 1) = Start(i) + Len(Cs(i)) /\ Len(Cs(i)) \in Nat \ {0}
      /\ Len(prefix) \in Nat
  BY TokenFacts
<1>2. r.end - r.start >= Len(prefix) <=> Len(prefix) <= Len(Cs(i))
  BY <1>1
<1>3. ASSUME Len(prefix) <= Len(Cs(i))
      PROVE  SubSeq(text, r.start, r.start + Len(prefix) - 1) = SubSeq(Cs(i), 1, Len(prefix))
  <2>1. 1 \in 1 .. Len(Cs(i)) + 1 /\ Len(prefix) \in 0 .. Len(Cs(i)) /\ r.start = Start(i) + 1 - 1
    BY <1>1, <1>3
  <2>2. SubSeq(text, Start(i) + 1 - 1, Start(i) + Len(prefix) - 1) = SubSeq(Cs(i), 1, Len(prefix))
    BY <2>1, Stretch
  <2> QED BY <2>1, <2>2
<1> QED BY <1>2, <1>3 DEF StartsWith, Opens

LEMMA ReadAsTold ==
    ASSUME FileInv, NEW a \in 1 .. Size + 1, NEW b \in 1 .. Size + 1, NEW r, Covers(r, a, b)
    PROVE  /\ a \in 1 .. Size
           /\ IsLineDoc(r) <=> b = a + 1 /\ program[a].doc = "line"
           /\ IsBlockDoc(r) <=> b = a + 1 /\ program[a].doc = "block"
<1>1. a \in 1 .. Size /\ a \in Nat
  <2>1. Size \in Nat /\ a < b
    BY FileFacts DEF Covers
  <2> QED BY <2>1
<1>2. /\ program[a].doc = "line" => program[a].kind = "line"
      /\ program[a].doc = "block" => program[a].kind = "block"
      /\ program[a].kind = "code" => program[a].doc = "none"
  BY <1>1, DocKinds
<1>3. CASE r.kind = "code" /\ AllCode(a, b)
  <2>1. a \in a .. b - 1
    BY <1>1 DEF Covers
  <2>2. program[a].doc = "none"
    BY <1>2, <1>3, <2>1 DEF AllCode
  <2> QED BY <1>1, <1>3, <2>2 DEF IsLineDoc, IsBlockDoc
<1>4. CASE b = a + 1 /\ program[a].kind # "code" /\ r.kind = program[a].kind
  <2>1. r.start = Start(a) /\ r.end = Start(a + 1)
    BY <1>4 DEF Covers
  <2>2. /\ Len(<<"/", "/", "/">>) \in Nat \ {0} /\ Len(<<"/", "/", "/", "<">>) \in Nat \ {0}
        /\ Len(<<"/", "*", "*">>) \in Nat \ {0} /\ Len(<<"/", "*", "!">>) \in Nat \ {0}
    OBVIOUS
  <2>3. /\ StartsWith(r, <<"/", "/", "/">>) <=> Opens(Cs(a), <<"/", "/", "/">>)
        /\ StartsWith(r, <<"/", "/", "/", "<">>) <=> Opens(Cs(a), <<"/", "/", "/", "<">>)
        /\ StartsWith(r, <<"/", "*", "*">>) <=> Opens(Cs(a), <<"/", "*", "*">>)
        /\ StartsWith(r, <<"/", "*", "!">>) <=> Opens(Cs(a), <<"/", "*", "!">>)
    BY <1>1, <2>1, <2>2, OpensAsToken
  <2>4. IsLineDoc(r) <=> program[a].doc = "line"
    <3>1. program[a].kind = "line" =>
             (program[a].doc = "line" <=>
                 Opens(Cs(a), <<"/", "/", "/">>) /\ ~Opens(Cs(a), <<"/", "/", "/", "<">>))
      BY <1>1, DocKinds
    <3> QED BY <1>2, <1>4, <2>3, <3>1 DEF IsLineDoc
  <2>5. IsBlockDoc(r) <=> program[a].doc = "block"
    <3>1. program[a].kind = "block" =>
             (program[a].doc = "block" <=>
                 Opens(Cs(a), <<"/", "*", "*">>) \/ Opens(Cs(a), <<"/", "*", "!">>))
      BY <1>1, DocKinds
    <3> QED BY <1>2, <1>4, <2>3, <3>1 DEF IsBlockDoc
  <2> QED BY <1>1, <1>4, <2>4, <2>5
<1> QED BY <1>3, <1>4 DEF Covers

SpanType == [start : Nat, end : Nat]

(* What is read as one comment: a block, or lines of one run, from the     *)
(* first of the run to the last, unless the run is still open.             *)
OneRead(i, j) ==
    \/ i = j /\ program[i].doc = "block"
    \/ program[i].doc = "line" /\ program[j].doc = "line" /\ SameRun(i, j)

RunBegins(i) ==
    program[i].doc = "line" => \A u \in 1 .. i - 1 : program[u].doc = "line" => ~SameRun(u, i)

RunEnds(j) ==
    program[j].doc = "line" => \A u \in j + 1 .. Size : program[u].doc = "line" => ~SameRun(j, u)

DocSpan(d, e, open) ==
    \E i, j \in 1 .. Size :
        /\ i <= j /\ j < e /\ d.start = Start(i) /\ d.end = Start(j + 1)
        /\ OneRead(i, j) /\ RunBegins(i) /\ (open \/ RunEnds(j))

Reads(ds, t) == \E d \in 1 .. Len(ds) : ds[d].start <= Start(t) /\ Start(t + 1) <= ds[d].end

Grouped(e, ds, running) ==
    /\ ds \in Seq(SpanType)
    /\ \A d \in 1 .. Len(ds) : DocSpan(ds[d], e, running /\ d = Len(ds))
    /\ \A t \in DocTokens : t < e => Reads(ds, t)
    /\ running => /\ ds # <<>> /\ ds[Len(ds)].end = Start(e)
                  /\ e > 1 /\ program[e - 1].doc = "line"

LEMMA PartOfRun ==
    ASSUME NEW i \in Nat, NEW j \in Nat, SameRun(i, j), NEW a \in Nat, NEW b \in Nat, i <= a, b <= j
    PROVE  SameRun(a, b)
<1>1. \A k \in a .. b : k \in i .. j
  OBVIOUS
<1> QED BY <1>1 DEF SameRun

LEMMA RunsJoin ==
    ASSUME NEW i \in Nat, NEW j \in Nat, SameRun(i, j), NEW k \in Nat, SameRun(j + 1, k)
    PROVE  SameRun(i, k)
<1>1. \A m \in i .. k : m \in i .. j \/ m \in j + 1 .. k
  OBVIOUS
<1> QED BY <1>1 DEF SameRun

LEMMA SpanWidens ==
    ASSUME NEW d, NEW e \in Nat, NEW f \in Nat, e <= f, NEW open \in BOOLEAN, NEW closed \in BOOLEAN,
           DocSpan(d, e, open), open => closed, Size \in Nat
    PROVE  DocSpan(d, f, closed)
<1>1. PICK i, j \in 1 .. Size :
          /\ i <= j /\ j < e /\ d.start = Start(i) /\ d.end = Start(j + 1)
          /\ OneRead(i, j) /\ RunBegins(i) /\ (open \/ RunEnds(j))
  BY DEF DocSpan
<1>2. j < f
  BY <1>1
<1> QED BY <1>1, <1>2 DEF DocSpan

LEMMA GroupSkips ==
    ASSUME FileInv, NEW e \in 1 .. Size + 1, NEW b \in 1 .. Size + 1, e <= b, NEW ds, Grouped(e, ds, FALSE),
           \A m \in e .. b - 1 : m \notin DocTokens
    PROVE  Grouped(b, ds, FALSE)
<1>1. Size \in Nat
  BY FileFacts
<1>2. \A d \in 1 .. Len(ds) : DocSpan(ds[d], b, FALSE)
  <2> SUFFICES ASSUME NEW d \in 1 .. Len(ds) PROVE DocSpan(ds[d], b, FALSE)
    OBVIOUS
  <2>1. DocSpan(ds[d], e, FALSE /\ d = Len(ds))
    BY DEF Grouped
  <2>2. (FALSE /\ d = Len(ds)) = FALSE
    OBVIOUS
  <2>3. DocSpan(ds[d], e, FALSE)
    BY <2>1, <2>2
  <2>4. e \in Nat /\ b \in Nat
    BY <1>1
  <2> QED BY <1>1, <2>3, <2>4, SpanWidens
<1>3. ASSUME NEW t \in DocTokens, t < b PROVE Reads(ds, t)
  <2>1. t \in Nat
    BY <1>1 DEF DocTokens, Size
  <2>2. t < e
    BY <1>1, <1>3, <2>1
  <2> QED BY <2>2 DEF Grouped
<1> QED BY <1>2, <1>3 DEF Grouped

(* A block, or the first line of a run.                                    *)
LEMMA GroupTakes ==
    ASSUME FileInv, NEW e \in 1 .. Size, NEW ds, Grouped(e, ds, FALSE), program[e].doc # "none",
           NEW es, es = Append(ds, [start |-> Start(e), end |-> Start(e + 1)])
    PROVE  Grouped(e + 1, es, program[e].doc = "line")
<1>1. /\ Size \in Nat /\ Start(e) \in Nat /\ Start(e + 1) \in Nat /\ e \in Nat
      /\ e \in 1 .. Size + 1 /\ e + 1 \in 1 .. Size + 1 /\ e < e + 1
  BY FileFacts, TokenFacts
<1>2. PICK s : s = [start |-> Start(e), end |-> Start(e + 1)]
  OBVIOUS
<1>3. s \in SpanType /\ ds \in Seq(SpanType)
  BY <1>1, <1>2 DEF SpanType, Grouped
<1>4. /\ es \in Seq(SpanType) /\ Len(es) = Len(ds) + 1 /\ Len(ds) \in Nat
      /\ \A d \in 1 .. Len(ds) : es[d] = ds[d]
      /\ es[Len(ds) + 1] = s /\ es # <<>>
  BY <1>2, <1>3
<1>5. RunBegins(e)
  <2> SUFFICES ASSUME program[e].doc = "line",
                      NEW u \in 1 .. e - 1, program[u].doc = "line", SameRun(u, e)
               PROVE  FALSE
    BY DEF RunBegins
  <2>1. u \in DocTokens /\ u < e /\ u \in Nat /\ u \in 1 .. Size /\ u \in 1 .. Size + 1
    BY <1>1 DEF DocTokens, Size
  <2>2. Reads(ds, u)
    BY <2>1 DEF Grouped
  <2>3. PICK d \in 1 .. Len(ds) : ds[d].start <= Start(u) /\ Start(u + 1) <= ds[d].end
    BY <2>2 DEF Reads
  <2>4. DocSpan(ds[d], e, FALSE)
    BY DEF Grouped
  <2>5. PICK i, j \in 1 .. Size :
            /\ i <= j /\ j < e /\ ds[d].start = Start(i) /\ ds[d].end = Start(j + 1)
            /\ OneRead(i, j) /\ RunBegins(i) /\ RunEnds(j)
    BY <2>4 DEF DocSpan
  <2>6. i \in 1 .. Size + 1 /\ j + 1 \in 1 .. Size + 1 /\ u + 1 \in 1 .. Size + 1 /\ i \in Nat /\ j \in Nat
    BY <1>1, <2>1
  <2>7. i <= u
    BY <2>1, <2>3, <2>5, <2>6, StartsInOrder
  <2>8. u + 1 <= j + 1
    BY <2>1, <2>3, <2>5, <2>6, StartsInOrder
  <2>9. program[j].doc = "line"
    <3>1. CASE i = j /\ program[i].doc = "block"
      <4>1. u = i
        BY <2>1, <2>6, <2>7, <2>8, <3>1
      <4> QED BY <3>1, <4>1
    <3> QED BY <2>5, <3>1 DEF OneRead
  <2>10. SameRun(j, e)
    BY <1>1, <2>1, <2>6, <2>8, PartOfRun
  <2>11. e \in j + 1 .. Size
    BY <1>1, <2>5, <2>6
  <2> QED BY <2>5, <2>9, <2>10, <2>11 DEF RunEnds
<1>6. program[e].doc \in {"none", "line", "block"}
  BY DocKinds
<1>7. OneRead(e, e)
  <2>1. program[e].doc = "line" => SameRun(e, e)
    <3>1. \A k \in e .. e : k = e
      BY <1>1
    <3> QED BY <3>1 DEF SameRun
  <2> QED BY <1>6, <2>1 DEF OneRead
<1>8. ASSUME NEW d \in 1 .. Len(es)
      PROVE  DocSpan(es[d], e + 1, program[e].doc = "line" /\ d = Len(es))
  <2>1. CASE d = Len(ds) + 1
    <3>1. program[e].doc = "line" \/ RunEnds(e)
      BY DEF RunEnds
    <3>2. es[d].start = Start(e) /\ es[d].end = Start(e + 1) /\ e <= e /\ d = Len(es)
      BY <1>1, <1>2, <1>4, <2>1
    <3>3. (program[e].doc = "line" /\ d = Len(es)) \/ RunEnds(e)
      BY <3>1, <3>2
    <3> QED BY <1>1, <1>5, <1>7, <3>2, <3>3 DEF DocSpan
  <2>2. CASE d \in 1 .. Len(ds)
    <3>0. DocSpan(ds[d], e, FALSE /\ d = Len(ds))
      BY <2>2 DEF Grouped
    <3>1. d # Len(es) /\ es[d] = ds[d]
      BY <1>4, <2>2
    <3>2. (FALSE /\ d = Len(ds)) = FALSE /\ (program[e].doc = "line" /\ d = Len(es)) = FALSE
      BY <3>1
    <3>3. DocSpan(ds[d], e, FALSE)
      BY <3>0, <3>2
    <3>4. DocSpan(ds[d], e + 1, FALSE)
      <4>1. e + 1 \in Nat /\ e <= e + 1
        BY <1>1
      <4> QED BY <1>1, <3>3, <4>1, SpanWidens
    <3> QED BY <3>1, <3>2, <3>4
  <2> QED BY <1>4, <2>1, <2>2
<1>9. ASSUME NEW t \in DocTokens, t < e + 1 PROVE Reads(es, t)
  <2>1. t \in Nat
    BY <1>1 DEF DocTokens, Size
  <2>2. CASE t = e
    <3>1. Len(ds) + 1 \in 1 .. Len(es) /\ es[Len(ds) + 1].start = Start(t) /\ es[Len(ds) + 1].end = Start(t + 1)
      BY <1>2, <1>4, <2>2
    <3>2. Start(t) <= Start(t) /\ Start(t + 1) <= Start(t + 1)
      BY <1>1, <2>2
    <3> QED BY <3>1, <3>2 DEF Reads
  <2>3. CASE t < e
    <3>1. PICK d \in 1 .. Len(ds) : ds[d].start <= Start(t) /\ Start(t + 1) <= ds[d].end
      BY <2>3 DEF Grouped, Reads
    <3>2. d \in 1 .. Len(es) /\ es[d] = ds[d]
      BY <1>4
    <3> QED BY <3>1, <3>2 DEF Reads
  <2> QED BY <1>1, <1>9, <2>1, <2>2, <2>3
<1>10. program[e].doc = "line" =>
          /\ es # <<>> /\ es[Len(es)].end = Start(e + 1)
          /\ e + 1 > 1 /\ program[(e + 1) - 1].doc = "line"
  <2>1. (e + 1) - 1 = e /\ e + 1 > 1
    BY <1>1
  <2> QED BY <1>2, <1>4, <2>1
<1> QED BY <1>4, <1>8, <1>9, <1>10 DEF Grouped

(* The run goes on over blanks to the next line.                           *)
LEMMA GroupGrows ==
    ASSUME FileInv, NEW e \in 1 .. Size + 1, NEW b \in 1 .. Size, e <= b, NEW ds, Grouped(e, ds, TRUE),
           SameRun(e, b), \A m \in e .. b - 1 : m \notin DocTokens, program[b].doc = "line",
           NEW es, es = [ds EXCEPT ![Len(ds)].end = Start(b + 1)]
    PROVE  Grouped(b + 1, es, TRUE)
<1>1. /\ Size \in Nat /\ b + 1 \in 1 .. Size + 1 /\ b \in Nat /\ e \in Nat /\ Start(b + 1) \in Nat
      /\ b \in 1 .. Size + 1 /\ Start(e) \in Nat
  BY FileFacts, TokenFacts, StartsInOrder
<1>2. /\ ds \in Seq(SpanType) /\ ds # <<>> /\ ds[Len(ds)].end = Start(e) /\ e > 1
      /\ program[e - 1].doc = "line"
  BY DEF Grouped
<1>3. PICK n : n = Len(ds)
  OBVIOUS
<1>4. n \in Nat /\ n >= 1 /\ ds[n] \in SpanType /\ n \in 1 .. Len(ds)
  BY <1>2, <1>3
<1>5. PICK s : s = [ds[n] EXCEPT !.end = Start(b + 1)]
  OBVIOUS
<1>6. s \in SpanType /\ s.start = ds[n].start /\ s.end = Start(b + 1)
  BY <1>1, <1>4, <1>5 DEF SpanType
<1>7. es = [ds EXCEPT ![n] = s]
  BY <1>3, <1>5
<1>8. /\ es \in Seq(SpanType) /\ Len(es) = n /\ es[n] = s /\ es # <<>>
      /\ \A d \in 1 .. n : d # n => es[d] = ds[d]
  <2>1. /\ es \in Seq(SpanType) /\ Len(es) = n /\ es[n] = s
        /\ \A d \in 1 .. n : d # n => es[d] = ds[d]
    BY <1>2, <1>3, <1>4, <1>6, <1>7
  <2>2. es # <<>>
    BY <1>4, <2>1
  <2> QED BY <2>1, <2>2
<1>9. PICK i, j \in 1 .. Size :
          /\ i <= j /\ j < e /\ ds[n].start = Start(i) /\ ds[n].end = Start(j + 1)
          /\ OneRead(i, j) /\ RunBegins(i)
  <2>1. DocSpan(ds[n], e, TRUE)
    BY <1>3, <1>4 DEF Grouped
  <2> QED BY <2>1 DEF DocSpan
<1>10. j + 1 = e /\ i \in Nat /\ j \in Nat /\ i \in 1 .. Size + 1 /\ j + 1 \in 1 .. Size + 1
  <2>1. Start(j + 1) = Start(e) /\ j + 1 \in 1 .. Size + 1 /\ i \in Nat /\ j \in Nat /\ i \in 1 .. Size + 1
    BY <1>1, <1>2, <1>3, <1>9
  <2> QED BY <2>1, StartsInOrder
<1>11. program[i].doc = "line" /\ SameRun(i, j)
  <2>1. j = e - 1
    BY <1>1, <1>10
  <2>2. program[j].doc = "line"
    BY <1>2, <2>1
  <2> QED BY <1>9, <2>2 DEF OneRead
<1>12. SameRun(i, b)
  BY <1>1, <1>10, <1>11, RunsJoin
<1>13. DocSpan(s, b + 1, TRUE)
  <2>1. i <= b /\ b < b + 1
    BY <1>1, <1>9, <1>10
  <2>2. OneRead(i, b)
    BY <1>11, <1>12 DEF OneRead
  <2> QED BY <1>6, <1>9, <2>1, <2>2 DEF DocSpan
<1>14. ASSUME NEW d \in 1 .. Len(es) PROVE DocSpan(es[d], b + 1, TRUE /\ d = Len(es))
  <2>1. CASE d = n
    <3>1. (TRUE /\ d = Len(es)) = TRUE
      BY <1>8, <2>1
    <3> QED BY <1>8, <1>13, <2>1, <3>1
  <2>2. CASE d # n
    <3>1. d \in 1 .. Len(ds) /\ d # Len(ds) /\ es[d] = ds[d] /\ d # Len(es)
      BY <1>3, <1>8, <2>2
    <3>2. DocSpan(ds[d], e, TRUE /\ d = Len(ds))
      BY <3>1 DEF Grouped
    <3>3. (TRUE /\ d = Len(ds)) = FALSE /\ (TRUE /\ d = Len(es)) = FALSE
      BY <3>1
    <3>4. DocSpan(ds[d], e, FALSE)
      BY <3>2, <3>3
    <3>5. DocSpan(ds[d], b + 1, FALSE)
      <4>1. e <= b + 1 /\ b + 1 \in Nat
        BY <1>1
      <4> QED BY <1>1, <3>4, <4>1, SpanWidens
    <3> QED BY <3>1, <3>3, <3>5
  <2> QED BY <2>1, <2>2
<1>15. ASSUME NEW t \in DocTokens, t < b + 1 PROVE Reads(es, t)
  <2>1. t \in 1 .. Size /\ t \in 1 .. Size + 1 /\ t + 1 \in 1 .. Size + 1 /\ t \in Nat
    BY <1>1, SMTT(30) DEF DocTokens, Size
  <2>2. CASE t < e
    <3>1. PICK d \in 1 .. Len(ds) : ds[d].start <= Start(t) /\ Start(t + 1) <= ds[d].end
      BY <2>2 DEF Grouped, Reads
    <3>2. CASE d # n
      <4>1. d \in 1 .. Len(es) /\ es[d] = ds[d]
        BY <1>3, <1>8, <3>2
      <4> QED BY <3>1, <4>1 DEF Reads
    <3>3. CASE d = n
      <4>1. Start(t + 1) <= Start(e) /\ Start(e) <= Start(b + 1)
        <5>1. e <= b + 1
          BY <1>1
        <5>2. Start(e) <= Start(b + 1)
          BY <1>1, <5>1, StartsInOrder
        <5> QED BY <1>2, <1>3, <3>1, <3>3, <5>2
      <4>2. Start(t + 1) <= Start(b + 1)
        <5>1. Start(t + 1) \in Nat
          BY <2>1, StartsInOrder
        <5> QED BY <1>1, <4>1, <5>1
      <4>3. n \in 1 .. Len(es) /\ es[n].start <= Start(t) /\ Start(t + 1) <= es[n].end
        BY <1>4, <1>6, <1>8, <3>1, <3>3, <4>2
      <4> QED BY <4>3 DEF Reads
    <3> QED BY <3>2, <3>3
  <2>3. CASE t = b
    <3>1. i <= t
      BY <1>1, <1>9, <1>10, <2>3
    <3>2. Start(i) <= Start(t)
      BY <1>10, <2>1, <3>1, StartsInOrder
    <3>3. Start(t + 1) <= Start(b + 1)
      BY <1>1, <2>3
    <3>4. n \in 1 .. Len(es) /\ es[n].start <= Start(t) /\ Start(t + 1) <= es[n].end
      BY <1>4, <1>6, <1>8, <1>9, <3>2, <3>3
    <3> QED BY <3>4 DEF Reads
  <2>4. CASE t \in e .. b - 1
    BY <2>4
  <2> QED BY <1>1, <1>15, <2>1, <2>2, <2>3, <2>4
<1>16. es[Len(es)].end = Start(b + 1) /\ b + 1 > 1 /\ program[(b + 1) - 1].doc = "line"
  <2>1. (b + 1) - 1 = b /\ b + 1 > 1
    BY <1>1
  <2> QED BY <1>6, <1>8, <2>1
<1> QED BY <1>8, <1>14, <1>15, <1>16 DEF Grouped

LEMMA GroupCloses ==
    ASSUME FileInv, NEW e \in 1 .. Size + 1, NEW ds, Grouped(e, ds, TRUE), RunEnds(e - 1)
    PROVE  Grouped(e, ds, FALSE)
<1>1. /\ ds \in Seq(SpanType) /\ ds # <<>> /\ ds[Len(ds)].end = Start(e) /\ Len(ds) \in Nat
  BY DEF Grouped
<1>2. ASSUME NEW d \in 1 .. Len(ds) PROVE DocSpan(ds[d], e, FALSE)
  <2>1. DocSpan(ds[d], e, TRUE /\ d = Len(ds))
    BY DEF Grouped
  <2>2. CASE d # Len(ds)
    <3>1. (TRUE /\ d = Len(ds)) = FALSE
      BY <2>2
    <3> QED BY <2>1, <3>1
  <2>3. CASE d = Len(ds)
    <3>1. PICK i, j \in 1 .. Size :
              /\ i <= j /\ j < e /\ ds[d].start = Start(i) /\ ds[d].end = Start(j + 1)
              /\ OneRead(i, j) /\ RunBegins(i)
      BY <2>1 DEF DocSpan
    <3>2. j + 1 \in 1 .. Size + 1 /\ Start(j + 1) = Start(e) /\ j \in Nat
      BY <1>1, <2>3, <3>1, FileFacts
    <3>3. j + 1 = e
      BY <3>2, StartsInOrder
    <3>4. e - 1 = j
      BY <3>2, <3>3
    <3>5. RunEnds(j)
      BY <3>4
    <3> QED BY <3>1, <3>5 DEF DocSpan
  <2> QED BY <2>2, <2>3
<1>3. \A d \in 1 .. Len(ds) : DocSpan(ds[d], e, FALSE /\ d = Len(ds))
  <2>1. \A d : (FALSE /\ d = Len(ds)) = FALSE
    OBVIOUS
  <2> QED BY <1>2, <2>1
<1> QED BY <1>1, <1>3 DEF Grouped

(* Whether a region of code is blank is whether its tokens are.            *)
LEMMA BlankAsTokens ==
    ASSUME FileInv, NEW a \in 1 .. Size + 1, NEW b \in 1 .. Size + 1, a < b,
           NEW r, r.start = Start(a), r.end = Start(b)
    PROVE  OnlyBlank(r) <=>
              \A m \in a .. b - 1 : \A n \in 1 .. Len(program[m].chars) : program[m].chars[n] \in Blank
<1>1. Size \in Nat /\ a \in Nat /\ b \in Nat /\ Start(a) \in Nat /\ Start(b) \in Nat
  BY FileFacts, StartsInOrder
<1>2. ASSUME OnlyBlank(r), NEW m \in a .. b - 1, NEW n \in 1 .. Len(program[m].chars)
      PROVE  program[m].chars[n] \in Blank
  <2>1. m \in 1 .. Size /\ m \in 1 .. Size + 1 /\ m + 1 \in 1 .. Size + 1 /\ a <= m /\ m + 1 <= b /\ m \in Nat
    BY <1>1
  <2>2. /\ program[m].chars = Cs(m) /\ Len(Cs(m)) \in Nat /\ Start(m) \in Nat
        /\ Start(m + 1) = Start(m) + Len(Cs(m))
        /\ \A k \in 1 .. Len(Cs(m)) : Char(Start(m) + k - 1) = Cs(m)[k]
    BY <2>1, TokenFacts
  <2>3. Start(a) <= Start(m)
    BY <2>1, StartsInOrder
  <2>4. Start(m + 1) <= Start(b)
    BY <2>1, StartsInOrder
  <2>5. PICK p : p = Start(m) + n - 1
    OBVIOUS
  <2>6. p \in r.start .. r.end - 1
    BY <1>1, <2>2, <2>3, <2>4, <2>5
  <2>7. Char(p) \in Blank
    BY <1>2, <2>6 DEF OnlyBlank
  <2> QED BY <2>2, <2>5, <2>7
<1>3. ASSUME \A m \in a .. b - 1 : \A n \in 1 .. Len(program[m].chars) : program[m].chars[n] \in Blank,
             NEW p \in r.start .. r.end - 1
      PROVE  Char(p) \in Blank
  <2>1. PICK m \in a .. b - 1 : m \in 1 .. Size /\ p \in Start(m) .. Start(m + 1) - 1
    BY Located
  <2>2. PICK n : n = p - Start(m) + 1
    OBVIOUS
  <2>3. n \in 1 .. Len(Cs(m)) /\ Char(p) = Cs(m)[n]
    BY <2>1, <2>2, WithinToken
  <2>4. program[m].chars = Cs(m)
    BY <2>1, TokenFacts
  <2> QED BY <1>3, <2>3, <2>4
<1> QED BY <1>2, <1>3 DEF OnlyBlank

AllBlank(k) == \A n \in 1 .. Len(program[k].chars) : program[k].chars[n] \in Blank

LEMMA InRunAre ==
    ASSUME NEW i, NEW j, SameRun(i, j), NEW k \in i .. j
    PROVE  program[k].doc = "line" \/ (program[k].kind = "code" /\ AllBlank(k))
BY DEF SameRun, AllBlank

(* A run that is not joined by the next region is at its end.              *)
LEMMA NotJoined ==
    ASSUME RegionsInv, NEW e \in 1 .. Size + 1, AtRegion(e, at), e > 1, program[e - 1].doc = "line", ~Joined
    PROVE  RunEnds(e - 1)
<1>1. FileInv /\ Size \in Nat /\ e \in Nat /\ e - 1 \in 1 .. Size /\ e - 1 \in Nat /\ Len(regions) \in Nat /\ (e - 1) + 1 = e
  <2>1. FileInv /\ Len(regions) \in Nat
    BY DEF RegionsInv, IndInv, TilesUpTo
  <2>2. Size \in Nat /\ e \in Nat
    BY <2>1, FileFacts
  <2> QED BY <2>1, <2>2
<1> SUFFICES ASSUME NEW u \in e .. Size, program[u].doc = "line", SameRun(e - 1, u)
             PROVE  FALSE
  BY <1>1 DEF RunEnds
<1>2. u \in Nat /\ u \in 1 .. Size /\ e \in 1 .. Size /\ e \in e - 1 .. u /\ e - 1 \in 1 .. Size - 1
  BY <1>1
(* Token e is code, for a line of the run ended before it.                 *)
<1>3. program[e].kind = "code"
  <2>1. MayFollow(program[e - 1], program[e])
    <3>1. MayFollow(program[e - 1], program[(e - 1) + 1])
      BY <1>1, <1>2, FileFacts DEF Proper, Size
    <3> QED BY <1>1, <3>1
  <2>2. program[e - 1].kind = "line"
    BY <1>1, DocKinds
  <2>3. First(program[e]) = NL
    BY <2>1, <2>2 DEF MayFollow
  <2>4. Cs(e)[1] # "/"
    <3>1. First(program[e]) = Cs(e)[1]
      BY <1>1, <1>2, TokenFacts
    <3>2. NL # "/"
      BY DEF NL
    <3> QED BY <2>3, <3>1, <3>2
  <2>5. program[e].doc # "line"
    BY <1>1, <1>2, <2>4, DocKinds, LineToken
  <2> QED BY <1>2, <2>5, InRunAre
<1>4. e < u
  <2>1. e # u
    BY <1>1, <1>2, <1>3, DocKinds
  <2> QED BY <1>1, <1>2, <2>1
<1>5. at \in 1 .. Len(regions)
  <2>1. e # Size + 1
    BY <1>1, <1>2
  <2> QED BY <2>1 DEF AtRegion
<1>6. PICK b \in 1 .. Size + 1 : Covers(regions[at], e, b) /\ AtRegion(b, at + 1)
  BY <1>5, CoversFrom
<1>7. /\ regions[at].kind = "code" /\ AllCode(e, b) /\ Borders(e, b) /\ e < b
      /\ regions[at].start = Start(e) /\ regions[at].end = Start(b)
  BY <1>3, <1>6 DEF Covers
<1>8. b <= u /\ b \in 1 .. Size /\ b \in Nat
  <2>1. ~(u < b)
    <3> SUFFICES ASSUME u < b PROVE FALSE
      OBVIOUS
    <3>1. u \in e .. b - 1
      BY <1>1, <1>2
    <3> QED BY <1>1, <1>2, <1>7, <3>1, DocKinds DEF AllCode
  <2> QED BY <1>1, <1>2, <2>1
<1>9. program[b].doc = "line"
  <2>1. b # Size + 1
    BY <1>1, <1>8
  <2>2. program[b].kind # "code"
    BY <1>7, <2>1 DEF Borders
  <2>3. b \in e - 1 .. u
    BY <1>1, <1>2, <1>7, <1>8
  <2> QED BY <2>2, <2>3, InRunAre
<1>10. OnlyBlank(regions[at])
  <2>1. ASSUME NEW m \in e .. b - 1
        PROVE  \A n \in 1 .. Len(program[m].chars) : program[m].chars[n] \in Blank
    <3>1. m \in e - 1 .. u /\ m \in 1 .. Size
      BY <1>1, <1>2, <1>8
    <3>2. program[m].doc # "line"
      BY <1>1, <1>7, <3>1, DocKinds DEF AllCode
    <3> QED BY <3>1, <3>2, InRunAre DEF AllBlank
  <2> QED BY <1>1, <1>2, <1>7, <2>1, BlankAsTokens
<1>11. at + 1 \in 1 .. Len(regions)
  <2>1. b # Size + 1
    BY <1>1, <1>8
  <2> QED BY <1>6, <2>1 DEF AtRegion
<1>12. IsLineDoc(regions[at + 1])
  <2>1. PICK c \in 1 .. Size + 1 : Covers(regions[at + 1], b, c)
    BY <1>6, <1>11, CoversFrom
  <2>2. c = b + 1
    <3>1. program[b].kind # "code"
      BY <1>1, <1>8, <1>9, DocKinds
    <3>2. b \in b .. c - 1
      BY <1>8, <2>1 DEF Covers
    <3> QED BY <2>1, <3>1, <3>2 DEF Covers, AllCode
  <2> QED BY <1>1, <1>9, <2>1, <2>2, ReadAsTold
<1>13. at + 1 <= Len(regions)
  BY <1>1, <1>11
<1> QED BY <1>7, <1>10, <1>12, <1>13 DEF Joined

GroupInv ==
    /\ phase \in {"Lex", "Group", "Done"} /\ inRun \in BOOLEAN
    /\ phase = "Lex" => at = 1 /\ inRun = FALSE /\ docs = <<>>
    /\ phase # "Lex" => \E e \in 1 .. Size + 1 : AtRegion(e, at) /\ Grouped(e, docs, inRun)
    /\ phase = "Done" => inRun = FALSE /\ at = Len(regions) + 1

LEMMA SameGroups ==
    ASSUME program' = program, regions' = regions
    PROVE  /\ Size' = Size
           /\ \A e : AtRegion(e, at)' <=> AtRegion(e, at')
           /\ \A e : Grouped(e, docs, inRun)' <=> Grouped(e, docs', inRun')
<1>1. Size' = Size
  BY DEF Size
<1>2. ASSUME NEW e PROVE AtRegion(e, at)' <=> AtRegion(e, at')
  BY DEF AtRegion, Size, Start
<1>3. ASSUME NEW e PROVE Grouped(e, docs, inRun)' <=> Grouped(e, docs', inRun')
  BY DEF Grouped, DocSpan, OneRead, RunBegins, RunEnds, SameRun, Reads, DocTokens, Size, Start
<1> QED BY <1>1, <1>2, <1>3

(* _doc_spans begins with the first region and nothing read.               *)
LEMMA GroupingBegins ==
    IndInv /\ LexedInv /\ phase = "Group" /\ at = 1 /\ inRun = FALSE /\ docs = <<>> => GroupInv
<1> SUFFICES ASSUME IndInv, LexedInv, phase = "Group", at = 1, inRun = FALSE, docs = <<>> PROVE GroupInv
  OBVIOUS
<1>1. FileInv
  BY DEF LexedInv
<1>2. Size \in Nat \ {0} /\ Start(1) = 1 /\ Start(Size + 1) = End /\ 1 \in 1 .. Size + 1 /\ Size + 1 \in 1 .. Size + 1
  BY <1>1, FileFacts
<1>3. AtRegion(1, at)
  <2>1. Len(regions) \in Nat /\ regions \in Seq(RegionType)
    BY DEF IndInv, TilesUpTo
  <2>2. CASE regions = <<>>
    <3>1. End = 1
      BY <2>2 DEF IndInv, TilesUpTo
    <3>2. 1 = Size + 1
      <4>1. Start(1) = Start(Size + 1)
        BY <1>2, <3>1
      <4> QED BY <1>1, <1>2, <4>1, StartsInOrder
    <3> QED BY <1>2, <3>2
  <2>3. CASE regions # <<>>
    <3>1. 1 \in 1 .. Len(regions)
      BY <2>1, <2>3
    <3>2. regions[1].start = 1
      BY <3>1 DEF IndInv, TilesUpTo
    <3> QED BY <1>2, <3>1, <3>2 DEF AtRegion
  <2> QED BY <2>2, <2>3
<1>4. Grouped(1, docs, inRun)
  <2>1. docs \in Seq(SpanType) /\ Len(docs) = 0
    OBVIOUS
  <2>2. \A t \in DocTokens : ~(t < 1)
    BY <1>2 DEF DocTokens, Size
  <2> QED BY <2>1, <2>2 DEF Grouped
<1> QED BY <1>2, <1>3, <1>4 DEF GroupInv

LEMMA DocStep ==
    ASSUME RegionsInv, DocSpans, inRun \in BOOLEAN,
           NEW e \in 1 .. Size + 1, AtRegion(e, at), Grouped(e, docs, inRun)
    PROVE  \E f \in 1 .. Size + 1 : AtRegion(f, at') /\ Grouped(f, docs', inRun')
<1>1. FileInv /\ Len(regions) \in Nat /\ Size \in Nat /\ at \in Nat
  <2>1. FileInv /\ Len(regions) \in Nat
    BY DEF RegionsInv, IndInv, TilesUpTo
  <2>2. Size \in Nat
    BY <2>1, FileFacts
  <2> QED BY <2>1, <2>2 DEF AtRegion
<1>2. ASSUME NEW n \in 1 .. Size, program[n].kind = "code" PROVE n \notin DocTokens
  BY <1>1, <1>2, DocKinds DEF DocTokens
<1>3. CASE (TakeBlockDoc \/ StartRun)
  <2>1. /\ inRun = FALSE /\ at \in 1 .. Len(regions) /\ at' = at + 1
        /\ docs' = Append(docs, Span(regions[at]))
        /\ IF IsLineDoc(regions[at]) THEN inRun' = TRUE ELSE IsBlockDoc(regions[at]) /\ inRun' = FALSE
    BY <1>1, <1>3 DEF TakeBlockDoc, StartRun, Grouping, AtRegion, IsLineDoc, IsBlockDoc
  <2>2. PICK b \in 1 .. Size + 1 : Covers(regions[at], e, b) /\ AtRegion(b, at + 1)
    BY <2>1, CoversFrom
  <2>3. /\ e \in 1 .. Size
        /\ IsLineDoc(regions[at]) <=> b = e + 1 /\ program[e].doc = "line"
        /\ IsBlockDoc(regions[at]) <=> b = e + 1 /\ program[e].doc = "block"
    BY <1>1, <2>2, ReadAsTold
  <2>4. b = e + 1 /\ program[e].doc # "none" /\ inRun' = (program[e].doc = "line")
    BY <2>1, <2>3
  <2>5. Span(regions[at]) = [start |-> Start(e), end |-> Start(e + 1)]
    BY <2>2, <2>4 DEF Span, Covers
  <2>6. Grouped(e, docs, FALSE)
    BY <2>1
  <2>7. docs' = Append(docs, [start |-> Start(e), end |-> Start(e + 1)])
    BY <2>1, <2>5
  <2>8. Grouped(e + 1, docs', program[e].doc = "line")
    BY <1>1, <2>3, <2>4, <2>6, <2>7, GroupTakes
  <2>9. Grouped(e + 1, docs', inRun')
    BY <2>4, <2>8
  <2> QED BY <2>1, <2>2, <2>4, <2>9
<1>4. CASE ExtendRun
  <2>1. /\ inRun = TRUE /\ inRun' = inRun /\ at \in 1 .. Len(regions) /\ at + 1 \in 1 .. Len(regions) /\ at' = at + 2
        /\ regions[at].kind = "code" /\ OnlyBlank(regions[at]) /\ IsLineDoc(regions[at + 1])
        /\ docs' = [docs EXCEPT ![Len(docs)].end = regions[at + 1].end]
    BY <1>1, <1>4 DEF ExtendRun, Grouping, Joined, AtRegion
  <2>2. PICK b \in 1 .. Size + 1 : Covers(regions[at], e, b) /\ AtRegion(b, at + 1)
    BY <2>1, CoversFrom
  <2>3. PICK c \in 1 .. Size + 1 : Covers(regions[at + 1], b, c) /\ AtRegion(c, (at + 1) + 1)
    BY <2>1, <2>2, CoversFrom
  <2>4. b \in 1 .. Size /\ c = b + 1 /\ program[b].doc = "line"
    BY <1>1, <2>1, <2>3, ReadAsTold
  <2>5. AllCode(e, b) /\ e < b /\ regions[at].start = Start(e) /\ regions[at].end = Start(b)
    <3>1. e \in 1 .. Size
      BY <1>1, <2>2, ReadAsTold
    <3>2. program[e].kind \in {"code", "line", "block"}
      BY <1>1, <3>1, DocKinds
    <3> QED BY <2>1, <2>2 DEF Covers
  <2>6. SameRun(e, b) /\ \A m \in e .. b - 1 : m \notin DocTokens
    <3>1. \A m \in e .. b - 1 : \A n \in 1 .. Len(program[m].chars) : program[m].chars[n] \in Blank
      BY <1>1, <2>1, <2>5, BlankAsTokens
    <3>2. \A m \in e .. b : m = b \/ m \in e .. b - 1
      BY <1>1
    <3>3. \A m \in e .. b - 1 : m \in 1 .. Size
      BY <1>1
    <3>4. SameRun(e, b)
      BY <2>4, <2>5, <3>1, <3>2 DEF SameRun, AllCode
    <3>5. \A m \in e .. b - 1 : m \notin DocTokens
      BY <1>2, <2>5, <3>3 DEF AllCode
    <3> QED BY <3>4, <3>5
  <2>7. docs' = [docs EXCEPT ![Len(docs)].end = Start(b + 1)]
    BY <2>1, <2>3, <2>4 DEF Covers
  <2>8. Grouped(e, docs, TRUE)
    BY <2>1
  <2>9. e <= b
    BY <1>1, <2>5
  <2>10. Grouped(b + 1, docs', TRUE)
    BY <1>1, <2>4, <2>6, <2>7, <2>8, <2>9, GroupGrows
  <2>11. Grouped(b + 1, docs', inRun')
    BY <2>1, <2>10
  <2>12. (at + 1) + 1 = at'
    BY <1>1, <2>1
  <2> QED BY <2>3, <2>4, <2>11, <2>12
<1>5. CASE EndRun
  <2>1. inRun = TRUE /\ inRun' = FALSE /\ at' = at /\ docs' = docs /\ ~Joined
    BY <1>5 DEF EndRun
  <2>2. Grouped(e, docs, TRUE)
    BY <2>1
  <2>3. e > 1 /\ program[e - 1].doc = "line"
    BY <2>2 DEF Grouped
  <2>4. RunEnds(e - 1)
    BY <2>1, <2>3, NotJoined
  <2>5. Grouped(e, docs, FALSE)
    BY <1>1, <2>2, <2>4, GroupCloses
  <2>6. Grouped(e, docs', inRun')
    BY <2>1, <2>5
  <2> QED BY <2>1, <2>6
<1>6. CASE SkipRegion
  <2>1. /\ inRun = FALSE /\ inRun' = inRun /\ at \in 1 .. Len(regions) /\ at' = at + 1 /\ docs' = docs
        /\ ~IsBlockDoc(regions[at]) /\ ~IsLineDoc(regions[at])
    BY <1>1, <1>6 DEF SkipRegion, Grouping, AtRegion
  <2>2. PICK b \in 1 .. Size + 1 : Covers(regions[at], e, b) /\ AtRegion(b, at + 1)
    BY <2>1, CoversFrom
  <2>3. \A m \in e .. b - 1 : m \notin DocTokens
    <3>1. CASE AllCode(e, b)
      <4>1. \A m \in e .. b - 1 : m \in 1 .. Size
        BY <1>1
      <4> QED BY <1>2, <3>1, <4>1 DEF AllCode
    <3>2. CASE b = e + 1
      <4>1. e \in 1 .. Size /\ program[e].doc # "line" /\ program[e].doc # "block"
        BY <1>1, <2>1, <2>2, <3>2, ReadAsTold
      <4>2. program[e].doc = "none"
        BY <1>1, <4>1, DocKinds
      <4>3. \A m \in e .. b - 1 : m = e
        BY <1>1, <3>2
      <4> QED BY <4>2, <4>3 DEF DocTokens
    <3> QED BY <2>2, <3>1, <3>2 DEF Covers
  <2>4. e <= b
    BY <1>1, <2>2 DEF Covers
  <2>5. Grouped(e, docs, FALSE)
    BY <2>1
  <2>6. Grouped(b, docs, FALSE)
    BY <1>1, <2>3, <2>4, <2>5, GroupSkips
  <2>7. Grouped(b, docs', inRun')
    BY <2>1, <2>6
  <2> QED BY <2>1, <2>2, <2>7
<1>7. CASE FinishDocs
  <2>1. at' = at /\ docs' = docs /\ inRun' = inRun
    BY <1>7 DEF FinishDocs, grouping
  <2> QED BY <2>1
<1> QED BY <1>3, <1>4, <1>5, <1>6, <1>7 DEF DocSpans

LEMMA GroupKeeps ==
    IndInv /\ LexedInv /\ GroupInv /\ IndInv' /\ LexedInv' /\ [Next]_vars => GroupInv'
<1> SUFFICES ASSUME IndInv, LexedInv, GroupInv, IndInv', LexedInv', [Next]_vars PROVE GroupInv'
  OBVIOUS
<1>1. CASE UNCHANGED vars
  BY <1>1 DEF vars, file, lexing, grouping, GroupInv, AtRegion, Grouped, DocSpan, OneRead, RunBegins, RunEnds,
              SameRun, Reads, DocTokens, Size, Start
<1>2. CASE DocSpans
  <2>1. phase = "Group" /\ program' = program /\ regions' = regions /\ phase' \in {"Group", "Done"}
    BY <1>2 DEF DocSpans, TakeBlockDoc, StartRun, ExtendRun, EndRun, SkipRegion, FinishDocs, Grouping, file, lexing
  <2>2. RegionsInv
    BY <2>1 DEF RegionsInv, LexedInv
  <2>3. PICK e \in 1 .. Size + 1 : AtRegion(e, at) /\ Grouped(e, docs, inRun)
    BY <2>1 DEF GroupInv
  <2>4. \E f \in 1 .. Size + 1 : AtRegion(f, at') /\ Grouped(f, docs', inRun')
    BY <1>2, <2>2, <2>3, DocStep DEF GroupInv
  <2>5. \E f \in 1 .. Size' + 1 : AtRegion(f, at)' /\ Grouped(f, docs, inRun)'
    BY <2>1, <2>4, SameGroups
  <2>6. inRun' \in BOOLEAN
    BY <1>2 DEF GroupInv, DocSpans, TakeBlockDoc, StartRun, ExtendRun, EndRun, SkipRegion, FinishDocs, grouping
  <2>7. phase' = "Done" => inRun' = FALSE /\ at' = Len(regions') + 1
    <3> SUFFICES ASSUME phase' = "Done" PROVE inRun' = FALSE /\ at' = Len(regions') + 1
      OBVIOUS
    <3>1. FinishDocs
      BY <1>2, <2>1 DEF DocSpans, TakeBlockDoc, StartRun, ExtendRun, EndRun, SkipRegion
    <3>2. inRun' = FALSE /\ at' = at /\ at > Len(regions) /\ Len(regions) \in Nat
      BY <3>1 DEF FinishDocs, grouping, GroupInv, IndInv, TilesUpTo
    <3> QED BY <2>1, <2>3, <3>2 DEF AtRegion
  <2> QED BY <2>1, <2>5, <2>6, <2>7 DEF GroupInv
<1>3. CASE LexStep
  <2>1. /\ phase = "Lex" /\ phase' \in {"Lex", "Group"}
        /\ at' = at /\ inRun' = inRun /\ docs' = docs
    BY <1>3 DEF LexStep, SkipQuoted, Regions, SkipEscaped, CloseLiteral, NoCharacterLiteral, InsideLiteral,
                LiteralAtEnd, InLiteral, RawString, OpenLiteral, LineComment, BlockComment, TakeComment, Advance,
                Lexing, FinishRegions, grouping
  <2>2. at' = 1 /\ inRun' = FALSE /\ docs' = <<>>
    BY <2>1 DEF GroupInv
  <2>3. CASE phase' = "Lex"
    BY <2>2, <2>3 DEF GroupInv
  <2>4. CASE phase' = "Group"
    <3>1. (IndInv /\ LexedInv /\ phase = "Group" /\ at = 1 /\ inRun = FALSE /\ docs = <<>> => GroupInv)'
      BY GroupingBegins, PTL
    <3> QED BY <2>2, <2>4, <3>1
  <2> QED BY <2>1, <2>3, <2>4
<1> QED BY <1>1, <1>2, <1>3 DEF Next, LexStep

LEMMA GroupBegins == Init => GroupInv
BY DEF Init, GroupInv

(* The documentation comments read as one are those of its tokens.         *)
LEMMA DocumentsAre ==
    ASSUME FileInv, NEW i \in 1 .. Size, NEW j \in 1 .. Size, i <= j, OneRead(i, j),
           NEW d, d.start = Start(i), d.end = Start(j + 1)
    PROVE  /\ Documents(d) = {k \in DocTokens : i <= k /\ k <= j}
           /\ i \in DocTokens
<1>1. Size \in Nat /\ Proper(program) /\ i \in Nat /\ j \in Nat
  BY FileFacts
<1>2. \A k \in 1 .. Size : /\ k \in Nat /\ k \in 1 .. Size + 1 /\ k + 1 \in 1 .. Size + 1
                           /\ TokenSpan(k) = [start |-> Start(k), end |-> Start(k + 1)]
                           /\ (program[k].kind = "code" => program[k].doc = "none")
  <2> SUFFICES ASSUME NEW k \in 1 .. Size
               PROVE  /\ k \in Nat /\ k \in 1 .. Size + 1 /\ k + 1 \in 1 .. Size + 1
                      /\ TokenSpan(k) = [start |-> Start(k), end |-> Start(k + 1)]
                      /\ (program[k].kind = "code" => program[k].doc = "none")
    OBVIOUS
  <2>1. k \in Nat /\ k \in 1 .. Size + 1 /\ k + 1 \in 1 .. Size + 1
    BY <1>1
  <2>2. Begins(program, k) = Start(k) /\ Start(k + 1) = Start(k) + Len(program[k].chars)
    BY <1>1 DEF Proper, Start, Size, Chars
  <2>3. TokenSpan(k) = [start |-> Start(k), end |-> Start(k + 1)]
    BY <2>2 DEF TokenSpan
  <2>4. program[k].kind = "code" => program[k].doc = "none"
    BY DocKinds
  <2> QED BY <2>1, <2>3, <2>4
<1>3. \A k \in 1 .. Size : (d.start <= TokenSpan(k).start /\ TokenSpan(k).end <= d.end) <=> (i <= k /\ k <= j)
  <2> SUFFICES ASSUME NEW k \in 1 .. Size
               PROVE  (d.start <= TokenSpan(k).start /\ TokenSpan(k).end <= d.end) <=> (i <= k /\ k <= j)
    OBVIOUS
  <2>1. TokenSpan(k).start = Start(k) /\ TokenSpan(k).end = Start(k + 1)
    BY <1>2
  <2>2. i <= k <=> Start(i) <= Start(k)
    BY <1>2, StartsInOrder
  <2>3. k + 1 <= j + 1 <=> Start(k + 1) <= Start(j + 1)
    BY <1>2, StartsInOrder
  <2>4. k <= j <=> k + 1 <= j + 1
    BY <1>1, <1>2
  <2> QED BY <2>1, <2>2, <2>3, <2>4
<1>4. ASSUME NEW k \in 1 .. Size, i <= k, k <= j, program[k].kind # "code" PROVE program[k].doc # "none"
  <2>1. CASE i = j /\ program[i].doc = "block"
    <3>1. k = i
      BY <1>1, <1>2, <1>4, <2>1
    <3> QED BY <2>1, <3>1
  <2>2. CASE program[i].doc = "line" /\ program[j].doc = "line" /\ SameRun(i, j)
    <3>1. k \in i .. j
      BY <1>1, <1>2, <1>4
    <3>2. program[k].doc = "line" \/ (program[k].kind = "code" /\ AllBlank(k))
      BY <2>2, <3>1, InRunAre
    <3> QED BY <1>4, <3>2
  <2> QED BY <2>1, <2>2 DEF OneRead
<1>5. Documents(d) = {k \in DocTokens : i <= k /\ k <= j}
  <2>1. \A k : k \in Documents(d) <=> k \in 1 .. Size /\ program[k].kind # "code" /\ i <= k /\ k <= j
    BY <1>3 DEF Documents, CommentTokens, Size
  <2>2. \A k : k \in DocTokens <=> k \in 1 .. Size /\ program[k].doc # "none"
    BY DEF DocTokens, Size
  <2> QED BY <1>2, <1>4, <2>1, <2>2
<1>6. i \in DocTokens
  BY DEF OneRead, DocTokens, Size
<1> QED BY <1>5, <1>6

(* A run read to both its ends holds, of the comments that document, those *)
(* that are of one run with any of its lines.                              *)
LEMMA WholeRun ==
    ASSUME FileInv, NEW i \in 1 .. Size, NEW j \in 1 .. Size, i <= j, OneRead(i, j), RunBegins(i), RunEnds(j),
           NEW t \in DocTokens, i <= t, t <= j, NEW u \in DocTokens
    PROVE  (i <= u /\ u <= j) <=> (u = t \/ (u < t /\ SameRun(u, t)) \/ (t < u /\ SameRun(t, u)))
<1>1. /\ Size \in Nat /\ i \in Nat /\ j \in Nat /\ t \in 1 .. Size /\ u \in 1 .. Size /\ t \in Nat /\ u \in Nat
      /\ program[u].doc # "none" /\ program[t].doc # "none"
  BY FileFacts DEF DocTokens, Size
<1>2. /\ program[t].doc = "line" => program[t].kind = "line"
      /\ program[t].doc = "block" => program[t].kind = "block"
  BY <1>1, DocKinds
<1>3. program[u].kind = "code" => program[u].doc = "none"
  BY <1>1, DocKinds
<1>4. CASE i = j /\ program[i].doc = "block"
  <2>1. t = i /\ program[t].doc = "block" /\ program[t].kind = "block"
    BY <1>1, <1>2, <1>4
  <2>2. ~(u < t /\ SameRun(u, t))
    <3> SUFFICES ASSUME u < t, SameRun(u, t) PROVE FALSE
      OBVIOUS
    <3>1. t \in u .. t
      BY <1>1
    <3>2. program[t].doc = "line" \/ (program[t].kind = "code" /\ AllBlank(t))
      BY <3>1, InRunAre
    <3> QED BY <2>1, <3>2
  <2>3. ~(t < u /\ SameRun(t, u))
    <3> SUFFICES ASSUME t < u, SameRun(t, u) PROVE FALSE
      OBVIOUS
    <3>1. t \in t .. u
      BY <1>1
    <3>2. program[t].doc = "line" \/ (program[t].kind = "code" /\ AllBlank(t))
      BY <3>1, InRunAre
    <3> QED BY <2>1, <3>2
  <2> QED BY <1>1, <1>4, <2>1, <2>2, <2>3
<1>5. CASE program[i].doc = "line" /\ program[j].doc = "line" /\ SameRun(i, j)
  <2>1. ASSUME i <= u, u <= j PROVE u = t \/ (u < t /\ SameRun(u, t)) \/ (t < u /\ SameRun(t, u))
    <3>1. CASE u < t
      <4>1. SameRun(u, t)
        BY <1>1, <1>5, <2>1, PartOfRun
      <4> QED BY <3>1, <4>1
    <3>2. CASE t < u
      <4>1. SameRun(t, u)
        BY <1>1, <1>5, <2>1, PartOfRun
      <4> QED BY <3>2, <4>1
    <3> QED BY <1>1, <3>1, <3>2
  <2>2. ASSUME u < t, SameRun(u, t) PROVE i <= u
    <3> SUFFICES ASSUME ~(i <= u) PROVE FALSE
      OBVIOUS
    <3>1. u \in u .. t /\ u \in 1 .. i - 1
      BY <1>1, <2>2
    <3>2. program[u].doc = "line"
      BY <1>1, <1>3, <2>2, <3>1, InRunAre
    <3>3. SameRun(u, i)
      BY <1>1, <2>2, PartOfRun
    <3> QED BY <1>5, <3>1, <3>2, <3>3 DEF RunBegins
  <2>3. ASSUME t < u, SameRun(t, u) PROVE u <= j
    <3> SUFFICES ASSUME ~(u <= j) PROVE FALSE
      OBVIOUS
    <3>1. u \in t .. u /\ u \in j + 1 .. Size
      BY <1>1, <2>3
    <3>2. program[u].doc = "line"
      BY <1>1, <1>3, <2>3, <3>1, InRunAre
    <3>3. SameRun(j, u)
      BY <1>1, <2>3, PartOfRun
    <3> QED BY <1>5, <3>1, <3>2, <3>3 DEF RunEnds
  <2> QED BY <1>1, <2>1, <2>2, <2>3
<1> QED BY <1>4, <1>5 DEF OneRead

LEMMA RunsAreRead ==
    ASSUME IndInv, LexedInv, GroupInv, phase = "Done"
    PROVE  RunsReadTogether
<1>1. FileInv /\ RegionsInv /\ Size \in Nat
  BY FileFacts DEF LexedInv, RegionsInv
<1>2. Grouped(Size + 1, docs, FALSE)
  <2>1. inRun = FALSE /\ at = Len(regions) + 1 /\ Len(regions) \in Nat
    BY DEF GroupInv, IndInv, TilesUpTo
  <2>2. PICK e \in 1 .. Size + 1 : AtRegion(e, at) /\ Grouped(e, docs, inRun)
    BY DEF GroupInv
  <2>3. e = Size + 1
    BY <2>1, <2>2 DEF AtRegion
  <2> QED BY <2>1, <2>2, <2>3
<1>3. ASSUME NEW d \in 1 .. Len(docs)
      PROVE  \E i, j \in 1 .. Size :
                /\ i <= j /\ docs[d].start = Start(i) /\ docs[d].end = Start(j + 1)
                /\ OneRead(i, j) /\ RunBegins(i) /\ RunEnds(j)
  <2>1. DocSpan(docs[d], Size + 1, FALSE /\ d = Len(docs))
    BY <1>2 DEF Grouped
  <2>2. (FALSE /\ d = Len(docs)) = FALSE
    OBVIOUS
  <2>3. DocSpan(docs[d], Size + 1, FALSE)
    BY <2>1, <2>2
  <2> QED BY <2>3 DEF DocSpan
<1>4. ASSUME NEW d \in 1 .. Len(docs)
      PROVE  Documents(docs[d]) # {} /\ Documents(docs[d]) \subseteq DocTokens
  <2>1. PICK i, j \in 1 .. Size :
            /\ i <= j /\ docs[d].start = Start(i) /\ docs[d].end = Start(j + 1)
            /\ OneRead(i, j) /\ RunBegins(i) /\ RunEnds(j)
    BY <1>3
  <2>2. Documents(docs[d]) = {k \in DocTokens : i <= k /\ k <= j} /\ i \in DocTokens
    BY <1>1, <2>1, DocumentsAre
  <2>3. i <= i
    BY <1>1
  <2> QED BY <2>1, <2>2, <2>3
<1>5. ASSUME NEW t \in DocTokens
      PROVE  \E d \in 1 .. Len(docs) :
                Documents(docs[d]) =
                    {u \in DocTokens : u = t \/ (u < t /\ SameRun(u, t)) \/ (t < u /\ SameRun(t, u))}
  <2>1. t \in 1 .. Size /\ t \in Nat /\ t < Size + 1 /\ t \in 1 .. Size + 1 /\ t + 1 \in 1 .. Size + 1
    BY <1>1 DEF DocTokens, Size
  <2>2. Reads(docs, t)
    BY <1>2, <2>1 DEF Grouped
  <2>3. PICK d \in 1 .. Len(docs) : docs[d].start <= Start(t) /\ Start(t + 1) <= docs[d].end
    BY <2>2 DEF Reads
  <2>4. PICK i, j \in 1 .. Size :
            /\ i <= j /\ docs[d].start = Start(i) /\ docs[d].end = Start(j + 1)
            /\ OneRead(i, j) /\ RunBegins(i) /\ RunEnds(j)
    BY <1>3
  <2>5. i \in 1 .. Size + 1 /\ j + 1 \in 1 .. Size + 1 /\ i \in Nat /\ j \in Nat
    BY <1>1
  <2>6. i <= t
    BY <1>1, <2>1, <2>3, <2>4, <2>5, StartsInOrder
  <2>7. t + 1 <= j + 1
    BY <1>1, <2>1, <2>3, <2>4, <2>5, StartsInOrder
  <2>8. t <= j
    BY <2>1, <2>5, <2>7
  <2>9. Documents(docs[d]) = {k \in DocTokens : i <= k /\ k <= j}
    BY <1>1, <2>4, DocumentsAre
  <2>10. \A u \in DocTokens :
            (i <= u /\ u <= j) <=> (u = t \/ (u < t /\ SameRun(u, t)) \/ (t < u /\ SameRun(t, u)))
    BY <1>1, <2>4, <2>6, <2>8, WholeRun
  <2> QED BY <2>9, <2>10
<1> QED BY <1>4, <1>5 DEF RunsReadTogether

(* Lines of one run, and only those, are read as one (RunsReadTogether).   *)
THEOREM RunsAlwaysTogether == Spec => []RunsReadTogether
<1>1. Init => IndInv /\ LexedInv /\ GroupInv
  BY TilesBegin, LexedBegins, GroupBegins
<1>2. IndInv /\ LexedInv /\ GroupInv /\ [Next]_vars => (IndInv /\ LexedInv /\ GroupInv)'
  BY TilesKeep, LexedKeeps, GroupKeeps
<1>3. IndInv /\ LexedInv /\ GroupInv => RunsReadTogether
  <2>1. CASE phase # "Done"
    BY <2>1 DEF RunsReadTogether
  <2>2. CASE phase = "Done"
    BY <2>2, RunsAreRead
  <2> QED BY <2>1, <2>2
<1> QED BY <1>1, <1>2, <1>3, PTL DEF Spec

-----------------------------------------------------------------------------
(* Comments.                                                               *)

Entry == [number : Nat, blank : BOOLEAN, indented : BOOLEAN]

FlatFields == {"brief", "returns", "page", "details"}
ListFields == {"param", "tparam", "note", "warning", "pre", "post"}

DocType ==
    {d \in [FlatFields \union ListFields -> Seq(Entry) \union Seq(Seq(Entry))] :
        /\ \A f \in FlatFields : d[f] \in Seq(Entry)
        /\ \A f \in ListFields : d[f] \in Seq(Seq(Entry))}

CommentTypeInv ==
    /\ lines \in Seq(Lines) /\ doc \in DocType
    /\ toDetails \in BOOLEAN /\ inFence \in BOOLEAN /\ finished \in BOOLEAN

(* The code's in_fence is whether an odd number of fences was read.        *)
FenceInv == inFence <=> FencesUpTo(Len(lines)) % 2 = 1

LEMMA Longer ==
    ASSUME NEW S, NEW s \in Seq(S), NEW x \in S
    PROVE  LET t == Append(s, x) IN
           /\ t \in Seq(S) /\ Len(s) \in Nat /\ Len(t) = Len(s) + 1
           /\ \A i \in 1 .. Len(s) : t[i] = s[i]
           /\ t[Len(s) + 1] = x
OBVIOUS

(* The number of fences among the lines read grows with each fence.        *)
LEMMA FencesCount ==
    ASSUME CommentTypeInv, NEW line \in Lines, lines' = Append(lines, line),
           NEW n, n = Len(lines)
    PROVE  /\ n \in Nat /\ lines' \in Seq(Lines) /\ Len(lines') = n + 1
           /\ \A m \in 1 .. n : lines'[m] = lines[m]
           /\ lines'[n + 1] = line
           /\ \A m \in 0 .. n : FencesUpTo(m) \in Nat /\ FencesUpTo(m)' = FencesUpTo(m)
           /\ FencesUpTo(n + 1)' = FencesUpTo(n) + (IF line.tag = "fence" THEN 1 ELSE 0)
<1> DEFINE fences(m) == {k \in 1 .. m : lines[k].tag = "fence"}
           Fences(m) == {k \in 1 .. m : lines'[k].tag = "fence"}
<1>1. /\ n \in Nat /\ lines' \in Seq(Lines) /\ Len(lines') = n + 1
      /\ \A m \in 1 .. n : lines'[m] = lines[m]
      /\ lines'[n + 1] = line
  BY Longer DEF CommentTypeInv
<1>2. \A m \in Nat : IsFiniteSet(fences(m)) /\ Cardinality(fences(m)) \in Nat
  <2> SUFFICES ASSUME NEW m \in Nat
               PROVE  IsFiniteSet(fences(m)) /\ Cardinality(fences(m)) \in Nat
    OBVIOUS
  <2>1. IsFiniteSet(1 .. m)
    BY FS_Interval
  <2>2. IsFiniteSet(fences(m))
    BY <2>1, FS_Subset
  <2> QED BY <2>2, FS_CardinalityType
<1>3. \A m : FencesUpTo(m) = Cardinality(fences(m)) /\ FencesUpTo(m)' = Cardinality(Fences(m))
  BY DEF FencesUpTo
<1>4. \A m \in 0 .. n : Fences(m) = fences(m) /\ m \in Nat
  BY <1>1
<1>5. \A m \in 0 .. n : FencesUpTo(m) \in Nat /\ FencesUpTo(m)' = FencesUpTo(m)
  BY <1>2, <1>3, <1>4
<1>6. Fences(n + 1) = IF line.tag = "fence" THEN fences(n) \union {n + 1} ELSE fences(n)
  <2>1. 1 .. n + 1 = (1 .. n) \union {n + 1} /\ n + 1 \notin 1 .. n
    BY <1>1
  <2> QED BY <1>1, <2>1
<1>7. n + 1 \notin fences(n)
  BY <1>1
<1>8. FencesUpTo(n + 1)' = FencesUpTo(n) + (IF line.tag = "fence" THEN 1 ELSE 0)
  <2> HIDE DEF fences, Fences
  <2>1. IsFiniteSet(fences(n)) /\ Cardinality(fences(n)) \in Nat
    BY <1>1, <1>2
  <2>2. Cardinality(fences(n) \union {n + 1}) = Cardinality(fences(n)) + 1
    BY <1>7, <2>1, FS_AddElement
  <2> QED BY <1>3, <1>6, <2>1, <2>2
<1> QED BY <1>1, <1>5, <1>8

LEMMA FenceStep ==
    ASSUME CommentTypeInv, FenceInv, NEW line \in Lines, lines' = Append(lines, line),
           inFence' = (IF line.tag = "fence" THEN ~inFence ELSE inFence),
           NEW n, n = Len(lines)
    PROVE  /\ FenceInv'
           /\ \A m \in 1 .. n : InExample(m)' <=> InExample(m)
           /\ InExample(n + 1)' <=> inFence \/ line.tag = "fence"
           /\ line.tag = "fence" => (FencesUpTo(n + 1)' % 2 = 1 <=> ~inFence)
           /\ inFence => n > 0 /\ InExample(n)
<1>0. PICK c : c = FencesUpTo(n)
  OBVIOUS
<1>1. /\ n \in Nat /\ lines' \in Seq(Lines) /\ Len(lines') = n + 1
      /\ \A m \in 1 .. n : lines'[m] = lines[m]
      /\ lines'[n + 1] = line
      /\ \A m \in 0 .. n : FencesUpTo(m) \in Nat /\ FencesUpTo(m)' = FencesUpTo(m)
      /\ FencesUpTo(n + 1)' = c + (IF line.tag = "fence" THEN 1 ELSE 0)
  BY <1>0, FencesCount
<1>2. c \in Nat
  BY <1>0, <1>1
<1>3. (c + 1) % 2 = 1 <=> ~(c % 2 = 1)
  BY <1>2
<1>4. inFence \in BOOLEAN /\ (inFence <=> c % 2 = 1)
  BY <1>0 DEF CommentTypeInv, FenceInv
<1>5. inFence => n > 0 /\ InExample(n)
  <2>1. CASE n = 0
    <3>1. FencesUpTo(0) = 0
      <4>1. {m \in 1 .. 0 : lines[m].tag = "fence"} = {}
        OBVIOUS
      <4> QED BY <4>1, FS_EmptySet DEF FencesUpTo
    <3> QED BY <1>0, <1>4, <2>1, <3>1
  <2>2. CASE n # 0
    BY <1>0, <1>1, <1>4, <2>2 DEF InExample
  <2> QED BY <2>1, <2>2
<1>6. \A m \in 1 .. n : InExample(m)' <=> InExample(m)
  BY <1>1 DEF InExample
<1>7. FencesUpTo(n + 1)' % 2 = 1 <=> inFence'
  <2>1. CASE line.tag = "fence"
    <3>1. FencesUpTo(n + 1)' = c + 1
      BY <1>0, <1>1, <2>1
    <3>2. inFence' <=> ~inFence
      BY <2>1
    <3> QED BY <1>3, <1>4, <3>1, <3>2
  <2>2. CASE line.tag # "fence"
    <3>1. FencesUpTo(n + 1)' = c
      BY <1>0, <1>1, <1>2, <2>2
    <3>2. inFence' <=> inFence
      BY <2>2
    <3> QED BY <1>4, <3>1, <3>2
  <2> QED BY <2>1, <2>2
<1>8. FenceInv'
  BY <1>1, <1>7 DEF FenceInv
<1>9. InExample(n + 1)' <=> inFence \/ line.tag = "fence"
  BY <1>1, <1>7 DEF InExample
<1> QED BY <1>1, <1>4, <1>5, <1>6, <1>7, <1>8, <1>9

-----------------------------------------------------------------------------
(* An example line in the details: with its indentation, and behind the    *)
(* line before it.                                                         *)
ToldIntact(n) ==
    \E i \in 1 .. Len(doc.details) :
        /\ doc.details[i].number = n
        /\ lines[n].marked => doc.details[i].indented = lines[n].indented
        /\ (n > 1 /\ InExample(n - 1) /\ ~(lines[n].tag = "fence" /\ FencesUpTo(n) % 2 = 1)) =>
              i > 1 /\ doc.details[i - 1].number = n - 1

(* While a comment is read: an open example was told up to the last line,  *)
(* and no example leads the details without a line that is not blank.      *)
ExamplesInv ==
    /\ ExamplesIntact
    /\ \A i \in 1 .. Len(doc.details) : doc.details[i].number \in 1 .. Len(lines)
    /\ (~finished /\ inFence) =>
          /\ Len(doc.details) > 0
          /\ doc.details[Len(doc.details)].number = Len(lines)
    /\ ~finished =>
          \A i \in 1 .. Len(doc.details) : InExample(doc.details[i].number) =>
              \E j \in 1 .. i : ~doc.details[j].blank

LEMMA ContentType ==
    ASSUME NEW line \in Lines, NEW n \in Nat
    PROVE  LET c == Content(n, line) IN
           /\ line.marked \in BOOLEAN /\ line.indented \in BOOLEAN
           /\ c \in Entry /\ c.number = n /\ (c.blank <=> line.tag = "blank")
           /\ c.indented = (line.marked /\ line.indented)
<1>1. line.marked \in BOOLEAN /\ line.indented \in BOOLEAN
  BY LinesAssumption
<1>2. (line.tag = "blank") \in BOOLEAN /\ (line.marked /\ line.indented) \in BOOLEAN
  OBVIOUS
<1> QED BY <1>1, <1>2 DEF Content, Entry

LEMMA ExamplesGrow ==
    ASSUME CommentTypeInv, FenceInv, ExamplesInv, ~finished, ~finished',
           NEW line \in Lines, lines' = Append(lines, line), NEW n, n = Len(lines),
           inFence' = (IF line.tag = "fence" THEN ~inFence ELSE inFence),
           \/ doc'.details = Append(doc.details, Content(n + 1, line))
           \/ doc'.details = doc.details /\ ~inFence /\ line.tag # "fence"
    PROVE  ExamplesInv'
<1>1. /\ n \in Nat /\ Len(lines') = n + 1
      /\ \A m \in 1 .. n : lines'[m] = lines[m]
      /\ lines'[n + 1] = line
      /\ \A m \in 0 .. n : FencesUpTo(m) \in Nat /\ FencesUpTo(m)' = FencesUpTo(m)
  BY FencesCount
<1>2. /\ FenceInv'
      /\ \A m \in 1 .. n : InExample(m)' <=> InExample(m)
      /\ InExample(n + 1)' <=> inFence \/ line.tag = "fence"
      /\ line.tag = "fence" => (FencesUpTo(n + 1)' % 2 = 1 <=> ~inFence)
      /\ inFence => n > 0 /\ InExample(n)
  BY FenceStep
<1>3. PICK old, new : old = doc.details /\ new = doc'.details
  OBVIOUS
<1>4. PICK c : c = Content(n + 1, line)
  OBVIOUS
<1>5. old \in Seq(Entry) /\ Len(old) \in Nat
  BY <1>3 DEF CommentTypeInv, DocType, FlatFields
<1>6. /\ line.marked \in BOOLEAN /\ line.indented \in BOOLEAN
      /\ c.number = n + 1 /\ (c.blank <=> line.tag = "blank")
      /\ c.indented = (line.marked /\ line.indented)
      /\ c \in Entry
  BY <1>1, <1>4, ContentType
<1>7. /\ \A m \in 1 .. n : InExample(m) => ToldIntact(m)
      /\ \A i \in 1 .. Len(old) : old[i].number \in 1 .. n
      /\ inFence => Len(old) > 0 /\ old[Len(old)].number = n
      /\ \A i \in 1 .. Len(old) : InExample(old[i].number) => \E j \in 1 .. i : ~old[j].blank
  BY <1>3 DEF ExamplesInv, ExamplesIntact, ToldIntact
<1>8. \A i \in 1 .. Len(old) : i \in 1 .. Len(new) /\ new[i] = old[i]
  <2>1. CASE new = Append(old, c)
    BY <1>5, <1>6, <2>1, Longer
  <2>2. CASE new = old
    BY <2>2
  <2> QED BY <1>3, <1>4, <2>1, <2>2
<1>9. ASSUME NEW m \in 1 .. n, InExample(m) PROVE ToldIntact(m)'
  <2>1. PICK i \in 1 .. Len(old) :
          /\ old[i].number = m
          /\ lines[m].marked => old[i].indented = lines[m].indented
          /\ (m > 1 /\ InExample(m - 1) /\ ~(lines[m].tag = "fence" /\ FencesUpTo(m) % 2 = 1)) =>
                i > 1 /\ old[i - 1].number = m - 1
    BY <1>3, <1>7, <1>9 DEF ToldIntact
  <2>2. i \in 1 .. Len(new) /\ new[i] = old[i]
    BY <1>8
  <2>3. m > 1 => (InExample(m - 1)' <=> InExample(m - 1))
    BY <1>1, <1>2
  <2>4. lines'[m] = lines[m] /\ FencesUpTo(m)' = FencesUpTo(m)
    BY <1>1
  <2>5. i > 1 => new[i - 1] = old[i - 1]
    BY <1>5, <1>8
  <2> QED BY <1>3, <2>1, <2>2, <2>3, <2>4, <2>5 DEF ToldIntact
<1>10. CASE new = Append(old, c)
  <2>1. /\ Len(new) = Len(old) + 1 /\ new[Len(old) + 1] = c
    BY <1>5, <1>6, <1>10, Longer
  <2>2. ASSUME InExample(n + 1)'
        PROVE  ToldIntact(n + 1)'
    <3>1. Len(new) \in 1 .. Len(new) /\ new[Len(new)].number = n + 1
      BY <1>5, <1>6, <2>1
    <3>2. line.marked => c.indented = line.indented
      BY <1>6
    <3>3. ASSUME n + 1 > 1, InExample((n + 1) - 1)',
                 ~(line.tag = "fence" /\ FencesUpTo(n + 1)' % 2 = 1)
          PROVE  Len(new) > 1 /\ new[Len(new) - 1].number = (n + 1) - 1
      <4>1. inFence
        BY <1>2, <2>2, <3>3
      <4>2. Len(old) \in 1 .. Len(old) /\ old[Len(old)].number = n
        BY <1>5, <1>7, <4>1
      <4> QED BY <1>1, <1>5, <1>8, <2>1, <4>2, SMTT(30)
    <3> QED BY <1>1, <1>3, <2>1, <3>1, <3>2, <3>3 DEF ToldIntact
  <2>3. ExamplesIntact'
    <3>1. ASSUME NEW m \in 1 .. n + 1, InExample(m)' PROVE ToldIntact(m)'
      <4>1. CASE m = n + 1
        BY <2>2, <3>1, <4>1
      <4>2. CASE m # n + 1
        BY <1>1, <1>2, <1>9, <3>1, <4>2
      <4> QED BY <4>1, <4>2
    <3> QED BY <1>1, <3>1 DEF ExamplesIntact, ToldIntact
  <2>4. \A i \in 1 .. Len(new) : i = Len(old) + 1 \/ i \in 1 .. Len(old)
    BY <1>5, <2>1
  <2>5. \A i \in 1 .. Len(new) : new[i].number \in 1 .. n + 1
    BY <1>1, <1>6, <1>7, <1>8, <2>1, <2>4
  <2>6. Len(new) > 0 /\ new[Len(new)].number = n + 1
    BY <1>5, <1>6, <2>1
  <2>7. ASSUME NEW i \in 1 .. Len(new), InExample(new[i].number)'
        PROVE  \E j \in 1 .. i : ~new[j].blank
    <3>1. CASE i \in 1 .. Len(old)
      <4>1. new[i] = old[i] /\ old[i].number \in 1 .. n
        BY <1>7, <1>8, <3>1
      <4>2. PICK j \in 1 .. i : ~old[j].blank
        BY <1>2, <1>7, <2>7, <3>1, <4>1
      <4>3. j \in 1 .. Len(old)
        BY <1>5, <3>1
      <4> QED BY <1>8, <4>2, <4>3
    <3>2. CASE i = Len(old) + 1
      <4>1. inFence \/ line.tag = "fence"
        BY <1>2, <1>6, <2>1, <2>7, <3>2
      <4>2. CASE line.tag = "fence"
        <5>1. ~new[i].blank
          BY <1>6, <2>1, <3>2, <4>2
        <5> QED BY <1>5, <3>2, <5>1
      <4>3. CASE inFence
        <5>1. Len(old) \in 1 .. Len(old) /\ InExample(old[Len(old)].number)
          BY <1>2, <1>5, <1>7, <4>3
        <5>2. PICK j \in 1 .. Len(old) : ~old[j].blank
          BY <1>7, <5>1
        <5> QED BY <1>5, <1>8, <3>2, <5>2
      <4> QED BY <4>1, <4>2, <4>3
    <3> QED BY <2>4, <3>1, <3>2
  <2> QED BY <1>1, <1>3, <2>3, <2>5, <2>6, <2>7 DEF ExamplesInv
<1>11. CASE new = old /\ ~inFence /\ line.tag # "fence"
  <2>1. ~InExample(n + 1)' /\ ~inFence'
    BY <1>2, <1>11
  <2>2. ExamplesIntact'
    <3>1. ASSUME NEW m \in 1 .. n + 1, InExample(m)' PROVE ToldIntact(m)'
      <4>1. m \in 1 .. n
        BY <1>1, <2>1, <3>1
      <4> QED BY <1>2, <1>9, <3>1, <4>1
    <3> QED BY <1>1, <3>1 DEF ExamplesIntact, ToldIntact
  <2>3. \A i \in 1 .. Len(new) : new[i].number \in 1 .. n + 1
    BY <1>1, <1>7, <1>11
  <2>4. \A i \in 1 .. Len(new) : InExample(new[i].number)' => \E j \in 1 .. i : ~new[j].blank
    BY <1>2, <1>7, <1>11
  <2> QED BY <1>1, <1>3, <2>1, <2>2, <2>3, <2>4 DEF ExamplesInv
<1> QED BY <1>3, <1>4, <1>10, <1>11

-----------------------------------------------------------------------------
(* Where the branches of the loop put a line: at the end of the details;   *)
(* in place of what a field said; in an entry of its own; at the end of    *)
(* the last entry; nowhere.                                                *)
Told(c)      == doc' = [doc EXCEPT !["details"] = Append(doc["details"], c)]
Says(f, c)    == doc' = [doc EXCEPT ![f] = <<c>>]
SaysMore(f, c) == doc' = [doc EXCEPT ![f] = Append(doc[f], <<c>>)]
LastGrown(f, c) ==
    /\ doc[f] # <<>>
    /\ doc' = [doc EXCEPT ![f] =
                  [doc[f] EXCEPT ![Len(doc[f])] = Append(doc[f][Len(doc[f])], c)]]

GoesOn(line) == NormalizedTag(line) = "text" /\ ~toDetails /\ doc["details"] = <<>>

Placed(line, c) ==
    \/ Told(c)
    \/ /\ ~inFence /\ line.tag # "fence"
       /\ \/ \E f \in {"brief", "returns", "page"} : NormalizedTag(line) = f /\ Says(f, c)
          \/ \E f \in ListFields : NormalizedTag(line) = f /\ SaysMore(f, c)
          \/ \E f \in {"param", "note"} : GoesOn(line) /\ LastGrown(f, c)
          \/ NormalizedTag(line) = "file" /\ doc' = doc

LineAction(line) ==
    \/ FenceLine(line) \/ InsideFence(line) \/ NamedTag(line) \/ SimpleTag(line)
    \/ Continuation(line)

(* Each branch takes the line, keeps count of the fences, and puts it in   *)
(* one of these places.                                                    *)
LEMMA LineTaken ==
    ASSUME CommentTypeInv, NEW line \in Lines, LineAction(line)
    PROVE  /\ lines' = Append(lines, line) /\ ~finished /\ finished' = finished
           /\ toDetails' \in BOOLEAN
           /\ NormalizedTag(line) = "page" /\ ~inFence => toDetails'
           /\ inFence' = (IF line.tag = "fence" THEN ~inFence ELSE inFence)
           /\ Placed(line, Content(Len(lines) + 1, line))
<1> DEFINE c == Content(Len(lines) + 1, line)
<1>0. /\ toDetails \in BOOLEAN /\ inFence \in BOOLEAN
      /\ doc = [f \in FlatFields \union ListFields |-> doc[f]]
  BY DEF CommentTypeInv, DocType
<1>1. NormalizedTag(line) = "fence" <=> line.tag = "fence"
  BY DEF NormalizedTag
<1>2. \A d : d = ToDetails(line) => d = [doc EXCEPT !["details"] = Append(doc["details"], c)]
  BY DEF ToDetails, Here
<1>3. Here(line) = c
  BY DEF Here
<1> HIDE DEF c
<1>4. CASE FenceLine(line)
  <2>1. Told(c)
    BY <1>2, <1>4 DEF FenceLine, Told
  <2>2. NormalizedTag(line) # "page"
    BY <1>4 DEF FenceLine
  <2> QED BY <1>0, <1>1, <1>4, <2>1, <2>2 DEF FenceLine, Takes, Placed, c
<1>5. CASE InsideFence(line)
  <2>1. Told(c)
    BY <1>2, <1>5 DEF InsideFence, Told
  <2> QED BY <1>0, <1>1, <1>5, <2>1 DEF InsideFence, Fenced, Takes, Placed, c
<1>6. CASE NamedTag(line)
  <2>1. /\ NormalizedTag(line) \in NamedTags /\ ~inFence /\ line.tag # "fence"
    BY <1>1, <1>6 DEF NamedTag, NamedTags, Fenced
  <2>2. CASE NormalizedTag(line) = "page"
    <3>1. Says("page", c)
      BY <1>3, <1>6, <2>2 DEF NamedTag, Says
    <3>2. Placed(line, c)
      BY <2>1, <2>2, <3>1 DEF Placed
    <3> QED BY <1>0, <1>6, <2>1, <2>2, <3>2 DEF NamedTag, Takes, c
  <2>3. CASE NormalizedTag(line) \in {"param", "tparam"}
    <3>1. PICK f \in ListFields : f = NormalizedTag(line)
      BY <2>3 DEF ListFields
    <3>2. SaysMore(f, c)
      BY <1>3, <1>6, <2>3, <3>1 DEF NamedTag, SaysMore
    <3>3. Placed(line, c)
      BY <2>1, <3>1, <3>2 DEF Placed
    <3> QED BY <1>0, <1>6, <2>1, <2>3, <3>3 DEF NamedTag, Takes, c
  <2> QED BY <2>1, <2>2, <2>3 DEF NamedTags
<1>7. CASE SimpleTag(line)
  <2>1. /\ NormalizedTag(line) \in SimpleTags /\ ~inFence /\ line.tag # "fence"
    BY <1>1, <1>7 DEF SimpleTag, SimpleTags, BucketTags, Fenced
  <2>2. Placed(line, c)
    <3>1. CASE NormalizedTag(line) = "file"
      BY <1>7, <2>1, <3>1 DEF SimpleTag, Placed
    <3>2. CASE NormalizedTag(line) \in BucketTags
      <4>1. PICK f \in ListFields : f = NormalizedTag(line)
        BY <3>2 DEF ListFields, BucketTags
      <4>2. SaysMore(f, c)
        BY <1>3, <1>7, <3>2, <4>1 DEF SimpleTag, SaysMore, BucketTags
      <4> QED BY <2>1, <4>1, <4>2 DEF Placed
    <3>3. CASE NormalizedTag(line) \in {"brief", "returns"}
      <4>1. PICK f \in {"brief", "returns"} : f = NormalizedTag(line)
        BY <3>3
      <4>2. Says(f, c)
        BY <1>3, <1>7, <3>3, <4>1 DEF SimpleTag, Says, BucketTags
      <4> QED BY <2>1, <4>1, <4>2 DEF Placed
    <3> QED BY <2>1, <3>1, <3>2, <3>3 DEF SimpleTags
  <2>3. NormalizedTag(line) # "page"
    BY <2>1 DEF SimpleTags, BucketTags
  <2> QED BY <1>0, <1>7, <2>1, <2>2, <2>3 DEF SimpleTag, Takes, c
<1>8. CASE Continuation(line)
  <2>1. ~inFence /\ line.tag # "fence" /\ doc' = Continued(line)
    BY <1>1, <1>8 DEF Continuation, Fenced
  <2>2. \A f : doc[f] # <<>> /\ doc' = Joins(f, line) => LastGrown(f, c)
    BY <1>3 DEF Joins, LastGrown
  <2>6. /\ NormalizedTag(line) # "page"
        /\ ExtendsParam(line) \/ ExtendsNote(line) =>
              NormalizedTag(line) = "text" /\ doc["details"] = <<>>
    BY <1>8 DEF Continuation, ExtendsParam, ExtendsNote, NormalizedTag
  <2>3. CASE doc' = ToDetails(line)
    <3>1. Told(c)
      BY <1>2, <2>3 DEF Told
    <3> QED BY <1>0, <1>8, <2>1, <2>6, <3>1 DEF Continuation, Takes, Placed, c
  <2>4. CASE ~toDetails /\ ExtendsParam(line) /\ doc' = Joins("param", line)
    <3>1. LastGrown("param", c)
      BY <2>2, <2>4 DEF ExtendsParam
    <3>2. Placed(line, c)
      BY <2>1, <2>4, <2>6, <3>1 DEF Placed, GoesOn
    <3> QED BY <1>0, <1>8, <2>1, <2>6, <3>2 DEF Continuation, Takes, c
  <2>5. CASE ~toDetails /\ ExtendsNote(line) /\ doc' = Joins("note", line)
    <3>1. LastGrown("note", c)
      BY <2>2, <2>5 DEF ExtendsNote
    <3>2. Placed(line, c)
      BY <2>1, <2>5, <2>6, <3>1 DEF Placed, GoesOn
    <3> QED BY <1>0, <1>8, <2>1, <2>6, <3>2 DEF Continuation, Takes, c
  <2> QED BY <2>1, <2>3, <2>4, <2>5 DEF Continued
<1> QED BY <1>4, <1>5, <1>6, <1>7, <1>8 DEF LineAction

(* The types of a comment's fields are kept wherever a line is put.        *)
LEMMA PlacedType ==
    ASSUME CommentTypeInv, NEW line, NEW c \in Entry, Placed(line, c)
    PROVE  /\ doc' \in DocType
           /\ \/ doc'.details = Append(doc.details, c)
              \/ doc'.details = doc.details /\ ~inFence /\ line.tag # "fence"
<1>0. /\ doc \in [FlatFields \union ListFields -> Seq(Entry) \union Seq(Seq(Entry))]
      /\ \A f \in FlatFields : doc[f] \in Seq(Entry)
      /\ \A f \in ListFields : doc[f] \in Seq(Seq(Entry))
  BY DEF CommentTypeInv, DocType
<1>1. /\ "details" \in FlatFields
      /\ {"brief", "returns", "page"} \subseteq FlatFields \ {"details"}
      /\ "details" \notin ListFields
      /\ FlatFields \intersect ListFields = {}
  BY DEF FlatFields, ListFields
<1>2. ASSUME NEW f \in FlatFields, NEW s \in Seq(Entry), doc' = [doc EXCEPT ![f] = s]
      PROVE  doc' \in DocType /\ doc'[f] = s /\ (f # "details" => doc'["details"] = doc["details"])
  BY <1>0, <1>1, <1>2 DEF DocType
<1>3. ASSUME NEW f \in ListFields, NEW s \in Seq(Seq(Entry)), doc' = [doc EXCEPT ![f] = s]
      PROVE  doc' \in DocType /\ doc'["details"] = doc["details"]
  BY <1>0, <1>1, <1>3 DEF DocType
<1>4. <<c>> \in Seq(Entry)
  OBVIOUS
<1>5. CASE Told(c)
  <2>1. Append(doc["details"], c) \in Seq(Entry)
    BY <1>0, <1>1
  <2> QED BY <1>1, <1>2, <1>5, <2>1 DEF Told
<1>6. ASSUME NEW f \in {"brief", "returns", "page"}, Says(f, c)
      PROVE  doc' \in DocType /\ doc'["details"] = doc["details"]
  BY <1>1, <1>2, <1>4, <1>6 DEF Says
<1>7. ASSUME NEW f \in ListFields, SaysMore(f, c)
      PROVE  doc' \in DocType /\ doc'["details"] = doc["details"]
  <2>1. Append(doc[f], <<c>>) \in Seq(Seq(Entry))
    BY <1>0, <1>4
  <2> QED BY <1>3, <1>7, <2>1 DEF SaysMore
<1>8. ASSUME NEW f \in ListFields, LastGrown(f, c)
      PROVE  doc' \in DocType /\ doc'["details"] = doc["details"]
  <2>1. PICK s : s = doc[f] /\ s \in Seq(Seq(Entry)) /\ s # <<>>
    BY <1>0, <1>8 DEF LastGrown
  <2>2. Len(s) \in 1 .. Len(s) /\ s[Len(s)] \in Seq(Entry)
    BY <2>1
  <2>3. Append(s[Len(s)], c) \in Seq(Entry)
    BY <2>2, AppendProperties
  <2>4. [s EXCEPT ![Len(s)] = Append(s[Len(s)], c)] \in Seq(Seq(Entry))
    BY <2>1, <2>2, <2>3, ExceptSeq
  <2>5. doc' = [doc EXCEPT ![f] = [s EXCEPT ![Len(s)] = Append(s[Len(s)], c)]]
    BY <1>8, <2>1 DEF LastGrown
  <2> QED BY <1>3, <2>4, <2>5
<1>9. doc' = doc => doc' \in DocType /\ doc'["details"] = doc["details"]
  BY DEF CommentTypeInv
<1>10. CASE /\ ~inFence /\ line.tag # "fence"
            /\ \/ \E f \in {"brief", "returns", "page"} : NormalizedTag(line) = f /\ Says(f, c)
               \/ \E f \in ListFields : NormalizedTag(line) = f /\ SaysMore(f, c)
               \/ \E f \in {"param", "note"} : GoesOn(line) /\ LastGrown(f, c)
               \/ NormalizedTag(line) = "file" /\ doc' = doc
  <2>0. {"param", "note"} \subseteq ListFields
    BY DEF ListFields
  <2>1. doc' \in DocType /\ doc'["details"] = doc["details"]
    BY <1>6, <1>7, <1>8, <1>9, <1>10, <2>0 DEF CommentTypeInv
  <2> QED BY <1>10, <2>1
<1> QED BY <1>5, <1>10 DEF Placed

(* What is left of the details d begins with their first line that is not  *)
(* blank.                                                                  *)
BlankGone(d, e, shift) ==
    /\ doc' = [doc EXCEPT !["details"] = e] /\ Len(e) = Len(d) - shift
    /\ \A i \in 1 .. Len(e) : e[i] = d[i + shift]
    /\ \A i \in 1 .. shift : d[i].blank

LEMMA FinishDrops ==
    ASSUME CommentTypeInv, Finish, NEW d, d = doc.details
    PROVE  /\ ~finished /\ finished'
           /\ lines' = lines /\ toDetails' = toDetails /\ inFence' = inFence
           /\ d \in Seq(Entry) /\ Len(d) \in Nat
           /\ \E e \in Seq(Entry), shift \in 0 .. Len(d) : BlankGone(d, e, shift)
<1>2. d \in Seq(Entry) /\ Len(d) \in Nat /\ doc["details"] = d
  BY DEF CommentTypeInv, DocType, FlatFields
<1> DEFINE said  == {i \in 1 .. Len(doc.details) : ~doc.details[i].blank}
           first == CHOOSE i \in said : \A j \in said : i <= j
<1>3. said = {i \in 1 .. Len(d) : ~d[i].blank}
  OBVIOUS
<1>4. /\ said = {} => doc' = [doc EXCEPT !["details"] = <<>>]
      /\ said # {} => doc' = [doc EXCEPT !["details"] = SubSeq(d, first, Len(d))]
      /\ ~finished /\ finished'
      /\ lines' = lines /\ toDetails' = toDetails /\ inFence' = inFence
  <2>1. doc' = [doc EXCEPT !.details = IF said = {} THEN <<>>
                                       ELSE SubSeq(doc.details, first, Len(doc.details))]
    BY Zenon DEF Finish
  <2> HIDE DEF said, first
  <2>2. /\ said = {} => doc' = [doc EXCEPT !["details"] = <<>>]
        /\ said # {} => doc' = [doc EXCEPT !["details"] = SubSeq(d, first, Len(d))]
    BY <2>1
  <2> QED BY <2>2 DEF Finish
<1> HIDE DEF said
<1>5. \E e \in Seq(Entry), shift \in 0 .. Len(d) :
        /\ doc' = [doc EXCEPT !["details"] = e] /\ Len(e) = Len(d) - shift
        /\ \A i \in 1 .. Len(e) : e[i] = d[i + shift]
        /\ \A i \in 1 .. shift : d[i].blank
  <2>1. CASE said = {}
    <3>1. /\ << >> \in Seq(Entry) /\ Len(<< >>) = Len(d) - Len(d) /\ Len(d) \in 0 .. Len(d)
          /\ doc' = [doc EXCEPT !["details"] = << >>]
          /\ \A i \in 1 .. Len(<< >>) : << >>[i] = d[i + Len(d)]
      BY <1>2, <1>4, <2>1
    <3>2. \A i \in 1 .. Len(d) : d[i].blank
      BY <1>3, <2>1
    <3> QED BY <3>1, <3>2
  <2>2. CASE said # {}
    <3>1. PICK k : k = first /\ k \in said /\ \A j \in said : k <= j
      <4>1. said \in SUBSET Nat
        BY <1>2, <1>3
      <4>2. \E i \in said : \A j \in said : i <= j
        BY <2>2, <4>1, LeastMember
      <4> QED BY <4>2
    <3>2. k \in 1 .. Len(d)
      BY <1>3, <3>1
    <3>3. PICK e : e = SubSeq(d, k, Len(d))
      OBVIOUS
    <3>4. /\ e \in Seq(Entry) /\ Len(e) = Len(d) - k + 1
          /\ \A i \in 1 .. Len(d) - k + 1 : e[i] = d[k + i - 1]
      BY <1>2, <3>2, <3>3, SubSeqProperties
    <3>5. doc' = [doc EXCEPT !["details"] = e]
      BY <1>4, <2>2, <3>1, <3>3
    <3>6. PICK shift : shift = k - 1 /\ shift \in 0 .. Len(d)
      BY <1>2, <3>2
    <3>7. Len(e) = Len(d) - shift /\ \A i \in 1 .. Len(e) : e[i] = d[i + shift]
      <4>1. \A i \in 1 .. Len(e) : k + i - 1 = i + shift
        BY <1>2, <3>2, <3>4, <3>6
      <4> QED BY <1>2, <3>2, <3>4, <3>6, <4>1
    <3>8. \A i \in 1 .. shift : d[i].blank
      <4> SUFFICES ASSUME NEW i \in 1 .. shift, ~d[i].blank PROVE FALSE
        OBVIOUS
      <4>1. i \in 1 .. Len(d) /\ ~(k <= i)
        BY <1>2, <3>2, <3>6
      <4> QED BY <1>3, <3>1, <4>1
    <3> QED BY <3>4, <3>5, <3>6, <3>7, <3>8
  <2> QED BY <2>1, <2>2
<1>6. \E e \in Seq(Entry), shift \in 0 .. Len(d) : BlankGone(d, e, shift)
  BY <1>5 DEF BlankGone
<1> QED BY <1>2, <1>4, <1>6

(* Every example, and the line before it in the example, is behind.        *)
LEMMA FinishKeeps ==
    ASSUME CommentTypeInv, FenceInv, ExamplesInv, Finish
    PROVE  CommentTypeInv' /\ FenceInv' /\ ExamplesInv'
<1>1. PICK d : d = doc.details
  OBVIOUS
<1>2. /\ ~finished /\ finished' /\ finished' \in BOOLEAN
      /\ lines' = lines /\ toDetails' = toDetails /\ inFence' = inFence
      /\ d \in Seq(Entry) /\ Len(d) \in Nat
  BY <1>1, FinishDrops DEF Finish
<1>3. PICK e \in Seq(Entry), shift \in 0 .. Len(d) :
        /\ doc' = [doc EXCEPT !["details"] = e] /\ Len(e) = Len(d) - shift
        /\ \A i \in 1 .. Len(e) : e[i] = d[i + shift]
        /\ \A i \in 1 .. shift : d[i].blank
  <2>1. \E e \in Seq(Entry), shift \in 0 .. Len(d) : BlankGone(d, e, shift)
    BY <1>1, FinishDrops
  <2> QED BY <2>1 DEF BlankGone
<1>4. doc' \in DocType /\ doc'.details = e
  BY <1>3 DEF CommentTypeInv, DocType, FlatFields, ListFields
<1>5. \A n : InExample(n)' <=> InExample(n)
  BY <1>2 DEF InExample, FencesUpTo
<1>6. FenceInv' /\ CommentTypeInv'
  BY <1>2, <1>4 DEF FenceInv, FencesUpTo, CommentTypeInv
<1>7. /\ \A n \in 1 .. Len(lines) : InExample(n) => ToldIntact(n)
      /\ \A i \in 1 .. Len(d) : d[i].number \in 1 .. Len(lines)
      /\ \A i \in 1 .. Len(d) : InExample(d[i].number) => \E j \in 1 .. i : ~d[j].blank
  BY <1>1, <1>2 DEF ExamplesInv, ExamplesIntact, ToldIntact
<1>8. \A i \in 1 .. Len(d) : InExample(d[i].number) =>
         i - shift \in 1 .. Len(e) /\ e[i - shift] = d[i]
  <2> SUFFICES ASSUME NEW i \in 1 .. Len(d), InExample(d[i].number)
               PROVE  i - shift \in 1 .. Len(e) /\ e[i - shift] = d[i]
    OBVIOUS
  <2>1. PICK j \in 1 .. i : ~d[j].blank
    BY <1>7
  <2>2. ~(j <= shift)
    BY <1>2, <1>3, <2>1
  <2>3. i - shift \in 1 .. Len(e) /\ (i - shift) + shift = i
    BY <1>2, <1>3, <2>2
  <2> QED BY <1>3, <2>3
<1>9. ASSUME NEW n \in 1 .. Len(lines), InExample(n) PROVE ToldIntact(n)'
  <2>1. PICK i \in 1 .. Len(d) :
          /\ d[i].number = n
          /\ lines[n].marked => d[i].indented = lines[n].indented
          /\ (n > 1 /\ InExample(n - 1) /\ ~(lines[n].tag = "fence" /\ FencesUpTo(n) % 2 = 1)) =>
                i > 1 /\ d[i - 1].number = n - 1
    BY <1>1, <1>7, <1>9 DEF ToldIntact
  <2>2. i - shift \in 1 .. Len(e) /\ e[i - shift] = d[i]
    BY <1>8, <1>9, <2>1
  <2>3. ASSUME n > 1, InExample(n - 1), ~(lines[n].tag = "fence" /\ FencesUpTo(n) % 2 = 1)
        PROVE  i - shift > 1 /\ e[(i - shift) - 1].number = n - 1
    <3>1. i - 1 \in 1 .. Len(d) /\ d[i - 1].number = n - 1
      BY <1>2, <2>1, <2>3
    <3>2. (i - 1) - shift \in 1 .. Len(e) /\ e[(i - 1) - shift] = d[i - 1]
      BY <1>8, <2>3, <3>1
    <3>3. (i - 1) - shift = (i - shift) - 1
      BY <1>2
    <3> QED BY <1>2, <3>1, <3>2, <3>3
  <2>4. lines' = lines /\ FencesUpTo(n)' = FencesUpTo(n)
    BY <1>2 DEF FencesUpTo
  <2> QED BY <1>4, <1>5, <2>1, <2>2, <2>3, <2>4 DEF ToldIntact
<1>10. ExamplesIntact'
  BY <1>2, <1>5, <1>9 DEF ExamplesIntact, ToldIntact
<1>11. \A i \in 1 .. Len(e) : e[i].number \in 1 .. Len(lines)
  BY <1>2, <1>3, <1>7
<1>12. ExamplesInv'
  BY <1>2, <1>4, <1>10, <1>11 DEF ExamplesInv
<1> QED BY <1>6, <1>12

-----------------------------------------------------------------------------
(* FlattenSeq, a recursive function, written out.                          *)
InTurn(ss, n, g) ==
    /\ FlattenSeq(ss) = g[n] /\ g[1] = ss[1]
    /\ \A i \in 2 .. n : g[i] = g[i - 1] \o ss[i]

LEMMA FlattenedInTurn ==
    ASSUME NEW ss, NEW n \in Nat, n = Len(ss), n > 0
    PROVE  \E g : InTurn(ss, n, g)
<1> DEFINE More(l, i) == l \o ss[i]
           Body(m, f) == [i \in 1 .. m |-> IF i = 1 THEN ss[i] ELSE More(f[i - 1], i)]
           P == {m \in Nat : \E f : f = Body(m, f)}
<1>0. FlattenSeq(ss) = (CHOOSE f : f = Body(n, f))[n]
  <2>1. FlattenSeq(ss) = (CHOOSE f : f = Body(Len(ss), f))[Len(ss)]
    BY DEF FlattenSeq
  <2> HIDE DEF Body
  <2> QED BY <2>1
<1>1. n \in Nat
  OBVIOUS
<1> HIDE DEF More
<1>2. 0 \in P
  <2>1. [i \in 1 .. 0 |-> <<>>] = Body(0, [i \in 1 .. 0 |-> <<>>])
    OBVIOUS
  <2> QED BY <2>1
<1>3. ASSUME NEW m \in P PROVE m + 1 \in P
  <2>1. m \in Nat
    OBVIOUS
  <2>2. PICK f : f = Body(m, f)
    OBVIOUS
  <2> DEFINE next == IF m = 0 THEN ss[1] ELSE More(f[m], m + 1)
             g == [i \in 1 .. m + 1 |-> IF i = m + 1 THEN next ELSE f[i]]
  <2>3. /\ m > 0 => f[1] = ss[1]
        /\ \A i \in 2 .. m : f[i] = More(f[i - 1], i)
    BY <2>1, <2>2
  <2>4. ASSUME NEW i \in 1 .. m + 1 PROVE g[i] = Body(m + 1, g)[i]
    <3>1. CASE i = m + 1 /\ m = 0
      BY <2>1, <3>1
    <3>2. CASE i = m + 1 /\ m # 0
      <4>1. g[i] = More(f[m], m + 1) /\ g[m] = f[m]
        BY <2>1, <3>2
      <4>2. Body(m + 1, g)[i] = More(g[i - 1], i) /\ i - 1 = m
        BY <2>1, <3>2
      <4> QED BY <3>2, <4>1, <4>2
    <3>3. CASE i # m + 1 /\ i = 1
      BY <2>1, <2>3, <3>3
    <3>4. CASE i # m + 1 /\ i # 1
      <4>1. g[i] = f[i] /\ g[i - 1] = f[i - 1] /\ i \in 2 .. m
        BY <2>1, <3>4
      <4>2. Body(m + 1, g)[i] = More(g[i - 1], i)
        BY <2>1, <3>4
      <4> QED BY <2>3, <4>1, <4>2
    <3> QED BY <3>1, <3>2, <3>3, <3>4
  <2>5. g = Body(m + 1, g)
    BY <2>4
  <2> HIDE DEF g, Body
  <2> QED BY <2>1, <2>5
<1>4. P = Nat
  <2> HIDE DEF P
  <2>1. P \in SUBSET Nat
    BY DEF P
  <2> QED BY <1>2, <1>3, <2>1, Induction
<1>5. \E f : f = Body(n, f)
  BY <1>1, <1>4
<1> DEFINE flat == CHOOSE f : f = Body(n, f)
<1>6. flat = Body(n, flat)
  BY <1>5
<1>7. FlattenSeq(ss) = flat[n]
  BY <1>0
<1> HIDE DEF flat
<1>8. flat[1] = ss[1] /\ \A i \in 2 .. n : flat[i] = More(flat[i - 1], i)
  <2>1. flat = [i \in 1 .. n |-> IF i = 1 THEN ss[i] ELSE More(flat[i - 1], i)]
    BY <1>6
  <2>2. \A i \in 1 .. n : flat[i] = IF i = 1 THEN ss[i] ELSE More(flat[i - 1], i)
    BY <2>1
  <2>3. 1 \in 1 .. n /\ \A i \in 2 .. n : i \in 1 .. n /\ i # 1
    BY <1>1
  <2> QED BY <2>2, <2>3
<1> QED BY <1>7, <1>8 DEF More, InTurn

-----------------------------------------------------------------------------
(* A text that tells the lines N, each of them once.                       *)
TellsOnce(s, N) ==
    /\ s \in Seq(Entry)
    /\ \A i, j \in 1 .. Len(s) : s[i].number = s[j].number => i = j
    /\ \A n : n \in N <=> \E i \in 1 .. Len(s) : s[i].number = n

LEMMA TextsInTurn ==
    ASSUME NEW s, NEW t, NEW M, NEW N, TellsOnce(s, M), TellsOnce(t, N), M \intersect N = {}
    PROVE  TellsOnce(s \o t, M \union N)
<1> DEFINE st == s \o t
<1>1. /\ s \in Seq(Entry) /\ t \in Seq(Entry) /\ Len(s) \in Nat /\ Len(t) \in Nat
      /\ \A i, j \in 1 .. Len(s) : s[i].number = s[j].number => i = j
      /\ \A i, j \in 1 .. Len(t) : t[i].number = t[j].number => i = j
      /\ \A n : n \in M <=> \E i \in 1 .. Len(s) : s[i].number = n
      /\ \A n : n \in N <=> \E i \in 1 .. Len(t) : t[i].number = n
  BY DEF TellsOnce
<1>2. /\ st \in Seq(Entry) /\ Len(st) = Len(s) + Len(t)
      /\ \A i \in 1 .. Len(s) : st[i] = s[i]
      /\ \A i \in 1 .. Len(t) : st[Len(s) + i] = t[i]
  BY <1>1, ConcatProperties
<1> HIDE DEF st
<1>3. \A i \in 1 .. Len(st) : \/ i \in 1 .. Len(s) /\ st[i] = s[i] /\ st[i].number \in M
                              \/ /\ i - Len(s) \in 1 .. Len(t) /\ st[i] = t[i - Len(s)]
                                 /\ st[i].number \in N
  <2> SUFFICES ASSUME NEW i \in 1 .. Len(st), i \notin 1 .. Len(s)
               PROVE  /\ i - Len(s) \in 1 .. Len(t) /\ st[i] = t[i - Len(s)]
                      /\ st[i].number \in N
    BY <1>1, <1>2
  <2>1. i - Len(s) \in 1 .. Len(t) /\ Len(s) + (i - Len(s)) = i
    BY <1>1, <1>2
  <2>2. st[i] = t[i - Len(s)]
    BY <1>2, <2>1
  <2> QED BY <1>1, <2>1, <2>2
<1>4. ASSUME NEW i \in 1 .. Len(st), NEW j \in 1 .. Len(st), st[i].number = st[j].number
      PROVE  i = j
  <2>1. CASE i \in 1 .. Len(s) /\ st[i] = s[i] /\ st[i].number \in M
    <3>1. j \in 1 .. Len(s) /\ st[j] = s[j]
      BY <1>3, <1>4, <2>1
    <3> QED BY <1>1, <1>4, <2>1, <3>1
  <2>2. CASE i - Len(s) \in 1 .. Len(t) /\ st[i] = t[i - Len(s)] /\ st[i].number \in N
    <3>1. j - Len(s) \in 1 .. Len(t) /\ st[j] = t[j - Len(s)]
      BY <1>3, <1>4, <2>2
    <3>2. i - Len(s) = j - Len(s)
      BY <1>1, <1>4, <2>2, <3>1
    <3> QED BY <1>1, <3>2
  <2> QED BY <1>3, <2>1, <2>2
<1>5. \A n : n \in M \union N <=> \E i \in 1 .. Len(st) : st[i].number = n
  <2>1. ASSUME NEW n \in M PROVE \E i \in 1 .. Len(st) : st[i].number = n
    <3>1. PICK i \in 1 .. Len(s) : s[i].number = n
      BY <1>1
    <3> QED BY <1>1, <1>2, <3>1
  <2>2. ASSUME NEW n \in N PROVE \E i \in 1 .. Len(st) : st[i].number = n
    <3>1. PICK i \in 1 .. Len(t) : t[i].number = n
      BY <1>1
    <3>2. Len(s) + i \in 1 .. Len(st) /\ st[Len(s) + i] = t[i]
      BY <1>1, <1>2
    <3> QED BY <3>1, <3>2
  <2> QED BY <1>3, <2>1, <2>2
<1> QED BY <1>2, <1>4, <1>5 DEF TellsOnce, st

LEMMA TellsAll ==
    ASSUME NEW s, NEW N, TellsOnce(s, N)
    PROVE  Numbers(s) = N /\ Cardinality(Numbers(s)) = Len(s)
<1>1. /\ s \in Seq(Entry) /\ Len(s) \in Nat
      /\ \A i, j \in 1 .. Len(s) : s[i].number = s[j].number => i = j
      /\ \A n : n \in N <=> \E i \in 1 .. Len(s) : s[i].number = n
  BY DEF TellsOnce
<1>2. Numbers(s) = N
  BY <1>1 DEF Numbers
<1>3. IsFiniteSet(1 .. Len(s)) /\ Cardinality(1 .. Len(s)) = Len(s)
  <2>1. PICK n : n = Len(s) /\ n \in Nat
    BY <1>1
  <2>2. IsFiniteSet(1 .. n) /\ Cardinality(1 .. n) = (IF 1 > n THEN 0 ELSE n - 1 + 1)
    <3>1. 1 \in Int /\ n \in Int
      BY <2>1
    <3> QED BY <3>1, FS_Interval, Zenon
  <2> QED BY <2>1, <2>2
<1> DEFINE number == [i \in 1 .. Len(s) |-> s[i].number]
<1>4. number \in Bijection(1 .. Len(s), N)
  <2>1. number \in [1 .. Len(s) -> N]
    BY <1>1
  <2>2. \A i, j \in 1 .. Len(s) : number[i] = number[j] => i = j
    BY <1>1
  <2>3. \A n \in N : \E i \in 1 .. Len(s) : number[i] = n
    BY <1>1
  <2> QED BY <2>1, <2>2, <2>3 DEF Bijection, Injection, Surjection, IsInjective
<1>5. Cardinality(N) = Cardinality(1 .. Len(s))
  BY <1>3, <1>4, FS_Bijection DEF ExistsBijection
<1> QED BY <1>2, <1>3, <1>5

(* The same of several texts.                                              *)
TellOnce(ss, N) ==
    /\ \A i, j \in 1 .. Len(ss) : \A k \in 1 .. Len(ss[i]), l \in 1 .. Len(ss[j]) :
           ss[i][k].number = ss[j][l].number => i = j /\ k = l
    /\ \A m : m \in N <=> \E i \in 1 .. Len(ss) : \E k \in 1 .. Len(ss[i]) : ss[i][k].number = m

LEMMA FlattenedOnce ==
    ASSUME NEW ss \in Seq(Seq(Entry)), NEW N, TellOnce(ss, N)
    PROVE  TellsOnce(FlattenSeq(ss), N)
<1> DEFINE n == Len(ss)
<1> SUFFICES ASSUME \A i, j \in 1 .. n : \A k \in 1 .. Len(ss[i]), l \in 1 .. Len(ss[j]) :
                        ss[i][k].number = ss[j][l].number => i = j /\ k = l,
                    \A m : m \in N <=> \E i \in 1 .. n : \E k \in 1 .. Len(ss[i]) : ss[i][k].number = m
             PROVE  TellsOnce(FlattenSeq(ss), N)
  BY DEF TellOnce
<1>0. n \in Nat /\ \A i \in 1 .. n : ss[i] \in Seq(Entry) /\ Len(ss[i]) \in Nat
  OBVIOUS
<1>1. CASE n = 0
  <2>1. FlattenSeq(ss) = <<>>
    <3>1. ss = <<>> /\ Len(ss) = 0
      BY <1>1, EmptySeq
    <3>2. FlattenSeq(ss) = ss
      BY <3>1, Zenon DEF FlattenSeq
    <3> QED BY <3>1, <3>2
  <2>2. << >> \in Seq(Entry) /\ Len(<< >>) = 0
    OBVIOUS
  <2> QED BY <1>1, <2>1, <2>2 DEF TellsOnce
<1>2. CASE n > 0
  <2> DEFINE Of(i)   == {ss[i][k].number : k \in 1 .. Len(ss[i])}
             UpTo(m) == UNION {Of(i) : i \in 1 .. m}
  <2>1. PICK g : /\ FlattenSeq(ss) = g[n] /\ g[1] = ss[1]
                 /\ \A i \in 2 .. n : g[i] = g[i - 1] \o ss[i]
    <3> HIDE DEF Of, UpTo
    <3>1. n \in Nat /\ n = Len(ss) /\ n > 0
      BY <1>0, <1>2
    <3>2. \E g : InTurn(ss, n, g)
      BY <3>1, FlattenedInTurn
    <3> QED BY <3>2 DEF InTurn
  <2>2. \A i \in 1 .. n : TellsOnce(ss[i], Of(i))
    BY <1>0 DEF TellsOnce
  <2>3. \A i, j \in 1 .. n : i # j => Of(i) \intersect Of(j) = {}
    <3> SUFFICES ASSUME NEW i \in 1 .. n, NEW j \in 1 .. n, NEW m \in Of(i), m \in Of(j)
                 PROVE  i = j
      OBVIOUS
    <3>1. PICK k \in 1 .. Len(ss[i]) : ss[i][k].number = m
      OBVIOUS
    <3>2. PICK l \in 1 .. Len(ss[j]) : ss[j][l].number = m
      OBVIOUS
    <3> HIDE DEF Of
    <3> QED BY <3>1, <3>2
  <2> DEFINE T == {m \in Nat : m + 1 \in 1 .. n => TellsOnce(g[m + 1], UpTo(m + 1))}
  <2>4. 0 \in T
    <3>1. UpTo(1) = Of(1)
      <4>1. 1 .. 1 = {1}
        OBVIOUS
      <4> HIDE DEF Of
      <4> QED BY <4>1
    <3>2. 0 + 1 = 1
      OBVIOUS
    <3> HIDE DEF Of, UpTo
    <3> QED BY <1>0, <1>2, <2>1, <2>2, <3>1, <3>2
  <2>5. ASSUME NEW m \in T PROVE m + 1 \in T
    <3> HIDE DEF Of
    <3> SUFFICES ASSUME (m + 1) + 1 \in 1 .. n
                 PROVE  TellsOnce(g[(m + 1) + 1], UpTo((m + 1) + 1))
      OBVIOUS
    <3>1. m \in Nat /\ m + 1 \in 1 .. n /\ m + 2 \in 2 .. n /\ (m + 1) + 1 = m + 2 /\ (m + 2) - 1 = m + 1
      BY <1>0
    <3>2. TellsOnce(g[m + 1], UpTo(m + 1))
      BY <3>1
    <3>3. UpTo(m + 2) = UpTo(m + 1) \union Of(m + 2)
      <4>1. 1 .. m + 2 = (1 .. m + 1) \union {m + 2}
        BY <3>1
      <4> QED BY <4>1
    <3>4. UpTo(m + 1) \intersect Of(m + 2) = {}
      <4>1. \A i \in 1 .. m + 1 : i \in 1 .. n /\ i # m + 2
        BY <1>0, <3>1
      <4> QED BY <2>3, <3>1, <4>1
    <3>5. TellsOnce(ss[m + 2], Of(m + 2)) /\ g[m + 2] = g[m + 1] \o ss[m + 2]
      BY <2>1, <2>2, <3>1
    <3> HIDE DEF UpTo
    <3>6. TellsOnce(g[m + 1] \o ss[m + 2], UpTo(m + 1) \union Of(m + 2))
      <4> HIDE DEF n
      <4> QED BY <3>2, <3>4, <3>5, TextsInTurn
    <3> QED BY <3>1, <3>3, <3>5, <3>6
  <2>6. T = Nat
    <3>1. T \in SUBSET Nat
      OBVIOUS
    <3> HIDE DEF T
    <3> QED BY <2>4, <2>5, <3>1, Induction
  <2>7. TellsOnce(g[n], UpTo(n))
    <3>1. n - 1 \in Nat /\ (n - 1) + 1 = n /\ n \in 1 .. n
      BY <1>0, <1>2
    <3>2. n - 1 \in T
      <4> HIDE DEF T
      <4> QED BY <2>6, <3>1
    <3> HIDE DEF UpTo
    <3> QED BY <3>1, <3>2
  <2>8. UpTo(n) = N
    <3>1. ASSUME NEW m \in UpTo(n) PROVE m \in N
      BY <3>1
    <3>2. ASSUME NEW m \in N PROVE m \in UpTo(n)
      <4>1. PICK i \in 1 .. n : \E k \in 1 .. Len(ss[i]) : ss[i][k].number = m
        BY <3>2
      <4>2. m \in Of(i)
        BY <4>1
      <4> HIDE DEF Of
      <4> QED BY <4>2
    <3> HIDE DEF UpTo
    <3> QED BY <3>1, <3>2
  <2> QED BY <2>1, <2>7, <2>8
<1> QED BY <1>0, <1>1, <1>2

-----------------------------------------------------------------------------
(* As long as nothing is in the details, each line was a tag or went on    *)
(* with one; what stands in param or note began with its tag.              *)
JoinInv ==
    /\ \A f \in {"param", "note"} : doc[f] # <<>> => \E m \in 1 .. Len(lines) : TagOf(m) = f
    /\ ~finished /\ doc["details"] = <<>> =>
          /\ \A m \in 1 .. Len(lines) : TagOf(m) \in PlainTags => ExtendsTag(m)
          /\ Len(lines) > 0 /\ TagOf(Len(lines)) = "page" => toDetails

LEMMA JoinsAgain ==
    ASSUME CommentTypeInv, NEW line \in Lines, lines' = Append(lines, line), NEW n, n = Len(lines)
    PROVE  /\ TagOf(n + 1)' = NormalizedTag(line)
           /\ \A m \in 1 .. n : TagOf(m)' = TagOf(m)
           /\ \A m \in 1 .. n : ExtendsTag(m)' <=> ExtendsTag(m)
           /\ \A m \in 1 .. n : GoesWithTag(m)' <=> GoesWithTag(m)
<1>1. /\ n \in Nat /\ Len(lines') = n + 1
      /\ \A m \in 1 .. n : lines'[m] = lines[m]
      /\ lines'[n + 1] = line
  BY FencesCount
<1>2. TagOf(n + 1)' = NormalizedTag(line) /\ \A m \in 1 .. n : TagOf(m)' = TagOf(m)
  BY <1>1 DEF TagOf
<1>3. \A m \in 1 .. n : ExtendsTag(m)' <=> ExtendsTag(m)
  <2> SUFFICES ASSUME NEW m \in 1 .. n PROVE ExtendsTag(m)' <=> ExtendsTag(m)
    OBVIOUS
  <2>1. \A k \in 1 .. m - 1 : TagOf(k)' = TagOf(k)
    BY <1>1, <1>2
  <2>2. m > 1 => TagOf(m - 1)' = TagOf(m - 1)
    BY <1>1, <1>2
  <2>3. TagOf(m)' = TagOf(m)
    BY <1>2
  <2> QED BY <2>1, <2>2, <2>3 DEF ExtendsTag
<1>4. \A m \in 1 .. n : GoesWithTag(m)' <=> GoesWithTag(m)
  <2> SUFFICES ASSUME NEW m \in 1 .. n PROVE GoesWithTag(m)' <=> GoesWithTag(m)
    OBVIOUS
  <2>1. \A k \in 1 .. m - 1 : TagOf(k)' = TagOf(k) /\ (ExtendsTag(k)' <=> ExtendsTag(k))
    BY <1>1, <1>2, <1>3
  <2>2. ExtendsTag(m)' <=> ExtendsTag(m)
    BY <1>3
  <2> QED BY <2>1, <2>2 DEF GoesWithTag
<1> QED BY <1>2, <1>3, <1>4

(* A line that is put at the end of a param or a note goes with its tag.   *)
LEMMA GoesOnWithTag ==
    ASSUME CommentTypeInv, JoinInv, ~finished, NEW line \in Lines,
           lines' = Append(lines, line), NEW n, n = Len(lines),
           GoesOn(line), NEW f \in {"param", "note"}, doc[f] # <<>>
    PROVE  ExtendsTag(n + 1)' /\ GoesWithTag(n + 1)'
<1>1. n \in Nat /\ Len(lines') = n + 1
  BY FencesCount
<1>2. /\ TagOf(n + 1)' = "text"
      /\ \A m \in 1 .. n : TagOf(m)' = TagOf(m)
      /\ \A m \in 1 .. n : ExtendsTag(m)' <=> ExtendsTag(m)
  BY JoinsAgain DEF GoesOn
<1>3. PICK m \in 1 .. n : TagOf(m) = f
  BY DEF JoinInv
<1>4. n > 0 /\ TagOf(n) # "page" /\ \A k \in 1 .. n : TagOf(k) \in PlainTags => ExtendsTag(k)
  <2>1. n > 0
    BY <1>1, <1>3
  <2> QED BY <2>1 DEF JoinInv, GoesOn
<1>5. ExtendsTag(n + 1)'
  <2>1. n + 1 > 1 /\ (n + 1) - 1 = n /\ n \in 1 .. n
    BY <1>1, <1>4
  <2>2. TagOf((n + 1) - 1)' # "page"
    BY <1>2, <1>4, <2>1
  <2>3. m \in 1 .. (n + 1) - 1 /\ TagOf(m)' \in {"param", "note"}
    BY <1>2, <1>3, <2>1
  <2> QED BY <1>2, <2>1, <2>2, <2>3 DEF ExtendsTag
<1>6. \A k \in 1 .. (n + 1) - 1 : TagOf(k)' \in PlainTags => ExtendsTag(k)'
  <2>1. \A k \in 1 .. (n + 1) - 1 : k \in 1 .. n
    BY <1>1
  <2> QED BY <1>2, <1>4, <2>1
<1> QED BY <1>5, <1>6 DEF GoesWithTag

LEMMA JoinGrows ==
    ASSUME CommentTypeInv, JoinInv, ~finished, NEW line \in Lines,
           lines' = Append(lines, line), NEW n, n = Len(lines), NEW c \in Entry,
           Placed(line, c), NormalizedTag(line) = "page" /\ ~inFence => toDetails'
    PROVE  JoinInv'
<1>1. n \in Nat /\ Len(lines') = n + 1
  BY FencesCount
<1>2. /\ TagOf(n + 1)' = NormalizedTag(line)
      /\ \A m \in 1 .. n : TagOf(m)' = TagOf(m)
      /\ \A m \in 1 .. n : ExtendsTag(m)' <=> ExtendsTag(m)
  BY JoinsAgain
<1>3. doc \in [FlatFields \union ListFields -> Seq(Entry) \union Seq(Seq(Entry))]
      /\ doc["details"] \in Seq(Entry)
  BY DEF CommentTypeInv, DocType, FlatFields
<1>4. \A m \in 1 .. Len(lines') : m \in 1 .. n \/ m = n + 1
  BY <1>1
<1>5. n + 1 \in 1 .. Len(lines') /\ \A m \in 1 .. n : m \in 1 .. Len(lines')
  BY <1>1
<1>6. ASSUME NEW f \in FlatFields \union ListFields, NEW g, f # g,
              Says(g, c) \/ SaysMore(g, c) \/ LastGrown(g, c)
       PROVE  doc'[f] = doc[f]
  BY <1>3, <1>6 DEF Says, SaysMore, LastGrown
<1>7. ASSUME NEW f \in {"param", "note"}, doc'[f] # <<>>
      PROVE  \E m \in 1 .. Len(lines') : TagOf(m)' = f
  <2>1. CASE doc[f] # <<>>
    <3>1. PICK m \in 1 .. n : TagOf(m) = f
      BY <2>1 DEF JoinInv
    <3> QED BY <1>2, <1>5, <3>1
  <2>2. CASE doc[f] = <<>>
    <3>1. f \in FlatFields \union ListFields /\ f # "details" /\ doc'[f] # doc[f]
      BY <1>7, <2>2 DEF ListFields
    <3>2. ~Told(c) /\ doc' # doc
      BY <1>3, <3>1 DEF Told
    <3>3. \A g : Says(g, c) \/ SaysMore(g, c) \/ LastGrown(g, c) => g = f
      BY <1>6, <3>1
    <3>4. ~LastGrown(f, c)
      BY <2>2 DEF LastGrown
    <3>5. NormalizedTag(line) = f
      BY <3>2, <3>3, <3>4 DEF Placed
    <3> QED BY <1>2, <1>5, <3>5
  <2> QED BY <2>1, <2>2
<1>8. ASSUME doc'["details"] = <<>>
      PROVE  /\ doc["details"] = <<>> /\ ~inFence
             /\ NormalizedTag(line) \in PlainTags =>
                   GoesOn(line) /\ \E f \in {"param", "note"} : doc[f] # <<>>
  <2>1. ~Told(c)
    <3>1. "details" \in FlatFields \union ListFields
      BY DEF FlatFields
    <3>2. Append(doc["details"], c) # <<>>
      BY <1>3
    <3> QED BY <1>3, <1>8, <3>1, <3>2 DEF Told
  <2>2. /\ ~inFence
        /\ \/ \E f \in {"brief", "returns", "page"} : NormalizedTag(line) = f /\ Says(f, c)
           \/ \E f \in ListFields : NormalizedTag(line) = f /\ SaysMore(f, c)
           \/ \E f \in {"param", "note"} : GoesOn(line) /\ LastGrown(f, c)
           \/ NormalizedTag(line) = "file" /\ doc' = doc
    BY <2>1 DEF Placed
  <2>3. doc'["details"] = doc["details"]
    <3>1. "details" \in FlatFields \union ListFields
      BY DEF FlatFields
    <3>2. "details" \notin {"brief", "returns", "page"} \union ListFields
      BY DEF ListFields
    <3>3. {"param", "note"} \subseteq ListFields
      BY DEF ListFields
    <3> QED BY <1>6, <2>2, <3>1, <3>2, <3>3
  <2>4. \/ NormalizedTag(line) \in {"brief", "returns", "page", "file"} \union ListFields
        \/ GoesOn(line) /\ \E f \in {"param", "note"} : doc[f] # <<>>
    BY <2>2 DEF LastGrown
  <2>5. NormalizedTag(line) \in PlainTags =>
           NormalizedTag(line) \notin {"brief", "returns", "page", "file"} \union ListFields
    BY DEF PlainTags, ListFields
  <2> QED BY <1>8, <2>2, <2>3, <2>4, <2>5
<1>9. ASSUME doc'["details"] = <<>>, NEW m \in 1 .. Len(lines'), TagOf(m)' \in PlainTags
      PROVE  ExtendsTag(m)'
  <2>1. CASE m \in 1 .. n
    BY <1>2, <1>8, <1>9, <2>1 DEF JoinInv
  <2>2. CASE m = n + 1
    <3>1. GoesOn(line) /\ \E f \in {"param", "note"} : doc[f] # <<>>
      BY <1>2, <1>8, <1>9, <2>2
    <3> QED BY <2>2, <3>1, GoesOnWithTag
  <2> QED BY <1>4, <2>1, <2>2
<1>10. doc'["details"] = <<>> /\ TagOf(n + 1)' = "page" => toDetails'
  BY <1>2, <1>8
<1>11. (Len(lines') > 0 /\ TagOf(Len(lines))' = "page") => TagOf(n + 1)' = "page"
  BY <1>1
<1> QED BY <1>7, <1>9, <1>10, <1>11 DEF JoinInv

LEMMA FinishJoins ==
    ASSUME CommentTypeInv, JoinInv, Finish
    PROVE  JoinInv'
<1>1. PICK d : d = doc.details
  OBVIOUS
<1>2. /\ finished' /\ lines' = lines
      /\ \E e \in Seq(Entry), shift \in 0 .. Len(d) : BlankGone(d, e, shift)
  BY <1>1, FinishDrops
<1>3. PICK e \in Seq(Entry) : doc' = [doc EXCEPT !["details"] = e]
  BY <1>2 DEF BlankGone
<1>4. \A f \in {"param", "note"} : doc'[f] = doc[f]
  BY <1>3 DEF CommentTypeInv, DocType, ListFields
<1> QED BY <1>2, <1>4 DEF JoinInv, TagOf

-----------------------------------------------------------------------------
(* Where a line stands in a DocComment: in entry k of text i of a field.   *)
Fields == FlatFields \union ListFields

Texts(f) == IF f \in FlatFields THEN <<doc[f]>> ELSE doc[f]

At(f, i, k) == f \in Fields /\ i \in 1 .. Len(Texts(f)) /\ k \in 1 .. Len(Texts(f)[i])

EntryAt(f, i, k) == Texts(f)[i][k]

IsTold(n) == \E f \in Fields, i, k \in Nat : At(f, i, k) /\ EntryAt(f, i, k).number = n

(* Line n is of field f: it has its tag, or goes on with it.               *)
Belongs(f, n) ==
    f # "details" =>
        \/ ~InExample(n) /\ TagOf(n) = f
        \/ f \in {"param", "note"} /\ GoesWithTag(n)

(* No line is told twice; what is told was read, and is told where it      *)
(* belongs; and whatever was read is told, or names the {file}, or was     *)
(* replaced, or says nothing.                                              *)
Apart ==
    \A f, g, i, j, k, l :
        At(f, i, k) /\ At(g, j, l) /\ EntryAt(f, i, k).number = EntryAt(g, j, l).number =>
            f = g /\ i = j /\ k = l

AsRead ==
    \A f, i, k : At(f, i, k) =>
        /\ EntryAt(f, i, k).number \in 1 .. Len(lines)
        /\ EntryAt(f, i, k).blank => lines[EntryAt(f, i, k).number].tag = "blank"
        /\ Belongs(f, EntryAt(f, i, k).number)

Covered(n) ==
    \/ lines[n].tag = "blank"
    \/ IsTold(n)
    \/ ~InExample(n) /\ TagOf(n) = "file"
    \/ Replaced(n)

ToldInv == Apart /\ AsRead /\ \A n \in 1 .. Len(lines) : Covered(n)

LEMMA PlaceTypes ==
    ASSUME CommentTypeInv, NEW f, NEW i, NEW k, At(f, i, k)
    PROVE  f \in Fields /\ i \in Nat /\ k \in Nat /\ EntryAt(f, i, k) \in Entry
<1>1. f \in Fields /\ Texts(f) \in Seq(Seq(Entry))
  BY DEF At, Texts, CommentTypeInv, DocType, Fields
<1>2. i \in 1 .. Len(Texts(f)) /\ Texts(f)[i] \in Seq(Entry) /\ k \in 1 .. Len(Texts(f)[i])
  BY <1>1 DEF At
<1> QED BY <1>1, <1>2 DEF EntryAt

(* A branch that changes one field puts the line in one place of it, and   *)
(* leaves every other place as it was, but that brief, returns and page    *)
(* lose what they said before.                                             *)
Puts(f0, i0, k0, c) ==
    /\ At(f0, i0, k0)' /\ EntryAt(f0, i0, k0)' = c
    /\ \A f, i, k : At(f, i, k)' =>
          \/ f = f0 /\ i = i0 /\ k = k0
          \/ At(f, i, k) /\ EntryAt(f, i, k)' = EntryAt(f, i, k)
    /\ \A f, i, k : At(f, i, k) =>
          \/ At(f, i, k)' /\ EntryAt(f, i, k)' = EntryAt(f, i, k)
          \/ f = f0 /\ f0 \in {"brief", "returns", "page"}

LEMMA FlatFieldPut ==
    ASSUME CommentTypeInv, NEW f \in FlatFields, NEW s \in Seq(Entry), NEW c \in Entry,
           doc' = [doc EXCEPT ![f] = s],
           \/ s = Append(doc[f], c)
           \/ s = <<c>> /\ f \in {"brief", "returns", "page"}
    PROVE  Puts(f, 1, Len(s), c)
<1>1. /\ doc \in [Fields -> Seq(Entry) \union Seq(Seq(Entry))]
      /\ doc[f] \in Seq(Entry)
  BY DEF CommentTypeInv, DocType, Fields
<1>2. f \in Fields
  BY DEF Fields
<1>3. \A g \in Fields \ {f} : Texts(g)' = Texts(g)
  BY <1>1 DEF Texts
<1>4. Texts(f)' = <<s>> /\ Texts(f) = <<doc[f]>>
  BY <1>1, <1>2 DEF Texts
<1>5. /\ Len(s) \in 1 .. Len(s) /\ s[Len(s)] = c
      /\ \A k \in 1 .. Len(s) : \/ k = Len(s)
                                \/ k \in 1 .. Len(doc[f]) /\ s[k] = doc[f][k]
      /\ \A k \in 1 .. Len(doc[f]) : \/ k \in 1 .. Len(s) /\ s[k] = doc[f][k]
                                     \/ f \in {"brief", "returns", "page"}
  <2>1. CASE s = Append(doc[f], c)
    BY <1>1, <2>1, Longer
  <2>2. CASE s = <<c>> /\ f \in {"brief", "returns", "page"}
    BY <2>2
  <2> QED BY <2>1, <2>2
<1>6. \A i, k : At(f, i, k)' <=> i = 1 /\ k \in 1 .. Len(s)
  BY <1>2, <1>4 DEF At
<1>7. \A i, k : At(f, i, k) <=> i = 1 /\ k \in 1 .. Len(doc[f])
  BY <1>2, <1>4 DEF At
<1>8. \A k : EntryAt(f, 1, k)' = s[k] /\ EntryAt(f, 1, k) = doc[f][k]
  BY <1>4 DEF EntryAt
<1>9. \A g, i, k : g # f => /\ At(g, i, k)' <=> At(g, i, k)
                            /\ At(g, i, k) => EntryAt(g, i, k)' = EntryAt(g, i, k)
  BY <1>3 DEF At, EntryAt
<1>10. At(f, 1, Len(s))' /\ EntryAt(f, 1, Len(s))' = c
  BY <1>5, <1>6, <1>8
<1>11. ASSUME NEW g, NEW i, NEW k, At(g, i, k)'
       PROVE  \/ g = f /\ i = 1 /\ k = Len(s)
              \/ At(g, i, k) /\ EntryAt(g, i, k)' = EntryAt(g, i, k)
  <2>1. CASE g = f
    BY <1>5, <1>6, <1>7, <1>8, <1>11, <2>1
  <2> QED BY <1>9, <1>11, <2>1
<1>12. ASSUME NEW g, NEW i, NEW k, At(g, i, k)
       PROVE  \/ At(g, i, k)' /\ EntryAt(g, i, k)' = EntryAt(g, i, k)
              \/ g = f /\ f \in {"brief", "returns", "page"}
  <2>1. CASE g = f
    BY <1>5, <1>6, <1>7, <1>8, <1>12, <2>1
  <2> QED BY <1>9, <1>12, <2>1
<1> QED BY <1>10, <1>11, <1>12 DEF Puts

LEMMA ListFieldPut ==
    ASSUME CommentTypeInv, NEW f \in ListFields, NEW ss, NEW c \in Entry,
           doc' = [doc EXCEPT ![f] = ss],
           \/ ss = Append(doc[f], <<c>>)
           \/ /\ doc[f] # <<>>
              /\ ss = [doc[f] EXCEPT ![Len(doc[f])] = Append(doc[f][Len(doc[f])], c)]
    PROVE  \E i, k \in Nat : Puts(f, i, k, c)
<1>1. /\ doc \in [Fields -> Seq(Entry) \union Seq(Seq(Entry))]
      /\ doc[f] \in Seq(Seq(Entry))
  BY DEF CommentTypeInv, DocType, Fields
<1>2. f \in Fields /\ f \notin FlatFields
  BY DEF Fields, FlatFields, ListFields
<1>3. \A g \in Fields \ {f} : Texts(g)' = Texts(g)
  BY <1>1 DEF Texts
<1>4. PICK old : old = doc[f] /\ old \in Seq(Seq(Entry))
  BY <1>1
<1>5. Texts(f)' = ss /\ Texts(f) = old
  BY <1>1, <1>2, <1>4 DEF Texts
<1>6. /\ Len(old) \in Nat
      /\ \A i \in 1 .. Len(old) : old[i] \in Seq(Entry) /\ Len(old[i]) \in Nat
  BY <1>4
<1>7. <<c>> \in Seq(Entry) /\ Len(<<c>>) = 1 /\ <<c>>[1] = c
  OBVIOUS
<1>8. \E i0, k0 \in Nat :
        /\ i0 \in 1 .. Len(ss) /\ k0 \in 1 .. Len(ss[i0]) /\ ss[i0][k0] = c
        /\ \A i \in 1 .. Len(ss) : \A k \in 1 .. Len(ss[i]) :
              \/ i = i0 /\ k = k0
              \/ i \in 1 .. Len(old) /\ k \in 1 .. Len(old[i]) /\ ss[i][k] = old[i][k]
        /\ \A i \in 1 .. Len(old) : \A k \in 1 .. Len(old[i]) :
              i \in 1 .. Len(ss) /\ k \in 1 .. Len(ss[i]) /\ ss[i][k] = old[i][k]
  <2>1. CASE ss = Append(old, <<c>>)
    <3>1. /\ Len(ss) = Len(old) + 1 /\ ss[Len(old) + 1] = <<c>>
          /\ \A i \in 1 .. Len(old) : ss[i] = old[i]
      BY <1>4, <1>7, <2>1, Longer
    <3>2. \A i \in 1 .. Len(ss) : i = Len(old) + 1 \/ i \in 1 .. Len(old)
      BY <1>6, <3>1
    <3>3. PICK n : n = Len(old) + 1
      OBVIOUS
    <3>4. n \in Nat /\ n \in 1 .. Len(ss) /\ 1 \in 1 .. Len(ss[n]) /\ ss[n][1] = c
      BY <1>6, <1>7, <3>1, <3>3
    <3>5. \A i \in 1 .. Len(ss) : \A k \in 1 .. Len(ss[i]) :
            \/ i = n /\ k = 1
            \/ i \in 1 .. Len(old) /\ k \in 1 .. Len(old[i]) /\ ss[i][k] = old[i][k]
      <4> SUFFICES ASSUME NEW i \in 1 .. Len(ss), NEW k \in 1 .. Len(ss[i])
                   PROVE  \/ i = n /\ k = 1
                          \/ i \in 1 .. Len(old) /\ k \in 1 .. Len(old[i]) /\ ss[i][k] = old[i][k]
        OBVIOUS
      <4>1. CASE i = n
        <5>1. k \in 1 .. 1
          BY <1>7, <3>1, <3>3, <4>1
        <5> QED BY <4>1, <5>1
      <4>2. CASE i \in 1 .. Len(old)
        BY <3>1, <4>2
      <4> QED BY <3>2, <3>3, <4>1, <4>2
    <3>6. \A i \in 1 .. Len(old) : i \in 1 .. Len(ss)
      BY <1>6, <3>1
    <3> QED BY <3>1, <3>4, <3>5, <3>6
  <2>2. CASE old # <<>> /\ ss = [old EXCEPT ![Len(old)] = Append(old[Len(old)], c)]
    <3>1. PICK n : n = Len(old) /\ n \in 1 .. Len(old)
      <4>1. Len(old) \in 1 .. Len(old)
        BY <1>4, <2>2
      <4> QED BY <4>1
    <3>2. PICK t : t = Append(old[n], c)
      OBVIOUS
    <3>3. /\ t \in Seq(Entry) /\ Len(t) = Len(old[n]) + 1 /\ t[Len(old[n]) + 1] = c
          /\ \A k \in 1 .. Len(old[n]) : t[k] = old[n][k]
      BY <1>6, <3>1, <3>2, Longer
    <3>4. /\ Len(ss) = Len(old)
          /\ \A i \in 1 .. Len(old) : ss[i] = IF i = n THEN t ELSE old[i]
      <4>1. ss = [old EXCEPT ![n] = t]
        BY <2>2, <3>1, <3>2
      <4> QED BY <1>4, <3>1, <3>3, <4>1, ExceptSeq
    <3>5. \A k \in 1 .. Len(t) : k = Len(old[n]) + 1 \/ k \in 1 .. Len(old[n])
      BY <1>6, <3>1, <3>3
    <3>6. ss[n] = t /\ Len(old[n]) + 1 \in 1 .. Len(t) /\ Len(old[n]) + 1 \in Nat /\ n \in Nat
      BY <1>6, <3>1, <3>3, <3>4
    <3>7. \A k \in 1 .. Len(old[n]) : k \in 1 .. Len(t)
      BY <1>6, <3>1, <3>3
    <3> QED BY <3>1, <3>3, <3>4, <3>5, <3>6, <3>7, SMTT(30)
  <2> QED BY <1>4, <2>1, <2>2
<1>9. PICK i0, k0 \in Nat :
        /\ i0 \in 1 .. Len(ss) /\ k0 \in 1 .. Len(ss[i0]) /\ ss[i0][k0] = c
        /\ \A i \in 1 .. Len(ss) : \A k \in 1 .. Len(ss[i]) :
              \/ i = i0 /\ k = k0
              \/ i \in 1 .. Len(old) /\ k \in 1 .. Len(old[i]) /\ ss[i][k] = old[i][k]
        /\ \A i \in 1 .. Len(old) : \A k \in 1 .. Len(old[i]) :
              i \in 1 .. Len(ss) /\ k \in 1 .. Len(ss[i]) /\ ss[i][k] = old[i][k]
  BY <1>8
<1>10. \A i, k : At(f, i, k)' <=> i \in 1 .. Len(ss) /\ k \in 1 .. Len(ss[i])
  BY <1>2, <1>5 DEF At
<1>11. \A i, k : At(f, i, k) <=> i \in 1 .. Len(old) /\ k \in 1 .. Len(old[i])
  BY <1>2, <1>5 DEF At
<1>12. \A i, k : EntryAt(f, i, k)' = ss[i][k] /\ EntryAt(f, i, k) = old[i][k]
  BY <1>5 DEF EntryAt
<1>13. \A g, i, k : g # f => /\ At(g, i, k)' <=> At(g, i, k)
                             /\ At(g, i, k) => EntryAt(g, i, k)' = EntryAt(g, i, k)
  BY <1>3 DEF At, EntryAt
<1>14. At(f, i0, k0)' /\ EntryAt(f, i0, k0)' = c
  BY <1>9, <1>10, <1>12
<1>15. ASSUME NEW g, NEW i, NEW k, At(g, i, k)'
       PROVE  \/ g = f /\ i = i0 /\ k = k0
              \/ At(g, i, k) /\ EntryAt(g, i, k)' = EntryAt(g, i, k)
  <2>1. CASE g = f
    <3>1. i \in 1 .. Len(ss) /\ k \in 1 .. Len(ss[i])
      BY <1>10, <1>15, <2>1
    <3>2. \/ i = i0 /\ k = k0
          \/ i \in 1 .. Len(old) /\ k \in 1 .. Len(old[i]) /\ ss[i][k] = old[i][k]
      BY <1>9, <3>1
    <3> QED BY <1>11, <1>12, <2>1, <3>2
  <2> QED BY <1>13, <1>15, <2>1
<1>16. ASSUME NEW g, NEW i, NEW k, At(g, i, k)
       PROVE  At(g, i, k)' /\ EntryAt(g, i, k)' = EntryAt(g, i, k)
  <2>1. CASE g = f
    BY <1>9, <1>10, <1>11, <1>12, <1>16, <2>1, SMTT(30)
  <2> QED BY <1>13, <1>16, <2>1
<1>17. Puts(f, i0, k0, c)
  BY <1>14, <1>15, <1>16 DEF Puts
<1> QED BY <1>17

(* What is put in a field other than the details is of it.                 *)
Fits(f, line) ==
    f # "details" =>
        /\ ~inFence /\ line.tag # "fence"
        /\ \/ NormalizedTag(line) = f
           \/ f \in {"param", "note"} /\ GoesOn(line) /\ doc[f] # <<>>

LEMMA LinePut ==
    ASSUME CommentTypeInv, NEW line, NEW c \in Entry, Placed(line, c)
    PROVE  \/ \E f \in Fields, i, k \in Nat : Puts(f, i, k, c) /\ Fits(f, line)
           \/ doc' = doc /\ NormalizedTag(line) = "file" /\ ~inFence /\ line.tag # "fence"
<1>1. /\ "details" \in FlatFields /\ {"brief", "returns", "page"} \subseteq FlatFields
      /\ FlatFields \subseteq Fields /\ ListFields \subseteq Fields
      /\ {"param", "note"} \subseteq ListFields
  BY DEF Fields, FlatFields, ListFields
<1>2. \A f \in FlatFields : doc[f] \in Seq(Entry)
  BY DEF CommentTypeInv, DocType
<1>3. \A s \in Seq(Entry) : Len(s) \in Nat
  OBVIOUS
<1>4. CASE Told(c)
  <2>1. PICK s : s = Append(doc["details"], c) /\ s \in Seq(Entry)
    BY <1>1, <1>2, AppendProperties
  <2>2. Puts("details", 1, Len(s), c)
    BY <1>1, <1>4, <2>1, FlatFieldPut DEF Told
  <2>3. Fits("details", line)
    BY DEF Fits
  <2> QED BY <1>1, <1>3, <2>1, <2>2, <2>3
<1>5. ASSUME NEW f \in {"brief", "returns", "page"}, Says(f, c)
      PROVE  Puts(f, 1, 1, c)
  <2>1. <<c>> \in Seq(Entry) /\ Len(<<c>>) = 1
    OBVIOUS
  <2>2. Puts(f, 1, Len(<<c>>), c)
    BY <1>1, <1>5, <2>1, FlatFieldPut DEF Says
  <2> QED BY <2>1, <2>2
<1>6. ASSUME NEW f \in ListFields, SaysMore(f, c) \/ LastGrown(f, c)
      PROVE  \E i, k \in Nat : Puts(f, i, k, c)
  BY <1>6, ListFieldPut DEF SaysMore, LastGrown
<1>7. CASE /\ ~inFence /\ line.tag # "fence"
           /\ \/ \E f \in {"brief", "returns", "page"} : NormalizedTag(line) = f /\ Says(f, c)
              \/ \E f \in ListFields : NormalizedTag(line) = f /\ SaysMore(f, c)
              \/ \E f \in {"param", "note"} : GoesOn(line) /\ LastGrown(f, c)
              \/ NormalizedTag(line) = "file" /\ doc' = doc
  <2>1. ASSUME NEW f \in {"brief", "returns", "page"}, NormalizedTag(line) = f, Says(f, c)
        PROVE  \E g \in Fields, i, k \in Nat : Puts(g, i, k, c) /\ Fits(g, line)
    <3>1. Fits(f, line)
      BY <1>7, <2>1 DEF Fits
    <3> QED BY <1>1, <1>5, <2>1, <3>1
  <2>2. ASSUME NEW f \in ListFields, NormalizedTag(line) = f, SaysMore(f, c)
        PROVE  \E g \in Fields, i, k \in Nat : Puts(g, i, k, c) /\ Fits(g, line)
    <3>1. Fits(f, line)
      BY <1>7, <2>2 DEF Fits
    <3> QED BY <1>1, <1>6, <2>2, <3>1
  <2>3. ASSUME NEW f \in {"param", "note"}, GoesOn(line), LastGrown(f, c)
        PROVE  \E g \in Fields, i, k \in Nat : Puts(g, i, k, c) /\ Fits(g, line)
    <3>1. Fits(f, line)
      BY <1>7, <2>3 DEF Fits, LastGrown
    <3> QED BY <1>1, <1>6, <2>3, <3>1
  <2> QED BY <1>7, <2>1, <2>2, <2>3
<1> QED BY <1>4, <1>7 DEF Placed

LEMMA ToldGrows ==
    ASSUME CommentTypeInv, FenceInv, JoinInv, ToldInv, ~finished, NEW line \in Lines,
           lines' = Append(lines, line), NEW n, n = Len(lines),
           inFence' = (IF line.tag = "fence" THEN ~inFence ELSE inFence),
           doc' \in DocType, Placed(line, Content(n + 1, line))
    PROVE  ToldInv'
<1>1. /\ n \in Nat /\ Len(lines') = n + 1
      /\ \A m \in 1 .. n : lines'[m] = lines[m]
      /\ lines'[n + 1] = line
  BY FencesCount
<1>2. /\ \A m \in 1 .. n : InExample(m)' <=> InExample(m)
      /\ InExample(n + 1)' <=> inFence \/ line.tag = "fence"
  BY FenceStep
<1>3. PICK c : c = Content(n + 1, line)
  OBVIOUS
<1>4. c \in Entry /\ c.number = n + 1 /\ (c.blank <=> line.tag = "blank")
  BY <1>1, <1>3, ContentType
<1>5. /\ TagOf(n + 1)' = NormalizedTag(line)
      /\ \A m \in 1 .. n : TagOf(m)' = TagOf(m)
      /\ \A m \in 1 .. n : Single(m)' <=> Single(m)
      /\ \A f : \A m \in 1 .. n : Belongs(f, m)' <=> Belongs(f, m)
  <2>1. /\ TagOf(n + 1)' = NormalizedTag(line)
        /\ \A m \in 1 .. n : TagOf(m)' = TagOf(m)
        /\ \A m \in 1 .. n : GoesWithTag(m)' <=> GoesWithTag(m)
    BY JoinsAgain
  <2> QED BY <1>2, <2>1 DEF Single, Belongs
<1>6. \A m \in 1 .. n : m \in 1 .. Len(lines') /\ m # n + 1 /\ n + 1 \in m + 1 .. Len(lines')
  BY <1>1
<1>7. \A m \in 1 .. n : Replaced(m) => Replaced(m)'
  <2> SUFFICES ASSUME NEW m \in 1 .. n, Replaced(m) PROVE Replaced(m)'
    OBVIOUS
  <2>1. PICK k \in m + 1 .. n : Single(k) /\ TagOf(k) = TagOf(m)
    BY DEF Replaced
  <2>2. k \in 1 .. n /\ k \in m + 1 .. Len(lines')
    BY <1>1
  <2>3. Single(m) /\ Single(k)'
    BY <1>5, <2>1, <2>2 DEF Replaced
  <2> QED BY <1>1, <1>5, <2>1, <2>2, <2>3 DEF Replaced
<1>8. /\ \A f, g, i, j, k, l :
            At(f, i, k) /\ At(g, j, l) /\ EntryAt(f, i, k).number = EntryAt(g, j, l).number =>
                f = g /\ i = j /\ k = l
      /\ \A f, i, k : At(f, i, k) =>
            /\ EntryAt(f, i, k).number \in 1 .. n
            /\ EntryAt(f, i, k).blank => lines[EntryAt(f, i, k).number].tag = "blank"
            /\ Belongs(f, EntryAt(f, i, k).number)
      /\ \A m \in 1 .. n : Covered(m)
  BY DEF ToldInv, Apart, AsRead
<1>9. \A f, i, k : At(f, i, k)' => f \in Fields /\ i \in Nat /\ k \in Nat
  <2>1. \A f \in Fields : Texts(f)' \in Seq(Seq(Entry))
    BY DEF Texts, DocType, Fields
  <2> QED BY <2>1 DEF At
<1>10. ASSUME NEW f0 \in Fields, NEW i0 \in Nat, NEW k0 \in Nat, Puts(f0, i0, k0, c),
              Fits(f0, line)
       PROVE  ToldInv'
  <2>1. /\ At(f0, i0, k0)' /\ EntryAt(f0, i0, k0)' = c
        /\ \A f, i, k : At(f, i, k)' =>
              \/ f = f0 /\ i = i0 /\ k = k0
              \/ At(f, i, k) /\ EntryAt(f, i, k)' = EntryAt(f, i, k)
        /\ \A f, i, k : At(f, i, k) =>
              \/ At(f, i, k)' /\ EntryAt(f, i, k)' = EntryAt(f, i, k)
              \/ f = f0 /\ f0 \in {"brief", "returns", "page"}
    BY <1>10 DEF Puts
  <2>2. f0 \in {"brief", "returns", "page"} => Single(n + 1)' /\ TagOf(n + 1)' = f0
    BY <1>2, <1>5, <1>10 DEF Single, Fits
  <2>10. Belongs(f0, n + 1)'
    <3>1. CASE f0 # "details" /\ NormalizedTag(line) = f0
      BY <1>2, <1>5, <1>10, <3>1 DEF Belongs, Fits
    <3>2. CASE f0 \in {"param", "note"} /\ GoesOn(line) /\ doc[f0] # <<>>
      <4>1. GoesWithTag(n + 1)'
        BY <3>2, GoesOnWithTag
      <4> QED BY <3>2, <4>1 DEF Belongs
    <3>3. CASE f0 = "details"
      BY <3>3 DEF Belongs
    <3> QED BY <1>10, <3>1, <3>2, <3>3 DEF Fits
  <2>3. ASSUME NEW f, NEW i, NEW k, At(f, i, k)'
        PROVE  \/ f = f0 /\ i = i0 /\ k = k0 /\ EntryAt(f, i, k)'.number = n + 1
               \/ /\ At(f, i, k) /\ EntryAt(f, i, k)' = EntryAt(f, i, k)
                  /\ EntryAt(f, i, k)'.number \in 1 .. n
    BY <1>4, <1>8, <2>1, <2>3
  <2>4. Apart'
    <3> SUFFICES ASSUME NEW f, NEW g, NEW i, NEW j, NEW k, NEW l, At(f, i, k)', At(g, j, l)',
                        EntryAt(f, i, k)'.number = EntryAt(g, j, l)'.number
                 PROVE  f = g /\ i = j /\ k = l
      BY DEF Apart
    <3>1. \/ f = f0 /\ i = i0 /\ k = k0 /\ EntryAt(f, i, k)'.number = n + 1
          \/ /\ At(f, i, k) /\ EntryAt(f, i, k)' = EntryAt(f, i, k)
             /\ EntryAt(f, i, k)'.number \in 1 .. n
      BY <2>3
    <3>2. \/ g = f0 /\ j = i0 /\ l = k0 /\ EntryAt(g, j, l)'.number = n + 1
          \/ /\ At(g, j, l) /\ EntryAt(g, j, l)' = EntryAt(g, j, l)
             /\ EntryAt(g, j, l)'.number \in 1 .. n
      BY <2>3
    <3>3. n + 1 \notin 1 .. n
      BY <1>1
    <3> QED BY <1>8, <3>1, <3>2, <3>3
  <2>5. AsRead'
    <3> SUFFICES ASSUME NEW f, NEW i, NEW k, At(f, i, k)'
                 PROVE  /\ EntryAt(f, i, k)'.number \in 1 .. Len(lines')
                        /\ EntryAt(f, i, k)'.blank =>
                              lines'[EntryAt(f, i, k)'.number].tag = "blank"
                        /\ Belongs(f, EntryAt(f, i, k).number)'
      BY DEF AsRead
    <3>1. CASE f = f0 /\ i = i0 /\ k = k0
      <4>1. EntryAt(f, i, k)' = c /\ n + 1 \in 1 .. Len(lines')
        BY <1>1, <2>1, <3>1
      <4>2. Belongs(f, EntryAt(f, i, k).number)' <=> Belongs(f0, n + 1)'
        BY <1>4, <3>1, <4>1
      <4> QED BY <1>1, <1>4, <2>10, <3>1, <4>1, <4>2
    <3>2. CASE At(f, i, k) /\ EntryAt(f, i, k)' = EntryAt(f, i, k)
      <4>1. PICK m \in 1 .. n : m = EntryAt(f, i, k).number
        BY <1>8, <3>2
      <4>2. EntryAt(f, i, k)'.number = m /\ lines'[m] = lines[m] /\ (Belongs(f, m)' <=> Belongs(f, m))
        BY <1>1, <1>5, <3>2, <4>1
      <4>3. Belongs(f, EntryAt(f, i, k).number)' <=> Belongs(f, m)'
        BY <4>2
      <4> QED BY <1>6, <1>8, <3>2, <4>1, <4>2, <4>3
    <3> QED BY <2>1, <3>1, <3>2
  <2>6. ASSUME NEW m \in 1 .. n PROVE Covered(m)'
    <3>1. lines'[m] = lines[m] /\ (InExample(m)' <=> InExample(m)) /\ TagOf(m)' = TagOf(m)
      BY <1>1, <1>2, <1>5
    <3>2. CASE IsTold(m)
      <4>1. PICK f \in Fields, i \in Nat, k \in Nat :
               At(f, i, k) /\ EntryAt(f, i, k).number = m
        BY <3>2 DEF IsTold
      <4>2. CASE At(f, i, k)' /\ EntryAt(f, i, k)' = EntryAt(f, i, k)
        BY <4>1, <4>2 DEF IsTold, Covered
      <4>3. CASE f = f0 /\ f0 \in {"brief", "returns", "page"}
        <5>1. Single(m) /\ TagOf(m) = f0
          <6>1. Belongs(f0, m)
            BY <1>8, <4>1, <4>3
          <6> QED BY <4>3, <6>1 DEF Belongs, Single
        <5>2. Single(n + 1)' /\ TagOf(n + 1)' = f0
          BY <2>2, <4>3
        <5>3. Replaced(m)'
          BY <1>5, <1>6, <3>1, <5>1, <5>2 DEF Replaced
        <5> QED BY <5>3 DEF Covered
      <4> QED BY <2>1, <4>1, <4>2, <4>3
    <3>3. CASE lines[m].tag = "blank"
      BY <3>1, <3>3 DEF Covered
    <3>4. CASE ~InExample(m) /\ TagOf(m) = "file"
      BY <3>1, <3>4 DEF Covered
    <3>5. CASE Replaced(m)
      BY <1>7, <3>5 DEF Covered
    <3>6. Covered(m)
      BY <1>8
    <3> QED BY <3>2, <3>3, <3>4, <3>5, <3>6 DEF Covered
  <2>7. Covered(n + 1)'
    <3>1. IsTold(n + 1)'
      BY <1>4, <2>1 DEF IsTold
    <3> QED BY <3>1 DEF Covered
  <2>8. \A m \in 1 .. Len(lines') : m \in 1 .. n \/ m = n + 1
    BY <1>1
  <2>9. \A m \in 1 .. Len(lines') : Covered(m)'
    BY <2>6, <2>7, <2>8
  <2> QED BY <2>4, <2>5, <2>9 DEF ToldInv
<1>11. CASE doc' = doc /\ NormalizedTag(line) = "file" /\ ~inFence /\ line.tag # "fence"
  <2>1. \A f, i, k : /\ At(f, i, k)' <=> At(f, i, k)
                     /\ EntryAt(f, i, k)' = EntryAt(f, i, k)
    BY <1>11 DEF At, EntryAt, Texts
  <2>2. Apart'
    BY <1>8, <2>1 DEF Apart
  <2>3. AsRead'
    <3> SUFFICES ASSUME NEW f, NEW i, NEW k, At(f, i, k)
                 PROVE  /\ EntryAt(f, i, k)'.number \in 1 .. Len(lines')
                        /\ EntryAt(f, i, k)'.blank =>
                              lines'[EntryAt(f, i, k)'.number].tag = "blank"
                        /\ Belongs(f, EntryAt(f, i, k).number)'
      BY <2>1 DEF AsRead
    <3>1. PICK m \in 1 .. n : m = EntryAt(f, i, k).number
      BY <1>8
    <3>2. EntryAt(f, i, k)'.number = m /\ lines'[m] = lines[m] /\ (Belongs(f, m)' <=> Belongs(f, m))
      BY <1>1, <1>5, <2>1, <3>1
    <3>3. Belongs(f, EntryAt(f, i, k).number)' <=> Belongs(f, m)'
      BY <3>2
    <3> QED BY <1>6, <1>8, <2>1, <3>1, <3>2, <3>3
  <2>4. ASSUME NEW m \in 1 .. n PROVE Covered(m)'
    <3>1. /\ lines'[m] = lines[m] /\ (InExample(m)' <=> InExample(m)) /\ Covered(m)
          /\ TagOf(m)' = TagOf(m)
      BY <1>1, <1>2, <1>5, <1>8
    <3>2. IsTold(m) => IsTold(m)'
      BY <2>1 DEF IsTold
    <3> QED BY <1>7, <3>1, <3>2 DEF Covered
  <2>5. Covered(n + 1)'
    BY <1>2, <1>5, <1>11 DEF Covered
  <2>6. \A m \in 1 .. Len(lines') : m \in 1 .. n \/ m = n + 1
    BY <1>1
  <2>7. \A m \in 1 .. Len(lines') : Covered(m)'
    BY <2>4, <2>5, <2>6
  <2> QED BY <2>2, <2>3, <2>7 DEF ToldInv
<1>12. \/ \E f \in Fields, i, k \in Nat : Puts(f, i, k, c) /\ Fits(f, line)
       \/ doc' = doc /\ NormalizedTag(line) = "file" /\ ~inFence /\ line.tag # "fence"
  BY <1>3, <1>4, LinePut
<1> QED BY <1>10, <1>11, <1>12

LEMMA FinishTells ==
    ASSUME CommentTypeInv, ToldInv, Finish
    PROVE  ToldInv'
<1>1. PICK d : d = doc.details
  OBVIOUS
<1>2. lines' = lines /\ d \in Seq(Entry) /\ Len(d) \in Nat
  BY <1>1, FinishDrops
<1>3. PICK e \in Seq(Entry), shift \in 0 .. Len(d) :
        /\ doc' = [doc EXCEPT !["details"] = e] /\ Len(e) = Len(d) - shift
        /\ \A i \in 1 .. Len(e) : e[i] = d[i + shift]
        /\ \A i \in 1 .. shift : d[i].blank
  <2>1. \E e \in Seq(Entry), shift \in 0 .. Len(d) : BlankGone(d, e, shift)
    BY <1>1, FinishDrops
  <2> QED BY <2>1 DEF BlankGone
<1>4. Texts("details") = <<d>> /\ Texts("details")' = <<e>>
  BY <1>1, <1>3 DEF Texts, CommentTypeInv, DocType, FlatFields
<1>5. \A f \in Fields \ {"details"} : Texts(f)' = Texts(f)
  BY <1>3 DEF Texts, CommentTypeInv, DocType, Fields
<1>6. "details" \in Fields
  BY DEF Fields, FlatFields
<1>7. /\ \A i, k : At("details", i, k) <=> i = 1 /\ k \in 1 .. Len(d)
      /\ \A i, k : At("details", i, k)' <=> i = 1 /\ k \in 1 .. Len(e)
      /\ \A k : EntryAt("details", 1, k) = d[k] /\ EntryAt("details", 1, k)' = e[k]
  BY <1>4, <1>6 DEF At, EntryAt
<1>8. \A f, i, k : f # "details" =>
         /\ At(f, i, k)' <=> At(f, i, k)
         /\ At(f, i, k) => EntryAt(f, i, k)' = EntryAt(f, i, k)
  BY <1>5 DEF At, EntryAt
<1>9. \A k \in 1 .. Len(e) : k + shift \in 1 .. Len(d) /\ e[k] = d[k + shift]
  BY <1>2, <1>3
<1>10. /\ \A f, g, i, j, k, l :
            At(f, i, k) /\ At(g, j, l) /\ EntryAt(f, i, k).number = EntryAt(g, j, l).number =>
                f = g /\ i = j /\ k = l
       /\ \A f, i, k : At(f, i, k) =>
            /\ EntryAt(f, i, k).number \in 1 .. Len(lines)
            /\ EntryAt(f, i, k).blank => lines[EntryAt(f, i, k).number].tag = "blank"
            /\ Belongs(f, EntryAt(f, i, k).number)
       /\ \A m \in 1 .. Len(lines) : Covered(m)
  BY DEF ToldInv, Apart, AsRead
<1>11. \A n : /\ TagOf(n)' = TagOf(n)
              /\ InExample(n)' <=> InExample(n)
              /\ Replaced(n)' <=> Replaced(n)
              /\ \A f : Belongs(f, n)' <=> Belongs(f, n)
  <2>1. \A n : TagOf(n)' = TagOf(n) /\ (InExample(n)' <=> InExample(n))
    BY <1>2 DEF TagOf, InExample, FencesUpTo
  <2>2. \A n : Replaced(n)' <=> Replaced(n)
    BY <1>2, <2>1 DEF Replaced, Single
  <2>3. \A n : ExtendsTag(n)' <=> ExtendsTag(n)
    BY <2>1 DEF ExtendsTag
  <2>4. \A n : GoesWithTag(n)' <=> GoesWithTag(n)
    BY <2>1, <2>3 DEF GoesWithTag
  <2> QED BY <2>1, <2>2, <2>4 DEF Belongs
<1>12. ASSUME NEW f, NEW i, NEW k, At(f, i, k)'
       PROVE  \/ /\ f = "details" /\ i = 1 /\ k \in 1 .. Len(e) /\ At(f, 1, k + shift)
                 /\ EntryAt(f, i, k)' = EntryAt(f, 1, k + shift)
              \/ f # "details" /\ At(f, i, k) /\ EntryAt(f, i, k)' = EntryAt(f, i, k)
  <2>1. CASE f = "details"
    <3>1. i = 1 /\ k \in 1 .. Len(e)
      BY <1>7, <1>12, <2>1
    <3>2. EntryAt(f, i, k)' = e[k] /\ EntryAt(f, 1, k + shift) = d[k + shift]
      BY <1>7, <2>1, <3>1
    <3>3. At(f, 1, k + shift) /\ e[k] = d[k + shift]
      BY <1>7, <1>9, <2>1, <3>1
    <3> QED BY <2>1, <3>1, <3>2, <3>3
  <2> QED BY <1>8, <1>12, <2>1
<1>13. Apart'
  <2> SUFFICES ASSUME NEW f, NEW g, NEW i, NEW j, NEW k, NEW l, At(f, i, k)', At(g, j, l)',
                      EntryAt(f, i, k)'.number = EntryAt(g, j, l)'.number
               PROVE  f = g /\ i = j /\ k = l
    BY DEF Apart
  <2>1. CASE f = "details" /\ g = "details"
    <3>1. k + shift = l + shift /\ i = j /\ k \in 1 .. Len(e) /\ l \in 1 .. Len(e)
      BY <1>10, <1>12, <2>1
    <3> QED BY <1>2, <2>1, <3>1
  <2>2. CASE f = "details" /\ g # "details"
    BY <1>10, <1>12, <2>2
  <2>3. CASE f # "details" /\ g = "details"
    BY <1>10, <1>12, <2>3
  <2>4. CASE f # "details" /\ g # "details"
    BY <1>10, <1>12, <2>4
  <2> QED BY <2>1, <2>2, <2>3, <2>4
<1>14. AsRead'
  <2> SUFFICES ASSUME NEW f, NEW i, NEW k, At(f, i, k)'
               PROVE  /\ EntryAt(f, i, k)'.number \in 1 .. Len(lines)
                      /\ EntryAt(f, i, k)'.blank => lines[EntryAt(f, i, k)'.number].tag = "blank"
                      /\ Belongs(f, EntryAt(f, i, k).number)'
    BY <1>2 DEF AsRead
  <2>1. CASE f = "details"
    <3>1. Belongs(f, EntryAt(f, i, k).number)'
      BY <2>1 DEF Belongs
    <3> QED BY <1>10, <1>12, <2>1, <3>1
  <2>2. CASE f # "details"
    <3>1. At(f, i, k) /\ EntryAt(f, i, k)' = EntryAt(f, i, k)
      BY <1>12, <2>2
    <3>2. PICK m : m = EntryAt(f, i, k).number
      OBVIOUS
    <3>3. EntryAt(f, i, k)'.number = m /\ (Belongs(f, m)' <=> Belongs(f, m))
      BY <1>11, <3>1, <3>2
    <3>4. Belongs(f, EntryAt(f, i, k).number)' <=> Belongs(f, m)'
      BY <3>3
    <3> QED BY <1>10, <3>1, <3>2, <3>3, <3>4
  <2> QED BY <2>1, <2>2
<1>15. ASSUME NEW m \in 1 .. Len(lines) PROVE Covered(m)'
  <2>1. CASE IsTold(m)
    <3>1. PICK f \in Fields, i \in Nat, k \in Nat :
             At(f, i, k) /\ EntryAt(f, i, k).number = m
      BY <2>1 DEF IsTold
    <3>2. CASE f # "details"
      BY <1>8, <3>1, <3>2 DEF IsTold, Covered
    <3>3. CASE f = "details"
      <4>1. i = 1 /\ k \in 1 .. Len(d) /\ EntryAt(f, 1, k) = d[k] /\ d[k].number = m
        BY <1>7, <3>1, <3>3
      <4>2. CASE k \in 1 .. shift
        <5>1. lines[m].tag = "blank"
          BY <1>3, <1>10, <3>1, <4>1, <4>2
        <5> QED BY <1>2, <5>1 DEF Covered
      <4>3. CASE k \notin 1 .. shift
        <5>1. PICK j \in Nat : j = k - shift /\ j \in 1 .. Len(e) /\ j + shift = k
          BY <1>2, <1>3, <4>1, <4>3
        <5>2. At("details", 1, j)' /\ EntryAt("details", 1, j)'.number = m
          BY <1>7, <1>9, <4>1, <5>1
        <5>3. IsTold(m)'
          BY <1>6, <5>2 DEF IsTold
        <5> QED BY <5>3 DEF Covered
      <4> QED BY <4>2, <4>3
    <3> QED BY <3>2, <3>3
  <2>2. CASE ~IsTold(m)
    BY <1>2, <1>10, <1>11, <2>2 DEF Covered
  <2> QED BY <2>1, <2>2
<1>16. \A m \in 1 .. Len(lines') : Covered(m)'
  BY <1>2, <1>15
<1> QED BY <1>13, <1>14, <1>16 DEF ToldInv

(* What the reference says of a field, and the lines that stand in it.     *)
Said(f) == IF f \in FlatFields THEN doc[f] ELSE FlattenSeq(doc[f])

LinesOf(f) == {n \in Nat : \E i, k \in Nat : At(f, i, k) /\ EntryAt(f, i, k).number = n}

LEMMA FieldTells ==
    ASSUME CommentTypeInv, Apart, NEW f \in Fields
    PROVE  TellsOnce(Said(f), LinesOf(f))
<1>1. PICK ss : ss = Texts(f) /\ ss \in Seq(Seq(Entry))
  <2>1. Texts(f) \in Seq(Seq(Entry))
    BY DEF Texts, CommentTypeInv, DocType, Fields
  <2> QED BY <2>1
<1>2. /\ \A i, k : At(f, i, k) <=> i \in 1 .. Len(ss) /\ k \in 1 .. Len(ss[i])
      /\ \A i, k : EntryAt(f, i, k) = ss[i][k]
  BY <1>1 DEF At, EntryAt
<1>3. \A i \in 1 .. Len(ss) : ss[i] \in Seq(Entry) /\ \A k \in 1 .. Len(ss[i]) : ss[i][k].number \in Nat
  <2>1. \A i \in 1 .. Len(ss) : ss[i] \in Seq(Entry)
    BY <1>1
  <2>2. \A i \in 1 .. Len(ss) : \A k \in 1 .. Len(ss[i]) : ss[i][k] \in Entry
    BY <2>1
  <2> QED BY <2>1, <2>2 DEF Entry
<1>4. \A i, j \in 1 .. Len(ss) : \A k \in 1 .. Len(ss[i]), l \in 1 .. Len(ss[j]) :
         ss[i][k].number = ss[j][l].number => i = j /\ k = l
  BY <1>2, SMTT(30) DEF Apart
<1>5. \A m : m \in LinesOf(f) <=> \E i \in 1 .. Len(ss) : \E k \in 1 .. Len(ss[i]) : ss[i][k].number = m
  <2>1. ASSUME NEW m \in LinesOf(f) PROVE \E i \in 1 .. Len(ss) : \E k \in 1 .. Len(ss[i]) : ss[i][k].number = m
    <3>1. PICK i, k \in Nat : At(f, i, k) /\ EntryAt(f, i, k).number = m
      BY DEF LinesOf
    <3>2. i \in 1 .. Len(ss) /\ k \in 1 .. Len(ss[i]) /\ ss[i][k].number = m
      BY <1>2, <3>1
    <3> QED BY <3>2
  <2>2. ASSUME NEW i \in 1 .. Len(ss), NEW k \in 1 .. Len(ss[i]) PROVE ss[i][k].number \in LinesOf(f)
    <3>1. i \in Nat /\ k \in Nat /\ ss[i][k].number \in Nat
      BY <1>3
    <3>2. At(f, i, k) /\ EntryAt(f, i, k).number = ss[i][k].number
      BY <1>2
    <3> QED BY <3>1, <3>2 DEF LinesOf
  <2> QED BY <2>1, <2>2
<1>6. CASE f \in FlatFields
  <2>1. ss = <<doc[f]>> /\ Said(f) = doc[f]
    BY <1>1, <1>6 DEF Texts, Said
  <2>2. Len(ss) = 1 /\ ss[1] = doc[f] /\ 1 \in 1 .. Len(ss)
    BY <2>1
  <2>3. \A i \in 1 .. Len(ss) : i = 1
    BY <2>2
  <2> QED BY <1>3, <1>4, <1>5, <2>1, <2>2, <2>3 DEF TellsOnce
<1>7. CASE f \notin FlatFields
  <2>1. ss = doc[f] /\ Said(f) = FlattenSeq(doc[f])
    BY <1>1, <1>7 DEF Texts, Said
  <2>2. TellsOnce(FlattenSeq(ss), LinesOf(f))
    <3>1. TellOnce(ss, LinesOf(f))
      BY <1>4, <1>5 DEF TellOnce
    <3> QED BY <1>1, <3>1, FlattenedOnce
  <2> QED BY <2>1, <2>2
<1> QED BY <1>6, <1>7

(* What is said of an entity is what stands in the fields but the page.    *)
LEMMA OfEntityTells ==
    ASSUME CommentTypeInv, Apart
    PROVE  \E N : TellsOnce(OfEntity, N) /\ \A f \in Fields \ {"page"} : LinesOf(f) \subseteq N
<1> DEFINE L(f) == LinesOf(f)
<1>2. \A f \in Fields : TellsOnce(Said(f), L(f))
  BY FieldTells
<1>3. \A f, g \in Fields : f # g => L(f) \intersect L(g) = {}
  BY DEF LinesOf, Apart
<1>4. OfEntity = Said("brief") \o Said("details") \o Said("tparam") \o Said("param")
                    \o Said("returns") \o Said("pre") \o Said("note") \o Said("warning")
                    \o Said("post")
  BY DEF OfEntity, Said, FlatFields
<1>5. Fields = {"brief", "details", "tparam", "param", "returns", "pre", "note", "warning",
                "post", "page"}
  BY DEF Fields, FlatFields, ListFields
<1> HIDE DEF L
<1>6. PICK s2 : s2 = Said("brief") \o Said("details")
  OBVIOUS
<1>7. TellsOnce(s2, L("brief") \union L("details"))
  BY <1>2, <1>3, <1>5, <1>6, TextsInTurn
<1>8. PICK s3 : s3 = s2 \o Said("tparam")
  OBVIOUS
<1>9. TellsOnce(s3, L("brief") \union L("details") \union L("tparam"))
  BY <1>2, <1>3, <1>5, <1>7, <1>8, TextsInTurn
<1>10. PICK s4 : s4 = s3 \o Said("param")
  OBVIOUS
<1>11. TellsOnce(s4, L("brief") \union L("details") \union L("tparam") \union L("param"))
  BY <1>2, <1>3, <1>5, <1>9, <1>10, TextsInTurn
<1>12. PICK s5 : s5 = s4 \o Said("returns")
  OBVIOUS
<1>13. TellsOnce(s5, L("brief") \union L("details") \union L("tparam") \union L("param")
                       \union L("returns"))
  BY <1>2, <1>3, <1>5, <1>11, <1>12, TextsInTurn
<1>14. PICK s6 : s6 = s5 \o Said("pre")
  OBVIOUS
<1>15. TellsOnce(s6, L("brief") \union L("details") \union L("tparam") \union L("param")
                       \union L("returns") \union L("pre"))
  BY <1>2, <1>3, <1>5, <1>13, <1>14, TextsInTurn
<1>16. PICK s7 : s7 = s6 \o Said("note")
  OBVIOUS
<1>17. TellsOnce(s7, L("brief") \union L("details") \union L("tparam") \union L("param")
                       \union L("returns") \union L("pre") \union L("note"))
  BY <1>2, <1>3, <1>5, <1>15, <1>16, TextsInTurn
<1>18. PICK s8 : s8 = s7 \o Said("warning")
  OBVIOUS
<1>19. TellsOnce(s8, L("brief") \union L("details") \union L("tparam") \union L("param")
                       \union L("returns") \union L("pre") \union L("note") \union L("warning"))
  BY <1>2, <1>3, <1>5, <1>17, <1>18, TextsInTurn
<1>20. TellsOnce(OfEntity, L("brief") \union L("details") \union L("tparam") \union L("param")
                             \union L("returns") \union L("pre") \union L("note")
                             \union L("warning") \union L("post"))
  <2>1. OfEntity = s8 \o Said("post")
    BY <1>4, <1>6, <1>8, <1>10, <1>12, <1>14, <1>16, <1>18
  <2> QED BY <1>2, <1>3, <1>5, <1>19, <2>1, TextsInTurn
<1>21. PICK N : /\ N = L("brief") \union L("details") \union L("tparam") \union L("param")
                         \union L("returns") \union L("pre") \union L("note")
                         \union L("warning") \union L("post")
                /\ TellsOnce(OfEntity, N)
  BY <1>20
<1>22. \A f \in Fields \ {"page"} : L(f) \subseteq N
  BY <1>5, <1>21
<1> QED BY <1>21, <1>22 DEF L

LEMMA OfSectionTells ==
    ASSUME CommentTypeInv, Apart
    PROVE  \E N : /\ TellsOnce(OfSection, N)
                  /\ \A f \in {"brief", "details", "page"} : LinesOf(f) \subseteq N
<1> DEFINE L(f) == LinesOf(f)
<1>1. \A f \in Fields : TellsOnce(Said(f), L(f))
  BY FieldTells
<1>2. \A f, g \in Fields : f # g => L(f) \intersect L(g) = {}
  BY DEF LinesOf, Apart
<1>3. OfSection = Said("brief") \o Said("details") \o Said("page")
  BY DEF OfSection, Said, FlatFields
<1>4. {"brief", "details", "page"} \subseteq Fields
  BY DEF Fields, FlatFields
<1> HIDE DEF L
<1>5. PICK s : s = Said("brief") \o Said("details")
  OBVIOUS
<1>6. TellsOnce(s, L("brief") \union L("details"))
  BY <1>1, <1>2, <1>4, <1>5, TextsInTurn
<1>7. PICK N : N = L("brief") \union L("details") \union L("page")
  OBVIOUS
<1>8. TellsOnce(OfSection, N)
  <2>1. OfSection = s \o Said("page")
    BY <1>3, <1>5
  <2> QED BY <1>1, <1>2, <1>4, <1>6, <1>7, <2>1, TextsInTurn
<1>9. \A f \in {"brief", "details", "page"} : L(f) \subseteq N
  BY <1>7
<1> QED BY <1>8, <1>9 DEF L

LEMMA ToldOnce ==
    ASSUME CommentTypeInv, ToldInv
    PROVE  EveryLineToldOnce
<1>1. /\ Apart /\ \A n \in 1 .. Len(lines) : Covered(n)
      /\ \A f, i, k : At(f, i, k) => Belongs(f, EntryAt(f, i, k).number)
  BY DEF ToldInv, AsRead
<1>2. PICK M : M = IF OfModule THEN {"brief", "details", "page"} ELSE Fields \ {"page"}
  OBVIOUS
<1>3. PICK N : TellsOnce(Rendered, N) /\ \A f \in M : LinesOf(f) \subseteq N
  <2>1. CASE OfModule
    BY <1>1, <1>2, <2>1, OfSectionTells DEF Rendered
  <2>2. CASE ~OfModule
    BY <1>1, <1>2, <2>2, OfEntityTells DEF Rendered
  <2> QED BY <2>1, <2>2
<1>4. Cardinality(Numbers(Rendered)) = Len(Rendered) /\ Numbers(Rendered) = N
  BY <1>3, TellsAll
<1>5. \A f \in Fields \ M :
         /\ f \in Untold /\ f # "details"
         /\ f \in {"param", "note"} => OfModule
  BY <1>2 DEF Untold, Fields, FlatFields, ListFields, BucketTags
<1>6. ASSUME NEW n \in 1 .. Len(lines), IsTold(n)
      PROVE  \/ n \in Numbers(Rendered)
             \/ ~InExample(n) /\ TagOf(n) \in Untold
             \/ OfModule /\ GoesWithTag(n)
  <2>1. n \in Nat
    BY DEF CommentTypeInv
  <2>2. PICK f \in Fields : \E i, k \in Nat : At(f, i, k) /\ EntryAt(f, i, k).number = n
    BY <1>6 DEF IsTold
  <2>3. n \in LinesOf(f) /\ Belongs(f, n)
    BY <1>1, <2>1, <2>2 DEF LinesOf
  <2>4. CASE f \in M
    BY <1>3, <1>4, <2>3, <2>4
  <2>5. CASE f \notin M
    BY <1>5, <2>3, <2>5 DEF Belongs
  <2> QED BY <2>4, <2>5
<1>7. "file" \in Untold
  BY DEF Untold
<1> QED BY <1>1, <1>4, <1>6, <1>7 DEF EveryLineToldOnce, Covered

-----------------------------------------------------------------------------
(* The inductive invariant of a comment.                                   *)
CommentInv == CommentTypeInv /\ FenceInv /\ ExamplesInv /\ JoinInv /\ ToldInv

LEMMA CommentBegins == CommentInit => CommentInv
<1> SUFFICES ASSUME CommentInit PROVE CommentInv
  OBVIOUS
<1>1. lines = <<>> /\ doc = EmptyDoc /\ toDetails = FALSE /\ inFence = FALSE /\ finished = FALSE
  BY DEF CommentInit
<1>2. doc.details = <<>> /\ Len(lines) = 0
  BY <1>1 DEF EmptyDoc
<1>3. doc \in DocType
  <2>1. doc = [f \in FlatFields \union ListFields |-> <<>>]
    BY <1>1 DEF EmptyDoc, FlatFields, ListFields
  <2>2. << >> \in Seq(Entry) /\ << >> \in Seq(Seq(Entry))
    OBVIOUS
  <2> QED BY <2>1, <2>2 DEF DocType
<1>4. FencesUpTo(0) = 0
  <2>1. {m \in 1 .. 0 : lines[m].tag = "fence"} = {}
    OBVIOUS
  <2> QED BY <2>1, FS_EmptySet DEF FencesUpTo
<1>5. CommentTypeInv
  <2>1. lines \in Seq(Lines)
    BY <1>1
  <2> QED BY <1>1, <1>3, <2>1 DEF CommentTypeInv
<1>6. FenceInv
  BY <1>1, <1>2, <1>4 DEF FenceInv
<1>7. ExamplesInv
  BY <1>1, <1>2 DEF ExamplesInv, ExamplesIntact
<1>8. ToldInv
  <2>1. \A f \in Fields : Texts(f) = <<>> \/ Texts(f) = << <<>> >>
    BY <1>1 DEF Texts, EmptyDoc, Fields, FlatFields, ListFields
  <2>2. \A f, i, k : ~At(f, i, k)
    BY <2>1 DEF At
  <2> QED BY <1>2, <2>2 DEF ToldInv, Apart, AsRead
<1>9. JoinInv
  BY <1>1, <1>2 DEF JoinInv, EmptyDoc
<1> QED BY <1>5, <1>6, <1>7, <1>8, <1>9 DEF CommentInv

LEMMA CommentKeeps == CommentInv /\ [CommentNext]_comment => CommentInv'
<1> SUFFICES ASSUME CommentInv, [CommentNext]_comment PROVE CommentInv'
  OBVIOUS
<1> USE DEF CommentInv
<1>1. ASSUME NEW line \in Lines, LineAction(line) PROVE CommentInv'
  <2>1. PICK n : n = Len(lines) /\ n \in Nat
    BY DEF CommentTypeInv
  <2>2. PICK c : c = Content(n + 1, line) /\ c \in Entry
    BY <2>1, ContentType
  <2>3. /\ lines' = Append(lines, line) /\ ~finished /\ finished' = finished
        /\ toDetails' \in BOOLEAN
        /\ NormalizedTag(line) = "page" /\ ~inFence => toDetails'
        /\ inFence' = (IF line.tag = "fence" THEN ~inFence ELSE inFence)
        /\ Placed(line, c)
    BY <1>1, <2>1, <2>2, LineTaken
  <2>4. /\ doc' \in DocType
        /\ \/ doc'.details = Append(doc.details, c)
           \/ doc'.details = doc.details /\ ~inFence /\ line.tag # "fence"
    BY <2>2, <2>3, PlacedType
  <2>5. ExamplesInv'
    BY <2>1, <2>2, <2>3, <2>4, ExamplesGrow
  <2>6. FenceInv'
    BY <2>1, <2>3, FenceStep
  <2>7. CommentTypeInv'
    BY <2>3, <2>4, Longer DEF CommentTypeInv
  <2>8. ToldInv'
    BY <2>1, <2>2, <2>3, <2>4, ToldGrows
  <2>9. JoinInv'
    BY <2>1, <2>2, <2>3, <2>4, JoinGrows
  <2> QED BY <2>5, <2>6, <2>7, <2>8, <2>9
<1>2. CASE Finish
  BY <1>2, FinishKeeps, FinishTells, FinishJoins
<1>3. CASE UNCHANGED comment
  <2>1. /\ lines' = lines /\ doc' = doc /\ toDetails' = toDetails /\ inFence' = inFence
        /\ finished' = finished
    BY <1>3 DEF comment
  <2>2. CommentTypeInv' /\ FenceInv'
    BY <2>1 DEF CommentTypeInv, FenceInv, FencesUpTo
  <2>3. ExamplesInv'
    <3>1. \A n : FencesUpTo(n)' = FencesUpTo(n)
      BY <2>1 DEF FencesUpTo
    <3>2. \A n : InExample(n)' <=> InExample(n)
      BY <2>1, <3>1 DEF InExample
    <3>3. ExamplesIntact'
      BY <2>1, <3>1, <3>2 DEF ExamplesInv, ExamplesIntact
    <3> QED BY <2>1, <3>2, <3>3 DEF ExamplesInv
  <2>4. ToldInv'
    <3>1. \A f, i, k : /\ At(f, i, k)' <=> At(f, i, k)
                       /\ EntryAt(f, i, k)' = EntryAt(f, i, k)
      BY <2>1 DEF At, EntryAt, Texts
    <3>2. \A n : FencesUpTo(n)' = FencesUpTo(n)
      BY <2>1 DEF FencesUpTo
    <3>3. \A n : InExample(n)' <=> InExample(n)
      BY <2>1, <3>2 DEF InExample
    <3>4. \A n : TagOf(n)' = TagOf(n)
      BY <2>1 DEF TagOf
    <3>5. \A n : Single(n)' <=> Single(n)
      BY <3>3, <3>4 DEF Single
    <3>6. \A n : Replaced(n)' <=> Replaced(n)
      BY <2>1, <3>4, <3>5 DEF Replaced
    <3>7. \A n : Covered(n)' <=> Covered(n)
      <4>1. \A n : IsTold(n)' <=> IsTold(n)
        BY <3>1 DEF IsTold
      <4> QED BY <2>1, <3>3, <3>4, <3>6, <4>1 DEF Covered
    <3>8. Apart' <=> Apart
      BY <3>1 DEF Apart
    <3>9. AsRead'
      <4>1. \A n : ExtendsTag(n)' <=> ExtendsTag(n)
        BY <3>4 DEF ExtendsTag
      <4>2. \A n : GoesWithTag(n)' <=> GoesWithTag(n)
        BY <3>4, <4>1 DEF GoesWithTag
      <4>3. \A f, n : Belongs(f, n)' <=> Belongs(f, n)
        BY <3>3, <3>4, <4>2 DEF Belongs
      <4> QED BY <2>1, <3>1, <4>3 DEF ToldInv, AsRead
    <3> QED BY <2>1, <3>7, <3>8, <3>9 DEF ToldInv
  <2>5. JoinInv'
    BY <2>1 DEF JoinInv, TagOf, ExtendsTag
  <2> QED BY <2>2, <2>3, <2>4, <2>5
<1> QED BY <1>1, <1>2, <1>3 DEF CommentNext, LineAction

(* An example is told as it was written, whatever surrounds it and however *)
(* long the comment is: the code block between two fences reaches the      *)
(* reference with its tags, its blank lines and its indentation, in one    *)
(* piece.                                                                  *)
THEOREM ExamplesAlwaysIntact == CommentSpec => []ExamplesIntact
<1>1. CommentInv => ExamplesIntact
  BY DEF CommentInv, ExamplesInv
<1> QED BY CommentBegins, CommentKeeps, <1>1, PTL DEF CommentSpec

(* However long a comment is, each line that says something is told in the *)
(* reference and told once, but for the tags that have no place in what is *)
(* written of a module or of an entity, with the lines that continue them, *)
(* and a brief, returns or page that another replaces.                     *)
THEOREM EveryLineAlwaysTold == CommentSpec => []EveryLineToldOnce
<1>1. CommentInv => EveryLineToldOnce
  BY ToldOnce DEF CommentInv
<1> QED BY CommentBegins, CommentKeeps, <1>1, PTL DEF CommentSpec

=============================================================================
