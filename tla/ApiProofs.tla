----------------------------- MODULE ApiProofs ------------------------------
(***************************************************************************)
(* What the page generator promises once the comments are read: of the     *)
(* entities it finds in a file and the members it tells of them            *)
(* (DeclarationReader), however many declarations the file has; of the     *)
(* directory it writes (ApiPages), for any sources, packages and sequence  *)
(* of runs, each finished, failed or stopped; and of the entries and       *)
(* diagrams of a page (ApiSections), for any page the reader of the        *)
(* sources may hand over.                                                  *)
(***************************************************************************)
EXTENDS DeclarationReader, ApiPages, ApiSections, SequenceTheorems, FiniteSetTheorems,
        WellFoundedInduction, TLAPS

-----------------------------------------------------------------------------
(* Numbers: a set of them has a least one, and from 0 on they are all.     *)

(* A set of natural numbers that is not empty has a least member.          *)
LEMMA LeastMember ==
    ASSUME NEW T \in SUBSET Nat, T # {}
    PROVE  \E least \in T : \A other \in T : least <= other
<1> DEFINE R == OpToRel(<, Nat)
<1>1. IsWellFoundedOn(R, Nat)
  BY NatLessThanWellFounded
<1>2. \A x, y \in Nat : x < y => <<x, y>> \in R
  BY DEF OpToRel
<1> HIDE DEF R
<1>3. PICK least \in T : \A other \in T : ~(<<other, least>> \in R)
  BY <1>1, WFMin
<1>4. ASSUME NEW other \in T PROVE least <= other
  <2> SUFFICES ASSUME ~(least <= other) PROVE FALSE
    OBVIOUS
  <2>1. other < least /\ other \in Nat /\ least \in Nat
    OBVIOUS
  <2>2. <<other, least>> \in R
    BY <2>1, <1>2
  <2> QED
    BY <2>2, <1>3
<1> QED
  BY <1>4

(* A set that contains zero and the successor of each member is Nat.       *)
LEMMA Induction ==
    ASSUME NEW S \in SUBSET Nat, 0 \in S, \A n \in S : n + 1 \in S
    PROVE  S = Nat
<1> SUFFICES ASSUME Nat \ S # {} PROVE FALSE
  OBVIOUS
<1>1. PICK least \in Nat \ S : \A other \in Nat \ S : least <= other
  BY LeastMember
<1>2. least # 0 /\ least - 1 \in Nat
  BY <1>1
<1>3. least - 1 \in S
  BY <1>1, <1>2
<1> QED
  BY <1>1, <1>2, <1>3

-----------------------------------------------------------------------------
(* The reader of declarations: places, and the walks over a file.          *)

LEMMA FirstIs == ASSUME NEW S \in SUBSET Int, NEW i \in S, \A j \in S : i <= j PROVE FirstAt(S) = i
<1>1. FirstAt(S) \in S /\ \A j \in S : FirstAt(S) <= j
  BY DEF FirstAt
<1>2. i \in Int /\ FirstAt(S) \in Int /\ FirstAt(S) <= i /\ i <= FirstAt(S)
  BY <1>1
<1> HIDE DEF FirstAt
<1> QED BY <1>2

LEMMA LastIs == ASSUME NEW S \in SUBSET Int, NEW i \in S, \A j \in S : j <= i PROVE LastAt(S) = i
<1>1. LastAt(S) \in S /\ \A j \in S : j <= LastAt(S)
  BY DEF LastAt
<1>2. i \in Int /\ LastAt(S) \in Int /\ LastAt(S) <= i /\ i <= LastAt(S)
  BY <1>1
<1> QED BY <1>2

(* A numbered set that is not empty has its first, and a bounded one its   *)
(* last.                                                                   *)
LEMMA FirstIn ==
    ASSUME NEW S \in SUBSET Nat, S # {}
    PROVE  FirstAt(S) \in S /\ \A j \in S : FirstAt(S) <= j
<1>1. \E i \in S : \A j \in S : i <= j
  BY LeastMember
<1> QED BY <1>1 DEF FirstAt

-----------------------------------------------------------------------------
(* The walks.                                                              *)
WalksTo(f, ts, n) ==
    f = [i \in 0 .. n |-> IF i = 0 THEN [depth |-> 0, stack |-> <<>>] ELSE StepOver(ts, f[i - 1], i)]

LEMMA WalkSteps ==
    ASSUME NEW ts, Len(ts) \in Nat
    PROVE  /\ Walk(ts)[0] = [depth |-> 0, stack |-> <<>>]
           /\ \A i \in 1 .. Len(ts) : Walk(ts)[i] = StepOver(ts, Walk(ts)[i - 1], i)
<1> DEFINE S == {n \in Nat : \E f : WalksTo(f, ts, n)}
<1>1. 0 \in S
  <2> DEFINE f == [i \in 0 .. 0 |-> [depth |-> 0, stack |-> <<>>]]
  <2>1. \A i \in 0 .. 0 : i = 0
    OBVIOUS
  <2>2. WalksTo(f, ts, 0)
    BY <2>1 DEF WalksTo
  <2> QED BY <2>2
<1>2. ASSUME NEW n \in S PROVE n + 1 \in S
  <2>1. PICK f : WalksTo(f, ts, n)
    OBVIOUS
  <2> DEFINE next == StepOver(ts, f[n], n + 1)
             g == [i \in 0 .. n + 1 |-> IF i = n + 1 THEN next ELSE f[i]]
  <2>2. ASSUME NEW i \in 0 .. n + 1
        PROVE  g[i] = IF i = 0 THEN [depth |-> 0, stack |-> <<>>] ELSE StepOver(ts, g[i - 1], i)
    <3>1. CASE i = n + 1
      <4>1. g[i - 1] = f[n] /\ g[i] = next /\ i # 0
        BY <3>1
      <4> QED BY <3>1, <4>1
    <3>2. CASE i # n + 1
      <4>1. i \in 0 .. n /\ i - 1 # n + 1 /\ (i # 0 => i - 1 \in 0 .. n + 1)
        BY <3>2
      <4>2. g[i] = f[i] /\ (i # 0 => g[i - 1] = f[i - 1])
        BY <3>2, <4>1
      <4>3. f[i] = IF i = 0 THEN [depth |-> 0, stack |-> <<>>] ELSE StepOver(ts, f[i - 1], i)
        BY <2>1, <4>1 DEF WalksTo
      <4> HIDE DEF g
      <4> QED BY <4>2, <4>3
    <3> QED BY <3>1, <3>2
  <2>3. g = [i \in 0 .. n + 1 |-> g[i]]
    OBVIOUS
  <2> HIDE DEF g
  <2>4. WalksTo(g, ts, n + 1)
    BY <2>2, <2>3 DEF WalksTo
  <2> QED BY <2>4
<1>3. S = Nat
  <2> HIDE DEF S
  <2>1. S \in SUBSET Nat
    BY DEF S
  <2> QED BY <1>1, <1>2, <2>1, Induction
<1>4. \E f : WalksTo(f, ts, Len(ts))
  BY <1>3
<1>5. WalksTo(Walk(ts), ts, Len(ts))
  BY <1>4 DEF Walk, WalksTo
<1> HIDE DEF Walk
<1>6. \A i \in 0 .. Len(ts) :
          Walk(ts)[i] = IF i = 0 THEN [depth |-> 0, stack |-> <<>>] ELSE StepOver(ts, Walk(ts)[i - 1], i)
  BY <1>5 DEF WalksTo
<1>7. 0 \in 0 .. Len(ts) /\ \A i \in 1 .. Len(ts) : i \in 0 .. Len(ts) /\ i # 0
  OBVIOUS
<1> QED BY <1>6, <1>7

DepthsTo(f, ts, from, n) ==
    f = [i \in from .. n |-> IF i = from THEN 0 ELSE WithParen(f[i - 1], ts[i - 1])]

LEMMA DepthSteps ==
    ASSUME NEW ts, Len(ts) \in Nat, NEW from \in Nat, from <= Len(ts)
    PROVE  /\ ParenDepth(ts, from)[from] = 0
           /\ \A i \in from + 1 .. Len(ts) :
                 ParenDepth(ts, from)[i] = WithParen(ParenDepth(ts, from)[i - 1], ts[i - 1])
<1> DEFINE S == {n \in Nat : \E f : DepthsTo(f, ts, from, from + n)}
<1>1. 0 \in S
  <2> DEFINE f == [i \in from .. from + 0 |-> 0]
  <2>1. \A i \in from .. from + 0 : i = from
    OBVIOUS
  <2>2. DepthsTo(f, ts, from, from + 0)
    BY <2>1 DEF DepthsTo
  <2> QED BY <2>2
<1>2. ASSUME NEW n \in S PROVE n + 1 \in S
  <2>1. PICK f : DepthsTo(f, ts, from, from + n)
    OBVIOUS
  <2>2. PICK m \in Nat : m = from + n
    OBVIOUS
  <2> DEFINE next == WithParen(f[m], ts[m])
             g == [i \in from .. m + 1 |-> IF i = m + 1 THEN next ELSE f[i]]
  <2>3. ASSUME NEW i \in from .. m + 1
        PROVE  g[i] = IF i = from THEN 0 ELSE WithParen(g[i - 1], ts[i - 1])
    <3>1. CASE i = m + 1
      <4>1. g[i - 1] = f[m] /\ g[i] = next /\ i # from /\ i - 1 = m
        BY <2>2, <3>1
      <4> QED BY <3>1, <4>1
    <3>2. CASE i # m + 1
      <4>1. i \in from .. m /\ i - 1 # m + 1 /\ (i # from => i - 1 \in from .. m + 1)
        BY <2>2, <3>2
      <4>2. g[i] = f[i] /\ (i # from => g[i - 1] = f[i - 1])
        BY <3>2, <4>1
      <4>3. f[i] = IF i = from THEN 0 ELSE WithParen(f[i - 1], ts[i - 1])
        BY <2>1, <2>2, <4>1 DEF DepthsTo
      <4> HIDE DEF g
      <4> QED BY <4>2, <4>3
    <3> QED BY <3>1, <3>2
  <2>4. g = [i \in from .. m + 1 |-> g[i]]
    OBVIOUS
  <2> HIDE DEF g
  <2>5. g = [i \in from .. m + 1 |-> IF i = from THEN 0 ELSE WithParen(g[i - 1], ts[i - 1])]
    BY <2>3, <2>4
  <2>6. DepthsTo(g, ts, from, m + 1)
    BY <2>5 DEF DepthsTo
  <2>7. m + 1 = from + (n + 1) /\ n + 1 \in Nat
    BY <2>2
  <2> QED BY <2>6, <2>7
<1>3. S = Nat
  <2> HIDE DEF S
  <2>1. S \in SUBSET Nat
    BY DEF S
  <2> QED BY <1>1, <1>2, <2>1, Induction
<1>4. \E f : DepthsTo(f, ts, from, Len(ts))
  <2>1. Len(ts) - from \in Nat /\ from + (Len(ts) - from) = Len(ts)
    OBVIOUS
  <2>2. Len(ts) - from \in S
    BY <1>3, <2>1
  <2> QED BY <2>1, <2>2
<1>5. DepthsTo(ParenDepth(ts, from), ts, from, Len(ts))
  BY <1>4 DEF ParenDepth, DepthsTo
<1> HIDE DEF ParenDepth
<1>6. \A i \in from .. Len(ts) :
          ParenDepth(ts, from)[i] = IF i = from THEN 0 ELSE WithParen(ParenDepth(ts, from)[i - 1], ts[i - 1])
  BY <1>5 DEF DepthsTo
<1>7. from \in from .. Len(ts) /\ \A i \in from + 1 .. Len(ts) : i \in from .. Len(ts) /\ i # from
  OBVIOUS
<1> QED BY <1>6, <1>7

(* Every token the writer puts into a file.                                *)
Words == Punctuation \union Labels \union Keywords \union {"n", "E", "T", "f", "x", "c"} \union ToSet(Types)

(* What has been written stays as it is.                                   *)
GoesOn(ts, us) ==
    /\ ts \in Seq(Words) /\ us \in Seq(Words) /\ Len(ts) <= Len(us)
    /\ \A i \in 1 .. Len(ts) : us[i] = ts[i]

LEMMA SameOpener ==
    ASSUME NEW ts, NEW us, GoesOn(ts, us), NEW i \in 1 .. Len(ts)
    PROVE  Opener(us, i) = Opener(ts, i)
<1> DEFINE From(s) == {j \in 1 .. i - 1 : s[j] \in {Semicolon, Opening}}
           Keys(s) == {j \in 1 .. i - 2 : /\ \A k \in From(s) : k < j
                                          /\ s[j] \in TypeKeywords \union {"namespace"}
                                          /\ IsWord(s[j + 1])}
<1>1. \A j \in 1 .. i : us[j] = ts[j]
  BY DEF GoesOn
<1>2. From(us) = From(ts)
  <2>1. \A j \in 1 .. i - 1 : us[j] = ts[j]
    BY <1>1
  <2> QED BY <2>1
<1> HIDE DEF From
<1>3. \A j \in 1 .. i - 2 : j \in 1 .. i /\ j + 1 \in 1 .. i
  OBVIOUS
<1>4. Keys(us) = Keys(ts) /\ Keys(ts) \in SUBSET Nat /\ Keys(ts) \subseteq 1 .. i - 2
  BY <1>1, <1>2, <1>3
<1>5. Opener(us, i) = IF Keys(us) = {} THEN <<>> ELSE <<us[FirstAt(Keys(us))], us[FirstAt(Keys(us)) + 1]>>
  BY DEF Opener, From
<1>6. Opener(ts, i) = IF Keys(ts) = {} THEN <<>> ELSE <<ts[FirstAt(Keys(ts))], ts[FirstAt(Keys(ts)) + 1]>>
  BY DEF Opener, From
<1> HIDE DEF Keys
<1>7. Keys(ts) # {} => FirstAt(Keys(ts)) \in 1 .. i - 2
  BY <1>4, FirstIn
<1>8. Keys(ts) # {} => /\ us[FirstAt(Keys(ts))] = ts[FirstAt(Keys(ts))]
                       /\ us[FirstAt(Keys(ts)) + 1] = ts[FirstAt(Keys(ts)) + 1]
  BY <1>1, <1>3, <1>7
<1> QED BY <1>4, <1>5, <1>6, <1>8

LEMMA SameStep ==
    ASSUME NEW ts, NEW us, GoesOn(ts, us), NEW i \in 1 .. Len(ts), NEW walk
    PROVE  StepOver(us, walk, i) = StepOver(ts, walk, i)
<1>1. us[i] = ts[i]
  BY DEF GoesOn
<1>2. Opener(us, i) = Opener(ts, i)
  BY SameOpener
<1> QED BY <1>1, <1>2 DEF StepOver

LEMMA SameWalk ==
    ASSUME NEW ts, NEW us, GoesOn(ts, us)
    PROVE  \A i \in 0 .. Len(ts) : Walk(us)[i] = Walk(ts)[i]
<1> DEFINE S == {n \in Nat : n <= Len(ts) => Walk(us)[n] = Walk(ts)[n]}
<1>1. Len(ts) \in Nat /\ Len(us) \in Nat /\ Len(ts) <= Len(us)
  BY DEF GoesOn
<1>2. 0 \in S
  BY <1>1, WalkSteps
<1>3. ASSUME NEW n \in S PROVE n + 1 \in S
  <2> SUFFICES ASSUME n + 1 <= Len(ts) PROVE Walk(us)[n + 1] = Walk(ts)[n + 1]
    OBVIOUS
  <2>1. n + 1 \in 1 .. Len(ts) /\ n + 1 \in 1 .. Len(us) /\ (n + 1) - 1 = n /\ n <= Len(ts)
    BY <1>1
  <2>2. Walk(us)[n] = Walk(ts)[n]
    BY <2>1
  <2>3. Walk(us)[n + 1] = StepOver(us, Walk(us)[n], n + 1)
    BY <1>1, <2>1, WalkSteps
  <2>4. Walk(ts)[n + 1] = StepOver(ts, Walk(ts)[n], n + 1)
    BY <1>1, <2>1, WalkSteps
  <2> QED BY <2>1, <2>2, <2>3, <2>4, SameStep
<1>4. S = Nat
  <2> HIDE DEF S
  <2>1. S \in SUBSET Nat
    BY DEF S
  <2> QED BY <1>2, <1>3, <2>1, Induction
<1> QED BY <1>1, <1>4

LEMMA SameDepth ==
    ASSUME NEW ts, NEW us, GoesOn(ts, us), NEW from \in 1 .. Len(ts)
    PROVE  \A i \in from .. Len(ts) : ParenDepth(us, from)[i] = ParenDepth(ts, from)[i]
<1> DEFINE S == {n \in Nat : from + n <= Len(ts) => ParenDepth(us, from)[from + n] = ParenDepth(ts, from)[from + n]}
<1>1. Len(ts) \in Nat /\ Len(us) \in Nat /\ Len(ts) <= Len(us) /\ from \in Nat /\ from <= Len(ts) /\ from <= Len(us)
  BY DEF GoesOn
<1>2. 0 \in S
  <2>1. from + 0 = from
    BY <1>1
  <2> QED BY <1>1, <2>1, DepthSteps
<1>3. ASSUME NEW n \in S PROVE n + 1 \in S
  <2> SUFFICES ASSUME from + (n + 1) <= Len(ts)
               PROVE  ParenDepth(us, from)[from + (n + 1)] = ParenDepth(ts, from)[from + (n + 1)]
    OBVIOUS
  <2>1. PICK m : m = from + n
    OBVIOUS
  <2>2. /\ m + 1 = from + (n + 1) /\ m + 1 \in from + 1 .. Len(ts) /\ m + 1 \in from + 1 .. Len(us)
        /\ (m + 1) - 1 = m /\ m \in 1 .. Len(ts) /\ from + n <= Len(ts)
    BY <1>1, <2>1
  <2>3. ParenDepth(us, from)[m] = ParenDepth(ts, from)[m]
    BY <2>1, <2>2
  <2>4. us[m] = ts[m]
    BY <2>2 DEF GoesOn
  <2>5. ParenDepth(us, from)[m + 1] = WithParen(ParenDepth(us, from)[m], us[m])
    BY <1>1, <2>2, DepthSteps
  <2>6. ParenDepth(ts, from)[m + 1] = WithParen(ParenDepth(ts, from)[m], ts[m])
    BY <1>1, <2>2, DepthSteps
  <2> QED BY <2>2, <2>3, <2>4, <2>5, <2>6
<1>4. S = Nat
  <2> HIDE DEF S
  <2>1. S \in SUBSET Nat
    BY DEF S
  <2> QED BY <1>2, <1>3, <2>1, Induction
<1>5. \A i \in from .. Len(ts) : i - from \in Nat /\ from + (i - from) = i
  BY <1>1
<1>6. \A i \in from .. Len(ts) : i - from \in S
  BY <1>4, <1>5
<1> QED BY <1>1, <1>5, <1>6

LEMMA SameEnds ==
    ASSUME NEW ts, NEW us, GoesOn(ts, us), NEW from \in 1 .. Len(ts), NEW i \in from .. Len(ts)
    PROVE  EndsDeclaration(us, from, i) <=> EndsDeclaration(ts, from, i)
<1>1. us[i] = ts[i] /\ us[from] = ts[from]
  BY DEF GoesOn
<1>2. ParenDepth(us, from)[i] = ParenDepth(ts, from)[i]
  BY SameDepth
<1> QED BY <1>1, <1>2 DEF EndsDeclaration

(* A declaration is what stands before the first token that ends it.       *)
LEMMA DeclarationIs ==
    ASSUME NEW ts, Len(ts) \in Nat, NEW mark \in Nat, NEW e \in mark + 1 .. Len(ts), EndsDeclaration(ts, mark + 1, e),
           \A i \in mark + 1 .. e - 1 : ~EndsDeclaration(ts, mark + 1, i)
    PROVE  DeclarationAfter(ts, mark) = SubSeq(ts, mark + 1, e - 1)
<1> DEFINE ends == {i \in mark + 1 .. Len(ts) : EndsDeclaration(ts, mark + 1, i)}
<1>1. ends \in SUBSET Int /\ e \in ends
  OBVIOUS
<1>2. ASSUME NEW i \in ends PROVE e <= i
  OBVIOUS
<1>3. FirstAt(ends) = e
  <2> HIDE DEF ends
  <2> QED BY <1>1, <1>2, FirstIs
<1>4. ends # {}
  BY <1>1
<1> QED BY <1>3, <1>4 DEF DeclarationAfter

HasEnd(ts, mark) == \E e \in mark + 1 .. Len(ts) : EndsDeclaration(ts, mark + 1, e)

LEMMA SameStretch ==
    ASSUME NEW ts, NEW us, GoesOn(ts, us), NEW a \in 1 .. Len(ts) + 1, NEW b \in 0 .. Len(ts)
    PROVE  SubSeq(us, a, b) = SubSeq(ts, a, b)
<1>1. Len(ts) \in Nat /\ Len(us) \in Nat /\ Len(ts) <= Len(us) /\ a \in Int /\ b \in Int
  BY DEF GoesOn
<1>2. /\ \A k \in a .. b : ts[k] \in Words /\ us[k] \in Words /\ us[k] = ts[k]
  BY <1>1 DEF GoesOn
<1>3. PICK v, w : v = SubSeq(us, a, b) /\ w = SubSeq(ts, a, b)
  OBVIOUS
<1>4. /\ v \in Seq(Words)
      /\ Len(v) = IF a <= b THEN b - a + 1 ELSE 0
      /\ \A m \in 1 .. b - a + 1 : v[m] = us[a + m - 1]
  BY <1>1, <1>2, <1>3, SubSeqProperties
<1>5. /\ w \in Seq(Words)
      /\ Len(w) = IF a <= b THEN b - a + 1 ELSE 0
      /\ \A m \in 1 .. b - a + 1 : w[m] = ts[a + m - 1]
  BY <1>1, <1>2, <1>3, SubSeqProperties
<1>6. \A m \in 1 .. b - a + 1 : a + m - 1 \in a .. b
  BY <1>1
<1>7. Len(v) = Len(w) /\ \A m \in 1 .. Len(v) : m \in 1 .. b - a + 1
  BY <1>1, <1>4, <1>5
<1>8. \A m \in 1 .. Len(v) : v[m] = w[m]
  BY <1>2, <1>4, <1>5, <1>6, <1>7
<1>9. v = w
  BY <1>4, <1>5, <1>7, <1>8, SeqEqual
<1> QED BY <1>3, <1>9

LEMMA SameEntity ==
    ASSUME NEW ts, NEW us, GoesOn(ts, us), NEW mark \in 1 .. Len(ts), HasEnd(ts, mark)
    PROVE  EntityAt(us, mark) = EntityAt(ts, mark) /\ HasEnd(us, mark)
<1>1. Len(ts) \in Nat /\ Len(us) \in Nat /\ Len(ts) <= Len(us) /\ mark \in Nat
  BY DEF GoesOn
<1> DEFINE ends == {e \in mark + 1 .. Len(ts) : EndsDeclaration(ts, mark + 1, e)}
<1>2. ends \in SUBSET Nat /\ ends # {}
  BY <1>1 DEF HasEnd
<1>3. PICK e \in ends : \A i \in ends : e <= i
  <2> HIDE DEF ends
  <2> QED BY <1>2, LeastMember
<1>4. e \in mark + 1 .. Len(ts) /\ EndsDeclaration(ts, mark + 1, e) /\ mark + 1 \in 1 .. Len(ts) /\ e \in mark + 1 .. Len(us)
  BY <1>1
<1>5. ASSUME NEW i \in mark + 1 .. e - 1 PROVE ~EndsDeclaration(ts, mark + 1, i)
  <2>1. i \in mark + 1 .. Len(ts) /\ ~(e <= i)
    BY <1>1, <1>4
  <2>2. i \notin ends
    BY <1>3, <2>1
  <2> QED BY <2>1, <2>2
<1>6. DeclarationAfter(ts, mark) = SubSeq(ts, mark + 1, e - 1)
  BY <1>1, <1>4, <1>5, DeclarationIs
<1>7. EndsDeclaration(us, mark + 1, e)
  BY <1>4, SameEnds
<1>8. ASSUME NEW i \in mark + 1 .. e - 1 PROVE ~EndsDeclaration(us, mark + 1, i)
  <2>1. i \in mark + 1 .. Len(ts)
    BY <1>1, <1>4
  <2> QED BY <1>4, <1>5, <2>1, SameEnds
<1>9. DeclarationAfter(us, mark) = SubSeq(us, mark + 1, e - 1)
  BY <1>1, <1>4, <1>7, <1>8, DeclarationIs
<1>10. SubSeq(us, mark + 1, e - 1) = SubSeq(ts, mark + 1, e - 1)
  <2>1. mark + 1 \in 1 .. Len(ts) + 1 /\ e - 1 \in 0 .. Len(ts)
    BY <1>1, <1>4
  <2> QED BY <2>1, SameStretch
<1>11. Walk(us)[mark - 1] = Walk(ts)[mark - 1]
  <2>1. mark - 1 \in 0 .. Len(ts)
    BY <1>1
  <2> QED BY <2>1, SameWalk
<1>12. HasEnd(us, mark)
  BY <1>4, <1>7 DEF HasEnd
<1> HIDE DEF ends
<1> QED BY <1>6, <1>9, <1>10, <1>11, <1>12 DEF EntityAt, ScopesAt

-----------------------------------------------------------------------------
(* The scopes the reader holds are the writer's.                           *)

ScopeType == [keyword : TypeKeywords \union {"namespace"}, name : ToSet(Types) \union {"n"},
              access : {"public", "private"}, doc : Nat, afterBody : BOOLEAN]

(* What the walk holds where the writer's open scopes are sc.              *)
StackOf(sc) ==
    [i \in 1 .. Len(sc) |->
        [depth |-> i, keyword |-> sc[i].keyword, name |-> sc[i].name, access |-> sc[i].access]]

Within(sc) == [depth |-> Len(sc), stack |-> StackOf(sc)]

StackType == [depth : Nat, keyword : TypeKeywords \union {"namespace"}, name : ToSet(Types) \union {"n"},
              access : {"public", "private"}]

LEMMA StackFacts ==
    ASSUME NEW sc \in Seq(ScopeType)
    PROVE  /\ Len(sc) \in Nat /\ Len(StackOf(sc)) = Len(sc) /\ DOMAIN StackOf(sc) = 1 .. Len(sc)
           /\ StackOf(sc) \in Seq(StackType)
           /\ \A i \in 1 .. Len(sc) :
                 /\ StackOf(sc)[i] = [depth |-> i, keyword |-> sc[i].keyword, name |-> sc[i].name, access |-> sc[i].access]
                 /\ StackOf(sc)[i].depth = i
<1>1. Len(sc) \in Nat /\ \A i \in 1 .. Len(sc) : sc[i] \in ScopeType
  OBVIOUS
<1>2. \A i \in 1 .. Len(sc) :
          [depth |-> i, keyword |-> sc[i].keyword, name |-> sc[i].name, access |-> sc[i].access] \in StackType
  BY <1>1 DEF ScopeType, StackType
<1>3. StackOf(sc) \in [1 .. Len(sc) -> StackType]
  BY <1>2 DEF StackOf
<1>4. StackOf(sc) \in Seq(StackType)
  BY <1>1, <1>3
<1>5. Len(StackOf(sc)) = Len(sc)
  BY <1>1, <1>3, <1>4
<1> QED BY <1>1, <1>3, <1>4, <1>5 DEF StackOf

LEMMA PlainRun ==
    ASSUME NEW ts, Len(ts) \in Nat, NEW a \in 0 .. Len(ts), NEW b \in a .. Len(ts),
           \A i \in a + 1 .. b : ts[i] \notin {Opening, Closing} \union Labels
    PROVE  Walk(ts)[b] = Walk(ts)[a]
<1> DEFINE S == {n \in Nat : a + n <= b => Walk(ts)[a + n] = Walk(ts)[a]}
<1>0. a \in Nat /\ b \in Nat /\ b <= Len(ts)
  OBVIOUS
<1>1. 0 \in S
  <2>1. a + 0 = a
    BY <1>0
  <2> QED BY <2>1
<1>2. ASSUME NEW n \in S PROVE n + 1 \in S
  <2> SUFFICES ASSUME a + (n + 1) <= b PROVE Walk(ts)[a + (n + 1)] = Walk(ts)[a]
    OBVIOUS
  <2>1. PICK i : i = a + (n + 1)
    OBVIOUS
  <2>2. i \in a + 1 .. b /\ i \in 1 .. Len(ts) /\ i - 1 = a + n /\ a + n <= b
    BY <1>0, <2>1
  <2>3. Walk(ts)[i] = StepOver(ts, Walk(ts)[i - 1], i)
    BY <2>2, WalkSteps
  <2>4. ts[i] # Opening /\ ts[i] # Closing /\ ts[i] \notin Labels
    BY <2>2
  <2>5. StepOver(ts, Walk(ts)[i - 1], i) = Walk(ts)[i - 1]
    BY <2>4 DEF StepOver
  <2>6. Walk(ts)[a + n] = Walk(ts)[a]
    BY <2>2
  <2> QED BY <2>1, <2>2, <2>3, <2>5, <2>6
<1>3. S = Nat
  <2> HIDE DEF S
  <2>1. S \in SUBSET Nat
    BY DEF S
  <2> QED BY <1>1, <1>2, <2>1, Induction
<1>4. b - a \in Nat /\ a + (b - a) = b
  BY <1>0
<1>5. b - a \in S
  BY <1>3, <1>4
<1> QED BY <1>0, <1>4, <1>5

(* What the walk pops is what is as deep.                                  *)
LEMMA PoppedTo ==
    ASSUME NEW stack, Len(stack) \in Nat, NEW depth \in Nat, NEW k \in 0 .. Len(stack),
           \A j \in 1 .. Len(stack) : stack[j].depth \in Nat,
           \A j \in k + 1 .. Len(stack) : stack[j].depth >= depth,
           k = 0 \/ stack[k].depth < depth
    PROVE  Popped(stack, depth) = SubSeq(stack, 1, k)
<1> DEFINE kept == {m \in 0 .. Len(stack) : \A j \in m + 1 .. Len(stack) : stack[j].depth >= depth}
<1>1. kept \in SUBSET Int /\ k \in kept
  OBVIOUS
<1>2. ASSUME NEW m \in kept PROVE k <= m
  <2> SUFFICES ASSUME m < k PROVE FALSE
    OBVIOUS
  <2>1. k \in m + 1 .. Len(stack) /\ k # 0 /\ k \in 1 .. Len(stack)
    OBVIOUS
  <2>2. stack[k].depth >= depth /\ stack[k].depth < depth /\ stack[k].depth \in Nat
    BY <2>1
  <2> QED BY <2>2
<1>3. FirstAt(kept) = k
  <2> HIDE DEF kept
  <2> QED BY <1>1, <1>2, FirstIs
<1> QED BY <1>3 DEF Popped

LEMMA FirstOnes ==
    ASSUME NEW S, NEW s \in Seq(S), NEW n \in 0 .. Len(s)
    PROVE  /\ SubSeq(s, 1, n) \in Seq(S) /\ Len(SubSeq(s, 1, n)) = n
           /\ \A i \in 1 .. n : SubSeq(s, 1, n)[i] = s[i]
<1>1. Len(s) \in Nat /\ n \in Int /\ n \in Nat /\ n - 1 + 1 = n
  OBVIOUS
<1>2. \A i \in 1 .. n : s[i] \in S
  BY <1>1
<1>3. PICK v : v = SubSeq(s, 1, n)
  OBVIOUS
<1>4. /\ v \in Seq(S)
      /\ Len(v) = IF 1 <= n THEN n - 1 + 1 ELSE 0
      /\ \A i \in 1 .. n - 1 + 1 : v[i] = s[1 + i - 1]
  BY <1>1, <1>2, <1>3, SubSeqProperties
<1>5. \A i \in 1 .. n : 1 + i - 1 = i
  OBVIOUS
<1>6. Len(v) = n /\ \A i \in 1 .. n : v[i] = s[i]
  BY <1>1, <1>4, <1>5
<1> QED BY <1>3, <1>4, <1>6

(* The first scopes' part of the stack.                                    *)
LEMMA StackOfFirst ==
    ASSUME NEW sc \in Seq(ScopeType), NEW t \in Seq(ScopeType), NEW st \in Seq(StackType),
           Len(t) <= Len(sc), \A i \in 1 .. Len(t) : t[i] = sc[i],
           Len(t) <= Len(st), \A i \in 1 .. Len(t) : st[i] = StackOf(sc)[i]
    PROVE  SubSeq(st, 1, Len(t)) = StackOf(t)
<1>1. Len(t) \in Nat /\ Len(sc) \in Nat /\ Len(st) \in Nat /\ Len(t) \in 0 .. Len(st)
  OBVIOUS
<1>2. PICK v : v = SubSeq(st, 1, Len(t))
  OBVIOUS
<1>3. v \in Seq(StackType) /\ Len(v) = Len(t) /\ \A i \in 1 .. Len(t) : v[i] = st[i]
  BY <1>1, <1>2, FirstOnes
<1>4. /\ StackOf(t) \in Seq(StackType) /\ Len(StackOf(t)) = Len(t)
      /\ \A i \in 1 .. Len(t) : StackOf(t)[i] = [depth |-> i, keyword |-> t[i].keyword, name |-> t[i].name, access |-> t[i].access]
  BY StackFacts
<1>5. \A i \in 1 .. Len(sc) : StackOf(sc)[i] = [depth |-> i, keyword |-> sc[i].keyword, name |-> sc[i].name, access |-> sc[i].access]
  BY StackFacts
<1>6. ASSUME NEW i \in 1 .. Len(v) PROVE v[i] = StackOf(t)[i]
  <2>1. i \in 1 .. Len(t) /\ i \in 1 .. Len(sc)
    BY <1>1, <1>3
  <2>2. v[i] = StackOf(sc)[i] /\ t[i] = sc[i]
    BY <1>3, <2>1
  <2> QED BY <1>4, <1>5, <2>1, <2>2
<1>7. v = StackOf(t)
  BY <1>3, <1>4, <1>6, SeqEqual
<1> QED BY <1>2, <1>7

LEMMA PopsNothing ==
    ASSUME NEW sc \in Seq(ScopeType)
    PROVE  Popped(StackOf(sc), Len(sc) + 1) = StackOf(sc)
<1>1. /\ Len(sc) \in Nat /\ Len(StackOf(sc)) = Len(sc) /\ StackOf(sc) \in Seq(StackType)
      /\ \A i \in 1 .. Len(sc) : StackOf(sc)[i].depth = i
  BY StackFacts
<1>2. PICK st, n : st = StackOf(sc) /\ n = Len(sc)
  OBVIOUS
<1>3. n \in Nat /\ Len(st) = n /\ \A i \in 1 .. n : st[i].depth = i
  BY <1>1, <1>2
<1>4. Popped(st, n + 1) = SubSeq(st, 1, n)
  <2>1. n \in 0 .. Len(st) /\ n + 1 \in Nat /\ Len(st) \in Nat
    BY <1>3
  <2>2. \A j \in 1 .. Len(st) : st[j].depth \in Nat
    BY <1>3
  <2>3. \A j \in n + 1 .. Len(st) : st[j].depth >= n + 1
    BY <1>3
  <2>4. n = 0 \/ st[n].depth < n + 1
    BY <1>3
  <2> QED BY <2>1, <2>2, <2>3, <2>4, PoppedTo
<1>5. SubSeq(st, 1, n) = StackOf(sc)
  <2>1. st \in Seq(StackType) /\ Len(sc) <= Len(st) /\ \A i \in 1 .. Len(sc) : st[i] = StackOf(sc)[i]
    BY <1>1, <1>2
  <2> QED BY <1>1, <1>2, <2>1, StackOfFirst
<1> QED BY <1>2, <1>4, <1>5

LEMMA PopsLast ==
    ASSUME NEW sc \in Seq(ScopeType), sc # <<>>
    PROVE  /\ Popped(StackOf(sc), Len(sc)) = StackOf(Front(sc))
           /\ Front(sc) \in Seq(ScopeType) /\ Len(Front(sc)) = Len(sc) - 1
           /\ \A i \in 1 .. Len(sc) - 1 : Front(sc)[i] = sc[i]
<1>0. Len(sc) \in Nat \ {0}
  OBVIOUS
<1>1. /\ Len(sc) \in Nat \ {0} /\ Len(StackOf(sc)) = Len(sc) /\ StackOf(sc) \in Seq(StackType)
      /\ \A i \in 1 .. Len(sc) : StackOf(sc)[i].depth = i
  BY <1>0, StackFacts
<1>2. PICK n \in Nat : n + 1 = Len(sc) /\ n = Len(sc) - 1
  BY <1>1
<1>3. Front(sc) = SubSeq(sc, 1, n)
  BY <1>2 DEF Front
<1>4. n \in 0 .. Len(sc)
  BY <1>2
<1>5. /\ Front(sc) \in Seq(ScopeType) /\ Len(Front(sc)) = n
      /\ \A i \in 1 .. n : Front(sc)[i] = sc[i]
  BY <1>3, <1>4, FirstOnes
<1>6. PICK st : st = StackOf(sc)
  OBVIOUS
<1>7. st \in Seq(StackType) /\ Len(st) = n + 1 /\ \A i \in 1 .. n + 1 : st[i].depth = i
  BY <1>1, <1>2, <1>6
<1>8. Popped(st, n + 1) = SubSeq(st, 1, n)
  <2>1. n \in 0 .. Len(st) /\ n + 1 \in Nat /\ Len(st) \in Nat
    BY <1>7
  <2>2. \A j \in 1 .. Len(st) : st[j].depth \in Nat
    BY <1>7
  <2>3. \A j \in n + 1 .. Len(st) : st[j].depth >= n + 1
    BY <1>7
  <2>4. n = 0 \/ st[n].depth < n + 1
    BY <1>7
  <2> QED BY <2>1, <2>2, <2>3, <2>4, PoppedTo
<1>9. SubSeq(st, 1, Len(Front(sc))) = StackOf(Front(sc))
  <2>1. /\ Len(Front(sc)) <= Len(sc) /\ Len(Front(sc)) <= Len(st)
        /\ \A i \in 1 .. Len(Front(sc)) : Front(sc)[i] = sc[i] /\ st[i] = StackOf(sc)[i]
    BY <1>2, <1>5, <1>6, <1>7
  <2> QED BY <1>5, <1>7, <2>1, StackOfFirst
<1> QED BY <1>2, <1>5, <1>6, <1>8, <1>9

LEMMA PopsOpened ==
    ASSUME NEW sc \in Seq(ScopeType), NEW r, r.depth = Len(sc) + 1
    PROVE  Popped(Append(StackOf(sc), r), Len(sc) + 1) = StackOf(sc)
<1>1. /\ Len(sc) \in Nat /\ Len(StackOf(sc)) = Len(sc) /\ StackOf(sc) \in Seq(StackType)
      /\ \A i \in 1 .. Len(sc) : StackOf(sc)[i].depth = i
  BY StackFacts
<1> DEFINE T == StackType \union {r}
<1>2. PICK n : n = Len(sc)
  OBVIOUS
<1>3. PICK old : old = StackOf(sc)
  OBVIOUS
<1>4. n \in Nat /\ Len(old) = n /\ old \in Seq(StackType) /\ \A i \in 1 .. n : old[i].depth = i
  BY <1>1, <1>2, <1>3
<1>5. PICK st : st = Append(old, r)
  OBVIOUS
<1>6. old \in Seq(T) /\ r \in T
  BY <1>4, SeqMonotonic
<1>7. st \in Seq(T) /\ Len(st) = n + 1 /\ st[n + 1] = r /\ \A i \in 1 .. n : st[i] = old[i]
  <2> HIDE DEF T
  <2> QED BY <1>4, <1>5, <1>6, AppendProperties
<1> HIDE DEF T
<1>8. \A i \in 1 .. n + 1 : i = n + 1 \/ i \in 1 .. n
  BY <1>4
<1>9. \A i \in 1 .. n + 1 : st[i].depth = i
  BY <1>2, <1>4, <1>7, <1>8
<1>10. Popped(st, n + 1) = SubSeq(st, 1, n)
  <2>1. n \in 0 .. Len(st) /\ n + 1 \in Nat /\ Len(st) \in Nat
    BY <1>4, <1>7
  <2>2. \A j \in 1 .. Len(st) : st[j].depth \in Nat
    BY <1>4, <1>7, <1>9
  <2>3. \A j \in n + 1 .. Len(st) : st[j].depth >= n + 1
    BY <1>4, <1>7, <1>9
  <2>4. n = 0 \/ st[n].depth < n + 1
    BY <1>4, <1>9
  <2> QED BY <2>1, <2>2, <2>3, <2>4, PoppedTo
<1>11. SubSeq(st, 1, n) = old
  <2>1. PICK v : v = SubSeq(st, 1, n)
    OBVIOUS
  <2>2. n \in 0 .. Len(st)
    BY <1>4, <1>7
  <2>3. v \in Seq(T) /\ Len(v) = n /\ \A i \in 1 .. n : v[i] = st[i]
    BY <1>7, <2>1, <2>2, FirstOnes
  <2>4. \A i \in 1 .. Len(v) : v[i] = old[i]
    BY <1>7, <2>3
  <2>5. v = old
    BY <1>4, <1>6, <2>3, <2>4, SeqEqual
  <2> QED BY <2>1, <2>5
<1> QED BY <1>2, <1>3, <1>5, <1>10, <1>11

-----------------------------------------------------------------------------
(* Where a scope opens, and where none does.                               *)

ScopeWords == TypeKeywords \union {"namespace"}

LEMMA TokensDiffer ==
    /\ Opening # Closing /\ Opening # Semicolon /\ Closing # Semicolon
    /\ {Opening, Closing, Semicolon} \intersect
          (Labels \union Keywords \union {"(", ")", "=", "n", "E", "T", "f", "x", "c"}) = {}
<1>1. Opening # Closing /\ Opening # Semicolon /\ Closing # Semicolon
  BY Zenon DEF Opening, Closing, Semicolon
<1>2. \A w \in Labels \union Keywords \union {"(", ")", "=", "n", "E", "T", "f", "x", "c"} :
          w # Opening /\ w # Closing /\ w # Semicolon
  BY Zenon DEF Opening, Closing, Semicolon, Labels, Keywords, TypeKeywords
<1> QED BY <1>1, <1>2

(* No keyword of a scope waits for its brace.                              *)
Settled(ts, j, i) == \E k \in j + 1 .. i - 1 : ts[k] \in {Semicolon, Opening}
NoneWaits(ts, m, i) == \A j \in 1 .. m : ts[j] \in ScopeWords => Settled(ts, j, i)

LEMMA StillSettled ==
    ASSUME NEW ts, NEW us, GoesOn(ts, us), NoneWaits(ts, Len(ts), Len(ts) + 1), NEW i \in Nat, i > Len(ts)
    PROVE  NoneWaits(us, Len(ts), i)
<1>1. Len(ts) \in Nat /\ \A k \in 1 .. Len(ts) : us[k] = ts[k]
  BY DEF GoesOn
<1>2. ASSUME NEW j \in 1 .. Len(ts), us[j] \in ScopeWords PROVE Settled(us, j, i)
  <2>1. Settled(ts, j, Len(ts) + 1)
    BY <1>1, <1>2 DEF NoneWaits
  <2>2. PICK k \in j + 1 .. Len(ts) + 1 - 1 : ts[k] \in {Semicolon, Opening}
    BY <2>1 DEF Settled
  <2>3. k \in 1 .. Len(ts) /\ k \in j + 1 .. i - 1
    BY <1>1
  <2> QED BY <1>1, <2>2, <2>3 DEF Settled
<1> QED BY <1>2 DEF NoneWaits

LEMMA OpensNoScope ==
    ASSUME NEW us, NEW i \in Nat, NoneWaits(us, i - 2, i)
    PROVE  Opener(us, i) = <<>>
<1> DEFINE from == {j \in 1 .. i - 1 : us[j] \in {Semicolon, Opening}}
           keys == {j \in 1 .. i - 2 : /\ \A k \in from : k < j
                                       /\ us[j] \in TypeKeywords \union {"namespace"}
                                       /\ IsWord(us[j + 1])}
<1>1. ASSUME NEW j \in keys PROVE FALSE
  <2>1. j \in 1 .. i - 2 /\ us[j] \in ScopeWords /\ \A k \in from : k < j
    BY DEF ScopeWords
  <2>2. Settled(us, j, i)
    BY <2>1 DEF NoneWaits
  <2>3. PICK k \in j + 1 .. i - 1 : us[k] \in {Semicolon, Opening}
    BY <2>2 DEF Settled
  <2>4. k \in 1 .. i - 1 /\ ~(k < j)
    BY <2>1
  <2>5. k \in from
    BY <2>3, <2>4
  <2> QED BY <2>1, <2>4, <2>5
<1>2. keys = {}
  <2> HIDE DEF keys
  <2> QED BY <1>1
<1> QED BY <1>2 DEF Opener

LEMMA OpensScope ==
    ASSUME NEW us, NEW i \in Nat, NEW j \in 1 .. i - 2, us[j] \in ScopeWords, IsWord(us[j + 1]),
           NoneWaits(us, j - 1, i), \A k \in j + 1 .. i - 1 : us[k] \notin {Semicolon, Opening},
           Opening \notin ScopeWords, Semicolon \notin ScopeWords
    PROVE  Opener(us, i) = <<us[j], us[j + 1]>>
<1> DEFINE from == {k \in 1 .. i - 1 : us[k] \in {Semicolon, Opening}}
           keys == {k \in 1 .. i - 2 : /\ \A l \in from : l < k
                                       /\ us[k] \in TypeKeywords \union {"namespace"}
                                       /\ IsWord(us[k + 1])}
<1>1. ASSUME NEW l \in from PROVE l < j
  <2>1. l \in 1 .. i - 1 /\ us[l] \in {Semicolon, Opening}
    OBVIOUS
  <2>2. l # j
    BY <2>1
  <2>3. l \notin j + 1 .. i - 1
    BY <2>1
  <2> QED BY <2>1, <2>2, <2>3
<1>2. j \in keys
  BY <1>1 DEF ScopeWords
<1>3. ASSUME NEW k \in keys PROVE j <= k
  <2>1. k \in 1 .. i - 2 /\ us[k] \in ScopeWords /\ \A l \in from : l < k
    BY DEF ScopeWords
  <2> SUFFICES ASSUME k < j PROVE FALSE
    BY <2>1
  <2>2. k \in 1 .. j - 1
    BY <2>1
  <2>3. Settled(us, k, i)
    BY <2>1, <2>2 DEF NoneWaits
  <2>4. PICK l \in k + 1 .. i - 1 : us[l] \in {Semicolon, Opening}
    BY <2>3 DEF Settled
  <2>5. l \in 1 .. i - 1 /\ ~(l < k)
    BY <2>1
  <2>6. l \in from
    BY <2>4, <2>5
  <2> QED BY <2>1, <2>5, <2>6
<1>4. FirstAt(keys) = j /\ keys # {}
  <2>1. keys \in SUBSET Int
    OBVIOUS
  <2> HIDE DEF keys
  <2> QED BY <1>2, <1>3, <2>1, FirstIs
<1> QED BY <1>4 DEF Opener

-----------------------------------------------------------------------------
(* What the reader makes of the scopes where a comment stands.             *)
NamespacesFirst(sc) == \E m \in 0 .. Len(sc) : \A i \in 1 .. Len(sc) : IsTypeScope(sc[i]) <=> m < i

NamesTo(f, stack, n) ==
    f = [i \in 0 .. n |->
            IF i = 0 THEN <<>>
            ELSE IF IsTypeScope(stack[i]) THEN f[i - 1] ELSE Append(f[i - 1], stack[i].name)]

LEMMA NamesSteps ==
    ASSUME NEW stack, Len(stack) \in Nat
    PROVE  \E f : NamesTo(f, stack, Len(stack)) /\ NamespaceAt(stack) = f[Len(stack)]
<1> DEFINE S == {n \in Nat : \E f : NamesTo(f, stack, n)}
<1>1. 0 \in S
  <2> DEFINE f == [i \in 0 .. 0 |-> <<>>]
  <2>1. \A i \in 0 .. 0 : i = 0
    OBVIOUS
  <2>2. NamesTo(f, stack, 0)
    BY <2>1 DEF NamesTo
  <2> QED BY <2>2
<1>2. ASSUME NEW n \in S PROVE n + 1 \in S
  <2>1. PICK f : NamesTo(f, stack, n)
    OBVIOUS
  <2> DEFINE next == IF IsTypeScope(stack[n + 1]) THEN f[n] ELSE Append(f[n], stack[n + 1].name)
             g == [i \in 0 .. n + 1 |-> IF i = n + 1 THEN next ELSE f[i]]
  <2>2. ASSUME NEW i \in 0 .. n + 1
        PROVE  g[i] = IF i = 0 THEN <<>>
                      ELSE IF IsTypeScope(stack[i]) THEN g[i - 1] ELSE Append(g[i - 1], stack[i].name)
    <3>1. CASE i = n + 1
      <4>1. g[i - 1] = f[n] /\ g[i] = next /\ i # 0
        BY <3>1
      <4> QED BY <3>1, <4>1
    <3>2. CASE i # n + 1
      <4>1. i \in 0 .. n /\ i - 1 # n + 1 /\ (i # 0 => i - 1 \in 0 .. n + 1)
        BY <3>2
      <4>2. g[i] = f[i] /\ (i # 0 => g[i - 1] = f[i - 1])
        BY <3>2, <4>1
      <4>3. f[i] = IF i = 0 THEN <<>>
                   ELSE IF IsTypeScope(stack[i]) THEN f[i - 1] ELSE Append(f[i - 1], stack[i].name)
        BY <2>1, <4>1 DEF NamesTo
      <4> HIDE DEF g
      <4> QED BY <4>2, <4>3
    <3> QED BY <3>1, <3>2
  <2>3. g = [i \in 0 .. n + 1 |-> g[i]]
    OBVIOUS
  <2> HIDE DEF g
  <2>4. NamesTo(g, stack, n + 1)
    BY <2>2, <2>3 DEF NamesTo
  <2> QED BY <2>4
<1>3. S = Nat
  <2> HIDE DEF S
  <2>1. S \in SUBSET Nat
    BY DEF S
  <2> QED BY <1>1, <1>2, <2>1, Induction
<1>4. \E f : NamesTo(f, stack, Len(stack))
  BY <1>3
<1> DEFINE names == CHOOSE f : NamesTo(f, stack, Len(stack))
<1>5. NamesTo(names, stack, Len(stack))
  BY <1>4
<1>6. NamespaceAt(stack) = names[Len(stack)]
  BY DEF NamespaceAt, NamesTo
<1> HIDE DEF names
<1> QED BY <1>5, <1>6

NamesOf(sc) == [i \in {j \in 1 .. Len(sc) : ~IsTypeScope(sc[j])} |-> sc[i].name]

LEMMA NamespaceIs ==
    ASSUME NEW sc \in Seq(ScopeType), NamespacesFirst(sc)
    PROVE  NamespaceAt(StackOf(sc)) = NamesOf(sc)
<1>1. PICK st : st = StackOf(sc)
  OBVIOUS
<1>2. PICK n : n = Len(sc)
  OBVIOUS
<1>3. /\ n \in Nat /\ Len(st) = n
      /\ \A i \in 1 .. n : st[i].keyword = sc[i].keyword /\ st[i].name = sc[i].name
  <2>1. /\ n \in Nat /\ Len(st) = n
        /\ \A i \in 1 .. n : st[i] = [depth |-> i, keyword |-> sc[i].keyword, name |-> sc[i].name, access |-> sc[i].access]
    BY <1>1, <1>2, StackFacts
  <2> QED BY <2>1
<1>4. \A i \in 1 .. n : IsTypeScope(st[i]) <=> IsTypeScope(sc[i])
  BY <1>3 DEF IsTypeScope
<1>5. PICK f : NamesTo(f, st, n) /\ NamespaceAt(st) = f[n]
  BY <1>3, NamesSteps
<1>6. PICK m \in 0 .. n : \A i \in 1 .. n : IsTypeScope(sc[i]) <=> m < i
  BY <1>2 DEF NamespacesFirst
<1>7. ASSUME NEW i \in 0 .. n
      PROVE  f[i] = IF i = 0 THEN <<>>
                    ELSE IF IsTypeScope(st[i]) THEN f[i - 1] ELSE Append(f[i - 1], st[i].name)
  BY <1>5 DEF NamesTo
<1> DEFINE upTo(k) == [j \in 1 .. k |-> sc[j].name]
           cut(k) == IF k <= m THEN k ELSE m
           S == {k \in Nat : k <= n => f[k] = upTo(cut(k))}
<1>8. 0 \in S
  <2>1. f[0] = <<>>
    BY <1>3, <1>7
  <2>2. cut(0) = 0
    BY <1>6
  <2>3. upTo(0) = <<>>
    OBVIOUS
  <2> HIDE DEF upTo, cut
  <2> QED BY <2>1, <2>2, <2>3
<1>9. ASSUME NEW k \in S PROVE k + 1 \in S
  <2> SUFFICES ASSUME k + 1 <= n PROVE f[k + 1] = upTo(cut(k + 1))
    OBVIOUS
  <2>1. k + 1 \in 0 .. n /\ k + 1 \in 1 .. n /\ k + 1 # 0 /\ (k + 1) - 1 = k /\ k \in Nat /\ k <= n /\ m \in Nat
    BY <1>3, <1>6
  <2>2. f[k] = upTo(cut(k))
    BY <2>1
  <2>3. CASE k < m
    <3>1. cut(k) = k /\ cut(k + 1) = k + 1 /\ ~(m < k + 1)
      BY <2>1, <2>3
    <3>2. ~IsTypeScope(st[k + 1])
      BY <1>4, <1>6, <2>1, <3>1
    <3>3. f[k + 1] = Append(f[k], st[k + 1].name)
      BY <1>7, <2>1, <3>2
    <3>4. f[k + 1] = Append(upTo(k), sc[k + 1].name)
      <4>1. st[k + 1].name = sc[k + 1].name
        BY <1>3, <2>1
      <4>2. f[k] = upTo(k)
        BY <2>2, <3>1
      <4> HIDE DEF upTo, cut
      <4> QED BY <3>3, <4>1, <4>2
    <3>5. Append(upTo(k), sc[k + 1].name) = upTo(k + 1)
      <4>0. n \in Nat
        BY <1>3
      <4> DEFINE T == {sc[j].name : j \in 1 .. n}
      <4>1. \A j \in 1 .. k + 1 : j \in 1 .. n
        BY <2>1, <4>0
      <4>2. upTo(k) \in [1 .. k -> T] /\ upTo(k + 1) \in [1 .. k + 1 -> T] /\ sc[k + 1].name \in T
        BY <2>1, <4>1
      <4>3. upTo(k) \in Seq(T) /\ upTo(k + 1) \in Seq(T) /\ Len(upTo(k)) = k /\ Len(upTo(k + 1)) = k + 1
        <5> HIDE DEF T, upTo
        <5> QED BY <2>1, <4>2
      <4>4. /\ \A j \in 1 .. k : upTo(k)[j] = sc[j].name
            /\ \A j \in 1 .. k + 1 : upTo(k + 1)[j] = sc[j].name
        OBVIOUS
      <4> HIDE DEF T, upTo
      <4>5. PICK v : v = Append(upTo(k), sc[k + 1].name)
        OBVIOUS
      <4>6. v \in Seq(T) /\ Len(v) = k + 1 /\ v[k + 1] = sc[k + 1].name /\ \A j \in 1 .. k : v[j] = upTo(k)[j]
        BY <4>2, <4>3, <4>5, AppendProperties
      <4>7. ASSUME NEW j \in 1 .. k + 1 PROVE v[j] = upTo(k + 1)[j]
        <5>1. j = k + 1 \/ j \in 1 .. k
          BY <2>1
        <5> QED BY <4>4, <4>6, <5>1
      <4>8. v = upTo(k + 1)
        BY <4>3, <4>6, <4>7, SeqEqual
      <4> QED BY <4>5, <4>8
    <3> HIDE DEF upTo, cut
    <3> QED BY <3>1, <3>4, <3>5
  <2>4. CASE ~(k < m)
    <3>1. cut(k) = m /\ cut(k + 1) = m /\ m < k + 1
      BY <2>1, <2>4
    <3>2. IsTypeScope(st[k + 1])
      BY <1>4, <1>6, <2>1, <3>1
    <3>3. f[k + 1] = f[k]
      BY <1>7, <2>1, <3>2
    <3> HIDE DEF upTo, cut
    <3> QED BY <2>2, <3>1, <3>3
  <2> QED BY <2>3, <2>4
<1>10. S = Nat
  <2> HIDE DEF S
  <2>1. S \in SUBSET Nat
    BY DEF S
  <2> QED BY <1>8, <1>9, <2>1, Induction
<1>11. f[n] = upTo(cut(n))
  <2>1. n \in S
    BY <1>3, <1>10
  <2> QED BY <1>3, <2>1
<1>12. cut(n) = m
  BY <1>3, <1>6
<1>13. {j \in 1 .. n : ~IsTypeScope(sc[j])} = 1 .. m
  <2>1. ASSUME NEW j \in 1 .. n PROVE ~IsTypeScope(sc[j]) <=> j <= m
    BY <1>3, <1>6
  <2> QED BY <1>3, <1>6, <2>1
<1>14. NamesOf(sc) = upTo(m)
  BY <1>2, <1>13 DEF NamesOf
<1> HIDE DEF upTo, cut
<1> QED BY <1>1, <1>5, <1>11, <1>12, <1>14

(* The innermost type of the writer's open scopes, and its access now.     *)
OwnerOf(sc)    == IF sc # <<>> /\ IsTypeScope(Last(sc)) THEN Last(sc).name ELSE ""
AccessWhere(sc) == IF sc # <<>> /\ IsTypeScope(Last(sc)) THEN Last(sc).access ELSE "public"

LEMMA OwnerIs ==
    ASSUME NEW sc \in Seq(ScopeType), NamespacesFirst(sc)
    PROVE  OwnerAt(StackOf(sc)) = OwnerOf(sc) /\ AccessAt(StackOf(sc)) = AccessWhere(sc)
<1>1. PICK st : st = StackOf(sc)
  OBVIOUS
<1>2. PICK n : n = Len(sc)
  OBVIOUS
<1>3. /\ n \in Nat /\ Len(st) = n
      /\ \A i \in 1 .. n : st[i].keyword = sc[i].keyword /\ st[i].name = sc[i].name /\ st[i].access = sc[i].access
  <2>1. /\ n \in Nat /\ Len(st) = n
        /\ \A i \in 1 .. n : st[i] = [depth |-> i, keyword |-> sc[i].keyword, name |-> sc[i].name, access |-> sc[i].access]
    BY <1>1, <1>2, StackFacts
  <2> QED BY <2>1
<1>4. PICK m \in 0 .. n : \A i \in 1 .. n : IsTypeScope(sc[i]) <=> m < i
  BY <1>2 DEF NamespacesFirst
<1>5. \A i \in 1 .. n : IsTypeScope(st[i]) <=> m < i
  BY <1>3, <1>4 DEF IsTypeScope
<1>6. (sc # <<>>) <=> n # 0
  BY <1>2
<1>7. n # 0 => Last(sc) = sc[n]
  BY <1>2 DEF Last
<1> DEFINE in == TypesIn(st)
<1>8. in \in SUBSET Int /\ \A i : i \in in <=> i \in 1 .. n /\ m < i
  BY <1>3, <1>5 DEF TypesIn
<1> HIDE DEF in
<1>9. CASE m < n
  <2>1. n \in in /\ n # 0 /\ n \in 1 .. n
    BY <1>3, <1>4, <1>8, <1>9
  <2>2. \A j \in in : j <= n
    BY <1>8
  <2>3. LastAt(in) = n /\ in # {}
    BY <1>8, <2>1, <2>2, LastIs
  <2>4. IsTypeScope(Last(sc)) /\ sc # <<>> /\ Last(sc) = sc[n]
    BY <1>4, <1>6, <1>7, <1>9, <2>1
  <2>5. OwnerAt(st) = st[n].name /\ AccessAt(st) = st[n].access
    BY <2>3 DEF OwnerAt, AccessAt, in
  <2> QED BY <1>1, <1>3, <2>1, <2>4, <2>5 DEF OwnerOf, AccessWhere
<1>10. CASE ~(m < n)
  <2>1. in = {}
    BY <1>3, <1>4, <1>8, <1>10
  <2>2. OwnerAt(st) = "" /\ AccessAt(st) = "public"
    BY <2>1 DEF OwnerAt, AccessAt, in
  <2>3. n # 0 => ~IsTypeScope(Last(sc))
    <3>1. n # 0 => n \in 1 .. n
      BY <1>3
    <3> QED BY <1>4, <1>7, <1>10, <3>1
  <2> QED BY <1>1, <1>6, <2>2, <2>3 DEF OwnerOf, AccessWhere
<1> QED BY <1>9, <1>10

LEMMA EntityIs ==
    ASSUME NEW us, NEW mark, NEW sc \in Seq(ScopeType), NamespacesFirst(sc), Walk(us)[mark - 1] = Within(sc)
    PROVE  EntityAt(us, mark) =
              [at |-> mark, kind |-> Classify(DeclarationAfter(us, mark)).kind,
               name |-> Classify(DeclarationAfter(us, mark)).name, namespace |-> NamesOf(sc),
               owner |-> OwnerOf(sc), access |-> AccessWhere(sc)]
<1>1. ScopesAt(us, mark) = StackOf(sc)
  BY DEF ScopesAt, Within
<1> QED BY <1>1, NamespaceIs, OwnerIs DEF EntityAt

-----------------------------------------------------------------------------
(* How a signature is told apart.                                          *)
Tries(s) == << Introduced(s, "enum"), Introduced(s, "struct"), Introduced(s, "class"),
               IF s[1] = "using" THEN [kind |-> "type", name |-> s[2]] ELSE NoDeclaration,
               Called(s),
               IF (\E i \in 1 .. Len(s) : s[i] = "const") /\ IsWord(Last(s))
               THEN [kind |-> "var", name |-> Last(s)] ELSE NoDeclaration >>

LEMMA ToldAs ==
    ASSUME NEW s, s[1] # "namespace", NEW k \in 1 .. 6, NEW r, r # NoDeclaration,
           NEW t, t = Tries(s), t[k] = r, \A i \in 1 .. k - 1 : t[i] = NoDeclaration
    PROVE  Classify(s) = r
<1> DEFINE hits == {i \in 1 .. 6 : t[i] # NoDeclaration}
<1>1. k \in hits /\ hits \in SUBSET Int
  OBVIOUS
<1>2. ASSUME NEW i \in hits PROVE k <= i
  <2>1. i \notin 1 .. k - 1
    OBVIOUS
  <2> QED BY <2>1
<1>3. FirstAt(hits) = k /\ hits # {}
  <2> HIDE DEF hits
  <2> QED BY <1>1, <1>2, FirstIs
<1>4. Len(Tries(s)) = 6
  BY DEF Tries
<1>5. Classify(s) = IF s[1] = "namespace" \/ {i \in 1 .. Len(Tries(s)) : Tries(s)[i] # NoDeclaration} = {} THEN NoDeclaration
                    ELSE Tries(s)[FirstAt({i \in 1 .. Len(Tries(s)) : Tries(s)[i] # NoDeclaration})]
  BY Zenon DEF Classify, Tries
<1>6. {i \in 1 .. Len(Tries(s)) : Tries(s)[i] # NoDeclaration} = hits
  BY <1>4
<1> HIDE DEF hits
<1>7. Classify(s) = t[k]
  BY <1>3, <1>5, <1>6
<1> QED BY <1>7

(* The head of a signature ends before its first parenthesis.              *)
LEMMA WholeHead ==
    ASSUME NEW s, \A i \in 1 .. Len(s) : s[i] # "("
    PROVE  HeadOf(s) = s
<1>1. {i \in 1 .. Len(s) : s[i] = "("} = {}
  OBVIOUS
<1> QED BY <1>1 DEF HeadOf

LEMMA HeadBefore ==
    ASSUME NEW s, Len(s) \in Nat, NEW p \in 1 .. Len(s), s[p] = "(", \A i \in 1 .. p - 1 : s[i] # "("
    PROVE  HeadOf(s) = SubSeq(s, 1, p - 1)
<1> DEFINE parens == {i \in 1 .. Len(s) : s[i] = "("}
<1>1. parens \in SUBSET Int /\ p \in parens
  OBVIOUS
<1>2. ASSUME NEW i \in parens PROVE p <= i
  <2>1. i \notin 1 .. p - 1
    OBVIOUS
  <2> QED BY <2>1
<1>3. FirstAt(parens) = p /\ parens # {}
  <2> HIDE DEF parens
  <2> QED BY <1>1, <1>2, FirstIs
<1> QED BY <1>3 DEF HeadOf

LEMMA NotIntroduced ==
    ASSUME NEW s, NEW keyword, \A i \in 1 .. Len(HeadOf(s)) - 1 : HeadOf(s)[i] # keyword
    PROVE  Introduced(s, keyword) = NoDeclaration
<1>1. {i \in 1 .. Len(HeadOf(s)) - 1 : HeadOf(s)[i] = keyword} = {}
  OBVIOUS
<1> QED BY <1>1 DEF Introduced

LEMMA IntroducedFirst ==
    ASSUME NEW s, NEW keyword, HeadOf(s) = s, Len(s) \in Nat, Len(s) > 1, s[1] = keyword
    PROVE  Introduced(s, keyword) =
              [kind |-> keyword, name |-> s[IF keyword = "enum" /\ s[2] = "class" THEN 3 ELSE 2]]
<1> DEFINE places == {i \in 1 .. Len(s) - 1 : s[i] = keyword}
<1>1. places \in SUBSET Int /\ 1 \in places /\ \A i \in places : 1 <= i
  OBVIOUS
<1>2. FirstAt(places) = 1 /\ places # {}
  <2> HIDE DEF places
  <2> QED BY <1>1, FirstIs
<1>3. Introduced(s, keyword) =
         IF places = {} THEN NoDeclaration
         ELSE [kind |-> keyword,
               name |-> s[FirstAt(places) + (IF keyword = "enum" /\ s[FirstAt(places) + 1] = "class" THEN 2 ELSE 1)]]
  BY DEF Introduced
<1> HIDE DEF places
<1>4. FirstAt(places) + 1 = 2 /\ FirstAt(places) + 2 = 3
  BY <1>2
<1> QED BY <1>2, <1>3, <1>4

LEMMA CallIs ==
    ASSUME NEW s, Len(s) \in Nat, NEW p \in 2 .. Len(s), s[p] = "(", IsWord(s[p - 1]), \A i \in 1 .. p - 1 : s[i] # "("
    PROVE  Called(s) = [kind |-> "function", name |-> s[p - 1]]
<1> DEFINE calls == {i \in 2 .. Len(s) : s[i] = "(" /\ IsWord(s[i - 1])}
<1>1. calls \in SUBSET Int /\ p \in calls
  OBVIOUS
<1>2. ASSUME NEW i \in calls PROVE p <= i
  <2>1. i \notin 1 .. p - 1
    OBVIOUS
  <2> QED BY <2>1
<1>3. FirstAt(calls) = p /\ calls # {}
  <2> HIDE DEF calls
  <2> QED BY <1>1, <1>2, FirstIs
<1> QED BY <1>3 DEF Called

LEMMA NoCall ==
    ASSUME NEW s, \A i \in 1 .. Len(s) : s[i] # "("
    PROVE  Called(s) = NoDeclaration
<1>1. {i \in 2 .. Len(s) : s[i] = "(" /\ IsWord(s[i - 1])} = {}
  OBVIOUS
<1> QED BY <1>1 DEF Called

-----------------------------------------------------------------------------
(* What the writer's signatures are told as.                               *)

SignatureOf(kind, name) == [kind |-> kind, name |-> name]

(* A type has no name that means something else.                           *)
LEMMA NamesArePlain ==
    ASSUME NEW name \in ToSet(Types)
    PROVE  /\ name \notin Punctuation /\ name \notin Labels /\ name \notin Keywords /\ IsWord(name)
           /\ name # "(" /\ name # ")" /\ name # Opening /\ name # Closing /\ name # Semicolon
<1>1. name \notin Punctuation \union Labels \union Keywords
  BY TypesAssumption
<1> QED BY <1>1 DEF IsWord, Punctuation

LEMMA TypeTold ==
    ASSUME NEW k \in TypeKeywords, NEW name \in ToSet(Types)
    PROVE  Classify(<<k, name>>) = SignatureOf(k, name)
<1>1. name # "("
  BY NamesArePlain
<1>2. PICK s : s = <<k, name>>
  OBVIOUS
<1>3. Len(s) = 2 /\ s[1] = k /\ s[2] = name
  BY <1>2
<1>4. k # "enum" /\ k # "(" /\ k # "namespace" /\ k # "none" /\ (k = "struct" \/ k = "class")
  BY DEF TypeKeywords
<1>5. HeadOf(s) = s
  <2>1. \A i \in 1 .. Len(s) : s[i] # "("
    BY <1>1, <1>3, <1>4
  <2> QED BY <2>1, WholeHead
<1>6. Introduced(s, "enum") = NoDeclaration
  <2>1. \A i \in 1 .. Len(s) - 1 : s[i] # "enum"
    BY <1>3, <1>4
  <2> QED BY <1>5, <2>1, NotIntroduced
<1>7. Introduced(s, k) = SignatureOf(k, name)
  BY <1>3, <1>4, <1>5, IntroducedFirst DEF SignatureOf
<1>8. k = "class" => Introduced(s, "struct") = NoDeclaration
  <2> HAVE k = "class"
  <2>1. \A i \in 1 .. Len(s) - 1 : s[i] # "struct"
    BY <1>3
  <2> QED BY <1>5, <2>1, NotIntroduced
<1>9. PICK t : t = Tries(s)
  OBVIOUS
<1>10. t[1] = Introduced(s, "enum") /\ t[2] = Introduced(s, "struct") /\ t[3] = Introduced(s, "class")
  BY <1>9 DEF Tries
<1>11. SignatureOf(k, name) # NoDeclaration
  BY <1>4 DEF SignatureOf, NoDeclaration
<1>12. CASE k = "struct"
  <2>1. t[2] = SignatureOf(k, name) /\ \A i \in 1 .. 2 - 1 : t[i] = NoDeclaration
    BY <1>6, <1>7, <1>10, <1>12
  <2> QED BY <1>2, <1>3, <1>4, <1>9, <1>11, <2>1, ToldAs
<1>13. CASE k = "class"
  <2>1. t[3] = SignatureOf(k, name) /\ t[1] = NoDeclaration /\ t[2] = NoDeclaration
    BY <1>6, <1>7, <1>8, <1>10, <1>13
  <2>2. \A i \in 1 .. 3 - 1 : t[i] = NoDeclaration
    BY <2>1
  <2> QED BY <1>2, <1>3, <1>4, <1>9, <1>11, <2>1, <2>2, ToldAs
<1> QED BY <1>4, <1>12, <1>13

LEMMA FunctionTold ==
    ASSUME NEW s, s = <<"int", "f", "(", "class", "int", ")">> \/ s = <<"int", "f", "(", ")">>
    PROVE  Classify(s) = SignatureOf("function", "f")
<1>1. Len(s) \in Nat /\ Len(s) >= 4 /\ s[1] = "int" /\ s[2] = "f" /\ s[3] = "("
  OBVIOUS
<1>2. \A i \in 1 .. 3 - 1 : s[i] # "("
  BY <1>1
<1>3. PICK h : h = HeadOf(s)
  OBVIOUS
<1>4. h = SubSeq(s, 1, 2)
  <2>1. 3 \in 1 .. Len(s) /\ 3 - 1 = 2
    BY <1>1
  <2> QED BY <1>1, <1>2, <1>3, <2>1, HeadBefore
<1>5. Len(h) = 2 /\ h[1] = "int"
  <2>1. \A i \in 1 .. 2 : s[i] \in {"int", "f"}
    BY <1>1
  <2>2. /\ Len(SubSeq(s, 1, 2)) = IF 1 <= 2 THEN 2 - 1 + 1 ELSE 0
        /\ \A i \in 1 .. 2 - 1 + 1 : SubSeq(s, 1, 2)[i] = s[1 + i - 1]
    BY <2>1, SubSeqProperties
  <2> QED BY <1>1, <1>4, <2>2
<1>6. ASSUME NEW keyword \in {"enum", "struct", "class"} PROVE Introduced(s, keyword) = NoDeclaration
  <2>1. \A i \in 1 .. Len(h) - 1 : h[i] # keyword
    BY <1>5
  <2> QED BY <1>3, <2>1, NotIntroduced
<1>7. Called(s) = SignatureOf("function", "f")
  <2>1. 3 \in 2 .. Len(s) /\ 3 - 1 = 2
    BY <1>1
  <2>2. IsWord(s[3 - 1])
    <3>1. "f" \notin {Opening, Closing, Semicolon}
      BY TokensDiffer
    <3> QED BY <1>1, <2>1, <3>1 DEF IsWord, Punctuation, Labels
  <2> QED BY <1>1, <1>2, <2>1, <2>2, CallIs DEF SignatureOf
<1>8. PICK t : t = Tries(s)
  OBVIOUS
<1>9. t[1] = NoDeclaration /\ t[2] = NoDeclaration /\ t[3] = NoDeclaration /\ t[4] = NoDeclaration /\ t[5] = SignatureOf("function", "f")
  <2>1. /\ t[1] = Introduced(s, "enum") /\ t[2] = Introduced(s, "struct") /\ t[3] = Introduced(s, "class")
        /\ t[4] = IF s[1] = "using" THEN [kind |-> "type", name |-> s[2]] ELSE NoDeclaration
        /\ t[5] = Called(s)
    BY <1>8 DEF Tries
  <2> QED BY <1>1, <1>6, <1>7, <2>1
<1>10. SignatureOf("function", "f") # NoDeclaration
  BY DEF SignatureOf, NoDeclaration
<1>11. \A i \in 1 .. 5 - 1 : t[i] = NoDeclaration
  BY <1>9
<1> QED BY <1>1, <1>8, <1>9, <1>10, <1>11, ToldAs

LEMMA EnumTold == Classify(<<"enum", "class", "E">>) = SignatureOf("enum", "E")
<1>1. PICK s : s = <<"enum", "class", "E">>
  OBVIOUS
<1>2. Len(s) = 3 /\ s[1] = "enum" /\ s[2] = "class" /\ s[3] = "E"
  BY <1>1
<1>3. HeadOf(s) = s
  <2>1. \A i \in 1 .. Len(s) : s[i] # "("
    BY <1>2
  <2> QED BY <2>1, WholeHead
<1>4. Introduced(s, "enum") = SignatureOf("enum", "E")
  BY <1>2, <1>3, IntroducedFirst DEF SignatureOf
<1>5. PICK t : t = Tries(s)
  OBVIOUS
<1>6. t[1] = SignatureOf("enum", "E") /\ \A i \in 1 .. 1 - 1 : t[i] = NoDeclaration
  BY <1>4, <1>5 DEF Tries
<1>7. SignatureOf("enum", "E") # NoDeclaration
  BY DEF SignatureOf, NoDeclaration
<1> QED BY <1>1, <1>2, <1>5, <1>6, <1>7, ToldAs

LEMMA AliasTold == Classify(<<"using", "T", "=", "int">>) = SignatureOf("type", "T")
<1>1. PICK s : s = <<"using", "T", "=", "int">>
  OBVIOUS
<1>2. Len(s) = 4 /\ s[1] = "using" /\ s[2] = "T" /\ s[3] = "=" /\ s[4] = "int"
  BY <1>1
<1>3. HeadOf(s) = s
  <2>1. \A i \in 1 .. Len(s) : s[i] # "("
    BY <1>2
  <2> QED BY <2>1, WholeHead
<1>4. ASSUME NEW keyword \in {"enum", "struct", "class"} PROVE Introduced(s, keyword) = NoDeclaration
  <2>1. \A i \in 1 .. Len(s) - 1 : s[i] # keyword
    BY <1>2
  <2> QED BY <1>3, <2>1, NotIntroduced
<1>5. PICK t : t = Tries(s)
  OBVIOUS
<1>6. t[1] = NoDeclaration /\ t[2] = NoDeclaration /\ t[3] = NoDeclaration /\ t[4] = SignatureOf("type", "T")
  <2>1. /\ t[1] = Introduced(s, "enum") /\ t[2] = Introduced(s, "struct") /\ t[3] = Introduced(s, "class")
        /\ t[4] = IF s[1] = "using" THEN [kind |-> "type", name |-> s[2]] ELSE NoDeclaration
    BY <1>5 DEF Tries
  <2> QED BY <1>2, <1>4, <2>1 DEF SignatureOf
<1>7. SignatureOf("type", "T") # NoDeclaration
  BY DEF SignatureOf, NoDeclaration
<1>8. \A i \in 1 .. 4 - 1 : t[i] = NoDeclaration
  BY <1>6
<1> QED BY <1>1, <1>2, <1>5, <1>6, <1>7, <1>8, ToldAs

LEMMA ConstantTold == Classify(<<"const", "int", "c">>) = SignatureOf("var", "c")
<1>1. PICK s : s = <<"const", "int", "c">>
  OBVIOUS
<1>2. Len(s) = 3 /\ s[1] = "const" /\ s[2] = "int" /\ s[3] = "c" /\ Last(s) = "c"
  BY <1>1 DEF Last
<1>0. \A i \in 1 .. Len(s) : s[i] # "("
  BY <1>2
<1>3. HeadOf(s) = s
  BY <1>0, WholeHead
<1>4. ASSUME NEW keyword \in {"enum", "struct", "class"} PROVE Introduced(s, keyword) = NoDeclaration
  <2>1. \A i \in 1 .. Len(s) - 1 : s[i] # keyword
    BY <1>2
  <2> QED BY <1>3, <2>1, NotIntroduced
<1>5. PICK t : t = Tries(s)
  OBVIOUS
<1>6. t[1] = NoDeclaration /\ t[2] = NoDeclaration /\ t[3] = NoDeclaration /\ t[4] = NoDeclaration /\ t[5] = NoDeclaration /\ t[6] = SignatureOf("var", "c")
  <2>1. /\ t[1] = Introduced(s, "enum") /\ t[2] = Introduced(s, "struct") /\ t[3] = Introduced(s, "class")
        /\ t[4] = IF s[1] = "using" THEN [kind |-> "type", name |-> s[2]] ELSE NoDeclaration
        /\ t[5] = Called(s)
        /\ t[6] = IF (\E i \in 1 .. Len(s) : s[i] = "const") /\ IsWord(Last(s))
                  THEN [kind |-> "var", name |-> Last(s)] ELSE NoDeclaration
    BY <1>5 DEF Tries
  <2>2. IsWord(Last(s))
    <3>1. "c" \notin {Opening, Closing, Semicolon}
      BY TokensDiffer
    <3> QED BY <1>2, <3>1 DEF IsWord, Punctuation, Labels
  <2>3. \E i \in 1 .. Len(s) : s[i] = "const"
    BY <1>2
  <2>4. t[6] = SignatureOf("var", "c")
    BY <1>2, <2>1, <2>2, <2>3 DEF SignatureOf
  <2>5. t[5] = NoDeclaration
    BY <1>0, <2>1, NoCall
  <2> QED BY <1>2, <1>4, <2>1, <2>4, <2>5
<1>7. SignatureOf("var", "c") # NoDeclaration
  BY DEF SignatureOf, NoDeclaration
<1>8. \A i \in 1 .. 6 - 1 : t[i] = NoDeclaration
  BY <1>6
<1> QED BY <1>1, <1>2, <1>5, <1>6, <1>7, <1>8, ToldAs

-----------------------------------------------------------------------------
(* How the reader comes from one place where nothing waits to the next.    *)

Marks == {Opening, Closing} \union Labels

(* The file has been read up to a place where no keyword of a scope waits, *)
(* and the scopes open there are the writer's.                             *)
Ready(us, p, sc) ==
    /\ us \in Seq(Words) /\ p \in 0 .. Len(us) /\ sc \in Seq(ScopeType)
    /\ Walk(us)[p] = Within(sc)
    /\ \A i \in p + 1 .. Len(us) + 1 : NoneWaits(us, p, i)

LEMMA StepIs ==
    ASSUME NEW us, NEW p, NEW sc, Ready(us, p, sc), p + 1 <= Len(us)
    PROVE  /\ Walk(us)[p + 1] = StepOver(us, Within(sc), p + 1)
           /\ p \in Nat /\ Len(us) \in Nat
<1>1. Len(us) \in Nat /\ p \in Nat /\ p + 1 \in 1 .. Len(us) /\ (p + 1) - 1 = p
  BY DEF Ready
<1>2. Walk(us)[p + 1] = StepOver(us, Walk(us)[(p + 1) - 1], p + 1)
  BY <1>1, WalkSteps
<1> QED BY <1>1, <1>2 DEF Ready

LEMMA ReadyOver ==
    ASSUME NEW us, NEW p, NEW sc, Ready(us, p, sc), NEW q \in p .. Len(us),
           \A i \in p + 1 .. q : us[i] \notin Marks,
           \A i \in p + 1 .. q : us[i] \in ScopeWords => us[q] = Semicolon,
           Semicolon \notin ScopeWords
    PROVE  Ready(us, q, sc)
<1>1. Len(us) \in Nat /\ p \in Nat /\ p <= Len(us) /\ q \in Nat /\ p <= q /\ q <= Len(us)
  BY DEF Ready
<1>2. Walk(us)[q] = Walk(us)[p]
  <2>1. \A i \in p + 1 .. q : us[i] \notin {Opening, Closing} \union Labels
    BY DEF Marks
  <2>2. p \in 0 .. Len(us)
    BY <1>1
  <2> QED BY <1>1, <2>1, <2>2, PlainRun
<1>3. ASSUME NEW i \in q + 1 .. Len(us) + 1, NEW j \in 1 .. q, us[j] \in ScopeWords PROVE Settled(us, j, i)
  <2>1. CASE j <= p
    <3>1. i \in p + 1 .. Len(us) + 1 /\ j \in 1 .. p
      BY <1>1, <2>1
    <3>2. NoneWaits(us, p, i)
      BY <3>1 DEF Ready
    <3> QED BY <1>3, <3>1, <3>2 DEF NoneWaits
  <2>2. CASE ~(j <= p)
    <3>1. j \in p + 1 .. q
      BY <1>1, <2>2
    <3>2. us[q] = Semicolon /\ j # q
      BY <1>3, <3>1
    <3>3. q \in j + 1 .. i - 1
      BY <1>1, <3>1, <3>2
    <3> QED BY <3>2, <3>3 DEF Settled
  <2> QED BY <2>1, <2>2
<1>4. \A i \in q + 1 .. Len(us) + 1 : NoneWaits(us, q, i)
  BY <1>3 DEF NoneWaits
<1> QED BY <1>1, <1>2, <1>4 DEF Ready

(* A brace that opens settles every keyword before it.                     *)
LEMMA ReadyFrom ==
    ASSUME NEW us, NEW p, NEW sc, Ready(us, p, sc), NEW o \in p + 1 .. Len(us), us[o] = Opening,
           NEW q \in o .. Len(us), \A i \in o .. q : us[i] \notin ScopeWords,
           NEW t \in Seq(ScopeType), Walk(us)[q] = Within(t)
    PROVE  Ready(us, q, t)
<1>1. Len(us) \in Nat /\ p \in Nat /\ o \in Nat /\ q \in Nat /\ p < o /\ o <= q /\ q <= Len(us)
  BY DEF Ready
<1>2. ASSUME NEW i \in q + 1 .. Len(us) + 1, NEW j \in 1 .. q, us[j] \in ScopeWords PROVE Settled(us, j, i)
  <2>1. j \notin o .. q
    BY <1>2
  <2>2. o \in j + 1 .. i - 1
    BY <1>1, <2>1
  <2> QED BY <2>2 DEF Settled
<1>3. \A i \in q + 1 .. Len(us) + 1 : NoneWaits(us, q, i)
  BY <1>2 DEF NoneWaits
<1> QED BY <1>1, <1>3 DEF Ready

LEMMA ScopeFacts ==
    /\ Opening \notin ScopeWords /\ Closing \notin ScopeWords /\ Semicolon \notin ScopeWords
    /\ Semicolon \notin Marks /\ Labels \intersect ScopeWords = {}
    /\ Opening \notin Labels /\ Closing \notin Labels /\ Opening # Closing
<1>1. /\ Opening # Closing /\ Opening # Semicolon /\ Closing # Semicolon
      /\ \A w \in Labels \union Keywords : w # Opening /\ w # Closing /\ w # Semicolon
  BY TokensDiffer
<1>2. ScopeWords \subseteq Keywords
  BY DEF ScopeWords, Keywords
<1>3. Labels \intersect ScopeWords = {}
  BY DEF Labels, ScopeWords, TypeKeywords
<1> QED BY <1>1, <1>2, <1>3 DEF Marks

(* A body or an initialiser between braces is no scope.                    *)
LEMMA BlockSkipped ==
    ASSUME NEW us, NEW p, NEW sc, Ready(us, p, sc), NEW q \in p + 2 .. Len(us),
           us[p + 1] = Opening, us[q] = Closing,
           \A i \in p + 2 .. q - 1 : us[i] \notin Marks /\ us[i] \notin ScopeWords
    PROVE  Ready(us, q, sc)
<1>1. Len(us) \in Nat /\ p \in Nat /\ q \in Nat /\ p + 2 <= q /\ q <= Len(us) /\ sc \in Seq(ScopeType)
  BY DEF Ready
<1>2. Opener(us, p + 1) = <<>>
  <2>1. p + 1 \in p + 1 .. Len(us) + 1 /\ p + 1 \in Nat /\ (p + 1) - 2 = p - 1 /\ \A j \in 1 .. p - 1 : j \in 1 .. p
    BY <1>1
  <2>2. NoneWaits(us, p, p + 1)
    BY <2>1 DEF Ready
  <2>3. NoneWaits(us, (p + 1) - 2, p + 1)
    BY <2>1, <2>2 DEF NoneWaits
  <2> QED BY <2>1, <2>3, OpensNoScope
<1>3. Walk(us)[p + 1] = [depth |-> Len(sc) + 1, stack |-> StackOf(sc)]
  <2>1. Walk(us)[p + 1] = StepOver(us, Within(sc), p + 1)
    BY <1>1, StepIs
  <2> QED BY <1>2, <2>1, ScopeFacts DEF StepOver, Within
<1>4. Walk(us)[q - 1] = Walk(us)[p + 1]
  <2>1. p + 1 \in 0 .. Len(us) /\ q - 1 \in p + 1 .. Len(us) /\ (p + 1) + 1 = p + 2
    BY <1>1
  <2>2. \A i \in (p + 1) + 1 .. q - 1 : us[i] \notin {Opening, Closing} \union Labels
    BY <2>1 DEF Marks
  <2> QED BY <1>1, <2>1, <2>2, PlainRun
<1>5. Walk(us)[q] = Within(sc)
  <2>1. Walk(us)[q] = StepOver(us, Walk(us)[q - 1], q)
    <3>1. q \in 1 .. Len(us)
      BY <1>1
    <3> QED BY <1>1, <3>1, WalkSteps
  <2>2. Popped(StackOf(sc), Len(sc) + 1) = StackOf(sc)
    BY <1>1, PopsNothing
  <2>3. (Len(sc) + 1) - 1 = Len(sc)
    BY <1>1
  <2> QED BY <1>3, <1>4, <2>1, <2>2, <2>3, ScopeFacts DEF StepOver, Within
<1>6. \A i \in p + 1 .. q : us[i] \notin ScopeWords
  <2>1. \A i \in p + 1 .. q : i = p + 1 \/ i = q \/ i \in p + 2 .. q - 1
    BY <1>1
  <2> QED BY <2>1, ScopeFacts
<1>7. p + 1 \in p + 1 .. Len(us) /\ q \in p + 1 .. Len(us)
  BY <1>1
<1> QED BY <1>1, <1>5, <1>6, <1>7, ReadyFrom

LEMMA HeadOpens ==
    ASSUME NEW us, NEW p, NEW sc, Ready(us, p, sc), p + 3 <= Len(us),
           us[p + 1] \in ScopeWords, us[p + 2] \notin ScopeWords, IsWord(us[p + 2]), us[p + 3] = Opening
    PROVE  Walk(us)[p + 3] =
              [depth |-> Len(sc) + 1,
               stack |-> Append(StackOf(sc),
                            [depth |-> Len(sc) + 1, keyword |-> us[p + 1], name |-> us[p + 2],
                             access |-> DefaultAccess(us[p + 1])])]
<1>1. Len(us) \in Nat /\ p \in Nat /\ p <= Len(us) /\ sc \in Seq(ScopeType)
  BY DEF Ready
<1>2. us[p + 2] \notin Marks /\ us[p + 2] \notin {Semicolon, Opening} /\ us[p + 1] \notin Marks
  <2>1. \A w : IsWord(w) => w \notin {Opening, Closing, Semicolon} /\ w \notin Labels
    BY DEF IsWord, Punctuation
  <2>2. us[p + 1] \notin Labels /\ us[p + 1] # Opening /\ us[p + 1] # Closing
    BY ScopeFacts
  <2> QED BY <2>1, <2>2 DEF Marks
<1>3. Opener(us, p + 3) = <<us[p + 1], us[p + 2]>>
  <2>1. /\ p + 3 \in Nat /\ p + 1 \in 1 .. (p + 3) - 2 /\ (p + 1) + 1 = p + 2 /\ (p + 1) - 1 = p
        /\ \A k \in (p + 1) + 1 .. (p + 3) - 1 : k = p + 2
        /\ p + 3 \in p + 1 .. Len(us) + 1
    BY <1>1
  <2>2. NoneWaits(us, p, p + 3)
    BY <2>1 DEF Ready
  <2>3. \A k \in (p + 1) + 1 .. (p + 3) - 1 : us[k] \notin {Semicolon, Opening}
    BY <1>2, <2>1
  <2>4. NoneWaits(us, (p + 1) - 1, p + 3) /\ IsWord(us[(p + 1) + 1])
    BY <2>1, <2>2
  <2>5. Opener(us, p + 3) = <<us[p + 1], us[(p + 1) + 1]>>
    BY <2>1, <2>3, <2>4, OpensScope, ScopeFacts
  <2> QED BY <2>1, <2>5
<1>4. Walk(us)[p + 2] = Within(sc)
  <2>1. /\ p \in 0 .. Len(us) /\ p + 2 \in p .. Len(us)
        /\ \A i \in p + 1 .. p + 2 : i = p + 1 \/ i = p + 2
    BY <1>1
  <2>2. \A i \in p + 1 .. p + 2 : us[i] \notin {Opening, Closing} \union Labels
    BY <1>2, <2>1 DEF Marks
  <2>3. Walk(us)[p + 2] = Walk(us)[p]
    BY <1>1, <2>1, <2>2, PlainRun
  <2> QED BY <2>3 DEF Ready
<1>5. Walk(us)[p + 3] = StepOver(us, Walk(us)[p + 2], p + 3)
  <2>1. p + 3 \in 1 .. Len(us) /\ (p + 3) - 1 = p + 2
    BY <1>1
  <2> QED BY <1>1, <2>1, WalkSteps
<1>6. Opener(us, p + 3) # <<>> /\ Opener(us, p + 3)[1] = us[p + 1] /\ Opener(us, p + 3)[2] = us[p + 2]
  BY <1>3
<1>7. PICK w : w = Within(sc)
  OBVIOUS
<1>8. StepOver(us, w, p + 3) =
          [depth |-> w.depth + 1,
           stack |-> Append(w.stack, [depth |-> w.depth + 1, keyword |-> us[p + 1], name |-> us[p + 2],
                                      access |-> DefaultAccess(us[p + 1])])]
  <2>1. PICK o : o = Opener(us, p + 3)
    OBVIOUS
  <2>2. StepOver(us, w, p + 3) =
            [depth |-> w.depth + 1,
             stack |-> IF o = <<>> THEN w.stack
                       ELSE Append(w.stack, [depth |-> w.depth + 1, keyword |-> o[1], name |-> o[2],
                                             access |-> DefaultAccess(o[1])])]
    BY <2>1, ScopeFacts DEF StepOver
  <2> QED BY <1>6, <2>1, <2>2
<1>9. w.depth = Len(sc) /\ w.stack = StackOf(sc)
  BY <1>7 DEF Within
<1> QED BY <1>4, <1>5, <1>7, <1>8, <1>9

LEMMA ScopeOpened ==
    ASSUME NEW us, NEW p, NEW sc, Ready(us, p, sc), p + 3 <= Len(us),
           us[p + 1] \in ScopeWords, us[p + 2] \notin ScopeWords, IsWord(us[p + 2]), us[p + 3] = Opening,
           NEW r \in ScopeType, r.keyword = us[p + 1], r.name = us[p + 2], r.access = DefaultAccess(us[p + 1])
    PROVE  Ready(us, p + 3, Append(sc, r))
<1>1. Len(us) \in Nat /\ p \in Nat /\ p <= Len(us) /\ sc \in Seq(ScopeType)
  BY DEF Ready
<1>2. PICK t : t = Append(sc, r)
  OBVIOUS
<1>3. PICK n : n = Len(sc)
  OBVIOUS
<1>4. t \in Seq(ScopeType) /\ Len(t) = n + 1 /\ t[n + 1] = r /\ n \in Nat /\ \A i \in 1 .. n : t[i] = sc[i]
  BY <1>1, <1>2, <1>3, AppendProperties
<1>5. PICK e : e = [depth |-> n + 1, keyword |-> us[p + 1], name |-> us[p + 2], access |-> DefaultAccess(us[p + 1])]
  OBVIOUS
<1>6. e \in StackType /\ e = [depth |-> n + 1, keyword |-> r.keyword, name |-> r.name, access |-> r.access]
  BY <1>4, <1>5 DEF StackType, ScopeType
<1>7. PICK old, new : old = StackOf(sc) /\ new = StackOf(t)
  OBVIOUS
<1>8. /\ old \in Seq(StackType) /\ Len(old) = n
      /\ \A i \in 1 .. n : old[i] = [depth |-> i, keyword |-> sc[i].keyword, name |-> sc[i].name, access |-> sc[i].access]
  BY <1>1, <1>3, <1>7, StackFacts
<1>9. /\ new \in Seq(StackType) /\ Len(new) = n + 1
      /\ \A i \in 1 .. n + 1 : new[i] = [depth |-> i, keyword |-> t[i].keyword, name |-> t[i].name, access |-> t[i].access]
  BY <1>4, <1>7, StackFacts
<1>10. PICK v : v = Append(old, e)
  OBVIOUS
<1>11. v \in Seq(StackType) /\ Len(v) = n + 1 /\ v[n + 1] = e /\ \A i \in 1 .. n : v[i] = old[i]
  BY <1>6, <1>8, <1>10, AppendProperties
<1>12. ASSUME NEW i \in 1 .. Len(v) PROVE v[i] = new[i]
  <2>1. i \in 1 .. n + 1 /\ (i = n + 1 \/ i \in 1 .. n)
    BY <1>4, <1>11
  <2>2. CASE i = n + 1
    BY <1>4, <1>6, <1>9, <1>11, <2>1, <2>2
  <2>3. CASE i \in 1 .. n
    <3>1. v[i] = old[i] /\ t[i] = sc[i]
      BY <1>4, <1>11, <2>3
    <3>2. old[i] = [depth |-> i, keyword |-> sc[i].keyword, name |-> sc[i].name, access |-> sc[i].access]
      BY <1>8, <2>3
    <3>3. new[i] = [depth |-> i, keyword |-> t[i].keyword, name |-> t[i].name, access |-> t[i].access]
      BY <1>9, <2>1
    <3> QED BY <3>1, <3>2, <3>3
  <2> QED BY <2>1, <2>2, <2>3
<1>13. v = new
  BY <1>9, <1>11, <1>12, SeqEqual
<1>14. Walk(us)[p + 3] = Within(t)
  <2>1. Walk(us)[p + 3] = [depth |-> n + 1, stack |-> v]
    BY <1>3, <1>5, <1>7, <1>10, HeadOpens
  <2> QED BY <1>4, <1>7, <1>13, <2>1 DEF Within
<1>15. /\ p + 3 \in p + 1 .. Len(us) /\ p + 3 \in p + 3 .. Len(us) /\ \A i \in p + 3 .. p + 3 : i = p + 3
  BY <1>1
<1>16. \A i \in p + 3 .. p + 3 : us[i] \notin ScopeWords
  BY <1>15, ScopeFacts
<1>17. Ready(us, p + 3, t)
  BY <1>4, <1>14, <1>15, <1>16, ReadyFrom
<1> QED BY <1>2, <1>17

(* The keyword behind "enum" opens a scope, and its brace closes it.       *)
LEMMA EnumSkipped ==
    ASSUME NEW us, NEW p, NEW sc, Ready(us, p, sc), p + 5 <= Len(us),
           us[p + 1] \in ScopeWords, us[p + 2] \notin ScopeWords, IsWord(us[p + 2]), us[p + 3] = Opening,
           us[p + 4] \notin Marks, us[p + 4] \notin ScopeWords, us[p + 5] = Closing
    PROVE  Ready(us, p + 5, sc)
<1>1. Len(us) \in Nat /\ p \in Nat /\ p <= Len(us) /\ sc \in Seq(ScopeType)
  BY DEF Ready
<1>2. PICK r : r = [depth |-> Len(sc) + 1, keyword |-> us[p + 1], name |-> us[p + 2], access |-> DefaultAccess(us[p + 1])]
  OBVIOUS
<1>3. Walk(us)[p + 3] = [depth |-> Len(sc) + 1, stack |-> Append(StackOf(sc), r)]
  <2>1. p + 3 <= Len(us)
    BY <1>1
  <2> QED BY <1>2, <2>1, HeadOpens
<1>4. Walk(us)[p + 4] = Walk(us)[p + 3]
  <2>1. p + 3 \in 0 .. Len(us) /\ p + 4 \in p + 3 .. Len(us) /\ \A i \in (p + 3) + 1 .. p + 4 : i = p + 4
    BY <1>1
  <2>2. \A i \in (p + 3) + 1 .. p + 4 : us[i] \notin {Opening, Closing} \union Labels
    BY <2>1 DEF Marks
  <2> QED BY <1>1, <2>1, <2>2, PlainRun
<1>5. Walk(us)[p + 5] = Within(sc)
  <2>1. Walk(us)[p + 5] = StepOver(us, Walk(us)[p + 4], p + 5)
    <3>1. p + 5 \in 1 .. Len(us) /\ (p + 5) - 1 = p + 4
      BY <1>1
    <3> QED BY <1>1, <3>1, WalkSteps
  <2>2. Popped(Append(StackOf(sc), r), Len(sc) + 1) = StackOf(sc)
    BY <1>1, <1>2, PopsOpened
  <2>3. (Len(sc) + 1) - 1 = Len(sc)
    BY <1>1
  <2> QED BY <1>3, <1>4, <2>1, <2>2, <2>3, ScopeFacts DEF StepOver, Within
<1>6. \A i \in p + 3 .. p + 5 : us[i] \notin ScopeWords
  <2>1. \A i \in p + 3 .. p + 5 : i = p + 3 \/ i = p + 4 \/ i = p + 5
    BY <1>1
  <2> QED BY <2>1, ScopeFacts
<1>7. p + 3 \in p + 1 .. Len(us) /\ p + 5 \in p + 3 .. Len(us)
  BY <1>1
<1> QED BY <1>1, <1>5, <1>6, <1>7, ReadyFrom

LEMMA ScopeClosed ==
    ASSUME NEW us, NEW p, NEW sc, Ready(us, p, sc), sc # <<>>, p + 1 <= Len(us), us[p + 1] = Closing
    PROVE  Ready(us, p + 1, Front(sc))
<1>1. Len(us) \in Nat /\ p \in Nat /\ p <= Len(us) /\ sc \in Seq(ScopeType)
  BY DEF Ready
<1>2. /\ Popped(StackOf(sc), Len(sc)) = StackOf(Front(sc))
      /\ Front(sc) \in Seq(ScopeType) /\ Len(Front(sc)) = Len(sc) - 1
  BY <1>1, PopsLast
<1>3. Walk(us)[p + 1] = Within(Front(sc))
  <2>1. Walk(us)[p + 1] = StepOver(us, Within(sc), p + 1)
    BY StepIs
  <2> QED BY <1>2, <2>1, ScopeFacts DEF StepOver, Within
<1>4. ASSUME NEW i \in p + 2 .. Len(us) + 1, NEW j \in 1 .. p + 1, us[j] \in ScopeWords PROVE Settled(us, j, i)
  <2>1. j # p + 1
    BY <1>4, ScopeFacts
  <2>2. j \in 1 .. p /\ i \in p + 1 .. Len(us) + 1
    BY <1>1, <2>1
  <2>3. NoneWaits(us, p, i)
    BY <2>2 DEF Ready
  <2> QED BY <1>4, <2>2, <2>3 DEF NoneWaits
<1>5. (p + 1) + 1 = p + 2 /\ p + 1 \in 0 .. Len(us)
  BY <1>1
<1>6. \A i \in (p + 1) + 1 .. Len(us) + 1 : NoneWaits(us, p + 1, i)
  BY <1>4, <1>5 DEF NoneWaits
<1> QED BY <1>2, <1>3, <1>5, <1>6 DEF Ready

LEMMA ReadyBehind ==
    ASSUME NEW ts, NEW us, GoesOn(ts, us), NEW sc, Ready(ts, Len(ts), sc)
    PROVE  Ready(us, Len(ts), sc)
<1>1. Len(ts) \in Nat /\ Len(us) \in Nat /\ Len(ts) <= Len(us) /\ us \in Seq(Words)
  BY DEF GoesOn
<1>2. Walk(us)[Len(ts)] = Walk(ts)[Len(ts)]
  <2>1. Len(ts) \in 0 .. Len(ts)
    BY <1>1
  <2> QED BY <2>1, SameWalk
<1>3. NoneWaits(ts, Len(ts), Len(ts) + 1)
  <2>1. Len(ts) + 1 \in Len(ts) + 1 .. Len(ts) + 1
    BY <1>1
  <2> QED BY <2>1 DEF Ready
<1>4. ASSUME NEW i \in Len(ts) + 1 .. Len(us) + 1 PROVE NoneWaits(us, Len(ts), i)
  <2>1. i \in Nat /\ i > Len(ts)
    BY <1>1
  <2> QED BY <1>3, <2>1, StillSettled
<1>5. Len(ts) \in 0 .. Len(us)
  BY <1>1
<1> QED BY <1>1, <1>2, <1>4, <1>5 DEF Ready

LEMMA ScopeLabelled ==
    ASSUME NEW us, NEW p, NEW sc, Ready(us, p, sc), sc # <<>>, p + 1 <= Len(us), us[p + 1] \in Labels
    PROVE  Ready(us, p + 1, [sc EXCEPT ![Len(sc)].access = AccessOf(us[p + 1])])
<1>0. Len(us) \in Nat /\ p \in Nat /\ p <= Len(us) /\ sc \in Seq(ScopeType) /\ Len(sc) \in Nat \ {0}
  BY DEF Ready
<1>1. PICK n : n = Len(sc)
  OBVIOUS
<1>2. PICK acc : acc = AccessOf(us[p + 1])
  OBVIOUS
<1>3. PICK t : t = [sc EXCEPT ![n].access = acc]
  OBVIOUS
<1>4. n \in Nat \ {0} /\ n \in 1 .. n /\ sc \in [1 .. n -> ScopeType] /\ acc \in {"public", "private"}
  BY <1>0, <1>1, <1>2 DEF AccessOf
<1>5. /\ t[n] = [sc[n] EXCEPT !.access = acc] /\ \A i \in 1 .. n : i # n => t[i] = sc[i]
      /\ DOMAIN t = 1 .. n
  BY <1>3, <1>4
<1>6. t[n] \in ScopeType /\ t[n].access = acc /\ t[n].keyword = sc[n].keyword /\ t[n].name = sc[n].name
  <2>1. sc[n] \in ScopeType
    BY <1>4
  <2> QED BY <1>4, <1>5, <2>1 DEF ScopeType
<1>7. t \in Seq(ScopeType) /\ Len(t) = n
  <2>1. t \in [1 .. n -> ScopeType]
    <3>1. \A i \in 1 .. n : t[i] \in ScopeType
      BY <1>4, <1>5, <1>6
    <3>2. t = [i \in 1 .. n |-> t[i]]
      BY <1>3, <1>4
    <3> QED BY <3>1, <3>2
  <2> QED BY <1>4, <2>1
<1>8. PICK old, new : old = StackOf(sc) /\ new = StackOf(t)
  OBVIOUS
<1>9. /\ old \in Seq(StackType) /\ Len(old) = n
      /\ \A i \in 1 .. n : /\ old[i] = [depth |-> i, keyword |-> sc[i].keyword, name |-> sc[i].name, access |-> sc[i].access]
                           /\ old[i].depth = i
  BY <1>0, <1>1, <1>8, StackFacts
<1>10. /\ new \in Seq(StackType) /\ Len(new) = n
       /\ \A i \in 1 .. n : new[i] = [depth |-> i, keyword |-> t[i].keyword, name |-> t[i].name, access |-> t[i].access]
  BY <1>7, <1>8, StackFacts
<1>11. PICK v : v = [old EXCEPT ![n].access = acc]
  OBVIOUS
<1>12. v = new
  <2>1. old \in [1 .. n -> StackType]
    BY <1>4, <1>9
  <2>2. /\ v[n] = [old[n] EXCEPT !.access = acc] /\ \A i \in 1 .. n : i # n => v[i] = old[i]
        /\ v = [i \in 1 .. n |-> v[i]]
    BY <1>4, <1>11, <2>1
  <2>3. new = [i \in 1 .. n |-> new[i]]
    <3>1. new \in [1 .. n -> StackType]
      BY <1>4, <1>10
    <3> QED BY <3>1
  <2>4. ASSUME NEW i \in 1 .. n PROVE v[i] = new[i]
    <3>1. new[i] = [depth |-> i, keyword |-> t[i].keyword, name |-> t[i].name, access |-> t[i].access]
      BY <1>10
    <3>2. old[i] = [depth |-> i, keyword |-> sc[i].keyword, name |-> sc[i].name, access |-> sc[i].access]
      BY <1>9
    <3>3. CASE i = n
      <4>1. v[i] = [depth |-> i, keyword |-> sc[i].keyword, name |-> sc[i].name, access |-> acc]
        BY <2>2, <3>2, <3>3
      <4> QED BY <1>6, <3>1, <3>3, <4>1
    <3>4. CASE i # n
      <4>1. v[i] = old[i] /\ t[i] = sc[i]
        BY <1>5, <2>2, <3>4
      <4> QED BY <3>1, <3>2, <4>1
    <3> QED BY <3>3, <3>4
  <2> QED BY <2>2, <2>3, <2>4
<1>13. Walk(us)[p + 1] = Within(t)
  <2>1. Walk(us)[p + 1] = StepOver(us, Within(sc), p + 1)
    BY StepIs
  <2>2. StepOver(us, Within(sc), p + 1) = Labelled(Within(sc), us[p + 1])
    BY ScopeFacts DEF StepOver
  <2>3. PICK w : w = Within(sc)
    OBVIOUS
  <2>4. w = [depth |-> n, stack |-> old]
    BY <1>1, <1>8, <2>3 DEF Within
  <2>5. w.stack # <<>> /\ Last(w.stack).depth = w.depth /\ Len(w.stack) = n
    <3>1. old # <<>> /\ Last(old) = old[n]
      BY <1>4, <1>9 DEF Last
    <3> QED BY <1>4, <1>9, <2>4, <3>1
  <2>6. Labelled(w, us[p + 1]) = [w EXCEPT !.stack[n].access = acc]
    BY <1>2, <2>5 DEF Labelled
  <2>7. [w EXCEPT !.stack[n].access = acc] = [depth |-> n, stack |-> v]
    BY <1>11, <2>4
  <2> QED BY <1>7, <1>8, <1>12, <2>1, <2>2, <2>3, <2>6, <2>7 DEF Within
<1>14. ASSUME NEW i \in p + 2 .. Len(us) + 1, NEW j \in 1 .. p + 1, us[j] \in ScopeWords PROVE Settled(us, j, i)
  <2>1. j # p + 1
    BY <1>14, ScopeFacts
  <2>2. j \in 1 .. p /\ i \in p + 1 .. Len(us) + 1
    BY <1>0, <2>1
  <2>3. NoneWaits(us, p, i)
    BY <2>2 DEF Ready
  <2> QED BY <1>14, <2>2, <2>3 DEF NoneWaits
<1>15. (p + 1) + 1 = p + 2 /\ p + 1 \in 0 .. Len(us)
  BY <1>0
<1>16. \A i \in (p + 1) + 1 .. Len(us) + 1 : NoneWaits(us, p + 1, i)
  BY <1>14, <1>15 DEF NoneWaits
<1>17. Ready(us, p + 1, t)
  BY <1>7, <1>13, <1>15, <1>16 DEF Ready
<1> QED BY <1>1, <1>2, <1>3, <1>17

(* Whether a function's body stands before is nothing the reader sees.     *)
LEMMA BodyUnseen ==
    ASSUME NEW sc \in Seq(ScopeType), NEW b \in BOOLEAN
    PROVE  /\ AfterBody(sc, b) \in Seq(ScopeType) /\ Within(AfterBody(sc, b)) = Within(sc)
           /\ Len(AfterBody(sc, b)) = Len(sc)
           /\ \A i \in 1 .. Len(sc) : AfterBody(sc, b)[i].keyword = sc[i].keyword
<1>1. CASE sc = <<>>
  <2>1. AfterBody(sc, b) = sc
    BY <1>1 DEF AfterBody
  <2> QED BY <2>1
<1>2. CASE sc # <<>>
  <2>1. PICK n : n = Len(sc)
    OBVIOUS
  <2>2. n \in Nat \ {0} /\ n \in 1 .. n /\ sc \in [1 .. n -> ScopeType]
    BY <1>2, <2>1
  <2>3. PICK t : t = AfterBody(sc, b)
    OBVIOUS
  <2>4. t = [sc EXCEPT ![n].afterBody = b]
    BY <1>2, <2>1, <2>3 DEF AfterBody
  <2>5. /\ t[n] = [sc[n] EXCEPT !.afterBody = b] /\ \A i \in 1 .. n : i # n => t[i] = sc[i]
        /\ t = [i \in 1 .. n |-> t[i]]
    BY <2>2, <2>4
  <2>6. /\ t[n] \in ScopeType /\ t[n].access = sc[n].access /\ t[n].keyword = sc[n].keyword
        /\ t[n].name = sc[n].name
    <3>1. sc[n] \in ScopeType
      BY <2>2
    <3> QED BY <2>5, <3>1 DEF ScopeType
  <2>7. \A i \in 1 .. n : /\ t[i] \in ScopeType /\ t[i].access = sc[i].access /\ t[i].keyword = sc[i].keyword
                          /\ t[i].name = sc[i].name
    BY <2>2, <2>5, <2>6
  <2>8. t \in Seq(ScopeType) /\ Len(t) = n
    <3>1. t \in [1 .. n -> ScopeType]
      BY <2>5, <2>7
    <3> QED BY <2>2, <3>1
  <2>9. StackOf(t) = StackOf(sc)
    BY <2>1, <2>7, <2>8 DEF StackOf
  <2> QED BY <2>1, <2>3, <2>7, <2>8, <2>9 DEF Within
<1> QED BY <1>1, <1>2

-----------------------------------------------------------------------------
(* What a declaration is read as.                                          *)
LEMMA NoParens ==
    ASSUME NEW us, Len(us) \in Nat, NEW from \in 1 .. Len(us), NEW e \in from .. Len(us),
           \A i \in from .. e - 1 : us[i] # "(" /\ us[i] # ")"
    PROVE  \A i \in from .. e : ParenDepth(us, from)[i] = 0
<1> DEFINE S == {n \in Nat : from + n <= e => ParenDepth(us, from)[from + n] = 0}
<1>0. from \in Nat /\ e \in Nat /\ e <= Len(us) /\ from <= Len(us)
  OBVIOUS
<1>1. 0 \in S
  <2>1. from + 0 = from
    BY <1>0
  <2> QED BY <1>0, <2>1, DepthSteps
<1>2. ASSUME NEW n \in S PROVE n + 1 \in S
  <2> SUFFICES ASSUME from + (n + 1) <= e PROVE ParenDepth(us, from)[from + (n + 1)] = 0
    OBVIOUS
  <2>1. PICK i : i = from + (n + 1)
    OBVIOUS
  <2>2. i \in from + 1 .. Len(us) /\ i - 1 = from + n /\ from + n <= e /\ i - 1 \in from .. e - 1
    BY <1>0, <2>1
  <2>3. ParenDepth(us, from)[i] = WithParen(ParenDepth(us, from)[i - 1], us[i - 1])
    BY <1>0, <2>2, DepthSteps
  <2>4. us[i - 1] # "(" /\ us[i - 1] # ")" /\ ParenDepth(us, from)[i - 1] = 0
    BY <2>2
  <2> QED BY <2>1, <2>3, <2>4 DEF WithParen
<1>3. S = Nat
  <2> HIDE DEF S
  <2>1. S \in SUBSET Nat
    BY DEF S
  <2> QED BY <1>1, <1>2, <2>1, Induction
<1>4. ASSUME NEW i \in from .. e PROVE ParenDepth(us, from)[i] = 0
  <2>1. i - from \in Nat /\ from + (i - from) = i /\ i <= e
    BY <1>0
  <2>2. i - from \in S
    BY <1>3, <2>1
  <2> QED BY <2>1, <2>2
<1> QED BY <1>4

EndsAt(us, from, e) ==
    EndsDeclaration(us, from, e) /\ \A i \in from .. e - 1 : ~EndsDeclaration(us, from, i)

LEMMA EndsFirst ==
    ASSUME NEW us, Len(us) \in Nat, NEW from \in 1 .. Len(us), NEW e \in from .. Len(us),
           us[e] \in {Opening, Semicolon},
           \A i \in from .. e - 1 : /\ us[i] # "(" /\ us[i] # ")" /\ us[i] \notin {Opening, Semicolon}
                                    /\ (us[i] = "=" => us[from] = "using")
    PROVE  EndsAt(us, from, e)
<1>1. \A i \in from .. e : ParenDepth(us, from)[i] = 0
  BY NoParens
<1>2. ParenDepth(us, from)[e] = 0
  BY <1>1
<1> QED BY <1>2 DEF EndsAt, EndsDeclaration

LEMMA IsDeclared ==
    ASSUME NEW us \in Seq(Words), NEW p \in Nat, NEW s \in Seq(Words),
           p + Len(s) + 1 <= Len(us), \A i \in 1 .. Len(s) : us[p + i] = s[i],
           EndsAt(us, p + 1, p + Len(s) + 1)
    PROVE  DeclarationAfter(us, p) = s /\ HasEnd(us, p)
<1>1. PICK n : n = Len(s)
  OBVIOUS
<1>2. PICK e : e = p + n + 1
  OBVIOUS
<1>3. n \in Nat /\ Len(us) \in Nat /\ e \in p + 1 .. Len(us) /\ e - 1 = p + n /\ p + 1 \in Int /\ e - 1 \in Int
  BY <1>1, <1>2
<1>4. EndsDeclaration(us, p + 1, e) /\ \A i \in p + 1 .. e - 1 : ~EndsDeclaration(us, p + 1, i)
  BY <1>1, <1>2 DEF EndsAt
<1>5. DeclarationAfter(us, p) = SubSeq(us, p + 1, e - 1)
  BY <1>3, <1>4, DeclarationIs
<1>6. PICK v : v = SubSeq(us, p + 1, e - 1)
  OBVIOUS
<1>7. \A i \in p + 1 .. e - 1 : us[i] \in Words
  BY <1>3
<1>8. /\ v \in Seq(Words) /\ Len(v) = IF p + 1 <= e - 1 THEN (e - 1) - (p + 1) + 1 ELSE 0
      /\ \A i \in 1 .. (e - 1) - (p + 1) + 1 : v[i] = us[(p + 1) + i - 1]
  BY <1>3, <1>6, <1>7, SubSeqProperties
<1>9. (e - 1) - (p + 1) + 1 = n /\ Len(v) = n /\ \A i \in 1 .. n : (p + 1) + i - 1 = p + i
  BY <1>3, <1>8
<1>10. \A i \in 1 .. Len(v) : v[i] = s[i]
  BY <1>1, <1>8, <1>9
<1>11. v = s
  BY <1>1, <1>8, <1>9, <1>10, SeqEqual
<1>12. HasEnd(us, p)
  BY <1>3, <1>4 DEF HasEnd
<1> QED BY <1>5, <1>6, <1>11, <1>12

-----------------------------------------------------------------------------
(* Each declaration the writer adds is read to its end.                    *)

(* A file goes on with one more declaration: behind its comment, if it has *)
(* one, stand its tokens.                                                  *)
Behind(ts, d) == Len(ts) + (IF d THEN 1 ELSE 0)

Adds(us, ts, d, c) == us = ts \o (IF d THEN <<"doc">> ELSE <<>>) \o c

LEMMA WrittenAs ==
    ASSUME NEW ts \in Seq(Words), NEW c \in Seq(Words), NEW d \in BOOLEAN, NEW us, Adds(us, ts, d, c)
    PROVE  /\ GoesOn(ts, us) /\ us \in Seq(Words)
           /\ Behind(ts, d) \in Nat /\ Len(us) = Behind(ts, d) + Len(c)
           /\ d => us[Len(ts) + 1] = "doc"
           /\ \A i \in 1 .. Len(c) : us[Behind(ts, d) + i] = c[i]
<1>1. PICK x : x = IF d THEN <<"doc">> ELSE <<>>
  OBVIOUS
<1>2. PICK q : q = IF d THEN 1 ELSE 0
  OBVIOUS
<1>3. PICK n, k : n = Len(ts) /\ k = Len(c)
  OBVIOUS
<1>4. x \in Seq(Words) /\ Len(x) = q /\ (d => x[1] = "doc") /\ q \in {0, 1} /\ (d => q = 1)
  <2>1. "doc" \in Words
    BY DEF Words, Keywords
  <2> QED BY <1>1, <1>2, <2>1
<1>5. PICK y : y = ts \o x
  OBVIOUS
<1>6. n \in Nat /\ k \in Nat
  BY <1>3
<1>7. /\ y \in Seq(Words) /\ Len(y) = n + q
      /\ \A i \in 1 .. n + q : y[i] = IF i <= n THEN ts[i] ELSE x[i - n]
  BY <1>3, <1>4, <1>5, ConcatProperties
<1>8. us = y \o c
  BY <1>1, <1>5 DEF Adds
<1>9. /\ us \in Seq(Words) /\ Len(us) = n + q + k
      /\ \A i \in 1 .. n + q + k : us[i] = IF i <= n + q THEN y[i] ELSE c[i - (n + q)]
  <2>1. /\ y \o c \in Seq(Words) /\ Len(y \o c) = Len(y) + Len(c)
        /\ \A i \in 1 .. Len(y) + Len(c) : (y \o c)[i] = IF i <= Len(y) THEN y[i] ELSE c[i - Len(y)]
    BY <1>7, ConcatProperties
  <2> QED BY <1>3, <1>7, <1>8, <2>1
<1>10. ASSUME NEW i \in 1 .. n PROVE us[i] = ts[i]
  <2>1. i \in 1 .. n + q /\ i \in 1 .. n + q + k /\ i <= n /\ i <= n + q
    BY <1>4, <1>6
  <2> QED BY <1>7, <1>9, <2>1
<1>11. ASSUME d PROVE us[n + 1] = "doc"
  <2>1. n + 1 \in 1 .. n + q /\ n + 1 \in 1 .. n + q + k /\ ~(n + 1 <= n) /\ n + 1 <= n + q /\ (n + 1) - n = 1
    BY <1>4, <1>6, <1>11
  <2> QED BY <1>4, <1>7, <1>9, <1>11, <2>1
<1>12. ASSUME NEW i \in 1 .. k PROVE us[n + q + i] = c[i]
  <2>1. n + q + i \in 1 .. n + q + k /\ ~(n + q + i <= n + q) /\ (n + q + i) - (n + q) = i
    BY <1>4, <1>6
  <2> QED BY <1>9, <2>1
<1>13. Behind(ts, d) = n + q
  BY <1>2, <1>3 DEF Behind
<1>14. GoesOn(ts, us)
  <2>1. Len(ts) <= Len(us)
    BY <1>3, <1>4, <1>6, <1>9
  <2> QED BY <1>3, <1>9, <1>10, <2>1 DEF GoesOn
<1>15. n + q \in Nat
  BY <1>4, <1>6
<1> QED BY <1>3, <1>9, <1>11, <1>12, <1>13, <1>14, <1>15

LEMMA DocIsPlain == "doc" \notin Marks /\ "doc" \notin ScopeWords
BY TokensDiffer DEF Marks, Labels, Keywords, ScopeWords, TypeKeywords

LEMMA BehindItsComment ==
    ASSUME NEW ts \in Seq(Words), NEW c \in Seq(Words), NEW d \in BOOLEAN, NEW us, Adds(us, ts, d, c),
           NEW sc, Ready(ts, Len(ts), sc)
    PROVE  Ready(us, Len(ts), sc) /\ Ready(us, Behind(ts, d), sc)
<1>1. /\ GoesOn(ts, us) /\ Behind(ts, d) \in Nat /\ Len(us) = Behind(ts, d) + Len(c)
      /\ d => us[Len(ts) + 1] = "doc"
  BY WrittenAs
<1>2. Ready(us, Len(ts), sc)
  BY <1>1, ReadyBehind
<1>3. CASE ~d
  <2>1. Behind(ts, d) = Len(ts)
    BY <1>3 DEF Behind
  <2> QED BY <1>2, <2>1
<1>4. CASE d
  <2>1. /\ Behind(ts, d) = Len(ts) + 1 /\ Len(ts) \in Nat /\ Len(c) \in Nat
    BY <1>4 DEF Behind
  <2>2. /\ Len(ts) + 1 \in Len(ts) .. Len(us)
        /\ \A i \in Len(ts) + 1 .. Len(ts) + 1 : i = Len(ts) + 1
    BY <1>1, <2>1
  <2>3. /\ \A i \in Len(ts) + 1 .. Len(ts) + 1 : us[i] \notin Marks
        /\ \A i \in Len(ts) + 1 .. Len(ts) + 1 : us[i] \in ScopeWords => us[Len(ts) + 1] = Semicolon
    BY <1>1, <1>4, <2>2, DocIsPlain
  <2>4. Ready(us, Len(ts) + 1, sc)
    BY <1>2, <2>2, <2>3, ReadyOver, ScopeFacts
  <2> QED BY <1>2, <2>1, <2>4
<1> QED BY <1>3, <1>4

(* Tokens that stand one behind the other from p on.                       *)
Stands(us, p, c) ==
    /\ us \in Seq(Words) /\ p \in Nat /\ c \in Seq(Words) /\ Len(us) = p + Len(c)
    /\ \A i \in 1 .. Len(c) : us[p + i] = c[i]

LEMMA PlainWords ==
    /\ \A w \in {"int", "f", "x", "c", "E", "T", "n", "(", ")", "=", "const", "using", "enum"} :
          /\ w \notin Marks /\ w \notin ScopeWords /\ w # Opening /\ w # Closing /\ w # Semicolon /\ w \in Words
    /\ \A w \in {"f", "E", "T", "n"} : IsWord(w)
    /\ \A w \in {"class", "struct", "namespace"} :
          /\ w \notin Marks /\ w \in ScopeWords /\ w # Opening /\ w # Closing /\ w # Semicolon /\ w \in Words
    /\ \A w \in {Opening, Closing, Semicolon} : w \in Words /\ w # "(" /\ w # ")" /\ w # "="
    /\ Labels \subseteq Words
<1>1. /\ Opening # Closing /\ Opening # Semicolon /\ Closing # Semicolon
      /\ \A w \in Labels \union Keywords \union {"(", ")", "=", "n", "E", "T", "f", "x", "c"} :
            w # Opening /\ w # Closing /\ w # Semicolon
  BY TokensDiffer
<1>2. \A w \in {"int", "f", "x", "c", "E", "T", "n", "(", ")", "=", "const", "using", "enum"} :
          w # Opening /\ w # Closing /\ w # Semicolon
  BY <1>1 DEF Keywords
<1>3. \A w \in {"int", "f", "x", "c", "E", "T", "n", "(", ")", "=", "const", "using", "enum"} :
          w \notin Labels /\ w \notin ScopeWords
  BY DEF Labels, ScopeWords, TypeKeywords
<1>4. \A w \in {"int", "f", "x", "c", "E", "T", "n", "(", ")", "=", "const", "using", "enum"} : w \in Words
  BY DEF Words, Keywords, Punctuation
<1>5. \A w \in {"f", "E", "T", "n"} : IsWord(w)
  <2>1. \A w \in {"f", "E", "T", "n"} : w # "(" /\ w # ")" /\ w # "=" /\ w \notin Labels
    BY DEF Labels
  <2> QED BY <1>2, <2>1 DEF IsWord, Punctuation
<1>6. \A w \in {"class", "struct", "namespace"} :
          /\ w \notin Labels /\ w \in ScopeWords /\ w # Opening /\ w # Closing /\ w # Semicolon /\ w \in Words
  BY <1>1 DEF Labels, ScopeWords, TypeKeywords, Keywords, Words
<1>7. \A w \in {Opening, Closing, Semicolon} : w \in Words /\ w # "(" /\ w # ")" /\ w # "="
  BY <1>2 DEF Words, Punctuation
<1>8. Labels \subseteq Words
  BY DEF Words
<1> QED BY <1>2, <1>3, <1>4, <1>5, <1>6, <1>7, <1>8 DEF Marks

FunctionTokens   == <<"int", "f", "(", "class", "int", ")", Semicolon>>
DefinitionTokens == <<"int", "f", "(", ")", Opening, "int", "x", Semicolon, Closing>>
EnumTokens       == <<"enum", "class", "E", Opening, "x", Closing, Semicolon>>
AliasTokens      == <<"using", "T", "=", "int", Semicolon>>
ConstantTokens   == <<"const", "int", "c", Opening, Closing, Semicolon>>
DataTokens       == <<"int", "x", Semicolon>>

LEMMA DataRead ==
    ASSUME NEW us, NEW p, NEW sc, Ready(us, p, sc), Stands(us, p, DataTokens)
    PROVE  Ready(us, Len(us), sc)
<1>1. p \in Nat /\ Len(us) = p + 3 /\ us[p + 1] = "int" /\ us[p + 2] = "x" /\ us[p + 3] = Semicolon
  BY DEF Stands, DataTokens
<1>2. /\ p + 3 \in p .. Len(us) /\ \A i \in p + 1 .. p + 3 : i = p + 1 \/ i = p + 2 \/ i = p + 3
  BY <1>1
<1>3. \A i \in p + 1 .. p + 3 : us[i] \notin Marks /\ (us[i] \in ScopeWords => us[p + 3] = Semicolon)
  BY <1>1, <1>2, PlainWords, ScopeFacts
<1> QED BY <1>1, <1>2, <1>3, ReadyOver, ScopeFacts

LEMMA ParenSteps ==
    /\ \A w : w # "(" /\ w # ")" => WithParen(0, w) = 0 /\ WithParen(1, w) = 1
    /\ WithParen(0, "(") = 1 /\ WithParen(1, ")") = 0
<1>1. "(" # ")" /\ 0 + 1 = 1 /\ 1 - 1 = 0 /\ 1 # 0
  OBVIOUS
<1> QED BY <1>1 DEF WithParen

LEMMA FunctionRead ==
    ASSUME NEW us, NEW p, NEW sc, Ready(us, p, sc), Stands(us, p, FunctionTokens)
    PROVE  /\ Ready(us, Len(us), sc) /\ HasEnd(us, p)
           /\ Classify(DeclarationAfter(us, p)) = SignatureOf("function", "f")
<1>1. /\ p \in Nat /\ us \in Seq(Words) /\ Len(us) = p + 7
      /\ us[p + 1] = "int" /\ us[p + 2] = "f" /\ us[p + 3] = "(" /\ us[p + 4] = "class" /\ us[p + 5] = "int"
      /\ us[p + 6] = ")" /\ us[p + 7] = Semicolon
  BY DEF Stands, FunctionTokens
<1>2. /\ p + 7 \in p .. Len(us)
      /\ \A i \in p + 1 .. p + 7 : \/ i = p + 1 \/ i = p + 2 \/ i = p + 3 \/ i = p + 4 \/ i = p + 5
                                   \/ i = p + 6 \/ i = p + 7
  BY <1>1
<1>3. Ready(us, Len(us), sc)
  <2>1. \A i \in p + 1 .. p + 7 : us[i] \notin Marks /\ (us[i] \in ScopeWords => us[p + 7] = Semicolon)
    BY <1>1, <1>2, PlainWords, ScopeFacts
  <2> QED BY <1>1, <1>2, <2>1, ReadyOver, ScopeFacts
<1>4. /\ ParenDepth(us, p + 1)[p + 1] = 0 /\ ParenDepth(us, p + 1)[p + 2] = 0 /\ ParenDepth(us, p + 1)[p + 3] = 0
      /\ ParenDepth(us, p + 1)[p + 4] = 1 /\ ParenDepth(us, p + 1)[p + 5] = 1 /\ ParenDepth(us, p + 1)[p + 6] = 1
      /\ ParenDepth(us, p + 1)[p + 7] = 0
  <2>1. PICK d : d = ParenDepth(us, p + 1)
    OBVIOUS
  <2>2. /\ d[p + 1] = 0
        /\ \A i \in (p + 1) + 1 .. Len(us) : d[i] = WithParen(d[i - 1], us[i - 1])
    <3>1. Len(us) \in Nat /\ p + 1 \in Nat /\ p + 1 <= Len(us)
      BY <1>1
    <3> QED BY <2>1, <3>1, DepthSteps
  <2>3. /\ p + 2 \in (p + 1) + 1 .. Len(us) /\ (p + 2) - 1 = p + 1
        /\ p + 3 \in (p + 1) + 1 .. Len(us) /\ (p + 3) - 1 = p + 2
        /\ p + 4 \in (p + 1) + 1 .. Len(us) /\ (p + 4) - 1 = p + 3
        /\ p + 5 \in (p + 1) + 1 .. Len(us) /\ (p + 5) - 1 = p + 4
        /\ p + 6 \in (p + 1) + 1 .. Len(us) /\ (p + 6) - 1 = p + 5
        /\ p + 7 \in (p + 1) + 1 .. Len(us) /\ (p + 7) - 1 = p + 6
    BY <1>1
  <2>4. /\ d[p + 2] = WithParen(d[p + 1], us[p + 1]) /\ d[p + 3] = WithParen(d[p + 2], us[p + 2])
        /\ d[p + 4] = WithParen(d[p + 3], us[p + 3]) /\ d[p + 5] = WithParen(d[p + 4], us[p + 4])
        /\ d[p + 6] = WithParen(d[p + 5], us[p + 5]) /\ d[p + 7] = WithParen(d[p + 6], us[p + 6])
    BY <2>2, <2>3
  <2>5. d[p + 2] = 0 /\ d[p + 3] = 0 /\ d[p + 4] = 1
    BY <1>1, <2>2, <2>4, ParenSteps
  <2>6. d[p + 5] = 1 /\ d[p + 6] = 1 /\ d[p + 7] = 0
    BY <1>1, <2>4, <2>5, ParenSteps
  <2> QED BY <2>1, <2>2, <2>5, <2>6
<1>5. EndsAt(us, p + 1, p + 7)
  <2>1. \A i \in p + 1 .. p + 7 - 1 : i = p + 1 \/ i = p + 2 \/ i = p + 3 \/ i = p + 4 \/ i = p + 5 \/ i = p + 6
    BY <1>1
  <2>2. \A i \in p + 1 .. p + 7 - 1 : us[i] \notin {Opening, Semicolon} /\ us[i] # "="
    BY <1>1, <2>1, PlainWords
  <2> QED BY <1>1, <1>4, <2>2 DEF EndsAt, EndsDeclaration
<1>6. PICK s : s = <<"int", "f", "(", "class", "int", ")">>
  OBVIOUS
<1>7. Len(s) = 6 /\ s \in Seq(Words) /\ \A i \in 1 .. Len(s) : us[p + i] = s[i]
  <2>1. /\ Len(s) = 6 /\ s[1] = "int" /\ s[2] = "f" /\ s[3] = "(" /\ s[4] = "class" /\ s[5] = "int" /\ s[6] = ")"
    BY <1>6
  <2>2. \A i \in 1 .. 6 : i = 1 \/ i = 2 \/ i = 3 \/ i = 4 \/ i = 5 \/ i = 6
    OBVIOUS
  <2>3. s \in Seq(Words)
    BY <1>6, PlainWords
  <2> QED BY <1>1, <2>1, <2>2, <2>3
<1>8. DeclarationAfter(us, p) = s /\ HasEnd(us, p)
  <2>1. p + Len(s) + 1 = p + 7 /\ p + 7 <= Len(us)
    BY <1>1, <1>7
  <2> QED BY <1>1, <1>5, <1>7, <2>1, IsDeclared
<1> QED BY <1>3, <1>6, <1>8, FunctionTold

(* Each other declaration is read up to its end, and leaves the scopes as  *)
(* they were.                                                              *)
LEMMA DefinitionRead ==
    ASSUME NEW us, NEW p, NEW sc, Ready(us, p, sc), Stands(us, p, DefinitionTokens)
    PROVE  /\ Ready(us, Len(us), sc) /\ HasEnd(us, p)
           /\ Classify(DeclarationAfter(us, p)) = SignatureOf("function", "f")
<1>1. /\ p \in Nat /\ us \in Seq(Words) /\ Len(us) = p + 9
      /\ us[p + 1] = "int" /\ us[p + 2] = "f" /\ us[p + 3] = "(" /\ us[p + 4] = ")" /\ us[p + 5] = Opening
      /\ us[p + 6] = "int" /\ us[p + 7] = "x" /\ us[p + 8] = Semicolon /\ us[p + 9] = Closing
  BY DEF Stands, DefinitionTokens
<1>2. Ready(us, p + 4, sc)
  <2>1. /\ p + 4 \in p .. Len(us)
        /\ \A i \in p + 1 .. p + 4 : i = p + 1 \/ i = p + 2 \/ i = p + 3 \/ i = p + 4
    BY <1>1
  <2>2. \A i \in p + 1 .. p + 4 : us[i] \notin Marks /\ (us[i] \in ScopeWords => us[p + 4] = Semicolon)
    BY <1>1, <2>1, PlainWords
  <2> QED BY <2>1, <2>2, ReadyOver, ScopeFacts
<1>3. Ready(us, p + 9, sc)
  <2>1. /\ p + 9 \in (p + 4) + 2 .. Len(us) /\ (p + 4) + 1 = p + 5
        /\ \A i \in (p + 4) + 2 .. p + 9 - 1 : i = p + 6 \/ i = p + 7 \/ i = p + 8
    BY <1>1
  <2>2. \A i \in (p + 4) + 2 .. p + 9 - 1 : us[i] \notin Marks /\ us[i] \notin ScopeWords
    BY <1>1, <2>1, PlainWords, ScopeFacts
  <2> QED BY <1>1, <1>2, <2>1, <2>2, BlockSkipped
<1>4. /\ ParenDepth(us, p + 1)[p + 1] = 0 /\ ParenDepth(us, p + 1)[p + 5] = 0
  <2>1. PICK d : d = ParenDepth(us, p + 1)
    OBVIOUS
  <2>2. /\ d[p + 1] = 0
        /\ \A i \in (p + 1) + 1 .. Len(us) : d[i] = WithParen(d[i - 1], us[i - 1])
    <3>1. Len(us) \in Nat /\ p + 1 \in Nat /\ p + 1 <= Len(us)
      BY <1>1
    <3> QED BY <2>1, <3>1, DepthSteps
  <2>3. /\ p + 2 \in (p + 1) + 1 .. Len(us) /\ (p + 2) - 1 = p + 1
        /\ p + 3 \in (p + 1) + 1 .. Len(us) /\ (p + 3) - 1 = p + 2
        /\ p + 4 \in (p + 1) + 1 .. Len(us) /\ (p + 4) - 1 = p + 3
        /\ p + 5 \in (p + 1) + 1 .. Len(us) /\ (p + 5) - 1 = p + 4
    BY <1>1
  <2>4. /\ d[p + 2] = WithParen(d[p + 1], us[p + 1]) /\ d[p + 3] = WithParen(d[p + 2], us[p + 2])
        /\ d[p + 4] = WithParen(d[p + 3], us[p + 3]) /\ d[p + 5] = WithParen(d[p + 4], us[p + 4])
    BY <2>2, <2>3
  <2>5. d[p + 2] = 0 /\ d[p + 3] = 0 /\ d[p + 4] = 1 /\ d[p + 5] = 0
    BY <1>1, <2>2, <2>4, ParenSteps
  <2> QED BY <2>1, <2>2, <2>5
<1>5. EndsAt(us, p + 1, p + 5)
  <2>1. \A i \in p + 1 .. p + 5 - 1 : i = p + 1 \/ i = p + 2 \/ i = p + 3 \/ i = p + 4
    BY <1>1
  <2>2. \A i \in p + 1 .. p + 5 - 1 : us[i] \notin {Opening, Semicolon} /\ us[i] # "="
    BY <1>1, <2>1, PlainWords
  <2> QED BY <1>1, <1>4, <2>2 DEF EndsAt, EndsDeclaration
<1>6. PICK s : s = <<"int", "f", "(", ")">>
  OBVIOUS
<1>7. Len(s) = 4 /\ s \in Seq(Words) /\ \A i \in 1 .. Len(s) : us[p + i] = s[i]
  <2>1. Len(s) = 4 /\ s[1] = "int" /\ s[2] = "f" /\ s[3] = "(" /\ s[4] = ")"
    BY <1>6
  <2>2. \A i \in 1 .. 4 : i = 1 \/ i = 2 \/ i = 3 \/ i = 4
    OBVIOUS
  <2>3. s \in Seq(Words)
    BY <1>6, PlainWords
  <2> QED BY <1>1, <2>1, <2>2, <2>3
<1>8. DeclarationAfter(us, p) = s /\ HasEnd(us, p)
  <2>1. p + Len(s) + 1 = p + 5 /\ p + 5 <= Len(us)
    BY <1>1, <1>7
  <2> QED BY <1>1, <1>5, <1>7, <2>1, IsDeclared
<1> QED BY <1>1, <1>3, <1>6, <1>8, FunctionTold

LEMMA EnumRead ==
    ASSUME NEW us, NEW p, NEW sc, Ready(us, p, sc), Stands(us, p, EnumTokens)
    PROVE  /\ Ready(us, Len(us), sc) /\ HasEnd(us, p)
           /\ Classify(DeclarationAfter(us, p)) = SignatureOf("enum", "E")
<1>1. /\ p \in Nat /\ us \in Seq(Words) /\ Len(us) = p + 7
      /\ us[p + 1] = "enum" /\ us[p + 2] = "class" /\ us[p + 3] = "E" /\ us[p + 4] = Opening
      /\ us[p + 5] = "x" /\ us[p + 6] = Closing /\ us[p + 7] = Semicolon
  BY DEF Stands, EnumTokens
<1>2. Ready(us, p + 1, sc)
  <2>1. /\ p + 1 \in p .. Len(us) /\ \A i \in p + 1 .. p + 1 : i = p + 1
    BY <1>1
  <2>2. \A i \in p + 1 .. p + 1 : us[i] \notin Marks /\ (us[i] \in ScopeWords => us[p + 1] = Semicolon)
    BY <1>1, <2>1, PlainWords
  <2> QED BY <2>1, <2>2, ReadyOver, ScopeFacts
<1>3. Ready(us, p + 6, sc)
  <2>1. /\ (p + 1) + 5 <= Len(us) /\ (p + 1) + 1 = p + 2 /\ (p + 1) + 2 = p + 3 /\ (p + 1) + 3 = p + 4
        /\ (p + 1) + 4 = p + 5 /\ (p + 1) + 5 = p + 6
    BY <1>1
  <2>2. us[p + 2] \in ScopeWords /\ us[p + 3] \notin ScopeWords /\ IsWord(us[p + 3])
        /\ us[p + 5] \notin Marks /\ us[p + 5] \notin ScopeWords
    BY <1>1, PlainWords
  <2>3. Ready(us, (p + 1) + 5, sc)
    BY <1>1, <1>2, <2>1, <2>2, EnumSkipped
  <2> QED BY <2>1, <2>3
<1>4. Ready(us, p + 7, sc)
  <2>1. p + 7 \in p + 6 .. Len(us) /\ \A i \in (p + 6) + 1 .. p + 7 : i = p + 7
    BY <1>1
  <2>2. \A i \in (p + 6) + 1 .. p + 7 : us[i] \notin Marks /\ (us[i] \in ScopeWords => us[p + 7] = Semicolon)
    BY <1>1, <2>1, ScopeFacts
  <2> QED BY <1>3, <2>1, <2>2, ReadyOver, ScopeFacts
<1>5. EndsAt(us, p + 1, p + 4)
  <2>1. PICK a, e : a = p + 1 /\ e = p + 4
    OBVIOUS
  <2>2. /\ Len(us) \in Nat /\ a \in 1 .. Len(us) /\ e \in a .. Len(us)
        /\ \A i \in a .. e - 1 : i = p + 1 \/ i = p + 2 \/ i = p + 3
    BY <1>1, <2>1
  <2>3. \A i \in a .. e - 1 : /\ us[i] # "(" /\ us[i] # ")" /\ us[i] \notin {Opening, Semicolon}
                              /\ (us[i] = "=" => us[a] = "using")
    BY <1>1, <2>2, PlainWords
  <2>4. us[e] \in {Opening, Semicolon}
    BY <1>1, <2>1
  <2>5. EndsAt(us, a, e)
    BY <2>2, <2>3, <2>4, EndsFirst
  <2> QED BY <2>1, <2>5
<1>6. PICK s : s = <<"enum", "class", "E">>
  OBVIOUS
<1>7. Len(s) = 3 /\ s \in Seq(Words) /\ \A i \in 1 .. Len(s) : us[p + i] = s[i]
  <2>1. Len(s) = 3 /\ s[1] = "enum" /\ s[2] = "class" /\ s[3] = "E"
    BY <1>6
  <2>2. \A i \in 1 .. 3 : i = 1 \/ i = 2 \/ i = 3
    OBVIOUS
  <2>3. s \in Seq(Words)
    BY <1>6, PlainWords
  <2> QED BY <1>1, <2>1, <2>2, <2>3
<1>8. DeclarationAfter(us, p) = s /\ HasEnd(us, p)
  <2>1. p + Len(s) + 1 = p + 4 /\ p + 4 <= Len(us)
    BY <1>1, <1>7
  <2> QED BY <1>1, <1>5, <1>7, <2>1, IsDeclared
<1> QED BY <1>1, <1>4, <1>6, <1>8, EnumTold

LEMMA AliasRead ==
    ASSUME NEW us, NEW p, NEW sc, Ready(us, p, sc), Stands(us, p, AliasTokens)
    PROVE  /\ Ready(us, Len(us), sc) /\ HasEnd(us, p)
           /\ Classify(DeclarationAfter(us, p)) = SignatureOf("type", "T")
<1>1. /\ p \in Nat /\ us \in Seq(Words) /\ Len(us) = p + 5
      /\ us[p + 1] = "using" /\ us[p + 2] = "T" /\ us[p + 3] = "=" /\ us[p + 4] = "int" /\ us[p + 5] = Semicolon
  BY DEF Stands, AliasTokens
<1>2. Ready(us, p + 5, sc)
  <2>1. /\ p + 5 \in p .. Len(us)
        /\ \A i \in p + 1 .. p + 5 : i = p + 1 \/ i = p + 2 \/ i = p + 3 \/ i = p + 4 \/ i = p + 5
    BY <1>1
  <2>2. \A i \in p + 1 .. p + 5 : us[i] \notin Marks /\ (us[i] \in ScopeWords => us[p + 5] = Semicolon)
    BY <1>1, <2>1, PlainWords, ScopeFacts
  <2> QED BY <2>1, <2>2, ReadyOver, ScopeFacts
<1>3. EndsAt(us, p + 1, p + 5)
  <2>1. PICK a, e : a = p + 1 /\ e = p + 5
    OBVIOUS
  <2>2. /\ Len(us) \in Nat /\ a \in 1 .. Len(us) /\ e \in a .. Len(us)
        /\ \A i \in a .. e - 1 : i = p + 1 \/ i = p + 2 \/ i = p + 3 \/ i = p + 4
    BY <1>1, <2>1
  <2>3. \A i \in a .. e - 1 : /\ us[i] # "(" /\ us[i] # ")" /\ us[i] \notin {Opening, Semicolon}
                              /\ (us[i] = "=" => us[a] = "using")
    BY <1>1, <2>1, <2>2, PlainWords
  <2>4. us[e] \in {Opening, Semicolon}
    BY <1>1, <2>1
  <2>5. EndsAt(us, a, e)
    BY <2>2, <2>3, <2>4, EndsFirst
  <2> QED BY <2>1, <2>5
<1>4. PICK s : s = <<"using", "T", "=", "int">>
  OBVIOUS
<1>5. Len(s) = 4 /\ s \in Seq(Words) /\ \A i \in 1 .. Len(s) : us[p + i] = s[i]
  <2>1. Len(s) = 4 /\ s[1] = "using" /\ s[2] = "T" /\ s[3] = "=" /\ s[4] = "int"
    BY <1>4
  <2>2. \A i \in 1 .. 4 : i = 1 \/ i = 2 \/ i = 3 \/ i = 4
    OBVIOUS
  <2>3. s \in Seq(Words)
    BY <1>4, PlainWords
  <2> QED BY <1>1, <2>1, <2>2, <2>3
<1>6. DeclarationAfter(us, p) = s /\ HasEnd(us, p)
  <2>1. p + Len(s) + 1 = p + 5 /\ p + 5 <= Len(us)
    BY <1>1, <1>5
  <2> QED BY <1>1, <1>3, <1>5, <2>1, IsDeclared
<1> QED BY <1>1, <1>2, <1>4, <1>6, AliasTold

LEMMA ConstantRead ==
    ASSUME NEW us, NEW p, NEW sc, Ready(us, p, sc), Stands(us, p, ConstantTokens)
    PROVE  /\ Ready(us, Len(us), sc) /\ HasEnd(us, p)
           /\ Classify(DeclarationAfter(us, p)) = SignatureOf("var", "c")
<1>1. /\ p \in Nat /\ us \in Seq(Words) /\ Len(us) = p + 6
      /\ us[p + 1] = "const" /\ us[p + 2] = "int" /\ us[p + 3] = "c" /\ us[p + 4] = Opening
      /\ us[p + 5] = Closing /\ us[p + 6] = Semicolon
  BY DEF Stands, ConstantTokens
<1>2. Ready(us, p + 3, sc)
  <2>1. /\ p + 3 \in p .. Len(us) /\ \A i \in p + 1 .. p + 3 : i = p + 1 \/ i = p + 2 \/ i = p + 3
    BY <1>1
  <2>2. \A i \in p + 1 .. p + 3 : us[i] \notin Marks /\ (us[i] \in ScopeWords => us[p + 3] = Semicolon)
    BY <1>1, <2>1, PlainWords
  <2> QED BY <2>1, <2>2, ReadyOver, ScopeFacts
<1>3. Ready(us, p + 5, sc)
  <2>1. /\ p + 5 \in (p + 3) + 2 .. Len(us) /\ (p + 3) + 1 = p + 4
        /\ \A i \in (p + 3) + 2 .. p + 5 - 1 : FALSE
    BY <1>1
  <2> QED BY <1>1, <1>2, <2>1, BlockSkipped
<1>4. Ready(us, p + 6, sc)
  <2>1. p + 6 \in p + 5 .. Len(us) /\ \A i \in (p + 5) + 1 .. p + 6 : i = p + 6
    BY <1>1
  <2>2. \A i \in (p + 5) + 1 .. p + 6 : us[i] \notin Marks /\ (us[i] \in ScopeWords => us[p + 6] = Semicolon)
    BY <1>1, <2>1, ScopeFacts
  <2> QED BY <1>3, <2>1, <2>2, ReadyOver, ScopeFacts
<1>5. EndsAt(us, p + 1, p + 4)
  <2>1. PICK a, e : a = p + 1 /\ e = p + 4
    OBVIOUS
  <2>2. /\ Len(us) \in Nat /\ a \in 1 .. Len(us) /\ e \in a .. Len(us)
        /\ \A i \in a .. e - 1 : i = p + 1 \/ i = p + 2 \/ i = p + 3
    BY <1>1, <2>1
  <2>3. \A i \in a .. e - 1 : /\ us[i] # "(" /\ us[i] # ")" /\ us[i] \notin {Opening, Semicolon}
                              /\ (us[i] = "=" => us[a] = "using")
    BY <1>1, <2>2, PlainWords
  <2>4. us[e] \in {Opening, Semicolon}
    BY <1>1, <2>1
  <2>5. EndsAt(us, a, e)
    BY <2>2, <2>3, <2>4, EndsFirst
  <2> QED BY <2>1, <2>5
<1>6. PICK s : s = <<"const", "int", "c">>
  OBVIOUS
<1>7. Len(s) = 3 /\ s \in Seq(Words) /\ \A i \in 1 .. Len(s) : us[p + i] = s[i]
  <2>1. Len(s) = 3 /\ s[1] = "const" /\ s[2] = "int" /\ s[3] = "c"
    BY <1>6
  <2>2. \A i \in 1 .. 3 : i = 1 \/ i = 2 \/ i = 3
    OBVIOUS
  <2>3. s \in Seq(Words)
    BY <1>6, PlainWords
  <2> QED BY <1>1, <2>1, <2>2, <2>3
<1>8. DeclarationAfter(us, p) = s /\ HasEnd(us, p)
  <2>1. p + Len(s) + 1 = p + 4 /\ p + 4 <= Len(us)
    BY <1>1, <1>7
  <2> QED BY <1>1, <1>5, <1>7, <2>1, IsDeclared
<1> QED BY <1>1, <1>4, <1>6, <1>8, ConstantTold

LEMMA TypeRead ==
    ASSUME NEW us, NEW p, NEW sc, Ready(us, p, sc), NEW k \in TypeKeywords, NEW name \in ToSet(Types),
           Stands(us, p, <<k, name, Opening>>),
           NEW r \in ScopeType, r.keyword = k, r.name = name, r.access = DefaultAccess(k)
    PROVE  /\ Ready(us, Len(us), Append(sc, r)) /\ HasEnd(us, p)
           /\ Classify(DeclarationAfter(us, p)) = SignatureOf(k, name)
<1>1. /\ p \in Nat /\ us \in Seq(Words) /\ Len(us) = p + 3
      /\ us[p + 1] = k /\ us[p + 2] = name /\ us[p + 3] = Opening
  BY DEF Stands
<1>2. /\ k \in ScopeWords /\ k \notin Marks /\ k # Opening /\ k # Semicolon /\ k # "(" /\ k # ")" /\ k # "="
      /\ k # "using" /\ k \in Words
  <2>1. k \in {"class", "struct"}
    BY DEF TypeKeywords
  <2> QED BY <2>1, PlainWords
<1>3. /\ name \notin ScopeWords /\ IsWord(name) /\ name # "(" /\ name # ")" /\ name # Opening /\ name # Semicolon
      /\ name # "=" /\ name \in Words
  <2>1. /\ name \notin Punctuation /\ name \notin Keywords /\ IsWord(name)
        /\ name # "(" /\ name # ")" /\ name # Opening /\ name # Semicolon
    BY NamesArePlain
  <2>2. ScopeWords \subseteq Keywords /\ "=" \in Punctuation
    BY DEF ScopeWords, Keywords, Punctuation
  <2> QED BY <2>1, <2>2 DEF Words
<1>4. Ready(us, p + 3, Append(sc, r))
  BY <1>1, <1>2, <1>3, ScopeOpened
<1>5. EndsAt(us, p + 1, p + 3)
  <2>1. PICK a, e : a = p + 1 /\ e = p + 3
    OBVIOUS
  <2>2. /\ Len(us) \in Nat /\ a \in 1 .. Len(us) /\ e \in a .. Len(us)
        /\ \A i \in a .. e - 1 : i = p + 1 \/ i = p + 2
    BY <1>1, <2>1
  <2>3. \A i \in a .. e - 1 : /\ us[i] # "(" /\ us[i] # ")" /\ us[i] \notin {Opening, Semicolon}
                              /\ (us[i] = "=" => us[a] = "using")
    BY <1>1, <1>2, <1>3, <2>2
  <2>4. us[e] \in {Opening, Semicolon}
    BY <1>1, <2>1
  <2>5. EndsAt(us, a, e)
    BY <2>2, <2>3, <2>4, EndsFirst
  <2> QED BY <2>1, <2>5
<1>6. PICK s : s = <<k, name>>
  OBVIOUS
<1>7. Len(s) = 2 /\ s \in Seq(Words) /\ \A i \in 1 .. Len(s) : us[p + i] = s[i]
  <2>1. Len(s) = 2 /\ s[1] = k /\ s[2] = name
    BY <1>6
  <2>2. \A i \in 1 .. 2 : i = 1 \/ i = 2
    OBVIOUS
  <2>3. s \in Seq(Words)
    BY <1>2, <1>3, <1>6
  <2> QED BY <1>1, <2>1, <2>2, <2>3
<1>8. DeclarationAfter(us, p) = s /\ HasEnd(us, p)
  <2>1. p + Len(s) + 1 = p + 3 /\ p + 3 <= Len(us)
    BY <1>1, <1>7
  <2> QED BY <1>1, <1>5, <1>7, <2>1, IsDeclared
<1> QED BY <1>1, <1>4, <1>6, <1>8, TypeTold

LEMMA NamespaceRead ==
    ASSUME NEW us, NEW p, NEW sc, Ready(us, p, sc), Stands(us, p, <<"namespace", "n", Opening>>),
           NEW r \in ScopeType, r.keyword = "namespace", r.name = "n", r.access = "public"
    PROVE  Ready(us, Len(us), Append(sc, r))
<1>1. p \in Nat /\ Len(us) = p + 3 /\ us[p + 1] = "namespace" /\ us[p + 2] = "n" /\ us[p + 3] = Opening
  BY DEF Stands
<1>2. "namespace" \in ScopeWords /\ "n" \notin ScopeWords /\ IsWord("n") /\ DefaultAccess("namespace") = "public"
  BY PlainWords DEF DefaultAccess
<1>3. Ready(us, p + 3, Append(sc, r))
  BY <1>1, <1>2, ScopeOpened
<1> QED BY <1>1, <1>3

-----------------------------------------------------------------------------
(* What the writer's steps keep.                                           *)

(* The places of a file's comments.                                        *)
Docs(ts) == {i \in 1 .. Len(ts) : ts[i] = "doc"}

LEMMA DocsGrow ==
    ASSUME NEW ts \in Seq(Words), NEW c \in Seq(Words), NEW d \in BOOLEAN, NEW us, Adds(us, ts, d, c),
           \A i \in 1 .. Len(c) : c[i] # "doc"
    PROVE  /\ \A a : a \in Docs(us) <=> (a \in Docs(ts) \/ (d /\ a = Len(ts) + 1))
           /\ \A a \in Docs(ts) : a \in 1 .. Len(ts)
<1>1. PICK n, k : n = Len(ts) /\ k = Len(c)
  OBVIOUS
<1>2. PICK q : q = IF d THEN 1 ELSE 0
  OBVIOUS
<1>3. n \in Nat /\ k \in Nat /\ q \in {0, 1} /\ (d <=> q = 1) /\ Behind(ts, d) = n + q
  BY <1>1, <1>2 DEF Behind
<1>4. /\ Len(us) = n + q + k /\ \A i \in 1 .. n : us[i] = ts[i]
      /\ d => us[n + 1] = "doc"
      /\ \A i \in 1 .. k : us[n + q + i] = c[i]
  <2>1. /\ GoesOn(ts, us) /\ Len(us) = Behind(ts, d) + Len(c)
        /\ d => us[Len(ts) + 1] = "doc"
        /\ \A i \in 1 .. Len(c) : us[Behind(ts, d) + i] = c[i]
    BY WrittenAs
  <2>2. \A i \in 1 .. n : us[i] = ts[i]
    BY <1>1, <2>1 DEF GoesOn
  <2> QED BY <1>1, <1>3, <2>1, <2>2
<1>5. ASSUME NEW a \in Docs(us) PROVE a \in Docs(ts) \/ (d /\ a = n + 1)
  <2>1. a \in 1 .. n + q + k /\ us[a] = "doc"
    BY <1>4 DEF Docs
  <2>2. CASE a <= n
    <3>1. a \in 1 .. n
      BY <1>3, <2>1, <2>2
    <3> QED BY <1>1, <1>4, <2>1, <3>1 DEF Docs
  <2>3. CASE a > n + q
    <3>1. a - (n + q) \in 1 .. k /\ n + q + (a - (n + q)) = a
      BY <1>3, <2>1, <2>3
    <3>2. us[a] = c[a - (n + q)]
      BY <1>4, <3>1
    <3> QED BY <1>1, <2>1, <3>1, <3>2
  <2>4. CASE ~(a <= n) /\ ~(a > n + q)
    BY <1>3, <2>1, <2>4
  <2> QED BY <2>2, <2>3, <2>4
<1>6. ASSUME NEW a \in Docs(ts) PROVE a \in Docs(us) /\ a \in 1 .. Len(ts)
  <2>1. a \in 1 .. n /\ ts[a] = "doc"
    BY <1>1 DEF Docs
  <2>2. a \in 1 .. n + q + k
    BY <1>3, <2>1
  <2> QED BY <1>1, <1>4, <2>1, <2>2 DEF Docs
<1>7. ASSUME d PROVE n + 1 \in Docs(us)
  <2>1. n + 1 \in 1 .. n + q + k
    BY <1>3, <1>7
  <2> QED BY <1>4, <1>7, <2>1 DEF Docs
<1> QED BY <1>1, <1>5, <1>6, <1>7

(* The reader knows as much of the file as its writer: at its end the      *)
(* scopes read are the ones that are open, no keyword of a scope waits for *)
(* a brace still to come, and behind every comment stands a whole          *)
(* declaration, which the rest of the file cannot change.  So what the     *)
(* comments were written for is what is read behind them.                  *)
WrittenInv ==
    /\ Ready(tokens, Len(tokens), scopes) /\ NamespacesFirst(scopes)
    /\ types \in 0 .. Len(Types)
    /\ \A a \in Docs(tokens) : HasEnd(tokens, a)
    /\ declared = {EntityAt(tokens, a) : a \in Docs(tokens)}
    /\ \A d \in declared : d.kind # "none"

(* What the writer notes of a declaration.                                 *)
Noted(ts, kind, name) ==
    [at |-> Len(ts) + 1, kind |-> kind, name |-> name, namespace |-> NamesOf(scopes),
     owner |-> OwnerOf(scopes), access |-> AccessWhere(scopes)]

(* What each of the writer's steps has to show.                            *)
LEMMA WriteKeeps ==
    ASSUME WrittenInv, NEW c \in Seq(Words), \A i \in 1 .. Len(c) : c[i] # "doc",
           NEW d \in BOOLEAN, Adds(tokens', tokens, d, c), NEW kind, NEW name,
           Ready(tokens', Len(tokens'), scopes'), NamespacesFirst(scopes'), types' \in 0 .. Len(Types),
           d => /\ HasEnd(tokens', Len(tokens) + 1) /\ kind # "none"
                /\ Classify(DeclarationAfter(tokens', Len(tokens) + 1)) = SignatureOf(kind, name),
           declared' = IF d THEN declared \union {Noted(tokens, kind, name)} ELSE declared
    PROVE  WrittenInv'
<1>1. PICK us : us = tokens'
  OBVIOUS
<1>2. /\ tokens \in Seq(Words) /\ scopes \in Seq(ScopeType) /\ Ready(tokens, Len(tokens), scopes)
      /\ NamespacesFirst(scopes)
  BY DEF WrittenInv, Ready
<1>3. GoesOn(tokens, us)
  BY <1>1, <1>2, WrittenAs
<1>4. /\ \A a : a \in Docs(us) <=> (a \in Docs(tokens) \/ (d /\ a = Len(tokens) + 1))
      /\ \A a \in Docs(tokens) : a \in 1 .. Len(tokens)
  BY <1>1, <1>2, DocsGrow
<1>5. ASSUME NEW a \in Docs(tokens) PROVE EntityAt(us, a) = EntityAt(tokens, a) /\ HasEnd(us, a)
  <2>1. HasEnd(tokens, a) /\ a \in 1 .. Len(tokens)
    BY <1>4 DEF WrittenInv
  <2> QED BY <1>3, <2>1, SameEntity
<1>6. ASSUME d PROVE EntityAt(us, Len(tokens) + 1) = Noted(tokens, kind, name)
  <2>1. Ready(us, Len(tokens), scopes)
    BY <1>1, <1>2, BehindItsComment
  <2>2. Walk(us)[(Len(tokens) + 1) - 1] = Within(scopes)
    <3>1. (Len(tokens) + 1) - 1 = Len(tokens)
      BY <1>2
    <3> QED BY <2>1, <3>1 DEF Ready
  <2>3. PICK what : what = Classify(DeclarationAfter(us, Len(tokens) + 1))
    OBVIOUS
  <2>4. EntityAt(us, Len(tokens) + 1) =
            [at |-> Len(tokens) + 1, kind |-> what.kind, name |-> what.name, namespace |-> NamesOf(scopes),
             owner |-> OwnerOf(scopes), access |-> AccessWhere(scopes)]
    BY <1>2, <2>2, <2>3, EntityIs
  <2>5. what.kind = kind /\ what.name = name
    BY <1>1, <1>6, <2>3 DEF SignatureOf
  <2> QED BY <2>4, <2>5 DEF Noted
<1>7. \A a \in Docs(us) : HasEnd(us, a)
  BY <1>1, <1>4, <1>5
<1>8. declared' = {EntityAt(us, a) : a \in Docs(us)}
  <2>1. declared = {EntityAt(tokens, a) : a \in Docs(tokens)}
    BY DEF WrittenInv
  <2>2. ASSUME NEW e PROVE e \in declared' <=> \E a \in Docs(us) : e = EntityAt(us, a)
    <3>1. e \in declared <=> \E a \in Docs(tokens) : e = EntityAt(us, a)
      BY <1>5, <2>1
    <3>2. CASE d
      <4>1. e \in declared' <=> (e \in declared \/ e = EntityAt(us, Len(tokens) + 1))
        BY <1>6, <3>2
      <4> QED BY <1>4, <3>1, <3>2, <4>1
    <3>3. CASE ~d
      BY <1>4, <3>1, <3>3
    <3> QED BY <3>2, <3>3
  <2> QED BY <2>2
<1>9. \A e \in declared' : e.kind # "none"
  <2>1. \A e \in declared : e.kind # "none"
    BY DEF WrittenInv
  <2>2. d => Noted(tokens, kind, name).kind # "none"
    BY DEF Noted
  <2> QED BY <2>1, <2>2
<1> QED BY <1>1, <1>7, <1>8, <1>9 DEF WrittenInv

LEMMA ReadyUnseen ==
    ASSUME NEW us, NEW p, NEW sc, Ready(us, p, sc), NEW b \in BOOLEAN
    PROVE  Ready(us, p, AfterBody(sc, b))
<1>1. sc \in Seq(ScopeType)
  BY DEF Ready
<1>2. AfterBody(sc, b) \in Seq(ScopeType) /\ Within(AfterBody(sc, b)) = Within(sc)
  BY <1>1, BodyUnseen
<1> QED BY <1>2 DEF Ready

LEMMA FirstUnseen ==
    ASSUME NEW sc \in Seq(ScopeType), NamespacesFirst(sc), NEW b \in BOOLEAN
    PROVE  NamespacesFirst(AfterBody(sc, b))
<1>1. PICK t : t = AfterBody(sc, b)
  OBVIOUS
<1>2. Len(t) = Len(sc) /\ \A i \in 1 .. Len(sc) : t[i].keyword = sc[i].keyword
  BY <1>1, BodyUnseen
<1>3. PICK m \in 0 .. Len(sc) : \A i \in 1 .. Len(sc) : IsTypeScope(sc[i]) <=> m < i
  BY DEF NamespacesFirst
<1>4. m \in 0 .. Len(t) /\ \A i \in 1 .. Len(t) : IsTypeScope(t[i]) <=> m < i
  BY <1>2, <1>3 DEF IsTypeScope
<1>5. NamespacesFirst(t)
  BY <1>4 DEF NamespacesFirst
<1> QED BY <1>1, <1>5

LEMMA WriteIs ==
    ASSUME NEW c, NEW d \in BOOLEAN, NEW kind, NEW name, Write(c, d, kind, name)
    PROVE  /\ Adds(tokens', tokens, d, c)
           /\ declared' = IF d THEN declared \union {Noted(tokens, kind, name)} ELSE declared
<1>1. Adds(tokens', tokens, d, c)
  BY DEF Write, Adds
<1>2. NamesOf(scopes) = [i \in Namespaces |-> scopes[i].name]
  BY DEF NamesOf, Namespaces
<1>3. /\ OwnerOf(scopes) = IF InType THEN Last(scopes).name ELSE ""
      /\ AccessWhere(scopes) = IF InType THEN Last(scopes).access ELSE "public"
  BY DEF OwnerOf, AccessWhere, InType
<1>4. Noted(tokens, kind, name) =
         [at |-> Len(tokens) + 1, kind |-> kind, name |-> name, namespace |-> [i \in Namespaces |-> scopes[i].name],
          owner |-> IF InType THEN Last(scopes).name ELSE "",
          access |-> IF InType THEN Last(scopes).access ELSE "public"]
  BY <1>2, <1>3 DEF Noted
<1> QED BY <1>1, <1>4 DEF Write

(* What stands behind the old file, and how it is read from there.         *)
LEMMA WrittenBehind ==
    ASSUME WrittenInv, NEW c \in Seq(Words), NEW d \in BOOLEAN, Adds(tokens', tokens, d, c)
    PROVE  /\ Ready(tokens', Behind(tokens, d), scopes) /\ Stands(tokens', Behind(tokens, d), c)
           /\ Behind(tokens, TRUE) = Len(tokens) + 1
           /\ scopes \in Seq(ScopeType) /\ NamespacesFirst(scopes) /\ types \in 0 .. Len(Types)
<1>1. tokens \in Seq(Words) /\ Ready(tokens, Len(tokens), scopes) /\ scopes \in Seq(ScopeType)
  BY DEF WrittenInv, Ready
<1>2. Ready(tokens', Behind(tokens, d), scopes)
  BY <1>1, BehindItsComment
<1>3. Stands(tokens', Behind(tokens, d), c)
  BY <1>1, WrittenAs DEF Stands
<1> QED BY <1>1, <1>2, <1>3 DEF WrittenInv, Behind

(* A declaration with nothing inside it.                                   *)
LEMMA DeclareKeeps ==
    ASSUME WrittenInv, NEW c \in Seq(Words), \A i \in 1 .. Len(c) : c[i] # "doc",
           NEW kind, NEW name, NEW b \in BOOLEAN, kind # "none",
           Write(c, TRUE, kind, name), scopes' = AfterBody(scopes, b), types' = types,
           ASSUME Ready(tokens', Len(tokens) + 1, scopes), Stands(tokens', Len(tokens) + 1, c)
           PROVE  /\ Ready(tokens', Len(tokens'), scopes) /\ HasEnd(tokens', Len(tokens) + 1)
                  /\ Classify(DeclarationAfter(tokens', Len(tokens) + 1)) = SignatureOf(kind, name)
    PROVE  WrittenInv'
<1>1. /\ Adds(tokens', tokens, TRUE, c)
      /\ declared' = declared \union {Noted(tokens, kind, name)}
  BY WriteIs
<1>2. /\ Ready(tokens', Len(tokens) + 1, scopes) /\ Stands(tokens', Len(tokens) + 1, c)
      /\ scopes \in Seq(ScopeType) /\ NamespacesFirst(scopes) /\ types \in 0 .. Len(Types)
  BY <1>1, WrittenBehind
<1>3. /\ Ready(tokens', Len(tokens'), scopes) /\ HasEnd(tokens', Len(tokens) + 1)
      /\ Classify(DeclarationAfter(tokens', Len(tokens) + 1)) = SignatureOf(kind, name)
  BY <1>2
<1>4. Ready(tokens', Len(tokens'), scopes') /\ NamespacesFirst(scopes')
  BY <1>2, <1>3, ReadyUnseen, FirstUnseen
<1> QED BY <1>1, <1>2, <1>3, <1>4, WriteKeeps

LEMMA ChunksAreWords ==
    /\ FunctionTokens \in Seq(Words) /\ \A i \in 1 .. Len(FunctionTokens) : FunctionTokens[i] # "doc"
    /\ DefinitionTokens \in Seq(Words) /\ \A i \in 1 .. Len(DefinitionTokens) : DefinitionTokens[i] # "doc"
    /\ EnumTokens \in Seq(Words) /\ \A i \in 1 .. Len(EnumTokens) : EnumTokens[i] # "doc"
    /\ AliasTokens \in Seq(Words) /\ \A i \in 1 .. Len(AliasTokens) : AliasTokens[i] # "doc"
    /\ ConstantTokens \in Seq(Words) /\ \A i \in 1 .. Len(ConstantTokens) : ConstantTokens[i] # "doc"
    /\ DataTokens \in Seq(Words) /\ \A i \in 1 .. Len(DataTokens) : DataTokens[i] # "doc"
<1> DEFINE P == Words \ {"doc"}
<1>1. \A w \in {Opening, Closing, Semicolon} : w # "doc"
  BY TokensDiffer DEF Keywords
<1>2. /\ \A w \in {Opening, Closing, Semicolon, "int", "f", "x", "c", "E", "T", "(", ")", "=", "const", "using", "enum",
                   "class"} : w \in P
  BY <1>1, PlainWords
<1> HIDE DEF P
<1>3. /\ FunctionTokens \in Seq(P) /\ DefinitionTokens \in Seq(P) /\ EnumTokens \in Seq(P)
      /\ AliasTokens \in Seq(P) /\ ConstantTokens \in Seq(P) /\ DataTokens \in Seq(P)
  BY <1>2 DEF FunctionTokens, DefinitionTokens, EnumTokens, AliasTokens, ConstantTokens, DataTokens
<1>4. ASSUME NEW c \in Seq(P) PROVE c \in Seq(Words) /\ \A i \in 1 .. Len(c) : c[i] # "doc"
  <2>1. P \subseteq Words /\ "doc" \notin P
    BY DEF P
  <2>2. c \in Seq(Words)
    BY <2>1, SeqMonotonic
  <2>3. \A i \in 1 .. Len(c) : c[i] \in P
    OBVIOUS
  <2> QED BY <2>1, <2>2, <2>3
<1> QED BY <1>3, <1>4

LEMMA DeclareFunctionKeeps == WrittenInv /\ DeclareFunction => WrittenInv'
<1> SUFFICES ASSUME WrittenInv, DeclareFunction PROVE WrittenInv'
  OBVIOUS
<1>1. Write(FunctionTokens, TRUE, "function", "f") /\ scopes' = AfterBody(scopes, FALSE) /\ types' = types
  BY DEF DeclareFunction, Declare, FunctionTokens
<1>2. ASSUME Ready(tokens', Len(tokens) + 1, scopes), Stands(tokens', Len(tokens) + 1, FunctionTokens)
      PROVE  /\ Ready(tokens', Len(tokens'), scopes) /\ HasEnd(tokens', Len(tokens) + 1)
             /\ Classify(DeclarationAfter(tokens', Len(tokens) + 1)) = SignatureOf("function", "f")
  BY <1>2, FunctionRead
<1> QED BY <1>1, <1>2, ChunksAreWords, DeclareKeeps

LEMMA DefineFunctionKeeps == WrittenInv /\ DefineFunction => WrittenInv'
<1> SUFFICES ASSUME WrittenInv, DefineFunction PROVE WrittenInv'
  OBVIOUS
<1>1. Write(DefinitionTokens, TRUE, "function", "f") /\ scopes' = AfterBody(scopes, TRUE) /\ types' = types
  BY DEF DefineFunction, Declare, DefinitionTokens
<1>2. ASSUME Ready(tokens', Len(tokens) + 1, scopes), Stands(tokens', Len(tokens) + 1, DefinitionTokens)
      PROVE  /\ Ready(tokens', Len(tokens'), scopes) /\ HasEnd(tokens', Len(tokens) + 1)
             /\ Classify(DeclarationAfter(tokens', Len(tokens) + 1)) = SignatureOf("function", "f")
  BY <1>2, DefinitionRead
<1> QED BY <1>1, <1>2, ChunksAreWords, DeclareKeeps

LEMMA DeclareEnumKeeps == WrittenInv /\ DeclareEnum => WrittenInv'
<1> SUFFICES ASSUME WrittenInv, DeclareEnum PROVE WrittenInv'
  OBVIOUS
<1>1. Write(EnumTokens, TRUE, "enum", "E") /\ scopes' = AfterBody(scopes, FALSE) /\ types' = types
  BY DEF DeclareEnum, Declare, EnumTokens
<1>2. ASSUME Ready(tokens', Len(tokens) + 1, scopes), Stands(tokens', Len(tokens) + 1, EnumTokens)
      PROVE  /\ Ready(tokens', Len(tokens'), scopes) /\ HasEnd(tokens', Len(tokens) + 1)
             /\ Classify(DeclarationAfter(tokens', Len(tokens) + 1)) = SignatureOf("enum", "E")
  BY <1>2, EnumRead
<1> QED BY <1>1, <1>2, ChunksAreWords, DeclareKeeps

LEMMA DeclareAliasKeeps == WrittenInv /\ DeclareAlias => WrittenInv'
<1> SUFFICES ASSUME WrittenInv, DeclareAlias PROVE WrittenInv'
  OBVIOUS
<1>1. Write(AliasTokens, TRUE, "type", "T") /\ scopes' = AfterBody(scopes, FALSE) /\ types' = types
  BY DEF DeclareAlias, Declare, AliasTokens
<1>2. ASSUME Ready(tokens', Len(tokens) + 1, scopes), Stands(tokens', Len(tokens) + 1, AliasTokens)
      PROVE  /\ Ready(tokens', Len(tokens'), scopes) /\ HasEnd(tokens', Len(tokens) + 1)
             /\ Classify(DeclarationAfter(tokens', Len(tokens) + 1)) = SignatureOf("type", "T")
  BY <1>2, AliasRead
<1> QED BY <1>1, <1>2, ChunksAreWords, DeclareKeeps

LEMMA DeclareConstantKeeps == WrittenInv /\ DeclareConstant => WrittenInv'
<1> SUFFICES ASSUME WrittenInv, DeclareConstant PROVE WrittenInv'
  OBVIOUS
<1>1. Write(ConstantTokens, TRUE, "var", "c") /\ scopes' = AfterBody(scopes, FALSE) /\ types' = types
  BY DEF DeclareConstant, Declare, ConstantTokens
<1>2. ASSUME Ready(tokens', Len(tokens) + 1, scopes), Stands(tokens', Len(tokens) + 1, ConstantTokens)
      PROVE  /\ Ready(tokens', Len(tokens'), scopes) /\ HasEnd(tokens', Len(tokens) + 1)
             /\ Classify(DeclarationAfter(tokens', Len(tokens) + 1)) = SignatureOf("var", "c")
  BY <1>2, ConstantRead
<1> QED BY <1>1, <1>2, ChunksAreWords, DeclareKeeps

LEMMA DeclareDataKeeps == WrittenInv /\ DeclareData => WrittenInv'
<1> SUFFICES ASSUME WrittenInv, DeclareData PROVE WrittenInv'
  OBVIOUS
<1>1. Write(DataTokens, FALSE, "none", "x") /\ scopes' = AfterBody(scopes, FALSE) /\ types' = types
  BY DEF DeclareData, DataTokens
<1>2. Adds(tokens', tokens, FALSE, DataTokens) /\ declared' = declared
  BY <1>1, WriteIs
<1>3. /\ Ready(tokens', Behind(tokens, FALSE), scopes) /\ Stands(tokens', Behind(tokens, FALSE), DataTokens)
      /\ scopes \in Seq(ScopeType) /\ NamespacesFirst(scopes) /\ types \in 0 .. Len(Types)
  BY <1>2, ChunksAreWords, WrittenBehind
<1>4. Ready(tokens', Len(tokens'), scopes)
  BY <1>3, DataRead
<1>5. Ready(tokens', Len(tokens'), scopes') /\ NamespacesFirst(scopes')
  BY <1>1, <1>3, <1>4, ReadyUnseen, FirstUnseen
<1> QED BY <1>1, <1>2, <1>3, <1>5, ChunksAreWords, WriteKeeps

LEMMA AppendedFirst ==
    ASSUME NEW sc \in Seq(ScopeType), NamespacesFirst(sc), NEW r \in ScopeType,
           IsTypeScope(r) \/ sc = <<>> \/ ~IsTypeScope(Last(sc))
    PROVE  NamespacesFirst(Append(sc, r))
<1>1. PICK t, n : t = Append(sc, r) /\ n = Len(sc)
  OBVIOUS
<1>2. n \in Nat /\ Len(t) = n + 1 /\ t[n + 1] = r /\ \A i \in 1 .. n : t[i] = sc[i]
  BY <1>1, AppendProperties
<1>3. PICK m \in 0 .. n : \A i \in 1 .. n : IsTypeScope(sc[i]) <=> m < i
  BY <1>1 DEF NamespacesFirst
<1>4. m \in Nat /\ m <= n
  BY <1>2, <1>3
<1>5. \A i \in 1 .. n + 1 : i = n + 1 \/ i \in 1 .. n
  BY <1>2
<1>6. CASE IsTypeScope(r)
  <2>1. \A i \in 1 .. n + 1 : IsTypeScope(t[i]) <=> m < i
    BY <1>2, <1>3, <1>4, <1>5, <1>6
  <2>2. m \in 0 .. n + 1
    BY <1>2, <1>4
  <2> QED BY <1>1, <1>2, <2>1, <2>2 DEF NamespacesFirst
<1>7. CASE ~IsTypeScope(r)
  <2>1. m = n
    <3>1. CASE n = 0
      BY <1>4, <3>1
    <3>2. CASE n # 0
      <4>1. n \in 1 .. n /\ Last(sc) = sc[n] /\ sc # <<>>
        BY <1>1, <1>2, <3>2 DEF Last
      <4>2. ~(m < n)
        BY <1>3, <1>7, <4>1
      <4> QED BY <1>2, <1>4, <4>2
    <3> QED BY <3>1, <3>2
  <2>2. \A i \in 1 .. n + 1 : ~IsTypeScope(t[i]) /\ ~(n + 1 < i)
    BY <1>2, <1>3, <1>5, <1>7, <2>1
  <2>3. n + 1 \in 0 .. n + 1
    BY <1>2
  <2> QED BY <1>1, <1>2, <2>2, <2>3 DEF NamespacesFirst
<1> QED BY <1>6, <1>7

LEMMA OpenNamespaceKeeps == WrittenInv /\ OpenNamespace => WrittenInv'
<1> SUFFICES ASSUME WrittenInv, OpenNamespace PROVE WrittenInv'
  OBVIOUS
<1> DEFINE c == <<"namespace", "n", Opening>>
<1>1. PICK r : r = [keyword |-> "namespace", name |-> "n", doc |-> 0, afterBody |-> FALSE, access |-> "public"]
  OBVIOUS
<1>2. /\ Write(c, FALSE, "none", "n") /\ types' = types /\ ~InType
      /\ scopes' = Append(scopes, r)
  BY <1>1 DEF OpenNamespace, Opened
<1>3. r \in ScopeType /\ r.keyword = "namespace" /\ r.name = "n" /\ r.access = "public"
  BY <1>1 DEF ScopeType
<1>4. c \in Seq(Words) /\ \A i \in 1 .. Len(c) : c[i] # "doc"
  <2>1. Opening # "doc"
    BY TokensDiffer DEF Keywords
  <2>2. Len(c) = 3 /\ c[1] = "namespace" /\ c[2] = "n" /\ c[3] = Opening
    OBVIOUS
  <2>3. c \in Seq(Words)
    BY PlainWords
  <2>4. \A i \in 1 .. 3 : i = 1 \/ i = 2 \/ i = 3
    OBVIOUS
  <2> HIDE DEF c
  <2> QED BY <2>1, <2>2, <2>3, <2>4
<1>5. Adds(tokens', tokens, FALSE, c) /\ declared' = declared
  BY <1>2, WriteIs
<1>6. /\ Ready(tokens', Behind(tokens, FALSE), scopes) /\ Stands(tokens', Behind(tokens, FALSE), c)
      /\ scopes \in Seq(ScopeType) /\ NamespacesFirst(scopes) /\ types \in 0 .. Len(Types)
  <2> HIDE DEF c
  <2> QED BY <1>4, <1>5, WrittenBehind
<1>7. Ready(tokens', Len(tokens'), scopes')
  BY <1>2, <1>3, <1>6, NamespaceRead
<1>8. NamespacesFirst(scopes')
  BY <1>2, <1>3, <1>6, AppendedFirst DEF InType
<1> HIDE DEF c
<1> QED BY <1>2, <1>4, <1>5, <1>6, <1>7, <1>8, WriteKeeps

LEMMA OpenTypeKeeps ==
    ASSUME WrittenInv, NEW k \in TypeKeywords, NEW d \in BOOLEAN, OpenType(k, d)
    PROVE  WrittenInv'
<1>1. PICK name : name = Types[types']
  OBVIOUS
<1> DEFINE c == <<k, name, Opening>>
<1>2. PICK r : r = [keyword |-> k, name |-> name, doc |-> IF d THEN Len(tokens) + 1 ELSE 0, afterBody |-> FALSE,
                    access |-> IF k = "class" THEN "private" ELSE "public"]
  OBVIOUS
<1>3. /\ Write(c, d, k, name) /\ types < Len(Types) /\ types' = types + 1
      /\ scopes' = Append(scopes, r)
  BY <1>1, <1>2 DEF OpenType, Opened
<1>4. types \in 0 .. Len(Types) /\ Types \in Seq(STRING) /\ tokens \in Seq(Words)
  BY TypesAssumption DEF WrittenInv, Ready
<1>5. types' \in 0 .. Len(Types) /\ types' \in 1 .. Len(Types)
  BY <1>3, <1>4
<1>6. name \in ToSet(Types)
  BY <1>1, <1>4, <1>5 DEF ToSet
<1>7. r \in ScopeType /\ r.keyword = k /\ r.name = name /\ r.access = DefaultAccess(k)
  BY <1>2, <1>4, <1>6 DEF ScopeType, DefaultAccess
<1>8. c \in Seq(Words) /\ \A i \in 1 .. Len(c) : c[i] # "doc"
  <2>1. Opening # "doc"
    BY TokensDiffer DEF Keywords
  <2>2. name # "doc" /\ name \in Words
    <3>1. name \notin Keywords
      BY <1>6, NamesArePlain
    <3> QED BY <1>6, <3>1 DEF Keywords, Words
  <2>3. k \in Words /\ k # "doc"
    BY DEF TypeKeywords, Words, Keywords
  <2>4. Len(c) = 3 /\ c[1] = k /\ c[2] = name /\ c[3] = Opening
    OBVIOUS
  <2>5. c \in Seq(Words)
    BY <2>2, <2>3, PlainWords
  <2>6. \A i \in 1 .. 3 : i = 1 \/ i = 2 \/ i = 3
    OBVIOUS
  <2> HIDE DEF c
  <2> QED BY <2>1, <2>2, <2>3, <2>4, <2>5, <2>6
<1>9. /\ Adds(tokens', tokens, d, c)
      /\ declared' = IF d THEN declared \union {Noted(tokens, k, name)} ELSE declared
  BY <1>3, WriteIs
<1>10. /\ Ready(tokens', Behind(tokens, d), scopes) /\ Stands(tokens', Behind(tokens, d), c)
       /\ Behind(tokens, TRUE) = Len(tokens) + 1
       /\ scopes \in Seq(ScopeType) /\ NamespacesFirst(scopes)
  <2> HIDE DEF c
  <2> QED BY <1>8, <1>9, WrittenBehind
<1>11. /\ Ready(tokens', Len(tokens'), scopes') /\ HasEnd(tokens', Behind(tokens, d))
       /\ Classify(DeclarationAfter(tokens', Behind(tokens, d))) = SignatureOf(k, name)
  BY <1>3, <1>6, <1>7, <1>10, TypeRead
<1>12. NamespacesFirst(scopes')
  <2>1. IsTypeScope(r)
    BY <1>7 DEF IsTypeScope, TypeKeywords
  <2> QED BY <1>3, <1>7, <1>10, <2>1, AppendedFirst
<1>13. d => /\ HasEnd(tokens', Len(tokens) + 1) /\ k # "none"
            /\ Classify(DeclarationAfter(tokens', Len(tokens) + 1)) = SignatureOf(k, name)
  BY <1>10, <1>11 DEF TypeKeywords
<1> HIDE DEF c
<1> QED BY <1>5, <1>8, <1>9, <1>11, <1>12, <1>13, WriteKeeps

LEMMA CloseRead ==
    ASSUME NEW us, NEW p, NEW sc, Ready(us, p, sc), sc # <<>>, NEW c,
           c = <<Closing>> \/ c = <<Closing, Semicolon>>, Stands(us, p, c)
    PROVE  Ready(us, Len(us), Front(sc))
<1>1. p \in Nat /\ Len(us) = p + Len(c) /\ us[p + 1] = Closing /\ p + 1 <= Len(us)
  <2>1. Len(c) \in {1, 2} /\ c[1] = Closing
    OBVIOUS
  <2>2. p \in Nat /\ Len(us) = p + Len(c) /\ \A i \in 1 .. Len(c) : us[p + i] = c[i]
    BY DEF Stands
  <2>3. 1 \in 1 .. Len(c)
    BY <2>1
  <2> QED BY <2>1, <2>2, <2>3
<1>2. Ready(us, p + 1, Front(sc))
  BY <1>1, ScopeClosed
<1>3. CASE c = <<Closing>>
  <2>1. Len(c) = 1
    BY <1>3
  <2> QED BY <1>1, <1>2, <2>1
<1>4. CASE c = <<Closing, Semicolon>>
  <2>1. Len(us) = p + 2 /\ us[p + 2] = Semicolon
    <3>1. Len(c) = 2 /\ c[2] = Semicolon
      BY <1>4
    <3> QED BY <1>1, <3>1 DEF Stands
  <2>2. p + 2 \in p + 1 .. Len(us) /\ \A i \in (p + 1) + 1 .. p + 2 : i = p + 2
    BY <1>1, <2>1
  <2>3. \A i \in (p + 1) + 1 .. p + 2 : us[i] \notin Marks /\ (us[i] \in ScopeWords => us[p + 2] = Semicolon)
    BY <2>1, <2>2, ScopeFacts
  <2>4. Ready(us, p + 2, Front(sc))
    BY <1>2, <2>2, <2>3, ReadyOver, ScopeFacts
  <2> QED BY <2>1, <2>4
<1> QED BY <1>3, <1>4

LEMMA FrontFirst ==
    ASSUME NEW sc \in Seq(ScopeType), sc # <<>>, NamespacesFirst(sc)
    PROVE  NamespacesFirst(Front(sc))
<1>1. PICK t : t = Front(sc)
  OBVIOUS
<1>2. Len(sc) \in Nat /\ Len(t) = Len(sc) - 1 /\ \A i \in 1 .. Len(sc) - 1 : t[i] = sc[i]
  BY <1>1, PopsLast
<1>3. t \in Seq(ScopeType)
  BY <1>1, PopsLast
<1>4. PICK n \in Nat : n = Len(t)
  BY <1>3
<1>5. Len(sc) = n + 1 /\ \A i \in 1 .. n : t[i] = sc[i]
  BY <1>2, <1>4
<1>6. PICK m \in 0 .. n + 1 : \A i \in 1 .. n + 1 : IsTypeScope(sc[i]) <=> m < i
  BY <1>5 DEF NamespacesFirst
<1>7. PICK l : l = IF m <= n THEN m ELSE n
  OBVIOUS
<1>8. l \in 0 .. n /\ \A i \in 1 .. n : (l < i <=> m < i) /\ i \in 1 .. n + 1
  BY <1>6, <1>7
<1>9. \A i \in 1 .. n : IsTypeScope(t[i]) <=> l < i
  BY <1>5, <1>6, <1>8
<1> QED BY <1>1, <1>4, <1>8, <1>9 DEF NamespacesFirst

LEMMA CloseScopeKeeps == WrittenInv /\ CloseScope => WrittenInv'
<1> SUFFICES ASSUME WrittenInv, CloseScope PROVE WrittenInv'
  OBVIOUS
<1>1. PICK c : c = IF InType THEN <<Closing, Semicolon>> ELSE <<Closing>>
  OBVIOUS
<1>2. /\ scopes # <<>> /\ tokens' = tokens \o c /\ scopes' = AfterBody(Front(scopes), FALSE)
      /\ types' = types /\ declared' = declared
  BY <1>1 DEF CloseScope
<1>3. c = <<Closing>> \/ c = <<Closing, Semicolon>>
  BY <1>1
<1>4. c \in Seq(Words) /\ \A i \in 1 .. Len(c) : c[i] # "doc"
  <2>1. Closing # "doc" /\ Semicolon # "doc" /\ Closing \in Words /\ Semicolon \in Words
    BY PlainWords, TokensDiffer DEF Keywords
  <2>2. CASE c = <<Closing>>
    BY <2>1, <2>2
  <2>3. CASE c = <<Closing, Semicolon>>
    <3>1. Len(c) = 2 /\ c[1] = Closing /\ c[2] = Semicolon /\ \A i \in 1 .. 2 : i = 1 \/ i = 2
      BY <2>3
    <3>2. c \in Seq(Words)
      BY <2>1, <2>3
    <3> QED BY <2>1, <3>1, <3>2
  <2> QED BY <1>3, <2>2, <2>3
<1>5. Adds(tokens', tokens, FALSE, c)
  <2>1. tokens \in Seq(Words)
    BY DEF WrittenInv, Ready
  <2>2. tokens \o <<>> = tokens
    BY <2>1, ConcatEmptySeq
  <2> QED BY <1>2, <2>2 DEF Adds
<1>6. /\ Ready(tokens', Behind(tokens, FALSE), scopes) /\ Stands(tokens', Behind(tokens, FALSE), c)
      /\ scopes \in Seq(ScopeType) /\ NamespacesFirst(scopes) /\ types \in 0 .. Len(Types)
  BY <1>4, <1>5, WrittenBehind
<1>7. Ready(tokens', Len(tokens'), Front(scopes))
  BY <1>2, <1>3, <1>6, CloseRead
<1>8. Front(scopes) \in Seq(ScopeType) /\ NamespacesFirst(Front(scopes))
  BY <1>2, <1>6, PopsLast, FrontFirst
<1>9. Ready(tokens', Len(tokens'), scopes') /\ NamespacesFirst(scopes')
  BY <1>2, <1>7, <1>8, ReadyUnseen, FirstUnseen
<1> QED BY <1>2, <1>4, <1>5, <1>6, <1>9, WriteKeeps

LEMMA LabelKeeps ==
    ASSUME WrittenInv, NEW l \in Labels, Label(l)
    PROVE  WrittenInv'
<1> DEFINE c == <<l>>
<1>1. /\ Write(c, FALSE, "none", "") /\ scopes # <<>> /\ types' = types
      /\ scopes' = [scopes EXCEPT ![Len(scopes)].access = AccessOf(l)]
  BY DEF Label, InType
<1>2. c \in Seq(Words) /\ \A i \in 1 .. Len(c) : c[i] # "doc"
  <2>1. l \in Words /\ l # "doc"
    BY PlainWords DEF Labels
  <2> QED BY <2>1
<1>3. Adds(tokens', tokens, FALSE, c) /\ declared' = declared
  BY <1>1, WriteIs
<1>4. /\ Ready(tokens', Behind(tokens, FALSE), scopes) /\ Stands(tokens', Behind(tokens, FALSE), c)
      /\ scopes \in Seq(ScopeType) /\ NamespacesFirst(scopes) /\ types \in 0 .. Len(Types)
  <2> HIDE DEF c
  <2> QED BY <1>2, <1>3, WrittenBehind
<1>5. PICK p : p = Behind(tokens, FALSE)
  OBVIOUS
<1>6. Len(tokens') = p + 1 /\ tokens'[p + 1] = l /\ p + 1 <= Len(tokens')
  <2>1. Len(c) = 1 /\ c[1] = l
    OBVIOUS
  <2>2. p \in Nat /\ Len(tokens') = p + Len(c) /\ \A i \in 1 .. Len(c) : tokens'[p + i] = c[i]
    BY <1>4, <1>5 DEF Stands
  <2> HIDE DEF c
  <2>3. 1 \in 1 .. Len(c)
    BY <2>1
  <2> QED BY <2>1, <2>2, <2>3
<1>7. Ready(tokens', Len(tokens'), scopes')
  <2>1. PICK sc, us : sc = scopes /\ us = tokens'
    OBVIOUS
  <2>2. Ready(us, p, sc) /\ sc # <<>> /\ p + 1 <= Len(us) /\ us[p + 1] \in Labels
    BY <1>1, <1>4, <1>5, <1>6, <2>1
  <2>3. Ready(us, p + 1, [sc EXCEPT ![Len(sc)].access = AccessOf(us[p + 1])])
    BY <2>2, ScopeLabelled
  <2> QED BY <1>1, <1>6, <2>1, <2>3
<1>8. NamespacesFirst(scopes')
  <2>1. PICK n : n = Len(scopes)
    OBVIOUS
  <2>2. n \in Nat /\ scopes \in [1 .. n -> ScopeType] /\ n \in 1 .. n
    <3>1. PICK sc : sc = scopes
      OBVIOUS
    <3>2. sc \in Seq(ScopeType) /\ sc # <<>>
      BY <1>1, <1>4, <3>1
    <3>3. Len(sc) \in Nat \ {0} /\ sc \in [1 .. Len(sc) -> ScopeType]
      BY <3>2
    <3> QED BY <2>1, <3>1, <3>3
  <2>3. /\ scopes' \in Seq(ScopeType) /\ \A i \in 1 .. n : i # n => scopes'[i] = scopes[i]
        /\ scopes'[n] = [scopes[n] EXCEPT !.access = AccessOf(l)] /\ DOMAIN scopes' = 1 .. n
    BY <1>1, <1>7, <2>1, <2>2 DEF Ready
  <2>4. Len(scopes') = n
    BY <2>2, <2>3
  <2>5. \A i \in 1 .. n : scopes'[i].keyword = scopes[i].keyword
    <3>1. scopes'[n].keyword = scopes[n].keyword
      <4>1. scopes[n] \in ScopeType
        BY <2>2
      <4> QED BY <2>3, <4>1 DEF ScopeType
    <3> QED BY <2>3, <3>1
  <2>6. PICK m \in 0 .. n : \A i \in 1 .. n : IsTypeScope(scopes[i]) <=> m < i
    BY <1>4, <2>1 DEF NamespacesFirst
  <2>7. \A i \in 1 .. n : IsTypeScope(scopes'[i]) <=> m < i
    BY <2>5, <2>6 DEF IsTypeScope
  <2> QED BY <2>4, <2>7 DEF NamespacesFirst
<1> HIDE DEF c
<1> QED BY <1>1, <1>2, <1>3, <1>4, <1>7, <1>8, WriteKeeps

LEMMA WrittenBegins == WriterInit => WrittenInv
<1> SUFFICES ASSUME WriterInit PROVE WrittenInv
  OBVIOUS
<1>1. tokens = <<>> /\ scopes = <<>> /\ types = 0 /\ declared = {}
  BY DEF WriterInit
<1>2. Len(tokens) = 0 /\ tokens \in Seq(Words) /\ scopes \in Seq(ScopeType) /\ Len(scopes) = 0
  BY <1>1
<1>3. Walk(tokens)[0] = [depth |-> 0, stack |-> <<>>]
  BY <1>2, WalkSteps
<1>4. StackOf(scopes) = <<>>
  <2>1. 1 .. Len(scopes) = {}
    BY <1>2
  <2>2. StackOf(scopes) \in Seq(StackType) /\ Len(StackOf(scopes)) = 0
    BY <1>2, StackFacts
  <2> QED BY <2>2
<1>5. Within(scopes) = Walk(tokens)[0]
  BY <1>2, <1>3, <1>4 DEF Within
<1>6. \A i : NoneWaits(tokens, 0, i)
  BY DEF NoneWaits
<1>7. Ready(tokens, Len(tokens), scopes)
  BY <1>2, <1>5, <1>6 DEF Ready
<1>8. NamespacesFirst(scopes)
  BY <1>2 DEF NamespacesFirst
<1>9. Docs(tokens) = {}
  BY <1>2 DEF Docs
<1>10. types \in 0 .. Len(Types)
  BY <1>1, TypesAssumption
<1> QED BY <1>1, <1>7, <1>8, <1>9, <1>10 DEF WrittenInv

LEMMA WrittenKeeps == WrittenInv /\ [WriterNext]_declaration => WrittenInv'
<1> SUFFICES ASSUME WrittenInv, [WriterNext]_declaration PROVE WrittenInv'
  OBVIOUS
<1>1. CASE OpenNamespace
  BY <1>1, OpenNamespaceKeeps
<1>2. CASE CloseScope
  BY <1>2, CloseScopeKeeps
<1>3. CASE \E k \in TypeKeywords, d \in BOOLEAN : OpenType(k, d)
  BY <1>3, OpenTypeKeeps
<1>4. CASE \E l \in Labels : Label(l)
  BY <1>4, LabelKeeps
<1>5. CASE DeclareFunction
  BY <1>5, DeclareFunctionKeeps
<1>6. CASE DefineFunction
  BY <1>6, DefineFunctionKeeps
<1>7. CASE DeclareEnum
  BY <1>7, DeclareEnumKeeps
<1>8. CASE DeclareAlias
  BY <1>8, DeclareAliasKeeps
<1>9. CASE DeclareConstant
  BY <1>9, DeclareConstantKeeps
<1>10. CASE DeclareData
  BY <1>10, DeclareDataKeeps
<1>11. CASE UNCHANGED declaration
  <2>1. tokens' = tokens /\ scopes' = scopes /\ types' = types /\ declared' = declared
    BY <1>11 DEF declaration
  <2> QED BY <2>1 DEF WrittenInv
<1> QED BY <1>1, <1>2, <1>3, <1>4, <1>5, <1>6, <1>7, <1>8, <1>9, <1>10, <1>11 DEF WriterNext

LEMMA WrittenIsTold == WrittenInv => EntitiesAsWritten
<1> SUFFICES ASSUME WrittenInv PROVE Entities(tokens) = {d \in declared : d.access = "public"}
  BY DEF EntitiesAsWritten
<1>1. declared = {EntityAt(tokens, a) : a \in Docs(tokens)} /\ \A d \in declared : d.kind # "none"
  BY DEF WrittenInv
<1>2. Entities(tokens) = {e \in declared : e.kind # "none" /\ e.access = "public"}
  BY <1>1 DEF Entities, Docs
<1> QED BY <1>1, <1>2

(* A file's entities are what its writer documents and what is public      *)
(* where it stands, each with its kind, its name, its namespaces and its   *)
(* innermost type: nothing that stands in a nested type, a body, an        *)
(* initialiser or a parameter list is taken for a scope or for the         *)
(* declaration, however the file goes on (parse_file, _scopes_at,          *)
(* _member_access_at, _declaration_after and classify).                    *)
THEOREM EntitiesAlwaysAsWritten == WriterSpec => []EntitiesAsWritten
<1>1. WriterInit => WrittenInv
  BY WrittenBegins
<1>2. WrittenInv /\ [WriterNext]_declaration => WrittenInv'
  BY WrittenKeeps
<1>3. WrittenInv => EntitiesAsWritten
  BY WrittenIsTold
<1> QED BY <1>1, <1>2, <1>3, PTL DEF WriterSpec

-----------------------------------------------------------------------------
(* The body of a type: its braces counted and its statements read.         *)

BracesTo(f, ts, from, n) ==
    f = [i \in from - 1 .. n |-> IF i = from - 1 THEN 0 ELSE WithBrace(f[i - 1], ts[i])]

LEMMA BraceSteps ==
    ASSUME NEW ts, Len(ts) \in Nat, NEW from \in Nat \ {0}, from - 1 <= Len(ts)
    PROVE  /\ BraceDepth(ts, from)[from - 1] = 0
           /\ \A i \in from .. Len(ts) : BraceDepth(ts, from)[i] = WithBrace(BraceDepth(ts, from)[i - 1], ts[i])
<1> DEFINE S == {n \in Nat : \E f : BracesTo(f, ts, from, from - 1 + n)}
<1>1. 0 \in S
  <2> DEFINE f == [i \in from - 1 .. from - 1 + 0 |-> 0]
  <2>1. \A i \in from - 1 .. from - 1 + 0 : i = from - 1
    OBVIOUS
  <2>2. BracesTo(f, ts, from, from - 1 + 0)
    BY <2>1 DEF BracesTo
  <2> QED BY <2>2
<1>2. ASSUME NEW n \in S PROVE n + 1 \in S
  <2>1. PICK f : BracesTo(f, ts, from, from - 1 + n)
    OBVIOUS
  <2>2. PICK m \in Nat : m = from - 1 + n
    OBVIOUS
  <2> DEFINE next == WithBrace(f[m], ts[m + 1])
             g == [i \in from - 1 .. m + 1 |-> IF i = m + 1 THEN next ELSE f[i]]
  <2>3. ASSUME NEW i \in from - 1 .. m + 1
        PROVE  g[i] = IF i = from - 1 THEN 0 ELSE WithBrace(g[i - 1], ts[i])
    <3>1. CASE i = m + 1
      <4>1. g[i - 1] = f[m] /\ g[i] = next /\ i # from - 1
        BY <2>2, <3>1
      <4> QED BY <3>1, <4>1
    <3>2. CASE i # m + 1
      <4>1. i \in from - 1 .. m /\ i - 1 # m + 1 /\ (i # from - 1 => i - 1 \in from - 1 .. m + 1)
        BY <2>2, <3>2
      <4>2. g[i] = f[i] /\ (i # from - 1 => g[i - 1] = f[i - 1])
        BY <3>2, <4>1
      <4>3. f[i] = IF i = from - 1 THEN 0 ELSE WithBrace(f[i - 1], ts[i])
        BY <2>1, <2>2, <4>1 DEF BracesTo
      <4> HIDE DEF g
      <4> QED BY <4>2, <4>3
    <3> QED BY <3>1, <3>2
  <2>4. g = [i \in from - 1 .. m + 1 |-> g[i]]
    OBVIOUS
  <2> HIDE DEF g
  <2>5. g = [i \in from - 1 .. m + 1 |-> IF i = from - 1 THEN 0 ELSE WithBrace(g[i - 1], ts[i])]
    BY <2>3, <2>4
  <2>6. BracesTo(g, ts, from, m + 1)
    BY <2>5 DEF BracesTo
  <2>7. m + 1 = from - 1 + (n + 1) /\ n + 1 \in Nat
    BY <2>2
  <2> QED BY <2>6, <2>7
<1>3. S = Nat
  <2> HIDE DEF S
  <2>1. S \in SUBSET Nat
    BY DEF S
  <2> QED BY <1>1, <1>2, <2>1, Induction
<1>4. \E f : BracesTo(f, ts, from, Len(ts))
  <2>1. Len(ts) - (from - 1) \in Nat /\ from - 1 + (Len(ts) - (from - 1)) = Len(ts)
    OBVIOUS
  <2>2. Len(ts) - (from - 1) \in S
    BY <1>3, <2>1
  <2> QED BY <2>1, <2>2
<1>5. BracesTo(BraceDepth(ts, from), ts, from, Len(ts))
  BY <1>4 DEF BraceDepth, BracesTo
<1> HIDE DEF BraceDepth
<1>6. \A i \in from - 1 .. Len(ts) :
          BraceDepth(ts, from)[i] = IF i = from - 1 THEN 0 ELSE WithBrace(BraceDepth(ts, from)[i - 1], ts[i])
  BY <1>5 DEF BracesTo
<1>7. from - 1 \in from - 1 .. Len(ts) /\ \A i \in from .. Len(ts) : i \in from - 1 .. Len(ts) /\ i # from - 1
  OBVIOUS
<1> QED BY <1>6, <1>7

Unread(default) == [access |-> default, statement |-> {}, fields |-> {}]

ParsesTo(f, ts, from, default, n) ==
    f = [i \in from - 1 .. n |-> IF i = from - 1 THEN Unread(default) ELSE ReadInto(ts, from, f[i - 1], i)]

LEMMA ParseSteps ==
    ASSUME NEW ts, Len(ts) \in Nat, NEW from \in Nat \ {0}, from - 1 <= Len(ts), NEW default
    PROVE  /\ Parsed(ts, from, default)[from - 1] = Unread(default)
           /\ \A i \in from .. Len(ts) :
                 Parsed(ts, from, default)[i] = ReadInto(ts, from, Parsed(ts, from, default)[i - 1], i)
<1> DEFINE S == {n \in Nat : \E f : ParsesTo(f, ts, from, default, from - 1 + n)}
<1>1. 0 \in S
  <2> DEFINE f == [i \in from - 1 .. from - 1 + 0 |-> Unread(default)]
  <2>1. \A i \in from - 1 .. from - 1 + 0 : i = from - 1
    OBVIOUS
  <2>2. ParsesTo(f, ts, from, default, from - 1 + 0)
    BY <2>1 DEF ParsesTo
  <2> QED BY <2>2
<1>2. ASSUME NEW n \in S PROVE n + 1 \in S
  <2>1. PICK f : ParsesTo(f, ts, from, default, from - 1 + n)
    OBVIOUS
  <2>2. PICK m \in Nat : m = from - 1 + n
    OBVIOUS
  <2> DEFINE next == ReadInto(ts, from, f[m], m + 1)
             g == [i \in from - 1 .. m + 1 |-> IF i = m + 1 THEN next ELSE f[i]]
  <2>3. ASSUME NEW i \in from - 1 .. m + 1
        PROVE  g[i] = IF i = from - 1 THEN Unread(default) ELSE ReadInto(ts, from, g[i - 1], i)
    <3>1. CASE i = m + 1
      <4>1. g[i - 1] = f[m] /\ g[i] = next /\ i # from - 1
        BY <2>2, <3>1
      <4> QED BY <3>1, <4>1
    <3>2. CASE i # m + 1
      <4>1. i \in from - 1 .. m /\ i - 1 # m + 1 /\ (i # from - 1 => i - 1 \in from - 1 .. m + 1)
        BY <2>2, <3>2
      <4>2. g[i] = f[i] /\ (i # from - 1 => g[i - 1] = f[i - 1])
        BY <3>2, <4>1
      <4>3. f[i] = IF i = from - 1 THEN Unread(default) ELSE ReadInto(ts, from, f[i - 1], i)
        BY <2>1, <2>2, <4>1 DEF ParsesTo
      <4> HIDE DEF g
      <4> QED BY <4>2, <4>3
    <3> QED BY <3>1, <3>2
  <2>4. g = [i \in from - 1 .. m + 1 |-> g[i]]
    OBVIOUS
  <2> HIDE DEF g
  <2>5. g = [i \in from - 1 .. m + 1 |-> IF i = from - 1 THEN Unread(default) ELSE ReadInto(ts, from, g[i - 1], i)]
    BY <2>3, <2>4
  <2>6. ParsesTo(g, ts, from, default, m + 1)
    BY <2>5 DEF ParsesTo
  <2>7. m + 1 = from - 1 + (n + 1) /\ n + 1 \in Nat
    BY <2>2
  <2> QED BY <2>6, <2>7
<1>3. S = Nat
  <2> HIDE DEF S
  <2>1. S \in SUBSET Nat
    BY DEF S
  <2> QED BY <1>1, <1>2, <2>1, Induction
<1>4. \E f : ParsesTo(f, ts, from, default, Len(ts))
  <2>1. Len(ts) - (from - 1) \in Nat /\ from - 1 + (Len(ts) - (from - 1)) = Len(ts)
    OBVIOUS
  <2>2. Len(ts) - (from - 1) \in S
    BY <1>3, <2>1
  <2> QED BY <2>1, <2>2
<1>5. ParsesTo(Parsed(ts, from, default), ts, from, default, Len(ts))
  BY <1>4 DEF Parsed, ParsesTo, Unread
<1> HIDE DEF Parsed
<1>6. \A i \in from - 1 .. Len(ts) :
          Parsed(ts, from, default)[i] =
              IF i = from - 1 THEN Unread(default) ELSE ReadInto(ts, from, Parsed(ts, from, default)[i - 1], i)
  BY <1>5 DEF ParsesTo
<1>7. from - 1 \in from - 1 .. Len(ts) /\ \A i \in from .. Len(ts) : i \in from - 1 .. Len(ts) /\ i # from - 1
  OBVIOUS
<1> QED BY <1>6, <1>7

Braces == {Opening, Closing}

(* The braces counted, one token at a time.                                *)
LEMMA BracesAre ==
    ASSUME NEW ts, Len(ts) \in Nat, NEW from \in Nat \ {0}, from - 1 <= Len(ts)
    PROVE  /\ BraceDepth(ts, from)[from - 1] = 0
           /\ \A i \in from .. Len(ts) :
                 /\ ts[i] \notin Braces => BraceDepth(ts, from)[i] = BraceDepth(ts, from)[i - 1]
                 /\ ts[i] = Opening => BraceDepth(ts, from)[i] = BraceDepth(ts, from)[i - 1] + 1
                 /\ ts[i] = Closing => BraceDepth(ts, from)[i] = BraceDepth(ts, from)[i - 1] - 1
<1>1. Opening # Closing
  BY TokensDiffer
<1>2. \A depth, w : /\ w \notin Braces => WithBrace(depth, w) = depth
                    /\ w = Opening => WithBrace(depth, w) = depth + 1
                    /\ w = Closing => WithBrace(depth, w) = depth - 1
  BY <1>1 DEF WithBrace, Braces
<1> QED BY <1>2, BraceSteps

LEMMA BraceType ==
    ASSUME NEW ts, Len(ts) \in Nat, NEW from \in Nat \ {0}, from - 1 <= Len(ts)
    PROVE  \A i \in from - 1 .. Len(ts) : BraceDepth(ts, from)[i] \in Int
<1>1. PICK depth : depth = BraceDepth(ts, from)
  OBVIOUS
<1>2. /\ depth[from - 1] = 0
      /\ \A i \in from .. Len(ts) : /\ ts[i] \notin Braces => depth[i] = depth[i - 1]
                                    /\ ts[i] = Opening => depth[i] = depth[i - 1] + 1
                                    /\ ts[i] = Closing => depth[i] = depth[i - 1] - 1
  BY <1>1, BracesAre
<1> DEFINE S == {n \in Nat : from - 1 + n <= Len(ts) => depth[from - 1 + n] \in Int}
<1>3. 0 \in S
  BY <1>2
<1>4. ASSUME NEW n \in S PROVE n + 1 \in S
  <2>1. PICK i : i = from + n
    OBVIOUS
  <2> SUFFICES ASSUME i <= Len(ts) PROVE depth[i] \in Int
    BY <2>1
  <2>2. i \in from .. Len(ts) /\ i - 1 = from - 1 + n /\ n \in Nat
    BY <2>1
  <2>3. depth[i - 1] \in Int
    BY <2>2
  <2> HIDE DEF S
  <2> QED BY <1>2, <2>2, <2>3 DEF Braces
<1>5. S = Nat
  <2> HIDE DEF S
  <2>1. S \in SUBSET Nat
    BY DEF S
  <2> QED BY <1>3, <1>4, <2>1, Induction
<1>6. ASSUME NEW i \in from - 1 .. Len(ts) PROVE depth[i] \in Int
  <2>1. i - (from - 1) \in Nat /\ from - 1 + (i - (from - 1)) = i
    OBVIOUS
  <2>2. i - (from - 1) \in S
    BY <1>5, <2>1
  <2> QED BY <2>1, <2>2
<1> QED BY <1>1, <1>6

(* Where no brace stands, none opens.                                      *)
LEMMA FlatRun ==
    ASSUME NEW us, Len(us) \in Nat, NEW from \in Nat \ {0}, NEW p \in Nat, from - 1 <= p, NEW q \in p .. Len(us),
           \A i \in p + 1 .. q : us[i] \notin Braces
    PROVE  \A i \in p .. q : BraceDepth(us, from)[i] = BraceDepth(us, from)[p]
<1>1. PICK depth : depth = BraceDepth(us, from)
  OBVIOUS
<1>2. \A i \in from .. Len(us) : us[i] \notin Braces => depth[i] = depth[i - 1]
  BY <1>1, BracesAre
<1> DEFINE S == {n \in Nat : p + n <= q => depth[p + n] = depth[p]}
<1>3. 0 \in S
  OBVIOUS
<1>4. ASSUME NEW n \in S PROVE n + 1 \in S
  <2>1. PICK i : i = p + (n + 1)
    OBVIOUS
  <2> SUFFICES ASSUME i <= q PROVE depth[i] = depth[p]
    BY <2>1
  <2>2. i \in from .. Len(us) /\ i \in p + 1 .. q /\ i - 1 = p + n
    BY <2>1
  <2>3. depth[i - 1] = depth[p]
    BY <2>2
  <2> HIDE DEF S
  <2> QED BY <1>2, <2>2, <2>3
<1>5. S = Nat
  <2> HIDE DEF S
  <2>1. S \in SUBSET Nat
    BY DEF S
  <2> QED BY <1>3, <1>4, <2>1, Induction
<1>6. ASSUME NEW i \in p .. q PROVE depth[i] = depth[p]
  <2>1. i - p \in Nat /\ p + (i - p) = i
    OBVIOUS
  <2>2. i - p \in S
    BY <1>5, <2>1
  <2> QED BY <2>1, <2>2
<1> QED BY <1>1, <1>6

(* The reading of a token, by what it is.                                  *)
ReadAs(us, from, s, i, r) ==
    /\ us[i] \in Braces \/ BraceDepth(us, from)[i] # 0 => r = s
    /\ us[i] \notin Braces /\ BraceDepth(us, from)[i] = 0 /\ us[i] = Semicolon => r = EndStatement(us, s)
    /\ us[i] \notin Braces /\ BraceDepth(us, from)[i] = 0 /\ us[i] # Semicolon
          => r = [s EXCEPT !.statement = @ \union {i}]

LEMMA ReadIs ==
    ASSUME NEW us, Len(us) \in Nat, NEW from \in Nat \ {0}, from - 1 <= Len(us), NEW default
    PROVE  \A i \in from .. Len(us) :
              ReadAs(us, from, Parsed(us, from, default)[i - 1], i, Parsed(us, from, default)[i])
<1> SUFFICES ASSUME NEW i \in from .. Len(us)
             PROVE  ReadAs(us, from, Parsed(us, from, default)[i - 1], i, Parsed(us, from, default)[i])
  OBVIOUS
<1>1. PICK s, r : s = Parsed(us, from, default)[i - 1] /\ r = Parsed(us, from, default)[i]
  OBVIOUS
<1>2. r = ReadInto(us, from, s, i)
  BY <1>1, ParseSteps
<1>3. i \in WithoutNestedBlocks(us, from) <=> us[i] \notin Braces /\ BraceDepth(us, from)[i] = 0
  BY DEF WithoutNestedBlocks, Braces
<1>4. i \notin WithoutNestedBlocks(us, from) => r = s
  BY <1>2 DEF ReadInto
<1>5. i \in WithoutNestedBlocks(us, from) /\ us[i] = Semicolon => r = EndStatement(us, s)
  BY <1>2 DEF ReadInto
<1>6. i \in WithoutNestedBlocks(us, from) /\ us[i] # Semicolon => r = [s EXCEPT !.statement = @ \union {i}]
  BY <1>2 DEF ReadInto
<1>7. ReadAs(us, from, s, i, r)
  BY <1>3, <1>4, <1>5, <1>6 DEF ReadAs
<1> QED BY <1>1, <1>7

(* What stands between inner braces is not read.                           *)
LEMMA HiddenRun ==
    ASSUME NEW us, Len(us) \in Nat, NEW from \in Nat \ {0}, NEW default,
           NEW p \in Nat, from - 1 <= p, NEW q \in p .. Len(us),
           \A i \in p + 1 .. q : us[i] \in Braces \/ BraceDepth(us, from)[i] # 0
    PROVE  Parsed(us, from, default)[q] = Parsed(us, from, default)[p]
<1>1. PICK st : st = Parsed(us, from, default)
  OBVIOUS
<1>2. ASSUME NEW i \in p + 1 .. q PROVE st[i] = st[i - 1]
  <2>1. i \in from .. Len(us) /\ from - 1 <= Len(us)
    OBVIOUS
  <2>2. ReadAs(us, from, st[i - 1], i, st[i])
    BY <1>1, <2>1, ReadIs
  <2>3. us[i] \in Braces \/ BraceDepth(us, from)[i] # 0
    OBVIOUS
  <2> QED BY <2>2, <2>3 DEF ReadAs
<1> DEFINE S == {n \in Nat : p + n <= q => st[p + n] = st[p]}
<1>3. 0 \in S
  OBVIOUS
<1>4. ASSUME NEW n \in S PROVE n + 1 \in S
  <2>1. PICK i : i = p + (n + 1)
    OBVIOUS
  <2> SUFFICES ASSUME i <= q PROVE st[i] = st[p]
    BY <2>1
  <2>2. i \in p + 1 .. q /\ i - 1 = p + n
    BY <2>1
  <2>3. st[i - 1] = st[p]
    BY <2>2
  <2> HIDE DEF S
  <2> QED BY <1>2, <2>2, <2>3
<1>5. S = Nat
  <2> HIDE DEF S
  <2>1. S \in SUBSET Nat
    BY DEF S
  <2> QED BY <1>3, <1>4, <2>1, Induction
<1>6. q - p \in Nat /\ p + (q - p) = q
  OBVIOUS
<1>7. q - p \in S
  BY <1>5, <1>6
<1> QED BY <1>1, <1>6, <1>7

(* What is known at a place is an access, a statement of the places before *)
(* it, and fields.                                                         *)
KnownAt(s, from, i) ==
    s = [access |-> s.access, statement |-> s.statement, fields |-> s.fields] /\ s.statement \subseteq from .. i

LEMMA ParsedIsKnown ==
    ASSUME NEW us, Len(us) \in Nat, NEW from \in Nat \ {0}, from - 1 <= Len(us), NEW default
    PROVE  \A i \in from - 1 .. Len(us) : KnownAt(Parsed(us, from, default)[i], from, i)
<1>1. PICK st : st = Parsed(us, from, default)
  OBVIOUS
<1>2. st[from - 1] = Unread(default) /\ \A i \in from .. Len(us) : ReadAs(us, from, st[i - 1], i, st[i])
  BY <1>1, ParseSteps, ReadIs
<1> DEFINE S == {n \in Nat : from - 1 + n <= Len(us) => KnownAt(st[from - 1 + n], from, from - 1 + n)}
<1>3. 0 \in S
  <2>1. KnownAt(st[from - 1], from, from - 1)
    BY <1>2 DEF KnownAt, Unread
  <2> QED BY <2>1
<1>4. ASSUME NEW n \in S PROVE n + 1 \in S
  <2>1. PICK i : i = from + n
    OBVIOUS
  <2>2. n \in Nat /\ i \in Nat /\ i - 1 = from - 1 + n /\ i = from - 1 + (n + 1)
    BY <2>1
  <2> SUFFICES ASSUME i <= Len(us) PROVE KnownAt(st[i], from, i)
    BY <2>2
  <2>3. i \in from .. Len(us) /\ from .. i - 1 \subseteq from .. i /\ i \in from .. i
    BY <2>1, <2>2
  <2>4. KnownAt(st[i - 1], from, i - 1)
    BY <2>2, <2>3
  <2>5. ReadAs(us, from, st[i - 1], i, st[i])
    BY <1>2, <2>3
  <2> HIDE DEF S
  <2>6. PICK s, r : s = st[i - 1] /\ r = st[i]
    OBVIOUS
  <2>7. KnownAt(s, from, i)
    BY <2>3, <2>4, <2>6 DEF KnownAt
  <2>8. CASE r = s
    BY <2>6, <2>7, <2>8
  <2>9. CASE r = EndStatement(us, s)
    <3>1. /\ r = [access |-> r.access, statement |-> r.statement, fields |-> r.fields]
          /\ r.statement = {}
      BY <2>9 DEF EndStatement
    <3> QED BY <2>6, <3>1 DEF KnownAt
  <2>10. CASE r = [s EXCEPT !.statement = @ \union {i}]
    <3>1. s = [access |-> s.access, statement |-> s.statement, fields |-> s.fields] /\ s.statement \subseteq from .. i
      BY <2>7 DEF KnownAt
    <3>2. r = [access |-> s.access, statement |-> s.statement \union {i}, fields |-> s.fields]
      BY <2>10, <3>1
    <3>3. r.statement \subseteq from .. i
      BY <2>3, <3>1, <3>2
    <3> QED BY <2>6, <3>2, <3>3 DEF KnownAt
  <2> QED BY <2>5, <2>6, <2>8, <2>9, <2>10 DEF ReadAs
<1>5. S = Nat
  <2> HIDE DEF S
  <2>1. S \in SUBSET Nat
    BY DEF S
  <2> QED BY <1>3, <1>4, <2>1, Induction
<1>6. ASSUME NEW i \in from - 1 .. Len(us) PROVE KnownAt(st[i], from, i)
  <2>1. i - (from - 1) \in Nat /\ from - 1 + (i - (from - 1)) = i
    OBVIOUS
  <2>2. i - (from - 1) \in S
    BY <1>5, <2>1
  <2> QED BY <2>1, <2>2
<1> QED BY <1>1, <1>6

(* The statement goes on.                                                  *)
Taking(s, N) == [access |-> s.access, statement |-> s.statement \union N, fields |-> s.fields]

LEMMA PlainRunRead ==
    ASSUME NEW us, Len(us) \in Nat, NEW from \in Nat \ {0}, NEW default,
           NEW p \in Nat, from - 1 <= p, NEW q \in p .. Len(us), BraceDepth(us, from)[p] = 0,
           \A i \in p + 1 .. q : us[i] \notin Braces /\ us[i] # Semicolon
    PROVE  Parsed(us, from, default)[q] = Taking(Parsed(us, from, default)[p], p + 1 .. q)
<1>1. PICK st : st = Parsed(us, from, default)
  OBVIOUS
<1>2. \A i \in p .. q : BraceDepth(us, from)[i] = 0
  <2>1. \A i \in p + 1 .. q : us[i] \notin Braces
    OBVIOUS
  <2>2. \A i \in p .. q : BraceDepth(us, from)[i] = BraceDepth(us, from)[p]
    BY <2>1, FlatRun
  <2> QED BY <2>2
<1>3. /\ \A i \in from .. Len(us) : ReadAs(us, from, st[i - 1], i, st[i])
      /\ KnownAt(st[p], from, p)
  <2>1. from - 1 <= Len(us) /\ p \in from - 1 .. Len(us)
    OBVIOUS
  <2> QED BY <1>1, <2>1, ReadIs, ParsedIsKnown
<1> DEFINE S == {n \in Nat : p + n <= q => st[p + n] = Taking(st[p], p + 1 .. p + n)}
<1>4. 0 \in S
  <2>1. p + 1 .. p + 0 = {}
    OBVIOUS
  <2>2. st[p] = Taking(st[p], {})
    BY <1>3 DEF KnownAt, Taking
  <2> QED BY <2>1, <2>2
<1>5. ASSUME NEW n \in S PROVE n + 1 \in S
  <2>1. PICK i : i = p + (n + 1)
    OBVIOUS
  <2>2. n \in Nat /\ i \in Nat /\ i - 1 = p + n
    BY <2>1
  <2> SUFFICES ASSUME i <= q PROVE st[i] = Taking(st[p], p + 1 .. i)
    BY <2>1
  <2>3. i \in from .. Len(us) /\ i \in p + 1 .. q /\ i \in p .. q
    BY <2>1, <2>2
  <2>4. st[i - 1] = Taking(st[p], p + 1 .. i - 1)
    BY <2>2
  <2>5. st[i] = [st[i - 1] EXCEPT !.statement = @ \union {i}]
    <3>1. ReadAs(us, from, st[i - 1], i, st[i])
      BY <1>3, <2>3
    <3>2. us[i] \notin Braces /\ us[i] # Semicolon /\ BraceDepth(us, from)[i] = 0
      BY <1>2, <2>3
    <3> QED BY <3>1, <3>2 DEF ReadAs
  <2>6. PICK N : N = p + 1 .. i - 1
    OBVIOUS
  <2>7. p + 1 .. i = N \union {i}
    BY <2>2, <2>3, <2>6
  <2> HIDE DEF S
  <2>8. st[i] = [access |-> st[p].access, statement |-> (st[p].statement \union N) \union {i}, fields |-> st[p].fields]
    <3>1. PICK s, r : s = st[i - 1] /\ r = st[p]
      OBVIOUS
    <3>2. s = [access |-> r.access, statement |-> r.statement \union N, fields |-> r.fields]
      BY <2>4, <2>6, <3>1 DEF Taking
    <3>3. st[i] = [s EXCEPT !.statement = s.statement \union {i}]
      BY <2>5, <3>1
    <3>4. st[i] = [access |-> r.access, statement |-> (r.statement \union N) \union {i}, fields |-> r.fields]
      BY <3>2, <3>3
    <3> QED BY <3>1, <3>4
  <2>9. (st[p].statement \union N) \union {i} = st[p].statement \union (N \union {i})
    OBVIOUS
  <2> QED BY <2>7, <2>8, <2>9 DEF Taking
<1>6. S = Nat
  <2> HIDE DEF S
  <2>1. S \in SUBSET Nat
    BY DEF S
  <2> QED BY <1>4, <1>5, <2>1, Induction
<1>7. q - p \in Nat /\ p + (q - p) = q
  OBVIOUS
<1>8. q - p \in S
  BY <1>6, <1>7
<1> QED BY <1>1, <1>7, <1>8

(* A body or an initialiser between braces, or nothing.                    *)
BodyTail(us, w, b) ==
    \/ b = w
    \/ /\ w + 2 <= b /\ us[w + 1] = Opening /\ us[b] = Closing
       /\ \A i \in w + 2 .. b - 1 : us[i] \notin Braces

LEMMA TailHidden ==
    ASSUME NEW us, Len(us) \in Nat, NEW from \in Nat \ {0}, NEW default,
           NEW w \in Nat, from - 1 <= w, NEW b \in w .. Len(us), BodyTail(us, w, b), BraceDepth(us, from)[w] >= 0
    PROVE  /\ BraceDepth(us, from)[b] = BraceDepth(us, from)[w]
           /\ \A i \in w .. b : BraceDepth(us, from)[i] >= BraceDepth(us, from)[w]
           /\ Parsed(us, from, default)[b] = Parsed(us, from, default)[w]
<1>1. PICK depth : depth = BraceDepth(us, from)
  OBVIOUS
<1>2. from - 1 <= Len(us) /\ w \in from - 1 .. Len(us)
  OBVIOUS
<1>3. depth[w] \in Int
  BY <1>1, <1>2, BraceType
<1>4. CASE b = w
  BY <1>1, <1>3, <1>4
<1>5. CASE b # w
  <2>1. /\ w + 2 <= b /\ us[w + 1] = Opening /\ us[b] = Closing
        /\ \A i \in w + 2 .. b - 1 : us[i] \notin Braces
    BY <1>5 DEF BodyTail
  <2>2. depth[w + 1] = depth[w] + 1
    <3>1. w + 1 \in from .. Len(us) /\ (w + 1) - 1 = w
      BY <2>1
    <3> QED BY <1>1, <1>2, <2>1, <3>1, BracesAre
  <2>3. \A i \in w + 1 .. b - 1 : depth[i] = depth[w + 1]
    <3>1. PICK m : m = w + 1
      OBVIOUS
    <3>2. m \in Nat /\ from - 1 <= m /\ b - 1 \in m .. Len(us) /\ \A i \in m + 1 .. b - 1 : us[i] \notin Braces
      BY <2>1, <3>1
    <3>3. \A i \in m .. b - 1 : BraceDepth(us, from)[i] = BraceDepth(us, from)[m]
      BY <3>2, FlatRun
    <3> QED BY <1>1, <3>1, <3>3
  <2>4. depth[b] = depth[w]
    <3>1. b \in from .. Len(us) /\ b - 1 \in w + 1 .. b - 1
      BY <2>1
    <3>2. depth[b] = depth[b - 1] - 1
      BY <1>1, <1>2, <2>1, <3>1, BracesAre
    <3> QED BY <1>3, <2>2, <2>3, <3>1, <3>2
  <2>5. \A i \in w .. b : depth[i] >= depth[w]
    <3>1. \A i \in w .. b : i = w \/ i \in w + 1 .. b - 1 \/ i = b
      BY <2>1
    <3> QED BY <1>3, <2>2, <2>3, <2>4, <3>1
  <2>6. \A i \in w + 1 .. b : us[i] \in Braces \/ depth[i] # 0
    <3>1. \A i \in w + 1 .. b : i \in w + 1 .. b - 1 \/ i = b
      BY <2>1
    <3>2. \A i \in w + 1 .. b - 1 : depth[i] # 0
      BY <1>1, <1>3, <2>2, <2>3
    <3>3. us[b] \in Braces
      BY <2>1 DEF Braces
    <3> QED BY <3>1, <3>2, <3>3
  <2>7. Parsed(us, from, default)[b] = Parsed(us, from, default)[w]
    BY <1>1, <2>6, HiddenRun
  <2> QED BY <1>1, <2>4, <2>5, <2>7
<1> QED BY <1>4, <1>5

LEMMA LastIn ==
    ASSUME NEW b \in Nat, NEW S \in SUBSET (1 .. b), S # {}
    PROVE  LastAt(S) \in S /\ \A j \in S : j <= LastAt(S)
<1> DEFINE T == {k \in Nat : b - k \in S}
<1>1. T # {}
  <2>1. PICK i \in S : TRUE
    OBVIOUS
  <2>2. b - i \in Nat /\ b - (b - i) = i
    OBVIOUS
  <2> QED BY <2>1, <2>2
<1>2. PICK k \in T : \A j \in T : k <= j
  <2>1. T \in SUBSET Nat
    OBVIOUS
  <2> HIDE DEF T
  <2> QED BY <1>1, <2>1, LeastMember
<1>3. b - k \in S
  OBVIOUS
<1>4. \A j \in S : j <= b - k
  <2> SUFFICES ASSUME NEW j \in S PROVE j <= b - k
    OBVIOUS
  <2>1. b - j \in Nat /\ b - (b - j) = j
    OBVIOUS
  <2>2. b - j \in T
    BY <2>1
  <2> HIDE DEF T
  <2>3. k <= b - j /\ k \in Nat
    BY <1>2, <2>2 DEF T
  <2> QED BY <2>1, <2>3
<1> HIDE DEF T
<1>5. S \in SUBSET Int
  OBVIOUS
<1>6. LastAt(S) = b - k
  BY <1>3, <1>4, <1>5, LastIs
<1> QED BY <1>3, <1>4, <1>6

(* What is read of a file's beginning does not depend on the rest.         *)
LEMMA SameBraces ==
    ASSUME NEW ts, NEW us, GoesOn(ts, us), NEW from \in Nat \ {0}, from - 1 <= Len(ts)
    PROVE  \A i \in from - 1 .. Len(ts) : BraceDepth(us, from)[i] = BraceDepth(ts, from)[i]
<1>1. /\ Len(ts) \in Nat /\ Len(us) \in Nat /\ Len(ts) <= Len(us) /\ from - 1 <= Len(us)
      /\ \A i \in 1 .. Len(ts) : us[i] = ts[i]
  BY DEF GoesOn
<1>2. PICK d, e : d = BraceDepth(ts, from) /\ e = BraceDepth(us, from)
  OBVIOUS
<1>3. /\ d[from - 1] = 0 /\ e[from - 1] = 0
      /\ \A i \in from .. Len(ts) : d[i] = WithBrace(d[i - 1], ts[i])
      /\ \A i \in from .. Len(us) : e[i] = WithBrace(e[i - 1], us[i])
  BY <1>1, <1>2, BraceSteps
<1> DEFINE S == {n \in Nat : from - 1 + n <= Len(ts) => e[from - 1 + n] = d[from - 1 + n]}
<1>4. 0 \in S
  BY <1>3
<1>5. ASSUME NEW n \in S PROVE n + 1 \in S
  <2>1. PICK i : i = from + n
    OBVIOUS
  <2>2. n \in Nat /\ i \in Nat /\ i - 1 = from - 1 + n /\ i = from - 1 + (n + 1)
    BY <2>1
  <2> SUFFICES ASSUME i <= Len(ts) PROVE e[i] = d[i]
    BY <2>2
  <2>3. i \in from .. Len(ts) /\ i \in from .. Len(us) /\ i \in 1 .. Len(ts)
    BY <1>1, <2>1, <2>2
  <2>4. e[i - 1] = d[i - 1]
    BY <2>2, <2>3
  <2> HIDE DEF S
  <2>5. us[i] = ts[i]
    BY <1>1, <2>3
  <2> QED BY <1>3, <2>3, <2>4, <2>5
<1>6. S = Nat
  <2> HIDE DEF S
  <2>1. S \in SUBSET Nat
    BY DEF S
  <2> QED BY <1>4, <1>5, <2>1, Induction
<1>7. ASSUME NEW i \in from - 1 .. Len(ts) PROVE e[i] = d[i]
  <2>1. i - (from - 1) \in Nat /\ from - 1 + (i - (from - 1)) = i
    BY <1>1
  <2>2. i - (from - 1) \in S
    BY <1>6, <2>1
  <2> QED BY <2>1, <2>2
<1> QED BY <1>2, <1>7

LEMMA SameWords ==
    ASSUME NEW ts, NEW us, GoesOn(ts, us), NEW S \in SUBSET (1 .. Len(ts))
    PROVE  /\ WordsIn(us, S) = WordsIn(ts, S) /\ WordsIn(ts, S) \subseteq S
           /\ \A access : AccessAfter(us, S, access) = AccessAfter(ts, S, access)
           /\ IsData(us, S) <=> IsData(ts, S)
           /\ IsData(ts, S) => us[LastAt(WordsIn(us, S))] = ts[LastAt(WordsIn(ts, S))]
<1>1. Len(ts) \in Nat /\ \A i \in S : us[i] = ts[i]
  BY DEF GoesOn
<1>2. WordsIn(us, S) = WordsIn(ts, S)
  BY <1>1 DEF WordsIn
<1>3. PICK W : W = WordsIn(ts, S)
  OBVIOUS
<1>4. W \subseteq S
  BY <1>3 DEF WordsIn
<1>5. W # {} => /\ us[FirstAt(W)] = ts[FirstAt(W)] /\ us[LastAt(W)] = ts[LastAt(W)]
  <2> SUFFICES ASSUME W # {} PROVE us[FirstAt(W)] = ts[FirstAt(W)] /\ us[LastAt(W)] = ts[LastAt(W)]
    OBVIOUS
  <2>1. W \in SUBSET Nat /\ W \in SUBSET (1 .. Len(ts))
    BY <1>1, <1>4
  <2>2. FirstAt(W) \in W
    BY <2>1, FirstIn
  <2>3. LastAt(W) \in W
    BY <1>1, <2>1, LastIn
  <2> QED BY <1>1, <1>4, <2>2, <2>3
<1>6. IsData(us, S) <=> IsData(ts, S)
  <2>1. \A i \in W : us[i] = ts[i]
    BY <1>1, <1>4
  <2>2. IsData(us, S) <=> /\ W # {} /\ FirstAt(W) # LastAt(W)
                          /\ us[FirstAt(W)] \notin TypeKeywords \union {"enum", "using"}
                          /\ \A i \in W : us[i] \notin {"(", ")"}
                          /\ IsWord(us[LastAt(W)])
    BY <1>2, <1>3 DEF IsData
  <2>3. IsData(ts, S) <=> /\ W # {} /\ FirstAt(W) # LastAt(W)
                          /\ ts[FirstAt(W)] \notin TypeKeywords \union {"enum", "using"}
                          /\ \A i \in W : ts[i] \notin {"(", ")"}
                          /\ IsWord(ts[LastAt(W)])
    BY <1>3 DEF IsData
  <2> QED BY <1>5, <2>1, <2>2, <2>3
<1>7. IsData(ts, S) => W # {}
  BY <1>3 DEF IsData
<1>8. \A access : AccessAfter(us, S, access) = AccessAfter(ts, S, access)
  <2> SUFFICES ASSUME NEW access PROVE AccessAfter(us, S, access) = AccessAfter(ts, S, access)
    OBVIOUS
  <2>1. PICK L : L = {i \in S : ts[i] \in Labels}
    OBVIOUS
  <2>2. L = {i \in S : us[i] \in Labels}
    BY <1>1, <2>1
  <2>3. L # {} => us[LastAt(L)] = ts[LastAt(L)]
    <3> SUFFICES ASSUME L # {} PROVE us[LastAt(L)] = ts[LastAt(L)]
      OBVIOUS
    <3>1. L \in SUBSET (1 .. Len(ts)) /\ L \subseteq S
      BY <2>1
    <3>2. LastAt(L) \in L
      BY <1>1, <3>1, LastIn
    <3> QED BY <1>1, <3>1, <3>2
  <2>4. AccessAfter(us, S, access) = IF L = {} THEN access ELSE AccessOf(us[LastAt(L)])
    BY <2>2 DEF AccessAfter
  <2>5. AccessAfter(ts, S, access) = IF L = {} THEN access ELSE AccessOf(ts[LastAt(L)])
    BY <2>1 DEF AccessAfter
  <2> QED BY <2>3, <2>4, <2>5
<1> QED BY <1>2, <1>3, <1>4, <1>5, <1>6, <1>7, <1>8

LEMMA SameEnd ==
    ASSUME NEW ts, NEW us, GoesOn(ts, us), NEW s, s.statement \subseteq 1 .. Len(ts)
    PROVE  EndStatement(us, s) = EndStatement(ts, s)
<1>1. PICK S : S = s.statement
  OBVIOUS
<1>2. /\ \A access : AccessAfter(us, S, access) = AccessAfter(ts, S, access)
      /\ IsData(us, S) <=> IsData(ts, S)
      /\ IsData(ts, S) => us[LastAt(WordsIn(us, S))] = ts[LastAt(WordsIn(ts, S))]
  BY <1>1, SameWords
<1>3. PICK x, y : x = us[LastAt(WordsIn(us, S))] /\ y = ts[LastAt(WordsIn(ts, S))]
  OBVIOUS
<1>4. PICK a : a = AccessAfter(ts, S, s.access) /\ a = AccessAfter(us, S, s.access)
  BY <1>2
<1>5. EndStatement(us, s) =
         [access |-> a, statement |-> {},
          fields |-> IF IsData(us, S) THEN s.fields \union {[name |-> x, access |-> a]} ELSE s.fields]
  BY <1>1, <1>3, <1>4 DEF EndStatement
<1>6. EndStatement(ts, s) =
         [access |-> a, statement |-> {},
          fields |-> IF IsData(ts, S) THEN s.fields \union {[name |-> y, access |-> a]} ELSE s.fields]
  BY <1>1, <1>3, <1>4 DEF EndStatement
<1>7. CASE IsData(ts, S)
  <2>1. x = y /\ IsData(us, S)
    BY <1>2, <1>3, <1>7
  <2> QED BY <1>5, <1>6, <1>7, <2>1
<1>8. CASE ~IsData(ts, S)
  <2>1. ~IsData(us, S)
    BY <1>2, <1>8
  <2> QED BY <1>5, <1>6, <1>8, <2>1
<1> QED BY <1>7, <1>8

LEMMA SameParsed ==
    ASSUME NEW ts, NEW us, GoesOn(ts, us), NEW from \in Nat \ {0}, from - 1 <= Len(ts), NEW default
    PROVE  \A i \in from - 1 .. Len(ts) : Parsed(us, from, default)[i] = Parsed(ts, from, default)[i]
<1>1. /\ Len(ts) \in Nat /\ Len(us) \in Nat /\ Len(ts) <= Len(us) /\ from - 1 <= Len(us)
      /\ \A i \in 1 .. Len(ts) : us[i] = ts[i]
  BY DEF GoesOn
<1>2. PICK d, e : d = Parsed(ts, from, default) /\ e = Parsed(us, from, default)
  OBVIOUS
<1>3. /\ d[from - 1] = Unread(default) /\ e[from - 1] = Unread(default)
      /\ \A i \in from .. Len(ts) : d[i] = ReadInto(ts, from, d[i - 1], i)
      /\ \A i \in from .. Len(us) : e[i] = ReadInto(us, from, e[i - 1], i)
      /\ \A i \in from - 1 .. Len(ts) : KnownAt(d[i], from, i)
  BY <1>1, <1>2, ParseSteps, ParsedIsKnown
<1> DEFINE S == {n \in Nat : from - 1 + n <= Len(ts) => e[from - 1 + n] = d[from - 1 + n]}
<1>4. 0 \in S
  BY <1>3
<1>5. ASSUME NEW n \in S PROVE n + 1 \in S
  <2>1. PICK i : i = from + n
    OBVIOUS
  <2>2. n \in Nat /\ i \in Nat /\ i - 1 = from - 1 + n /\ i = from - 1 + (n + 1)
    BY <2>1
  <2> SUFFICES ASSUME i <= Len(ts) PROVE e[i] = d[i]
    BY <2>2
  <2>3. i \in from .. Len(ts) /\ i \in from .. Len(us) /\ i \in 1 .. Len(ts) /\ i - 1 \in from - 1 .. Len(ts)
        /\ i \in from - 1 .. Len(ts)
    BY <1>1, <2>1, <2>2
  <2>4. e[i - 1] = d[i - 1]
    BY <2>2, <2>3
  <2> HIDE DEF S
  <2>5. us[i] = ts[i]
    BY <1>1, <2>3
  <2>6. PICK s : s = d[i - 1]
    OBVIOUS
  <2>7. s.statement \subseteq 1 .. Len(ts)
    <3>1. s.statement \subseteq from .. i - 1
      BY <1>3, <2>3, <2>6 DEF KnownAt
    <3>2. from .. i - 1 \subseteq 1 .. Len(ts)
      BY <1>1, <2>3
    <3> QED BY <3>1, <3>2
  <2>8. EndStatement(us, s) = EndStatement(ts, s)
    BY <2>7, SameEnd
  <2>9. i \in WithoutNestedBlocks(us, from) <=> i \in WithoutNestedBlocks(ts, from)
    <3>1. BraceDepth(us, from)[i] = BraceDepth(ts, from)[i]
      BY <2>3, SameBraces
    <3> QED BY <2>3, <2>5, <3>1 DEF WithoutNestedBlocks
  <2>10. ReadInto(us, from, s, i) = ReadInto(ts, from, s, i)
    BY <2>5, <2>8, <2>9 DEF ReadInto
  <2>11. e[i] = ReadInto(us, from, s, i) /\ d[i] = ReadInto(ts, from, s, i)
    BY <1>3, <2>3, <2>4, <2>6
  <2> QED BY <2>10, <2>11
<1>6. S = Nat
  <2> HIDE DEF S
  <2>1. S \in SUBSET Nat
    BY DEF S
  <2> QED BY <1>4, <1>5, <2>1, Induction
<1>7. ASSUME NEW i \in from - 1 .. Len(ts) PROVE e[i] = d[i]
  <2>1. i - (from - 1) \in Nat /\ from - 1 + (i - (from - 1)) = i
    BY <1>1
  <2>2. i - (from - 1) \in S
    BY <1>6, <2>1
  <2> QED BY <2>1, <2>2
<1> QED BY <1>2, <1>7

-----------------------------------------------------------------------------
(* A declaration read in the body it stands in.                            *)

(* A declaration: its words, a body if it has one, and a semicolon unless  *)
(* the body ends it.                                                       *)
Sentence(us, p, w, b, q) ==
    /\ us \in Seq(Words) /\ p \in Nat /\ w \in p .. b /\ b \in Nat /\ q \in b .. Len(us)
    /\ \A i \in p + 1 .. w : us[i] \notin Braces /\ us[i] # Semicolon
    /\ BodyTail(us, w, b)
    /\ q = b \/ (q = b + 1 /\ us[q] = Semicolon)

LEMMA SentenceRead ==
    ASSUME NEW us, NEW p, NEW w, NEW b, NEW q, Sentence(us, p, w, b, q),
           NEW from \in Nat \ {0}, from - 1 <= p, NEW default, BraceDepth(us, from)[p] >= 0
    PROVE  /\ BraceDepth(us, from)[q] = BraceDepth(us, from)[p]
           /\ \A i \in p .. q : BraceDepth(us, from)[i] >= BraceDepth(us, from)[p]
           /\ BraceDepth(us, from)[p] > 0 => Parsed(us, from, default)[q] = Parsed(us, from, default)[p]
           /\ BraceDepth(us, from)[p] = 0 /\ q = b =>
                 Parsed(us, from, default)[q] = Taking(Parsed(us, from, default)[p], p + 1 .. w)
           /\ BraceDepth(us, from)[p] = 0 /\ q = b + 1 =>
                 Parsed(us, from, default)[q] =
                    EndStatement(us, Taking(Parsed(us, from, default)[p], p + 1 .. w))
<1>1. /\ us \in Seq(Words) /\ p \in Nat /\ w \in p .. b /\ b \in Nat /\ q \in b .. Len(us)
      /\ \A i \in p + 1 .. w : us[i] \notin Braces /\ us[i] # Semicolon
      /\ BodyTail(us, w, b)
      /\ q = b \/ (q = b + 1 /\ us[q] = Semicolon)
  BY DEF Sentence
<1>2. PICK n : n = Len(us)
  OBVIOUS
<1>3. /\ n \in Nat /\ w \in Nat /\ from - 1 <= n /\ from - 1 <= w /\ w \in p .. n /\ b \in w .. n
      /\ p \in from - 1 .. n
  BY <1>1, <1>2
<1>4. PICK depth, st : depth = BraceDepth(us, from) /\ st = Parsed(us, from, default)
  OBVIOUS
<1>5. depth[p] \in Int
  BY <1>2, <1>3, <1>4, BraceType
<1>6. \A i \in p .. w : depth[i] = depth[p]
  <2>1. \A i \in p + 1 .. w : us[i] \notin Braces
    BY <1>1
  <2>2. w \in p .. Len(us) /\ Len(us) \in Nat /\ p \in Nat /\ from - 1 <= p
    BY <1>1, <1>2, <1>3
  <2>3. \A i \in p .. w : BraceDepth(us, from)[i] = BraceDepth(us, from)[p]
    BY <2>1, <2>2, FlatRun
  <2> QED BY <1>4, <2>3
<1>7. depth[w] = depth[p] /\ depth[w] >= 0
  BY <1>1, <1>3, <1>4, <1>6
<1>8. /\ depth[b] = depth[w] /\ \A i \in w .. b : depth[i] >= depth[w]
      /\ st[b] = st[w]
  <2>1. BraceDepth(us, from)[w] >= 0 /\ b \in w .. Len(us) /\ Len(us) \in Nat
    BY <1>2, <1>3, <1>4, <1>7
  <2> QED BY <1>1, <1>3, <1>4, <2>1, TailHidden
<1>9. depth[p] > 0 => st[w] = st[p]
  <2> SUFFICES ASSUME depth[p] > 0 PROVE st[w] = st[p]
    OBVIOUS
  <2>1. \A i \in p + 1 .. w : us[i] \in Braces \/ BraceDepth(us, from)[i] # 0
    BY <1>3, <1>4, <1>6
  <2>2. w \in p .. Len(us) /\ Len(us) \in Nat
    BY <1>2, <1>3
  <2>3. Parsed(us, from, default)[w] = Parsed(us, from, default)[p]
    BY <1>1, <2>1, <2>2, HiddenRun
  <2> QED BY <1>4, <2>3
<1>10. depth[p] = 0 => st[w] = Taking(st[p], p + 1 .. w)
  <2> SUFFICES ASSUME depth[p] = 0 PROVE st[w] = Taking(st[p], p + 1 .. w)
    OBVIOUS
  <2>1. w \in p .. Len(us) /\ Len(us) \in Nat /\ BraceDepth(us, from)[p] = 0
    BY <1>2, <1>3, <1>4
  <2>2. Parsed(us, from, default)[w] = Taking(Parsed(us, from, default)[p], p + 1 .. w)
    BY <1>1, <2>1, PlainRunRead
  <2> QED BY <1>4, <2>2
<1>11. CASE q = b
  <2>1. \A i \in p .. q : i \in p .. w \/ i \in w .. b
    BY <1>1, <1>3, <1>11
  <2>2. \A i \in p .. q : depth[i] >= depth[p]
    BY <1>5, <1>6, <1>7, <1>8, <2>1
  <2> QED BY <1>4, <1>7, <1>8, <1>9, <1>10, <1>11, <1>1, <2>2
<1>12. CASE q = b + 1 /\ us[q] = Semicolon
  <2>1. q \in from .. n /\ q - 1 = b /\ q \notin p .. w
    BY <1>1, <1>2, <1>3, <1>12
  <2>2. us[q] \notin Braces
    BY <1>12, TokensDiffer DEF Braces
  <2>3. depth[q] = depth[b]
    <3>1. q \in from .. Len(us) /\ Len(us) \in Nat /\ from - 1 <= Len(us)
      BY <1>2, <1>3, <2>1
    <3>2. BraceDepth(us, from)[q] = BraceDepth(us, from)[q - 1]
      BY <2>2, <3>1, BracesAre
    <3> QED BY <1>4, <2>1, <3>2
  <2>4. \A i \in p .. q : i \in p .. w \/ i \in w .. b \/ i = q
    BY <1>1, <1>3, <1>12
  <2>5. depth[q] = depth[p]
    BY <1>7, <1>8, <2>3
  <2>6. \A i \in p .. q : depth[i] >= depth[p]
    BY <1>5, <1>6, <1>7, <1>8, <2>4, <2>5
  <2>7. ReadAs(us, from, st[b], q, st[q])
    BY <1>2, <1>3, <1>4, <2>1, ReadIs
  <2>8. depth[p] > 0 => st[q] = st[p]
    BY <1>4, <1>8, <1>9, <2>5, <2>7 DEF ReadAs
  <2>9. depth[p] = 0 => st[q] = EndStatement(us, Taking(st[p], p + 1 .. w))
    BY <1>4, <1>8, <1>10, <1>12, <2>2, <2>5, <2>7 DEF ReadAs
  <2>10. ~(q = b)
    BY <1>1, <1>12
  <2> QED BY <1>4, <2>5, <2>6, <2>8, <2>9, <2>10
<1> QED BY <1>1, <1>11, <1>12

-----------------------------------------------------------------------------
(* What a statement is.                                                    *)
NoWords(us, S)    == WordsIn(us, S) = {}
HasParen(us, S) == \E i \in S : us[i] \in {"(", ")"}

LEMMA ParenIsNoData ==
    ASSUME NEW us, NEW S, HasParen(us, S)
    PROVE  ~IsData(us, S)
<1>1. PICK i \in S : us[i] \in {"(", ")"}
  BY DEF HasParen
<1>2. us[i] \notin Labels \union {"doc"}
  BY <1>1 DEF Labels
<1>3. i \in WordsIn(us, S)
  BY <1>2 DEF WordsIn
<1> QED BY <1>1, <1>3 DEF IsData

LEMMA NoWordsIsNoData ==
    ASSUME NEW us, NEW S, NoWords(us, S)
    PROVE  ~IsData(us, S)
BY DEF NoWords, IsData

LEMMA BlankTakes ==
    ASSUME NEW us, NEW S, NEW N, NoWords(us, S)
    PROVE  WordsIn(us, S \union N) = WordsIn(us, N)
BY DEF NoWords, WordsIn

LEMMA SameAccess ==
    ASSUME NEW us, NEW S, NEW N, \A i \in N : us[i] \notin Labels, NEW access
    PROVE  AccessAfter(us, S \union N, access) = AccessAfter(us, S, access)
<1>1. {i \in S \union N : us[i] \in Labels} = {i \in S : us[i] \in Labels}
  OBVIOUS
<1> QED BY <1>1 DEF AccessAfter

LEMMA NoAccess == \A us, access : AccessAfter(us, {}, access) = access
BY DEF AccessAfter

(* A statement that begins with a type's keyword, or with another that     *)
(* declares no data.                                                       *)
Skips(us, N) ==
    \E f \in N : /\ us[f] \in TypeKeywords \union {"enum", "using"} /\ us[f] \notin Labels \union {"doc"}
                 /\ \A j \in N : us[j] \notin Labels \union {"doc"} => f <= j

LEMMA SkipIsNoData ==
    ASSUME NEW us, NEW S, NEW N \in SUBSET Nat, NoWords(us, S), Skips(us, N)
    PROVE  ~IsData(us, S \union N)
<1>1. PICK f \in N : /\ us[f] \in TypeKeywords \union {"enum", "using"} /\ us[f] \notin Labels \union {"doc"}
                     /\ \A j \in N : us[j] \notin Labels \union {"doc"} => f <= j
  BY DEF Skips
<1>2. PICK W : W = WordsIn(us, N)
  OBVIOUS
<1>3. W \in SUBSET Int /\ f \in W /\ \A j \in W : f <= j
  <2>1. W = {i \in N : us[i] \notin Labels \union {"doc"}}
    BY <1>2 DEF WordsIn
  <2>2. W \subseteq N
    BY <2>1
  <2>3. f \in W /\ \A j \in W : f <= j
    BY <1>1, <2>1
  <2> QED BY <2>2, <2>3
<1>4. FirstAt(W) = f
  BY <1>3, FirstIs
<1>5. WordsIn(us, S \union N) = W
  BY <1>2, BlankTakes
<1> QED BY <1>1, <1>4, <1>5 DEF IsData

(* A statement whose last word names data.                                 *)
NamesAs(us, N, f, l) ==
    /\ f \in N /\ l \in N /\ f # l
    /\ us[f] \notin TypeKeywords \union {"enum", "using"} /\ IsWord(us[l])
    /\ us[f] \notin Labels \union {"doc"} /\ us[l] \notin Labels \union {"doc"}
    /\ \A j \in N : us[j] \notin Labels \union {"doc"} => f <= j /\ j <= l
    /\ \A j \in N : us[j] \notin {"(", ")"}

LEMMA NamesData ==
    ASSUME NEW us, NEW S, NEW N \in SUBSET Nat, NoWords(us, S), NEW f, NEW l, NamesAs(us, N, f, l)
    PROVE  IsData(us, S \union N) /\ LastAt(WordsIn(us, S \union N)) = l
<1>1. PICK W : W = WordsIn(us, N)
  OBVIOUS
<1>2. W \in SUBSET Int /\ f \in W /\ l \in W /\ \A j \in W : f <= j /\ j <= l
  <2>1. W = {i \in N : us[i] \notin Labels \union {"doc"}}
    BY <1>1 DEF WordsIn
  <2>2. W \subseteq N
    BY <2>1
  <2>3. f \in W /\ l \in W
    BY <2>1 DEF NamesAs
  <2>4. \A j \in W : f <= j /\ j <= l
    BY <2>1 DEF NamesAs
  <2> QED BY <2>2, <2>3, <2>4
<1>3. FirstAt(W) = f
  BY <1>2, FirstIs
<1>4. LastAt(W) = l
  BY <1>2, LastIs
<1>5. WordsIn(us, S \union N) = W
  BY <1>1, BlankTakes
<1>6. \A i \in W : us[i] \notin {"(", ")"}
  BY <1>1 DEF WordsIn, NamesAs
<1> QED BY <1>2, <1>3, <1>4, <1>5, <1>6 DEF IsData, NamesAs

LEMMA EndsWithout ==
    ASSUME NEW us, NEW s, ~IsData(us, s.statement)
    PROVE  EndStatement(us, s) =
              [access |-> AccessAfter(us, s.statement, s.access), statement |-> {}, fields |-> s.fields]
BY DEF EndStatement

LEMMA EndsWith ==
    ASSUME NEW us, NEW s, IsData(us, s.statement), NEW l, LastAt(WordsIn(us, s.statement)) = l
    PROVE  EndStatement(us, s) =
              [access |-> AccessAfter(us, s.statement, s.access), statement |-> {},
               fields |-> s.fields \union
                  {[name |-> us[l], access |-> AccessAfter(us, s.statement, s.access)]}]
BY DEF EndStatement

-----------------------------------------------------------------------------
(* How the body of an open type stands, as far as the file is written.     *)

(* How a body stands that is read up to n: how many types are open in it,  *)
(* the access that holds, the members so far, and whether a function       *)
(* defined in place has been read and no end of a statement behind it.     *)
Stood(us, s, inner, access, own, after) ==
    /\ AccessAfter(us, s.statement, s.access) = access
    /\ s.fields = own
    /\ inner > 0 => ~IsData(us, s.statement)
    /\ inner = 0 => IF after THEN HasParen(us, s.statement) ELSE NoWords(us, s.statement)

InBody(us, n, from, default, inner, access, own, after) ==
    /\ us \in Seq(Words) /\ from \in Nat \ {0} /\ n \in from - 1 .. Len(us) /\ inner \in Nat
    /\ BraceDepth(us, from)[n] = inner
    /\ \A i \in from - 1 .. n : BraceDepth(us, from)[i] >= 0
    /\ Stood(us, Parsed(us, from, default)[n], inner, access, own, after)

LEMMA StoodIsNoData ==
    ASSUME NEW us, NEW s, NEW inner \in Nat, NEW access, NEW own, NEW after \in BOOLEAN,
           Stood(us, s, inner, access, own, after)
    PROVE  ~IsData(us, s.statement)
<1>1. CASE inner > 0
  BY <1>1 DEF Stood
<1>2. CASE inner = 0 /\ after
  <2>1. HasParen(us, s.statement)
    BY <1>2 DEF Stood
  <2> QED BY <2>1, ParenIsNoData
<1>3. CASE inner = 0 /\ ~after
  <2>1. NoWords(us, s.statement)
    BY <1>3 DEF Stood
  <2> QED BY <2>1, NoWordsIsNoData
<1> QED BY <1>1, <1>2, <1>3

LEMMA InBodyFacts ==
    ASSUME NEW us, NEW n, NEW from, NEW default, NEW inner, NEW access, NEW own, NEW after,
           InBody(us, n, from, default, inner, access, own, after)
    PROVE  /\ us \in Seq(Words) /\ Len(us) \in Nat /\ from \in Nat \ {0} /\ n \in Nat /\ from - 1 <= n
           /\ n <= Len(us) /\ from - 1 <= Len(us) /\ inner \in Nat
           /\ KnownAt(Parsed(us, from, default)[n], from, n)
<1>1. /\ us \in Seq(Words) /\ from \in Nat \ {0} /\ n \in from - 1 .. Len(us) /\ inner \in Nat
  BY DEF InBody
<1>2. Len(us) \in Nat /\ from - 1 <= Len(us) /\ n \in Nat /\ from - 1 <= n /\ n <= Len(us)
  BY <1>1
<1>3. KnownAt(Parsed(us, from, default)[n], from, n)
  BY <1>1, <1>2, ParsedIsKnown
<1> QED BY <1>1, <1>2, <1>3

(* What has been read stays read.                                          *)
LEMMA InBodyStays ==
    ASSUME NEW ts, NEW us, GoesOn(ts, us), NEW n, NEW from, NEW default, NEW inner, NEW access, NEW own, NEW after,
           InBody(ts, n, from, default, inner, access, own, after)
    PROVE  InBody(us, n, from, default, inner, access, own, after)
<1>1. /\ ts \in Seq(Words) /\ Len(ts) \in Nat /\ from \in Nat \ {0} /\ n \in Nat /\ from - 1 <= n
      /\ n <= Len(ts) /\ from - 1 <= Len(ts) /\ inner \in Nat
      /\ KnownAt(Parsed(ts, from, default)[n], from, n)
  BY InBodyFacts
<1>2. us \in Seq(Words) /\ Len(us) \in Nat /\ Len(ts) <= Len(us)
  BY DEF GoesOn
<1>3. n \in from - 1 .. Len(us) /\ n \in from - 1 .. Len(ts) /\ \A i \in from - 1 .. n : i \in from - 1 .. Len(ts)
  BY <1>1, <1>2
<1>4. \A i \in from - 1 .. n : BraceDepth(us, from)[i] = BraceDepth(ts, from)[i]
  BY <1>1, <1>3, SameBraces
<1>5. Parsed(us, from, default)[n] = Parsed(ts, from, default)[n]
  BY <1>1, <1>3, SameParsed
<1>6. PICK s : s = Parsed(ts, from, default)[n]
  OBVIOUS
<1>7. s.statement \in SUBSET (1 .. Len(ts))
  <2>1. s.statement \subseteq from .. n
    BY <1>1, <1>6 DEF KnownAt
  <2> QED BY <1>1, <2>1
<1>8. Stood(ts, s, inner, access, own, after)
  BY <1>6 DEF InBody
<1>9. /\ WordsIn(us, s.statement) = WordsIn(ts, s.statement)
      /\ AccessAfter(us, s.statement, s.access) = AccessAfter(ts, s.statement, s.access)
      /\ IsData(us, s.statement) <=> IsData(ts, s.statement)
  BY <1>7, SameWords
<1>10. HasParen(us, s.statement) <=> HasParen(ts, s.statement)
  <2>1. \A i \in s.statement : us[i] = ts[i]
    BY <1>7 DEF GoesOn
  <2> QED BY <2>1 DEF HasParen
<1>11. Stood(us, s, inner, access, own, after)
  BY <1>8, <1>9, <1>10 DEF Stood, NoWords
<1>12. BraceDepth(us, from)[n] = inner /\ \A i \in from - 1 .. n : BraceDepth(us, from)[i] >= 0
  <2>1. n \in from - 1 .. n
    BY <1>1
  <2> QED BY <1>4, <2>1 DEF InBody
<1> QED BY <1>1, <1>2, <1>3, <1>5, <1>6, <1>11, <1>12 DEF InBody

-----------------------------------------------------------------------------
(* How a declaration is read.                                              *)
LEMMA DeepRead ==
    ASSUME NEW us, NEW p, NEW from, NEW default, NEW inner, NEW access, NEW own, NEW after,
           InBody(us, p, from, default, inner, access, own, after), inner > 0,
           NEW w, NEW b, NEW q, Sentence(us, p, w, b, q)
    PROVE  InBody(us, q, from, default, inner, access, own, after)
<1>1. /\ us \in Seq(Words) /\ Len(us) \in Nat /\ from \in Nat \ {0} /\ p \in Nat /\ from - 1 <= p
      /\ p <= Len(us) /\ inner \in Nat
  BY InBodyFacts
<1>2. /\ BraceDepth(us, from)[p] = inner /\ BraceDepth(us, from)[p] >= 0
      /\ \A i \in from - 1 .. p : BraceDepth(us, from)[i] >= 0
      /\ Stood(us, Parsed(us, from, default)[p], inner, access, own, after)
  BY DEF InBody
<1>3. /\ BraceDepth(us, from)[q] = BraceDepth(us, from)[p]
      /\ \A i \in p .. q : BraceDepth(us, from)[i] >= BraceDepth(us, from)[p]
      /\ BraceDepth(us, from)[p] > 0 => Parsed(us, from, default)[q] = Parsed(us, from, default)[p]
  BY <1>1, <1>2, SentenceRead
<1>4. q \in from - 1 .. Len(us) /\ q \in Nat /\ p <= q
  BY <1>1 DEF Sentence
<1>5. \A i \in from - 1 .. q : BraceDepth(us, from)[i] >= 0
  <2>1. \A i \in from - 1 .. q : i \in from - 1 .. p \/ i \in p .. q
    BY <1>1, <1>4
  <2>2. \A i \in p .. q : BraceDepth(us, from)[i] >= 0
    <3>1. SUFFICES ASSUME NEW i \in p .. q PROVE BraceDepth(us, from)[i] >= 0
      OBVIOUS
    <3>2. BraceDepth(us, from)[i] >= inner /\ i \in from - 1 .. Len(us)
      BY <1>1, <1>2, <1>3, <1>4
    <3>3. BraceDepth(us, from)[i] \in Int
      BY <1>1, <3>2, BraceType
    <3> QED BY <1>1, <3>2, <3>3
  <2> QED BY <1>2, <2>1, <2>2
<1> QED BY <1>1, <1>2, <1>3, <1>4, <1>5 DEF InBody

(* In the body itself: what the new statement is decides.                  *)
LEMMA FlatRead ==
    ASSUME NEW us, NEW p, NEW from, NEW default, NEW access, NEW own, NEW after,
           InBody(us, p, from, default, 0, access, own, after),
           NEW w, NEW b, NEW q, Sentence(us, p, w, b, q)
    PROVE  /\ us \in Seq(Words) /\ from \in Nat \ {0} /\ q \in from - 1 .. Len(us) /\ 0 \in Nat
           /\ BraceDepth(us, from)[q] = 0
           /\ \A i \in from - 1 .. q : BraceDepth(us, from)[i] >= 0
           /\ q = b => Parsed(us, from, default)[q] = Taking(Parsed(us, from, default)[p], p + 1 .. w)
           /\ q = b + 1 => Parsed(us, from, default)[q] =
                              EndStatement(us, Taking(Parsed(us, from, default)[p], p + 1 .. w))
<1>1. /\ us \in Seq(Words) /\ Len(us) \in Nat /\ from \in Nat \ {0} /\ p \in Nat /\ from - 1 <= p
      /\ p <= Len(us)
  BY InBodyFacts
<1>2. /\ BraceDepth(us, from)[p] = 0
      /\ \A i \in from - 1 .. p : BraceDepth(us, from)[i] >= 0
  BY DEF InBody
<1>0. BraceDepth(us, from)[p] >= 0
  BY <1>2
<1>3. /\ BraceDepth(us, from)[q] = BraceDepth(us, from)[p]
      /\ \A i \in p .. q : BraceDepth(us, from)[i] >= BraceDepth(us, from)[p]
      /\ BraceDepth(us, from)[p] = 0 /\ q = b =>
            Parsed(us, from, default)[q] = Taking(Parsed(us, from, default)[p], p + 1 .. w)
      /\ BraceDepth(us, from)[p] = 0 /\ q = b + 1 =>
            Parsed(us, from, default)[q] = EndStatement(us, Taking(Parsed(us, from, default)[p], p + 1 .. w))
  <2>0. from \in Nat \ {0} /\ from - 1 <= p
    BY <1>1
  <2>1. BraceDepth(us, from)[q] = BraceDepth(us, from)[p]
    BY <1>0, <2>0, SentenceRead
  <2>2. \A i \in p .. q : BraceDepth(us, from)[i] >= BraceDepth(us, from)[p]
    BY <1>0, <1>1, SentenceRead
  <2>3. BraceDepth(us, from)[p] = 0 /\ q = b =>
            Parsed(us, from, default)[q] = Taking(Parsed(us, from, default)[p], p + 1 .. w)
    BY <1>0, <1>1, SentenceRead
  <2>4. BraceDepth(us, from)[p] = 0 /\ q = b + 1 =>
            Parsed(us, from, default)[q] = EndStatement(us, Taking(Parsed(us, from, default)[p], p + 1 .. w))
    BY <1>0, <1>1, SentenceRead
  <2> QED BY <2>1, <2>2, <2>3, <2>4
<1>4. q \in from - 1 .. Len(us) /\ q \in Nat /\ p <= q
  BY <1>1 DEF Sentence
<1>5. \A i \in from - 1 .. q : BraceDepth(us, from)[i] >= 0
  <2>1. \A i \in from - 1 .. q : i \in from - 1 .. p \/ i \in p .. q
    BY <1>1, <1>4
  <2>2. BraceDepth(us, from)[p] = 0
    BY <1>2
  <2>3. \A i \in p .. q : BraceDepth(us, from)[i] >= 0
    BY <1>3, <2>2
  <2> QED BY <1>2, <2>1, <2>3
<1>6. /\ q = b => Parsed(us, from, default)[q] = Taking(Parsed(us, from, default)[p], p + 1 .. w)
      /\ q = b + 1 => Parsed(us, from, default)[q] =
                         EndStatement(us, Taking(Parsed(us, from, default)[p], p + 1 .. w))
  BY <1>2, <1>3
<1>7. BraceDepth(us, from)[q] = 0
  BY <1>2, <1>3
<1> QED BY <1>1, <1>4, <1>5, <1>6, <1>7

(* Nothing but words: no label holds from here on.                         *)
NoLabels(us, N) == \A i \in N : us[i] \notin Labels

(* Whatever stands before it, the new statement declares no data.          *)
Quiet(us, N) == Skips(us, N) \/ HasParen(us, N)

LEMMA QuietIsNoData ==
    ASSUME NEW us, NEW s, NEW access, NEW own, NEW after \in BOOLEAN, Stood(us, s, 0, access, own, after),
           NEW N \in SUBSET Nat, after \/ Quiet(us, N)
    PROVE  ~IsData(us, s.statement \union N)
<1>1. CASE after
  <2>1. HasParen(us, s.statement)
    BY <1>1 DEF Stood
  <2>2. HasParen(us, s.statement \union N)
    BY <2>1 DEF HasParen
  <2> QED BY <2>2, ParenIsNoData
<1>2. CASE ~after
  <2>1. NoWords(us, s.statement)
    BY <1>2 DEF Stood
  <2>2. CASE HasParen(us, N)
    <3>1. HasParen(us, s.statement \union N)
      BY <2>2 DEF HasParen
    <3> QED BY <3>1, ParenIsNoData
  <2>3. CASE Skips(us, N)
    BY <2>1, <2>3, SkipIsNoData
  <2> QED BY <1>2, <2>2, <2>3 DEF Quiet
<1> QED BY <1>1, <1>2

Took(us, r, S, access, own) ==
    r.statement = S /\ AccessAfter(us, S, r.access) = access /\ r.fields = own

LEMMA TakenOn ==
    ASSUME NEW us, NEW s, NEW inner, NEW access, NEW own, NEW after, Stood(us, s, inner, access, own, after),
           NEW N, NoLabels(us, N)
    PROVE  Took(us, Taking(s, N), s.statement \union N, access, own)
<1>1. Taking(s, N).statement = s.statement \union N /\ Taking(s, N).access = s.access /\ Taking(s, N).fields = s.fields
  BY DEF Taking
<1>2. AccessAfter(us, s.statement, s.access) = access /\ s.fields = own
  BY DEF Stood
<1>3. AccessAfter(us, s.statement \union N, s.access) = AccessAfter(us, s.statement, s.access)
  BY SameAccess DEF NoLabels
<1> QED BY <1>1, <1>2, <1>3 DEF Took

LEMMA EndStands ==
    ASSUME NEW us, NEW r, NEW access, NEW own,
           r = [access |-> access, statement |-> {}, fields |-> own], NEW later, ~later
    PROVE  Stood(us, r, 0, access, own, later)
<1>1. r.access = access /\ r.statement = {} /\ r.fields = own
  OBVIOUS
<1>2. WordsIn(us, {}) = {}
  BY DEF WordsIn
<1> QED BY <1>1, <1>2, NoAccess DEF Stood, NoWords

(* A semicolon ends it, and it is no data.                                 *)
LEMMA QuietEnds ==
    ASSUME NEW us, NEW p, NEW from, NEW default, NEW access, NEW own, NEW after \in BOOLEAN,
           InBody(us, p, from, default, 0, access, own, after),
           NEW w, NEW b, NEW q, Sentence(us, p, w, b, q), q = b + 1,
           NoLabels(us, p + 1 .. w), after \/ Quiet(us, p + 1 .. w), NEW later, ~later
    PROVE  InBody(us, q, from, default, 0, access, own, later)
<1>1. PICK N, s : N = p + 1 .. w /\ s = Parsed(us, from, default)[p]
  OBVIOUS
<1>0. NoLabels(us, N) /\ (after \/ Quiet(us, N))
  BY <1>1
<1>2. N \in SUBSET Nat
  BY <1>1 DEF Sentence
<1>3. Stood(us, s, 0, access, own, after)
  BY <1>1 DEF InBody
<1>4. ~IsData(us, s.statement \union N)
  BY <1>0, <1>2, <1>3, QuietIsNoData
<1>5. PICK t : t = Taking(s, N)
  OBVIOUS
<1>6. /\ t.statement = s.statement \union N
      /\ AccessAfter(us, t.statement, t.access) = access /\ t.fields = own
  <2>1. Took(us, Taking(s, N), s.statement \union N, access, own)
    BY <1>0, <1>3, TakenOn
  <2> QED BY <2>1, <1>5 DEF Took
<1>7. EndStatement(us, t) = [access |-> access, statement |-> {}, fields |-> own]
  <2>1. ~IsData(us, t.statement)
    BY <1>4, <1>6
  <2> QED BY <1>6, <2>1, EndsWithout
<1>8. Stood(us, EndStatement(us, t), 0, access, own, later)
  BY <1>7, EndStands
<1>9. /\ us \in Seq(Words) /\ from \in Nat \ {0} /\ q \in from - 1 .. Len(us) /\ 0 \in Nat
      /\ BraceDepth(us, from)[q] = 0
      /\ \A i \in from - 1 .. q : BraceDepth(us, from)[i] >= 0
  BY FlatRead
<1>10. Parsed(us, from, default)[q] = EndStatement(us, t)
  <2>1. Parsed(us, from, default)[q] = EndStatement(us, Taking(Parsed(us, from, default)[p], p + 1 .. w))
    BY FlatRead
  <2> QED BY <1>1, <1>5, <2>1
<1> QED BY <1>8, <1>9, <1>10 DEF InBody

(* A semicolon ends it, and it names data.                                 *)
LEMMA DataEnds ==
    ASSUME NEW us, NEW p, NEW from, NEW default, NEW access, NEW own, NEW after, ~after,
           InBody(us, p, from, default, 0, access, own, after),
           NEW w, NEW b, NEW q, Sentence(us, p, w, b, q), q = b + 1,
           NoLabels(us, p + 1 .. w), NEW f, NEW l, NamesAs(us, p + 1 .. w, f, l), NEW later, ~later
    PROVE  InBody(us, q, from, default, 0, access, own \union {[name |-> us[l], access |-> access]}, later)
<1>1. PICK N, s : N = p + 1 .. w /\ s = Parsed(us, from, default)[p]
  OBVIOUS
<1>0. NoLabels(us, N) /\ NamesAs(us, N, f, l)
  BY <1>1
<1>2. N \in SUBSET Nat
  BY <1>1 DEF Sentence
<1>3. Stood(us, s, 0, access, own, after) /\ NoWords(us, s.statement)
  BY <1>1 DEF InBody, Stood
<1>4. IsData(us, s.statement \union N) /\ LastAt(WordsIn(us, s.statement \union N)) = l
  BY <1>0, <1>2, <1>3, NamesData
<1>5. PICK t : t = Taking(s, N)
  OBVIOUS
<1>6. /\ t.statement = s.statement \union N
      /\ AccessAfter(us, t.statement, t.access) = access /\ t.fields = own
  <2>1. Took(us, Taking(s, N), s.statement \union N, access, own)
    BY <1>0, <1>3, TakenOn
  <2> QED BY <2>1, <1>5 DEF Took
<1>7. PICK more : more = own \union {[name |-> us[l], access |-> access]}
  OBVIOUS
<1>8. EndStatement(us, t) = [access |-> access, statement |-> {}, fields |-> more]
  <2>1. IsData(us, t.statement) /\ LastAt(WordsIn(us, t.statement)) = l
    BY <1>4, <1>6
  <2> QED BY <1>6, <1>7, <2>1, EndsWith
<1>9. Stood(us, EndStatement(us, t), 0, access, more, later)
  BY <1>8, EndStands
<1>10. /\ us \in Seq(Words) /\ from \in Nat \ {0} /\ q \in from - 1 .. Len(us) /\ 0 \in Nat
       /\ BraceDepth(us, from)[q] = 0
       /\ \A i \in from - 1 .. q : BraceDepth(us, from)[i] >= 0
  BY FlatRead
<1>11. Parsed(us, from, default)[q] = EndStatement(us, t)
  <2>1. Parsed(us, from, default)[q] = EndStatement(us, Taking(Parsed(us, from, default)[p], p + 1 .. w))
    BY FlatRead
  <2> QED BY <1>1, <1>5, <2>1
<1> QED BY <1>7, <1>9, <1>10, <1>11 DEF InBody

(* A function's body ends it, which for the parser ends nothing.           *)
LEMMA BodyRead ==
    ASSUME NEW us, NEW p, NEW from, NEW default, NEW access, NEW own, NEW after,
           InBody(us, p, from, default, 0, access, own, after),
           NEW w, NEW b, NEW q, Sentence(us, p, w, b, q), q = b,
           NoLabels(us, p + 1 .. w), HasParen(us, p + 1 .. w), NEW later, later = TRUE
    PROVE  InBody(us, q, from, default, 0, access, own, later)
<1>1. PICK N, s : N = p + 1 .. w /\ s = Parsed(us, from, default)[p]
  OBVIOUS
<1>0. NoLabels(us, N) /\ HasParen(us, N)
  BY <1>1
<1>2. Stood(us, s, 0, access, own, after)
  BY <1>1 DEF InBody
<1>3. PICK t : t = Taking(s, N)
  OBVIOUS
<1>4. /\ t.statement = s.statement \union N
      /\ AccessAfter(us, t.statement, t.access) = access /\ t.fields = own
  <2>1. Took(us, Taking(s, N), s.statement \union N, access, own)
    BY <1>0, <1>2, TakenOn
  <2> QED BY <2>1, <1>3 DEF Took
<1>5. HasParen(us, t.statement)
  BY <1>0, <1>4 DEF HasParen
<1>6. Stood(us, t, 0, access, own, later)
  BY <1>4, <1>5 DEF Stood
<1>7. /\ us \in Seq(Words) /\ from \in Nat \ {0} /\ q \in from - 1 .. Len(us) /\ 0 \in Nat
      /\ BraceDepth(us, from)[q] = 0
      /\ \A i \in from - 1 .. q : BraceDepth(us, from)[i] >= 0
  BY FlatRead
<1>8. Parsed(us, from, default)[q] = t
  <2>1. Parsed(us, from, default)[q] = Taking(Parsed(us, from, default)[p], p + 1 .. w)
    BY FlatRead
  <2> QED BY <1>1, <1>3, <2>1
<1> QED BY <1>6, <1>7, <1>8 DEF InBody

(* A label holds from where it stands.                                     *)
LEMMA LabelRead ==
    ASSUME NEW us, NEW p, NEW from, NEW default, NEW access, NEW own, NEW after,
           InBody(us, p, from, default, 0, access, own, after),
           p + 1 <= Len(us), us[p + 1] \in Labels, us[p + 1] \notin Braces, us[p + 1] # Semicolon
    PROVE  InBody(us, p + 1, from, default, 0, AccessOf(us[p + 1]), own, after)
<1>1. PICK q, s : q = p + 1 /\ s = Parsed(us, from, default)[p]
  OBVIOUS
<1>2. /\ us \in Seq(Words) /\ p \in Nat /\ Len(us) \in Nat /\ KnownAt(s, from, p)
      /\ from \in Nat \ {0}
  BY <1>1, InBodyFacts
<1>3. Sentence(us, p, q, q, q)
  <2>1. q \in Nat /\ q \in p .. q /\ q \in q .. Len(us) /\ \A i \in p + 1 .. q : i = q
    BY <1>1, <1>2
  <2> QED BY <1>1, <1>2, <2>1 DEF Sentence, BodyTail
<1>4. PICK N : N = p + 1 .. q
  OBVIOUS
<1>5. N = {q}
  BY <1>1, <1>2, <1>4
<1>6. PICK t : t = Taking(s, N)
  OBVIOUS
<1>7. t.statement = s.statement \union {q} /\ t.fields = s.fields
  BY <1>5, <1>6 DEF Taking
<1>8. Stood(us, s, 0, access, own, after)
  BY <1>1 DEF InBody
<1>9. AccessAfter(us, t.statement, t.access) = AccessOf(us[q])
  <2>1. PICK L : L = {i \in t.statement : us[i] \in Labels}
    OBVIOUS
  <2>2. q \in L
    BY <1>1, <1>7, <2>1
  <2>3. L \in SUBSET Int /\ \A i \in L : i <= q
    <3>1. s.statement \subseteq from .. p
      BY <1>2 DEF KnownAt
    <3>2. t.statement \subseteq Int /\ \A i \in t.statement : i <= q
      BY <1>1, <1>2, <1>7, <3>1
    <3> QED BY <2>1, <3>2
  <2>4. LastAt(L) = q
    BY <2>2, <2>3, LastIs
  <2> QED BY <2>1, <2>2, <2>4 DEF AccessAfter
<1>10. after => HasParen(us, t.statement)
  BY <1>7, <1>8 DEF Stood, HasParen
<1>11. ~after => NoWords(us, t.statement)
  <2> SUFFICES ASSUME ~after PROVE WordsIn(us, t.statement) = {}
    BY DEF NoWords
  <2>1. WordsIn(us, s.statement) = {}
    BY <1>8 DEF Stood, NoWords
  <2> QED BY <1>1, <1>7, <2>1 DEF WordsIn
<1>12. Stood(us, t, 0, AccessOf(us[q]), own, after)
  BY <1>7, <1>8, <1>9, <1>10, <1>11 DEF Stood
<1>13. /\ q \in from - 1 .. Len(us) /\ 0 \in Nat
       /\ BraceDepth(us, from)[q] = 0
       /\ \A i \in from - 1 .. q : BraceDepth(us, from)[i] >= 0
  BY <1>3, FlatRead
<1>14. Parsed(us, from, default)[q] = t
  <2>1. Parsed(us, from, default)[q] = Taking(Parsed(us, from, default)[p], p + 1 .. q)
    BY <1>3, FlatRead
  <2> QED BY <1>1, <1>4, <1>6, <2>1
<1> QED BY <1>1, <1>2, <1>12, <1>13, <1>14 DEF InBody

-----------------------------------------------------------------------------
(* Nested types open and close in a body, and the body ends.               *)

(* A nested type opens.                                                    *)
LEMMA BraceOpens ==
    ASSUME NEW us, NEW w, NEW from, NEW default, NEW inner \in Nat, NEW access, NEW own,
           us \in Seq(Words), from \in Nat \ {0}, w \in from - 1 .. Len(us),
           BraceDepth(us, from)[w] = inner, \A i \in from - 1 .. w : BraceDepth(us, from)[i] >= 0,
           NEW s, s = Parsed(us, from, default)[w],
           AccessAfter(us, s.statement, s.access) = access, s.fields = own, ~IsData(us, s.statement),
           w + 1 <= Len(us), us[w + 1] = Opening, NEW later
    PROVE  InBody(us, w + 1, from, default, inner + 1, access, own, later)
<1>1. PICK q : q = w + 1
  OBVIOUS
<1>2. /\ Len(us) \in Nat /\ q \in from .. Len(us) /\ from - 1 <= Len(us) /\ q - 1 = w
      /\ q \in from - 1 .. Len(us)
  BY <1>1
<1>3. BraceDepth(us, from)[q] = inner + 1
  <2>1. BraceDepth(us, from)[q] = BraceDepth(us, from)[q - 1] + 1
    BY <1>1, <1>2, BracesAre
  <2> QED BY <1>2, <2>1
<1>4. Parsed(us, from, default)[q] = s
  <2>1. ReadAs(us, from, Parsed(us, from, default)[q - 1], q, Parsed(us, from, default)[q])
    BY <1>2, ReadIs
  <2>2. us[q] \in Braces
    BY <1>1 DEF Braces
  <2> QED BY <1>2, <2>1, <2>2 DEF ReadAs
<1>5. \A i \in from - 1 .. q : BraceDepth(us, from)[i] >= 0
  <2>1. \A i \in from - 1 .. q : i = q \/ i \in from - 1 .. w
    BY <1>1, <1>2
  <2>2. BraceDepth(us, from)[q] >= 0
    BY <1>3
  <2> QED BY <2>1, <2>2
<1>6. Stood(us, s, inner + 1, access, own, later)
  <2>1. inner + 1 > 0 /\ ~(inner + 1 = 0)
    OBVIOUS
  <2> QED BY <2>1 DEF Stood
<1>7. inner + 1 \in Nat
  OBVIOUS
<1> QED BY <1>1, <1>2, <1>3, <1>4, <1>5, <1>6, <1>7 DEF InBody

LEMMA TypeOpens ==
    ASSUME NEW us, NEW p, NEW from, NEW default, NEW inner \in Nat, NEW access, NEW own, NEW after \in BOOLEAN,
           InBody(us, p, from, default, inner, access, own, after),
           NEW w, Sentence(us, p, w, w, w), NoLabels(us, p + 1 .. w), Quiet(us, p + 1 .. w),
           w + 1 <= Len(us), us[w + 1] = Opening, NEW later
    PROVE  InBody(us, w + 1, from, default, inner + 1, access, own, later)
<1>1. /\ us \in Seq(Words) /\ Len(us) \in Nat /\ from \in Nat \ {0} /\ p \in Nat
  BY InBodyFacts
<1>2. PICK s : s = Parsed(us, from, default)[w]
  OBVIOUS
<1>3. /\ w \in from - 1 .. Len(us) /\ BraceDepth(us, from)[w] = inner
      /\ \A i \in from - 1 .. w : BraceDepth(us, from)[i] >= 0
      /\ AccessAfter(us, s.statement, s.access) = access /\ s.fields = own /\ ~IsData(us, s.statement)
  <2>1. CASE inner > 0
    <3>1. InBody(us, w, from, default, inner, access, own, after)
      BY <2>1, DeepRead
    <3>2. Stood(us, s, inner, access, own, after)
      BY <1>2, <3>1 DEF InBody
    <3>3. ~IsData(us, s.statement)
      BY <3>2, StoodIsNoData
    <3> QED BY <3>1, <3>2, <3>3 DEF InBody, Stood
  <2>2. CASE inner = 0
    <3>1. InBody(us, p, from, default, 0, access, own, after)
      BY <2>2
    <3>2. /\ w \in from - 1 .. Len(us) /\ BraceDepth(us, from)[w] = 0
          /\ \A i \in from - 1 .. w : BraceDepth(us, from)[i] >= 0
      BY <3>1, FlatRead
    <3>3. Parsed(us, from, default)[w] = Taking(Parsed(us, from, default)[p], p + 1 .. w)
      BY <3>1, FlatRead
    <3>4. PICK N, t : N = p + 1 .. w /\ t = Parsed(us, from, default)[p]
      OBVIOUS
    <3>5. N \in SUBSET Nat /\ NoLabels(us, N) /\ (after \/ Quiet(us, N))
      BY <1>1, <3>4
    <3>6. Stood(us, t, 0, access, own, after)
      BY <3>1, <3>4 DEF InBody
    <3>7. ~IsData(us, t.statement \union N)
      BY <3>5, <3>6, QuietIsNoData
    <3>8. Took(us, Taking(t, N), t.statement \union N, access, own)
      BY <3>5, <3>6, TakenOn
    <3>9. s = Taking(t, N)
      BY <1>2, <3>3, <3>4
    <3>10. AccessAfter(us, s.statement, s.access) = access /\ s.fields = own /\ ~IsData(us, s.statement)
      BY <3>7, <3>8, <3>9 DEF Took
    <3> QED BY <2>2, <3>2, <3>10
  <2> QED BY <2>1, <2>2
<1> QED BY <1>1, <1>2, <1>3, BraceOpens

(* The body begins.                                                        *)
LEMMA BodyBegins ==
    ASSUME NEW us \in Seq(Words), NEW from \in Nat \ {0}, from - 1 <= Len(us), NEW default, NEW later, ~later
    PROVE  InBody(us, from - 1, from, default, 0, default, {}, later)
<1>1. Len(us) \in Nat
  OBVIOUS
<1>2. BraceDepth(us, from)[from - 1] = 0
  BY <1>1, BracesAre
<1>3. Parsed(us, from, default)[from - 1] = [access |-> default, statement |-> {}, fields |-> {}]
  BY <1>1, ParseSteps DEF Unread
<1>4. Stood(us, Parsed(us, from, default)[from - 1], 0, default, {}, later)
  BY <1>3, EndStands
<1>5. from - 1 \in from - 1 .. Len(us) /\ \A i \in from - 1 .. from - 1 : i = from - 1
  BY <1>1
<1>6. \A i \in from - 1 .. from - 1 : BraceDepth(us, from)[i] >= 0
  BY <1>2, <1>5
<1> QED BY <1>1, <1>2, <1>4, <1>5, <1>6 DEF InBody

(* A nested type closes.                                                   *)
LEMMA TypeCloses ==
    ASSUME NEW us, NEW p, NEW from, NEW default, NEW inner \in Nat, NEW access, NEW own, NEW after \in BOOLEAN,
           InBody(us, p, from, default, inner, access, own, after), inner > 0,
           p + 2 <= Len(us), us[p + 1] = Closing, us[p + 2] = Semicolon, NEW later, ~later
    PROVE  InBody(us, p + 2, from, default, inner - 1, access, own, later)
<1>1. /\ us \in Seq(Words) /\ Len(us) \in Nat /\ from \in Nat \ {0} /\ p \in Nat /\ from - 1 <= p
      /\ from - 1 <= Len(us)
  BY InBodyFacts
<1>2. PICK c, q, s : c = p + 1 /\ q = p + 2 /\ s = Parsed(us, from, default)[p]
  OBVIOUS
<1>3. /\ BraceDepth(us, from)[p] = inner
      /\ \A i \in from - 1 .. p : BraceDepth(us, from)[i] >= 0
      /\ Stood(us, s, inner, access, own, after)
  BY <1>2 DEF InBody
<1>4. /\ c \in from .. Len(us) /\ q \in from .. Len(us) /\ c - 1 = p /\ q - 1 = c
      /\ q \in from - 1 .. Len(us) /\ inner - 1 \in Nat
  BY <1>1, <1>2
<1>5. BraceDepth(us, from)[c] = inner - 1
  <2>1. BraceDepth(us, from)[c] = BraceDepth(us, from)[c - 1] - 1
    BY <1>1, <1>2, <1>4, BracesAre
  <2> QED BY <1>3, <1>4, <2>1
<1>6. us[c] \in Braces /\ us[q] \notin Braces /\ us[q] = Semicolon
  BY <1>2, TokensDiffer DEF Braces
<1>7. BraceDepth(us, from)[q] = inner - 1
  <2>1. BraceDepth(us, from)[q] = BraceDepth(us, from)[q - 1]
    BY <1>1, <1>4, <1>6, BracesAre
  <2> QED BY <1>4, <1>5, <2>1
<1>8. Parsed(us, from, default)[c] = s
  <2>1. ReadAs(us, from, Parsed(us, from, default)[c - 1], c, Parsed(us, from, default)[c])
    BY <1>1, <1>4, ReadIs
  <2> QED BY <1>2, <1>4, <1>6, <2>1 DEF ReadAs
<1>9. ReadAs(us, from, s, q, Parsed(us, from, default)[q])
  <2>1. ReadAs(us, from, Parsed(us, from, default)[q - 1], q, Parsed(us, from, default)[q])
    BY <1>1, <1>4, ReadIs
  <2> QED BY <1>4, <1>8, <2>1
<1>10. ~IsData(us, s.statement)
  BY <1>3, StoodIsNoData
<1>11. Stood(us, Parsed(us, from, default)[q], inner - 1, access, own, later)
  <2>1. AccessAfter(us, s.statement, s.access) = access /\ s.fields = own
    BY <1>3 DEF Stood
  <2>2. CASE inner - 1 = 0
    <3>1. Parsed(us, from, default)[q] = EndStatement(us, s)
      BY <1>6, <1>7, <1>9, <2>2 DEF ReadAs
    <3>2. EndStatement(us, s) = [access |-> access, statement |-> {}, fields |-> own]
      BY <1>10, <2>1, EndsWithout
    <3>3. Stood(us, EndStatement(us, s), 0, access, own, later)
      BY <3>2, EndStands
    <3> QED BY <2>2, <3>1, <3>3
  <2>3. CASE inner - 1 # 0
    <3>1. Parsed(us, from, default)[q] = s
      BY <1>7, <1>9, <2>3 DEF ReadAs
    <3>2. Stood(us, s, inner - 1, access, own, later)
      BY <1>10, <2>1, <2>3 DEF Stood
    <3> QED BY <3>1, <3>2
  <2> QED BY <2>2, <2>3
<1>12. \A i \in from - 1 .. q : BraceDepth(us, from)[i] >= 0
  <2>1. \A i \in from - 1 .. q : i = q \/ i = c \/ i \in from - 1 .. p
    BY <1>1, <1>2
  <2>2. BraceDepth(us, from)[q] >= 0 /\ BraceDepth(us, from)[c] >= 0
    BY <1>4, <1>5, <1>7
  <2> QED BY <1>3, <2>1, <2>2
<1> QED BY <1>1, <1>2, <1>4, <1>7, <1>11, <1>12 DEF InBody

-----------------------------------------------------------------------------
(* The body ends.                                                          *)
Ended(us, from, default, own) ==
    /\ us \in Seq(Words) /\ from \in Nat \ {0} /\ from - 1 <= Len(us)
    /\ \E c \in from .. Len(us) :
          /\ us[c] = Closing /\ BraceDepth(us, from)[c] = 0 - 1
          /\ \A i \in from - 1 .. c - 1 : BraceDepth(us, from)[i] >= 0
          /\ EndStatement(us, Parsed(us, from, default)[c - 1]).fields = own

LEMMA BodyEnds ==
    ASSUME NEW us, NEW p, NEW from, NEW default, NEW access, NEW own, NEW after \in BOOLEAN,
           InBody(us, p, from, default, 0, access, own, after),
           p + 1 <= Len(us), us[p + 1] = Closing
    PROVE  Ended(us, from, default, own)
<1>1. /\ us \in Seq(Words) /\ Len(us) \in Nat /\ from \in Nat \ {0} /\ p \in Nat /\ from - 1 <= p
      /\ from - 1 <= Len(us)
  BY InBodyFacts
<1>2. PICK c, s : c = p + 1 /\ s = Parsed(us, from, default)[p]
  OBVIOUS
<1>3. /\ BraceDepth(us, from)[p] = 0
      /\ \A i \in from - 1 .. p : BraceDepth(us, from)[i] >= 0
      /\ Stood(us, s, 0, access, own, after)
  BY <1>2 DEF InBody
<1>4. c \in from .. Len(us) /\ c - 1 = p
  BY <1>1, <1>2
<1>5. BraceDepth(us, from)[c] = 0 - 1
  <2>1. BraceDepth(us, from)[c] = BraceDepth(us, from)[c - 1] - 1
    BY <1>1, <1>2, <1>4, BracesAre
  <2> QED BY <1>3, <1>4, <2>1
<1>6. EndStatement(us, s).fields = own
  <2>1. ~IsData(us, s.statement)
    BY <1>3, StoodIsNoData
  <2>2. EndStatement(us, s) =
           [access |-> AccessAfter(us, s.statement, s.access), statement |-> {}, fields |-> s.fields]
    BY <2>1, EndsWithout
  <2>3. s.fields = own
    BY <1>3 DEF Stood
  <2> QED BY <2>2, <2>3
<1>7. /\ us[c] = Closing /\ \A i \in from - 1 .. c - 1 : BraceDepth(us, from)[i] >= 0
      /\ EndStatement(us, Parsed(us, from, default)[c - 1]).fields = own
  BY <1>2, <1>3, <1>4, <1>6
<1> QED BY <1>1, <1>4, <1>5, <1>7 DEF Ended

LEMMA EndedStays ==
    ASSUME NEW ts, NEW us, GoesOn(ts, us), NEW from, NEW default, NEW own, Ended(ts, from, default, own)
    PROVE  Ended(us, from, default, own)
<1>1. /\ ts \in Seq(Words) /\ us \in Seq(Words) /\ Len(ts) \in Nat /\ Len(us) \in Nat /\ Len(ts) <= Len(us)
      /\ from \in Nat \ {0} /\ from - 1 <= Len(ts) /\ from - 1 <= Len(us)
  <2>1. ts \in Seq(Words) /\ us \in Seq(Words) /\ Len(ts) <= Len(us) /\ from \in Nat \ {0} /\ from - 1 <= Len(ts)
    BY DEF Ended, GoesOn
  <2> QED BY <2>1
<1>2. PICK c \in from .. Len(ts) :
         /\ ts[c] = Closing /\ BraceDepth(ts, from)[c] = 0 - 1
         /\ \A i \in from - 1 .. c - 1 : BraceDepth(ts, from)[i] >= 0
         /\ EndStatement(ts, Parsed(ts, from, default)[c - 1]).fields = own
  BY DEF Ended
<1>3. PICK b : b = c - 1
  OBVIOUS
<1>4. /\ c \in from .. Len(us) /\ c \in 1 .. Len(ts) /\ c \in from - 1 .. Len(ts) /\ b \in from - 1 .. Len(ts)
      /\ b \in Int /\ \A i \in from - 1 .. b : i \in from - 1 .. Len(ts)
  BY <1>1, <1>3
<1>5. us[c] = Closing
  BY <1>2, <1>4 DEF GoesOn
<1>6. \A i \in from - 1 .. Len(ts) : BraceDepth(us, from)[i] = BraceDepth(ts, from)[i]
  BY <1>1, SameBraces
<1>7. PICK s : s = Parsed(ts, from, default)[b]
  OBVIOUS
<1>8. Parsed(us, from, default)[b] = s
  BY <1>1, <1>4, <1>7, SameParsed
<1>9. EndStatement(us, s) = EndStatement(ts, s)
  <2>1. KnownAt(s, from, b)
    BY <1>1, <1>4, <1>7, ParsedIsKnown
  <2>2. s.statement \subseteq 1 .. Len(ts)
    BY <1>1, <1>4, <2>1 DEF KnownAt
  <2> QED BY <2>2, SameEnd
<1>10. /\ BraceDepth(us, from)[c] = 0 - 1
       /\ \A i \in from - 1 .. c - 1 : BraceDepth(us, from)[i] >= 0
       /\ EndStatement(us, Parsed(us, from, default)[c - 1]).fields = own
  BY <1>2, <1>3, <1>4, <1>6, <1>7, <1>8, <1>9
<1> QED BY <1>1, <1>4, <1>5, <1>10 DEF Ended

(* The body is found, and its members are told.                            *)
LEMMA FieldsAreTold ==
    ASSUME NEW us, NEW a \in Nat \ {0}, NEW default, NEW own, Ended(us, a + 4, default, own),
           \A i \in a .. a + 2 : us[i] # Opening, us[a + 3] = Opening
    PROVE  ParseFields(us, BodyAfter(us, a), default) = own
<1>1. PICK from, o, n : from = a + 4 /\ o = a + 3 /\ n = Len(us)
  OBVIOUS
<1>2. /\ us \in Seq(Words) /\ n \in Nat /\ from \in Nat \ {0} /\ o \in Nat \ {0} /\ o <= n /\ from - 1 = o
      /\ o - 1 <= n
  <2>1. us \in Seq(Words) /\ from - 1 <= Len(us)
    BY <1>1 DEF Ended
  <2>2. Len(us) \in Nat
    BY <2>1
  <2> QED BY <1>1, <2>1, <2>2
<1>3. PICK c \in from .. n :
         /\ us[c] = Closing /\ BraceDepth(us, from)[c] = 0 - 1
         /\ \A i \in from - 1 .. c - 1 : BraceDepth(us, from)[i] >= 0
         /\ EndStatement(us, Parsed(us, from, default)[c - 1]).fields = own
  BY <1>1 DEF Ended
<1>4. PICK d, e : d = BraceDepth(us, from) /\ e = BraceDepth(us, o)
  OBVIOUS
<1>5. /\ d[o] = 0 /\ e[o - 1] = 0
      /\ \A i \in from .. n : d[i] = WithBrace(d[i - 1], us[i])
      /\ \A i \in o .. n : e[i] = WithBrace(e[i - 1], us[i])
  <2>1. /\ Len(us) \in Nat /\ from - 1 <= Len(us) /\ o - 1 <= Len(us)
    BY <1>1, <1>2
  <2>2. d[from - 1] = 0 /\ \A i \in from .. Len(us) : d[i] = WithBrace(d[i - 1], us[i])
    BY <1>2, <1>4, <2>1, BraceSteps
  <2>3. e[o - 1] = 0 /\ \A i \in o .. Len(us) : e[i] = WithBrace(e[i - 1], us[i])
    BY <1>2, <1>4, <2>1, BraceSteps
  <2> QED BY <1>1, <1>2, <2>2, <2>3
<1>6. \A i \in o .. n : d[i] \in Int
  <2>1. Len(us) \in Nat /\ from - 1 <= Len(us)
    BY <1>1, <1>2
  <2>2. \A i \in from - 1 .. Len(us) : BraceDepth(us, from)[i] \in Int
    BY <1>2, <2>1, BraceType
  <2> QED BY <1>1, <1>2, <1>4, <2>2
<1>7. e[o] = 1
  <2>1. o \in o .. n /\ us[o] = Opening
    BY <1>1, <1>2
  <2>2. e[o] = WithBrace(0, Opening)
    BY <1>5, <2>1
  <2>3. Opening # Closing
    BY TokensDiffer
  <2> QED BY <2>2, <2>3 DEF WithBrace
<1> DEFINE S == {k \in Nat : o + k <= n => e[o + k] = d[o + k] + 1}
<1>8. 0 \in S
  BY <1>2, <1>5, <1>7
<1>9. ASSUME NEW k \in S PROVE k + 1 \in S
  <2>1. PICK i : i = o + (k + 1)
    OBVIOUS
  <2>2. k \in Nat /\ i \in Nat /\ i - 1 = o + k
    BY <1>2, <2>1
  <2> SUFFICES ASSUME i <= n PROVE e[i] = d[i] + 1
    BY <2>1, <2>2
  <2>3. i \in from .. n /\ i \in o .. n /\ i - 1 \in o .. n
    BY <1>1, <1>2, <2>1, <2>2
  <2>4. e[i - 1] = d[i - 1] + 1
    BY <2>2, <2>3
  <2> HIDE DEF S
  <2>5. d[i - 1] \in Int
    BY <1>6, <2>3
  <2>6. d[i] = WithBrace(d[i - 1], us[i]) /\ e[i] = WithBrace(d[i - 1] + 1, us[i])
    BY <1>5, <2>3, <2>4
  <2>7. Opening # Closing
    BY TokensDiffer
  <2> QED BY <2>5, <2>6, <2>7 DEF WithBrace
<1>10. S = Nat
  <2> HIDE DEF S
  <2>1. S \in SUBSET Nat
    BY DEF S
  <2> QED BY <1>8, <1>9, <2>1, Induction
<1>11. ASSUME NEW i \in o .. n PROVE e[i] = d[i] + 1
  <2>1. i - o \in Nat /\ o + (i - o) = i /\ i <= n
    BY <1>2
  <2>2. i - o \in S
    BY <1>10, <2>1
  <2> QED BY <2>1, <2>2
<1> HIDE DEF S
<1>12. PICK opens : opens = {i \in a .. Len(us) : us[i] = Opening}
  OBVIOUS
<1>13. FirstAt(opens) = o
  <2>1. o \in opens
    BY <1>1, <1>2, <1>12
  <2>2. \A i \in opens : o <= i
    <3>1. SUFFICES ASSUME NEW i \in opens, ~(o <= i) PROVE FALSE
      OBVIOUS
    <3>2. i \in a .. a + 2
      BY <1>1, <1>2, <1>12, <3>1
    <3> QED BY <1>12, <3>1, <3>2
  <2>3. opens \in SUBSET Int
    BY <1>2, <1>12
  <2> QED BY <2>1, <2>2, <2>3, FirstIs
<1>14. PICK closes : closes = {i \in o .. Len(us) : us[i] = Closing /\ BraceDepth(us, o)[i] = 0}
  OBVIOUS
<1>15. c \in closes
  <2>1. c \in o .. n
    BY <1>1, <1>2
  <2>2. e[c] = 0
    BY <1>3, <1>4, <1>11, <2>1
  <2> QED BY <1>1, <1>3, <1>4, <1>14, <2>1, <2>2
<1>16. FirstAt(closes) = c
  <2>1. closes \in SUBSET Int /\ c \in Int
    BY <1>2, <1>14, <1>15
  <2>2. \A i \in closes : c <= i
    <3>1. SUFFICES ASSUME NEW i \in closes, ~(c <= i) PROVE FALSE
      OBVIOUS
    <3>2. i \in o .. n /\ i \in from - 1 .. c - 1 /\ e[i] = 0
      BY <1>1, <1>2, <1>4, <1>14, <2>1, <3>1
    <3>3. d[i] >= 0 /\ d[i] \in Int
      BY <1>3, <1>4, <1>6, <3>2
    <3> QED BY <1>11, <3>2, <3>3
  <2> QED BY <1>15, <2>1, <2>2, FirstIs
<1>17. BodyAfter(us, a) = [first |-> o + 1, last |-> c - 1]
  <2>1. opens # {} /\ closes # {}
    BY <1>1, <1>2, <1>12, <1>15
  <2> QED BY <1>12, <1>13, <1>14, <1>16, <2>1 DEF BodyAfter
<1>18. o + 1 = from
  BY <1>1, <1>2
<1> QED BY <1>3, <1>17, <1>18 DEF ParseFields

-----------------------------------------------------------------------------
(* What each declaration is to the parser of a body.                       *)
NoBraceWords == {"doc", "int", "f", "x", "c", "E", "T", "(", ")", "=", "const", "using", "enum", "class", "struct"}

LEMMA PlainOnes ==
    /\ \A w \in NoBraceWords : w \notin Braces /\ w # Semicolon /\ w \notin Labels
    /\ Opening \in Braces /\ Closing \in Braces /\ Semicolon \notin Braces
    /\ \A w \in {"x", "c"} : IsWord(w)
<1>1. /\ Opening # Closing /\ Opening # Semicolon /\ Closing # Semicolon
      /\ \A w \in Labels \union Keywords \union {"(", ")", "=", "n", "E", "T", "f", "x", "c"} :
            w # Opening /\ w # Closing /\ w # Semicolon
  BY TokensDiffer
<1>2. \A w \in NoBraceWords : w \in Labels \union Keywords \union {"(", ")", "=", "n", "E", "T", "f", "x", "c"}
  BY DEF NoBraceWords, Keywords, TypeKeywords
<1>3. \A w \in NoBraceWords : w \notin Labels
  BY DEF NoBraceWords, Labels
<1>4. \A w \in {"x", "c"} : IsWord(w)
  <2>1. \A w \in {"x", "c"} : w # "(" /\ w # ")" /\ w # "=" /\ w \in NoBraceWords
    BY DEF NoBraceWords
  <2>2. \A w \in {"x", "c"} : w # Opening /\ w # Closing /\ w # Semicolon
    BY <1>1, <1>2, <2>1
  <2> QED BY <1>3, <2>1, <2>2 DEF IsWord, Punctuation
<1> QED BY <1>1, <1>2, <1>3, <1>4 DEF Braces

QuietChunk(us, p) ==
    \E w, b : Sentence(us, p, w, b, Len(us)) /\ Len(us) = b + 1 /\ NoLabels(us, p + 1 .. w) /\ Quiet(us, p + 1 .. w)
BodyChunk(us, p) ==
    \E w, b : Sentence(us, p, w, b, Len(us)) /\ Len(us) = b /\ NoLabels(us, p + 1 .. w) /\ HasParen(us, p + 1 .. w)
DataChunk(us, p, name) ==
    \E w, b : /\ Sentence(us, p, w, b, Len(us)) /\ Len(us) = b + 1 /\ NoLabels(us, p + 1 .. w)
              /\ \E f, l : NamesAs(us, p + 1 .. w, f, l) /\ us[l] = name

LEMMA FunctionChunk ==
    ASSUME NEW us, NEW p \in Nat, us[p + 1] = "doc", Stands(us, p + 1, FunctionTokens)
    PROVE  QuietChunk(us, p)
<1>1. /\ us \in Seq(Words) /\ Len(us) = p + 8
      /\ us[p + 2] = "int" /\ us[p + 3] = "f" /\ us[p + 4] = "(" /\ us[p + 5] = "class" /\ us[p + 6] = "int"
      /\ us[p + 7] = ")" /\ us[p + 8] = Semicolon
  BY DEF Stands, FunctionTokens
<1>2. PICK w : w = p + 7
  OBVIOUS
<1>3. \A i \in p + 1 .. w : \/ i = p + 1 \/ i = p + 2 \/ i = p + 3 \/ i = p + 4 \/ i = p + 5
                            \/ i = p + 6 \/ i = p + 7
  BY <1>2
<1>4. \A i \in p + 1 .. w : us[i] \in NoBraceWords
  BY <1>1, <1>3 DEF NoBraceWords
<1>5. w \in p .. w /\ w \in Nat /\ Len(us) \in w .. Len(us) /\ Len(us) = w + 1 /\ us[Len(us)] = Semicolon
  BY <1>1, <1>2
<1>6. Sentence(us, p, w, w, Len(us)) /\ NoLabels(us, p + 1 .. w)
  BY <1>1, <1>4, <1>5, PlainOnes DEF Sentence, BodyTail, NoLabels
<1>7. HasParen(us, p + 1 .. w)
  <2>1. p + 4 \in p + 1 .. w
    BY <1>2
  <2> QED BY <1>1, <2>1 DEF HasParen
<1> QED BY <1>5, <1>6, <1>7 DEF QuietChunk, Quiet

LEMMA DefinitionChunk ==
    ASSUME NEW us, NEW p \in Nat, us[p + 1] = "doc", Stands(us, p + 1, DefinitionTokens)
    PROVE  BodyChunk(us, p)
<1>1. /\ us \in Seq(Words) /\ Len(us) = p + 10
      /\ us[p + 2] = "int" /\ us[p + 3] = "f" /\ us[p + 4] = "(" /\ us[p + 5] = ")" /\ us[p + 6] = Opening
      /\ us[p + 7] = "int" /\ us[p + 8] = "x" /\ us[p + 9] = Semicolon /\ us[p + 10] = Closing
  BY DEF Stands, DefinitionTokens
<1>2. PICK w, b : w = p + 5 /\ b = p + 10
  OBVIOUS
<1>3. \A i \in p + 1 .. w : \/ i = p + 1 \/ i = p + 2 \/ i = p + 3 \/ i = p + 4 \/ i = p + 5
  BY <1>2
<1>4. \A i \in p + 1 .. w : us[i] \in NoBraceWords
  BY <1>1, <1>3 DEF NoBraceWords
<1>5. w \in p .. b /\ b \in Nat /\ Len(us) \in b .. Len(us) /\ Len(us) = b
  BY <1>1, <1>2
<1>6. BodyTail(us, w, b)
  <2>1. w + 2 <= b /\ w + 1 = p + 6 /\ \A i \in w + 2 .. b - 1 : i = p + 7 \/ i = p + 8 \/ i = p + 9
    BY <1>2
  <2>2. us[p + 7] \in NoBraceWords /\ us[p + 8] \in NoBraceWords
    BY <1>1 DEF NoBraceWords
  <2>3. \A i \in w + 2 .. b - 1 : us[i] \notin Braces
    BY <1>1, <2>1, <2>2, PlainOnes
  <2> QED BY <1>1, <1>2, <2>1, <2>3 DEF BodyTail
<1>7. Sentence(us, p, w, b, Len(us)) /\ NoLabels(us, p + 1 .. w)
  BY <1>1, <1>4, <1>5, <1>6, PlainOnes DEF Sentence, NoLabels
<1>8. HasParen(us, p + 1 .. w)
  <2>1. p + 4 \in p + 1 .. w
    BY <1>2
  <2> QED BY <1>1, <2>1 DEF HasParen
<1> QED BY <1>5, <1>7, <1>8 DEF BodyChunk

(* The first of the words behind the comment.                              *)
LEMMA FirstSkips ==
    ASSUME NEW us, NEW p \in Nat, NEW w \in Nat, p + 2 <= w, us[p + 1] = "doc",
           us[p + 2] \in TypeKeywords \union {"enum", "using"}
    PROVE  Quiet(us, p + 1 .. w)
<1>1. p + 2 \in p + 1 .. w /\ \A j \in p + 1 .. w : j = p + 1 \/ p + 2 <= j
  OBVIOUS
<1>2. us[p + 2] \notin Labels \union {"doc"}
  BY DEF Labels, TypeKeywords
<1>3. \A j \in p + 1 .. w : us[j] \notin Labels \union {"doc"} => p + 2 <= j
  BY <1>1
<1> QED BY <1>1, <1>2, <1>3 DEF Quiet, Skips

LEMMA EnumChunk ==
    ASSUME NEW us, NEW p \in Nat, us[p + 1] = "doc", Stands(us, p + 1, EnumTokens)
    PROVE  QuietChunk(us, p)
<1>1. /\ us \in Seq(Words) /\ Len(us) = p + 8
      /\ us[p + 2] = "enum" /\ us[p + 3] = "class" /\ us[p + 4] = "E" /\ us[p + 5] = Opening
      /\ us[p + 6] = "x" /\ us[p + 7] = Closing /\ us[p + 8] = Semicolon
  BY DEF Stands, EnumTokens
<1>2. PICK w, b : w = p + 4 /\ b = p + 7
  OBVIOUS
<1>3. \A i \in p + 1 .. w : \/ i = p + 1 \/ i = p + 2 \/ i = p + 3 \/ i = p + 4
  BY <1>2
<1>4. \A i \in p + 1 .. w : us[i] \in NoBraceWords
  BY <1>1, <1>3 DEF NoBraceWords
<1>5. /\ w \in p .. b /\ w \in Nat /\ b \in Nat /\ Len(us) \in b .. Len(us) /\ Len(us) = b + 1
      /\ us[Len(us)] = Semicolon
  BY <1>1, <1>2
<1>6. BodyTail(us, w, b)
  <2>1. w + 2 <= b /\ w + 1 = p + 5 /\ \A i \in w + 2 .. b - 1 : i = p + 6
    BY <1>2
  <2>2. us[p + 6] \in NoBraceWords
    BY <1>1 DEF NoBraceWords
  <2>3. \A i \in w + 2 .. b - 1 : us[i] \notin Braces
    BY <2>1, <2>2, PlainOnes
  <2> QED BY <1>1, <1>2, <2>1, <2>3 DEF BodyTail
<1>7. Sentence(us, p, w, b, Len(us)) /\ NoLabels(us, p + 1 .. w)
  BY <1>1, <1>4, <1>5, <1>6, PlainOnes DEF Sentence, NoLabels
<1>8. Quiet(us, p + 1 .. w)
  <2>1. p + 2 <= w
    BY <1>2
  <2> QED BY <1>1, <1>5, <2>1, FirstSkips
<1> QED BY <1>5, <1>7, <1>8 DEF QuietChunk

LEMMA AliasChunk ==
    ASSUME NEW us, NEW p \in Nat, us[p + 1] = "doc", Stands(us, p + 1, AliasTokens)
    PROVE  QuietChunk(us, p)
<1>1. /\ us \in Seq(Words) /\ Len(us) = p + 6
      /\ us[p + 2] = "using" /\ us[p + 3] = "T" /\ us[p + 4] = "=" /\ us[p + 5] = "int" /\ us[p + 6] = Semicolon
  BY DEF Stands, AliasTokens
<1>2. PICK w : w = p + 5
  OBVIOUS
<1>3. \A i \in p + 1 .. w : \/ i = p + 1 \/ i = p + 2 \/ i = p + 3 \/ i = p + 4 \/ i = p + 5
  BY <1>2
<1>4. \A i \in p + 1 .. w : us[i] \in NoBraceWords
  BY <1>1, <1>3 DEF NoBraceWords
<1>5. w \in p .. w /\ w \in Nat /\ Len(us) \in w .. Len(us) /\ Len(us) = w + 1 /\ us[Len(us)] = Semicolon
  BY <1>1, <1>2
<1>6. Sentence(us, p, w, w, Len(us)) /\ NoLabels(us, p + 1 .. w)
  BY <1>1, <1>4, <1>5, PlainOnes DEF Sentence, BodyTail, NoLabels
<1>7. Quiet(us, p + 1 .. w)
  <2>1. p + 2 <= w
    BY <1>2
  <2> QED BY <1>1, <1>5, <2>1, FirstSkips
<1> QED BY <1>5, <1>6, <1>7 DEF QuietChunk

LEMMA ConstantChunk ==
    ASSUME NEW us, NEW p \in Nat, us[p + 1] = "doc", Stands(us, p + 1, ConstantTokens)
    PROVE  DataChunk(us, p, "c")
<1>1. /\ us \in Seq(Words) /\ Len(us) = p + 7
      /\ us[p + 2] = "const" /\ us[p + 3] = "int" /\ us[p + 4] = "c" /\ us[p + 5] = Opening
      /\ us[p + 6] = Closing /\ us[p + 7] = Semicolon
  BY DEF Stands, ConstantTokens
<1>2. PICK w, b : w = p + 4 /\ b = p + 6
  OBVIOUS
<1>3. \A i \in p + 1 .. w : \/ i = p + 1 \/ i = p + 2 \/ i = p + 3 \/ i = p + 4
  BY <1>2
<1>4. \A i \in p + 1 .. w : us[i] \in NoBraceWords
  BY <1>1, <1>3 DEF NoBraceWords
<1>5. /\ w \in p .. b /\ w \in Nat /\ b \in Nat /\ Len(us) \in b .. Len(us) /\ Len(us) = b + 1
      /\ us[Len(us)] = Semicolon
  BY <1>1, <1>2
<1>6. BodyTail(us, w, b)
  <2>1. w + 2 <= b /\ w + 1 = p + 5 /\ ~\E i \in w + 2 .. b - 1 : TRUE
    BY <1>2
  <2> QED BY <1>1, <1>2, <2>1 DEF BodyTail
<1>7. Sentence(us, p, w, b, Len(us)) /\ NoLabels(us, p + 1 .. w)
  BY <1>1, <1>4, <1>5, <1>6, PlainOnes DEF Sentence, NoLabels
<1>8. NamesAs(us, p + 1 .. w, p + 2, p + 4) /\ us[p + 4] = "c"
  <2>1. /\ p + 2 \in p + 1 .. w /\ p + 4 \in p + 1 .. w /\ p + 2 # p + 4
        /\ \A j \in p + 1 .. w : j = p + 1 \/ (p + 2 <= j /\ j <= p + 4)
    BY <1>2
  <2>2. us[p + 2] \notin TypeKeywords \union {"enum", "using"} /\ IsWord(us[p + 4])
    BY <1>1, PlainOnes DEF TypeKeywords
  <2>3. us[p + 2] \notin Labels \union {"doc"} /\ us[p + 4] \notin Labels \union {"doc"}
    BY <1>1 DEF Labels
  <2>4. \A j \in p + 1 .. w : us[j] \notin Labels \union {"doc"} => p + 2 <= j /\ j <= p + 4
    BY <2>1
  <2>5. \A j \in p + 1 .. w : us[j] \notin {"(", ")"}
    BY <1>1, <1>3
  <2> QED BY <1>1, <2>1, <2>2, <2>3, <2>4, <2>5 DEF NamesAs
<1> QED BY <1>5, <1>7, <1>8 DEF DataChunk

LEMMA MemberChunk ==
    ASSUME NEW us, NEW p \in Nat, Stands(us, p, DataTokens)
    PROVE  DataChunk(us, p, "x")
<1>1. /\ us \in Seq(Words) /\ Len(us) = p + 3
      /\ us[p + 1] = "int" /\ us[p + 2] = "x" /\ us[p + 3] = Semicolon
  BY DEF Stands, DataTokens
<1>2. PICK w : w = p + 2
  OBVIOUS
<1>3. \A i \in p + 1 .. w : \/ i = p + 1 \/ i = p + 2
  BY <1>2
<1>4. \A i \in p + 1 .. w : us[i] \in NoBraceWords
  BY <1>1, <1>3 DEF NoBraceWords
<1>5. w \in p .. w /\ w \in Nat /\ Len(us) \in w .. Len(us) /\ Len(us) = w + 1 /\ us[Len(us)] = Semicolon
  BY <1>1, <1>2
<1>6. Sentence(us, p, w, w, Len(us)) /\ NoLabels(us, p + 1 .. w)
  BY <1>1, <1>4, <1>5, PlainOnes DEF Sentence, BodyTail, NoLabels
<1>7. NamesAs(us, p + 1 .. w, p + 1, p + 2) /\ us[p + 2] = "x"
  <2>1. /\ p + 1 \in p + 1 .. w /\ p + 2 \in p + 1 .. w /\ p + 1 # p + 2
        /\ \A j \in p + 1 .. w : p + 1 <= j /\ j <= p + 2
    BY <1>2
  <2>2. us[p + 1] \notin TypeKeywords \union {"enum", "using"} /\ IsWord(us[p + 2])
    BY <1>1, PlainOnes DEF TypeKeywords
  <2>3. us[p + 1] \notin Labels \union {"doc"} /\ us[p + 2] \notin Labels \union {"doc"}
    BY <1>1 DEF Labels
  <2>4. \A j \in p + 1 .. w : us[j] \notin {"(", ")"}
    BY <1>1, <1>3
  <2> QED BY <1>1, <2>1, <2>2, <2>3, <2>4 DEF NamesAs
<1> QED BY <1>5, <1>6, <1>7 DEF DataChunk

-----------------------------------------------------------------------------
(* What is known of every documented type while the file is written.       *)

(* What is told of a type: its own members, but those that stand behind a  *)
(* function defined in place.                                              *)
OwnOf(ms, a) == {[name |-> m.name, access |-> m.access] : m \in {x \in ms : x.type = a /\ ~x.afterBody}}

(* A type begins behind its comment, at a, with its keyword, name and      *)
(* brace.                                                                  *)
Headed(us, a) ==
    a \in Nat \ {0} /\ a + 3 <= Len(us) /\ us[a + 3] = Opening /\ \A i \in a .. a + 2 : us[i] # Opening

(* Scope i is a documented type whose body has been read up to here.       *)
OpenAt(us, sc, ms, i) ==
    /\ IsTypeScope(sc[i])
    /\ \A j \in 1 .. Len(sc) : j # i => sc[j].doc # sc[i].doc
    /\ InBody(us, Len(us), sc[i].doc + 4, DefaultAccess(sc[i].keyword), Len(sc) - i,
              sc[i].access, OwnOf(ms, sc[i].doc), sc[i].afterBody)

(* The entity e is a type that is open, or one that has been closed.       *)
StillOpen(sc, e) == \E i \in 1 .. Len(sc) : sc[i].doc = e.at /\ sc[i].keyword = e.kind
HasEnded(us, sc, ms, e) ==
    /\ Ended(us, e.at + 4, DefaultAccess(e.kind), OwnOf(ms, e.at))
    /\ \A i \in 1 .. Len(sc) : sc[i].doc # e.at

(* Each documented type is read up to where the file ends or its body      *)
(* does, with its own members.                                             *)
ReadSoFar(us, sc, ms, es) ==
    /\ \A m \in ms : m.type \in 0 .. Len(us)
    /\ \A i \in 1 .. Len(sc) : sc[i].doc \in 0 .. Len(us) /\ (sc[i].doc # 0 => OpenAt(us, sc, ms, i))
    /\ \A e \in es : e.kind \in TypeKeywords =>
          Headed(us, e.at) /\ (StillOpen(sc, e) \/ HasEnded(us, sc, ms, e))

FieldsInv == ReadSoFar(tokens, scopes, members, declared)

LEMMA OwnSame ==
    ASSUME NEW ms, NEW M, NEW a, \A m \in M : m.type # a \/ m.afterBody
    PROVE  OwnOf(ms \union M, a) = OwnOf(ms, a)
<1>1. {x \in ms \union M : x.type = a /\ ~x.afterBody} = {x \in ms : x.type = a /\ ~x.afterBody}
  OBVIOUS
<1> QED BY <1>1 DEF OwnOf

LEMMA OwnMore ==
    ASSUME NEW ms, NEW m, NEW a, m.type = a, ~m.afterBody
    PROVE  OwnOf(ms \union {m}, a) = OwnOf(ms, a) \union {[name |-> m.name, access |-> m.access]}
<1>1. {x \in ms \union {m} : x.type = a /\ ~x.afterBody} = {x \in ms : x.type = a /\ ~x.afterBody} \union {m}
  OBVIOUS
<1> QED BY <1>1 DEF OwnOf

LEMMA OwnNone ==
    ASSUME NEW ms, NEW a, \A m \in ms : m.type # a
    PROVE  OwnOf(ms, a) = {}
BY DEF OwnOf

LEMMA HeadedStays ==
    ASSUME NEW ts, NEW us, GoesOn(ts, us), NEW a, Headed(ts, a)
    PROVE  Headed(us, a)
<1>1. a \in Nat \ {0} /\ a + 3 <= Len(ts) /\ ts[a + 3] = Opening /\ \A i \in a .. a + 2 : ts[i] # Opening
  BY DEF Headed
<1>2. Len(ts) \in Nat /\ Len(us) \in Nat /\ Len(ts) <= Len(us) /\ \A i \in 1 .. Len(ts) : us[i] = ts[i]
  BY DEF GoesOn
<1>3. a + 3 \in 1 .. Len(ts) /\ a + 3 <= Len(us) /\ \A i \in a .. a + 2 : i \in 1 .. Len(ts)
  BY <1>1, <1>2
<1> QED BY <1>1, <1>2, <1>3 DEF Headed

(* A declaration in the innermost scope, or a label.                       *)
LEMMA GoesOnInside ==
    ASSUME NEW ts, NEW us, NEW sc, NEW t, NEW ms, NEW M, NEW es, NEW fs,
           ReadSoFar(ts, sc, ms, es), sc \in Seq(ScopeType), GoesOn(ts, us),
           NEW w, NEW b, Sentence(us, Len(ts), w, b, Len(us)),
           Len(t) = Len(sc),
           \A i \in 1 .. Len(sc) : t[i].doc = sc[i].doc /\ t[i].keyword = sc[i].keyword,
           \A i \in 1 .. Len(sc) - 1 : t[i] = sc[i],
           \A m \in M : sc # <<>> /\ m.type = sc[Len(sc)].doc,
           \A e \in fs : e \in es \/ e.kind \notin TypeKeywords,
           sc # <<>> /\ sc[Len(sc)].doc # 0 =>
              InBody(us, Len(us), sc[Len(sc)].doc + 4, DefaultAccess(sc[Len(sc)].keyword), 0,
                     t[Len(sc)].access, OwnOf(ms \union M, sc[Len(sc)].doc), t[Len(sc)].afterBody)
    PROVE  ReadSoFar(us, t, ms \union M, fs)
<1>1. PICK n, z : n = Len(sc) /\ z = Len(ts)
  OBVIOUS
<1>2. n \in Nat /\ z \in Nat /\ Len(us) \in Nat /\ z <= Len(us)
  BY <1>1 DEF GoesOn
<1>3. /\ \A m \in ms : m.type \in 0 .. z
      /\ \A i \in 1 .. n : sc[i].doc \in 0 .. z /\ (sc[i].doc # 0 => OpenAt(ts, sc, ms, i))
      /\ \A e \in es : e.kind \in TypeKeywords =>
            Headed(ts, e.at) /\ (StillOpen(sc, e) \/ HasEnded(ts, sc, ms, e))
  BY <1>1 DEF ReadSoFar
<1>4. sc # <<>> => n \in 1 .. n /\ sc[n].doc \in 0 .. z
  BY <1>1, <1>3
<1>5. \A m \in ms \union M : m.type \in 0 .. Len(us)
  <2>1. \A k \in 0 .. z : k \in 0 .. Len(us)
    BY <1>2
  <2>2. \A m \in M : m.type \in 0 .. z
    BY <1>1, <1>4
  <2> QED BY <1>3, <2>1, <2>2
<1>6. ASSUME NEW i \in 1 .. n PROVE t[i].doc \in 0 .. Len(us) /\ (t[i].doc # 0 => OpenAt(us, t, ms \union M, i))
  <2>1. t[i].doc = sc[i].doc /\ t[i].keyword = sc[i].keyword /\ sc[i].doc \in 0 .. Len(us)
    <3>1. sc[i].doc \in 0 .. z
      BY <1>3
    <3> QED BY <1>1, <1>2, <3>1
  <2> SUFFICES ASSUME sc[i].doc # 0 PROVE OpenAt(us, t, ms \union M, i)
    BY <2>1
  <2>2. /\ IsTypeScope(sc[i])
        /\ \A j \in 1 .. n : j # i => sc[j].doc # sc[i].doc
        /\ InBody(ts, Len(ts), sc[i].doc + 4, DefaultAccess(sc[i].keyword), n - i,
                  sc[i].access, OwnOf(ms, sc[i].doc), sc[i].afterBody)
    BY <1>1, <1>3 DEF OpenAt
  <2>3. IsTypeScope(t[i]) /\ \A j \in 1 .. Len(t) : j # i => t[j].doc # t[i].doc
    BY <1>1, <2>1, <2>2 DEF IsTypeScope
  <2>4. InBody(us, Len(us), sc[i].doc + 4, DefaultAccess(sc[i].keyword), n - i,
               t[i].access, OwnOf(ms \union M, sc[i].doc), t[i].afterBody)
    <3>1. CASE i = n
      <4>1. n - i = 0 /\ sc # <<>>
        BY <1>1, <1>2, <3>1
      <4> QED BY <1>1, <3>1, <4>1
    <3>2. CASE i # n
      <4>1. i \in 1 .. n - 1 /\ n - i \in Nat /\ n - i > 0
        BY <1>2, <3>2
      <4>2. t[i] = sc[i]
        BY <1>1, <4>1
      <4>3. OwnOf(ms \union M, sc[i].doc) = OwnOf(ms, sc[i].doc)
        <5>1. \A m \in M : m.type # sc[i].doc
          BY <1>1, <1>4, <2>2, <3>2
        <5>2. PICK a : a = sc[i].doc
          OBVIOUS
        <5>3. \A m \in M : m.type # a \/ m.afterBody
          BY <5>1, <5>2
        <5>4. OwnOf(ms \union M, a) = OwnOf(ms, a)
          BY <5>3, OwnSame
        <5> QED BY <5>2, <5>4
      <4>4. PICK from, d, k, own, ac, af : /\ from = sc[i].doc + 4 /\ d = DefaultAccess(sc[i].keyword) /\ k = n - i
                                           /\ own = OwnOf(ms, sc[i].doc) /\ ac = sc[i].access /\ af = sc[i].afterBody
        OBVIOUS
      <4>5. InBody(ts, Len(ts), from, d, k, ac, own, af)
        BY <2>2, <4>4
      <4>6. InBody(us, Len(ts), from, d, k, ac, own, af)
        BY <4>5, InBodyStays
      <4>7. InBody(us, Len(us), from, d, k, ac, own, af)
        <5>1. k > 0
          BY <4>1, <4>4
        <5> QED BY <4>6, <5>1, DeepRead
      <4> QED BY <4>2, <4>3, <4>4, <4>7
    <3> QED BY <3>1, <3>2
  <2> QED BY <1>1, <2>1, <2>3, <2>4 DEF OpenAt
<1>7. ASSUME NEW e \in fs, e.kind \in TypeKeywords
      PROVE  Headed(us, e.at) /\ (StillOpen(t, e) \/ HasEnded(us, t, ms \union M, e))
  <2>1. Headed(ts, e.at) /\ (StillOpen(sc, e) \/ HasEnded(ts, sc, ms, e))
    BY <1>3, <1>7
  <2>2. Headed(us, e.at)
    BY <2>1, HeadedStays
  <2>3. CASE StillOpen(sc, e)
    <3>1. StillOpen(t, e)
      BY <2>3 DEF StillOpen
    <3> QED BY <2>2, <3>1
  <2>4. CASE HasEnded(ts, sc, ms, e)
    <3>1. /\ Ended(ts, e.at + 4, DefaultAccess(e.kind), OwnOf(ms, e.at))
          /\ \A i \in 1 .. n : sc[i].doc # e.at
      BY <1>1, <2>4 DEF HasEnded
    <3>2. OwnOf(ms \union M, e.at) = OwnOf(ms, e.at)
      <4>1. \A m \in M : m.type # e.at
        BY <1>1, <1>4, <3>1
      <4>2. PICK a : a = e.at
        OBVIOUS
      <4>3. \A m \in M : m.type # a \/ m.afterBody
        BY <4>1, <4>2
      <4>4. OwnOf(ms \union M, a) = OwnOf(ms, a)
        BY <4>3, OwnSame
      <4> QED BY <4>2, <4>4
    <3>3. Ended(us, e.at + 4, DefaultAccess(e.kind), OwnOf(ms, e.at))
      BY <3>1, EndedStays
    <3>4. HasEnded(us, t, ms \union M, e)
      BY <1>1, <3>1, <3>2, <3>3 DEF HasEnded
    <3> QED BY <2>2, <3>4
  <2> QED BY <2>1, <2>3, <2>4
<1> QED BY <1>1, <1>5, <1>6, <1>7 DEF ReadSoFar

-----------------------------------------------------------------------------
(* A declaration or a label in the innermost scope.                        *)

SameButLast(t, sc) ==
    /\ Len(t) = Len(sc)
    /\ \A i \in 1 .. Len(sc) : t[i].doc = sc[i].doc /\ t[i].keyword = sc[i].keyword
    /\ \A i \in 1 .. Len(sc) - 1 : t[i] = sc[i]

LEMMA LastFacts ==
    ASSUME NEW sc \in Seq(ScopeType), sc # <<>>
    PROVE  /\ Len(sc) \in Nat /\ Len(sc) \in 1 .. Len(sc) /\ sc[Len(sc)] \in ScopeType /\ Last(sc) = sc[Len(sc)]
           /\ sc \in [1 .. Len(sc) -> ScopeType]
<1>1. Len(sc) \in Nat \ {0}
  OBVIOUS
<1>2. Len(sc) \in 1 .. Len(sc)
  BY <1>1
<1> QED BY <1>1, <1>2 DEF Last

LEMMA AfterBodyIs ==
    ASSUME NEW sc \in Seq(ScopeType), NEW b \in BOOLEAN, NEW t, t = AfterBody(sc, b)
    PROVE  /\ SameButLast(t, sc)
           /\ sc # <<>> => t[Len(sc)].access = sc[Len(sc)].access /\ t[Len(sc)].afterBody = b
<1>1. CASE sc = <<>>
  <2>1. t = sc /\ Len(sc) = 0
    BY <1>1 DEF AfterBody
  <2> QED BY <1>1, <2>1 DEF SameButLast
<1>2. CASE sc # <<>>
  <2>1. PICK n, r : n = Len(sc) /\ r = sc[n]
    OBVIOUS
  <2>2. n \in Nat /\ n \in 1 .. n /\ r \in ScopeType /\ sc \in [1 .. n -> ScopeType]
    BY <1>2, <2>1, LastFacts
  <2>3. t = [sc EXCEPT ![n].afterBody = b]
    BY <1>2, <2>1 DEF AfterBody
  <2>4. DOMAIN t = 1 .. n /\ t[n] = [r EXCEPT !.afterBody = b] /\ \A i \in 1 .. n : i # n => t[i] = sc[i]
    BY <2>1, <2>2, <2>3
  <2>5. Len(t) = n
    <3>1. t \in Seq(ScopeType) /\ Len(t) = Len(sc)
      BY BodyUnseen
    <3> QED BY <2>1, <3>1
  <2>6. PICK u : u = [r EXCEPT !.afterBody = b]
    OBVIOUS
  <2>7. u.doc = r.doc /\ u.keyword = r.keyword /\ u.access = r.access /\ u.afterBody = b
    BY <2>2, <2>6 DEF ScopeType
  <2>8. \A i \in 1 .. n - 1 : i \in 1 .. n /\ i # n
    BY <2>2
  <2>9. SameButLast(t, sc)
    BY <2>1, <2>2, <2>4, <2>5, <2>6, <2>7, <2>8 DEF SameButLast
  <2> QED BY <2>1, <2>4, <2>6, <2>7, <2>9
<1> QED BY <1>1, <1>2

Relabelled(sc, v) == [sc EXCEPT ![Len(sc)].access = v]

LEMMA LabelledIs ==
    ASSUME NEW sc \in Seq(ScopeType), sc # <<>>, NEW v, NEW t, t = Relabelled(sc, v)
    PROVE  /\ SameButLast(t, sc)
           /\ t[Len(sc)].access = v /\ t[Len(sc)].afterBody = sc[Len(sc)].afterBody
<1>1. PICK n, r : n = Len(sc) /\ r = sc[n]
  OBVIOUS
<1>2. n \in Nat /\ n \in 1 .. n /\ r \in ScopeType /\ sc \in [1 .. n -> ScopeType]
  BY <1>1, LastFacts
<1>3. DOMAIN t = 1 .. n /\ t[n] = [r EXCEPT !.access = v] /\ \A i \in 1 .. n : i # n => t[i] = sc[i]
  BY <1>1, <1>2 DEF Relabelled
<1>4. Len(t) = n
  BY <1>2, <1>3
<1>5. PICK u : u = [r EXCEPT !.access = v]
  OBVIOUS
<1>6. u.doc = r.doc /\ u.keyword = r.keyword /\ u.access = v /\ u.afterBody = r.afterBody
  BY <1>2, <1>5 DEF ScopeType
<1>7. \A i \in 1 .. n - 1 : i \in 1 .. n /\ i # n
  BY <1>2
<1>8. SameButLast(t, sc)
  BY <1>1, <1>2, <1>3, <1>4, <1>5, <1>6, <1>7 DEF SameButLast
<1> QED BY <1>1, <1>3, <1>5, <1>6, <1>8

(* The innermost type, when it is documented.                              *)
InLast(us, n, sc, ms, access, after) ==
    InBody(us, n, sc[Len(sc)].doc + 4, DefaultAccess(sc[Len(sc)].keyword), 0, access, OwnOf(ms, sc[Len(sc)].doc), after)

LEMMA LastIsOpen ==
    ASSUME NEW ts, NEW us, NEW sc \in Seq(ScopeType), NEW ms, NEW es, ReadSoFar(ts, sc, ms, es), GoesOn(ts, us),
           sc # <<>>, sc[Len(sc)].doc # 0
    PROVE  /\ InLast(us, Len(ts), sc, ms, sc[Len(sc)].access, sc[Len(sc)].afterBody)
           /\ sc[Len(sc)].afterBody \in BOOLEAN /\ IsTypeScope(sc[Len(sc)])
<1>1. PICK n : n = Len(sc)
  OBVIOUS
<1>2. n \in Nat /\ n \in 1 .. n /\ sc[n] \in ScopeType
  BY <1>1, LastFacts
<1>3. OpenAt(ts, sc, ms, n)
  BY <1>1, <1>2 DEF ReadSoFar
<1>4. /\ IsTypeScope(sc[n])
      /\ InBody(ts, Len(ts), sc[n].doc + 4, DefaultAccess(sc[n].keyword), n - n, sc[n].access,
                OwnOf(ms, sc[n].doc), sc[n].afterBody)
  BY <1>1, <1>3 DEF OpenAt
<1>5. PICK from, d, own, ac, af : /\ from = sc[n].doc + 4 /\ d = DefaultAccess(sc[n].keyword)
                                  /\ own = OwnOf(ms, sc[n].doc) /\ ac = sc[n].access /\ af = sc[n].afterBody
  OBVIOUS
<1>6. n - n = 0
  BY <1>2
<1>7. InBody(ts, Len(ts), from, d, 0, ac, own, af)
  BY <1>4, <1>5, <1>6
<1>8. InBody(us, Len(ts), from, d, 0, ac, own, af)
  BY <1>7, InBodyStays
<1>9. sc[n].afterBody \in BOOLEAN
  BY <1>2 DEF ScopeType
<1> QED BY <1>1, <1>4, <1>5, <1>8, <1>9 DEF InLast

LEMMA InsideKeeps ==
    ASSUME NEW ts, NEW us, NEW sc \in Seq(ScopeType), NEW t, NEW ms, NEW M, NEW es, NEW fs,
           ReadSoFar(ts, sc, ms, es), GoesOn(ts, us),
           NEW w, NEW b, Sentence(us, Len(ts), w, b, Len(us)), SameButLast(t, sc),
           \A m \in M : sc # <<>> /\ m.type = sc[Len(sc)].doc,
           \A e \in fs : e \in es \/ e.kind \notin TypeKeywords,
           sc # <<>> /\ sc[Len(sc)].doc # 0 =>
              InLast(us, Len(us), sc, ms \union M, t[Len(sc)].access, t[Len(sc)].afterBody)
    PROVE  ReadSoFar(us, t, ms \union M, fs)
<1>1. sc # <<>> /\ sc[Len(sc)].doc # 0 =>
         InBody(us, Len(us), sc[Len(sc)].doc + 4, DefaultAccess(sc[Len(sc)].keyword), 0,
                t[Len(sc)].access, OwnOf(ms \union M, sc[Len(sc)].doc), t[Len(sc)].afterBody)
  BY DEF InLast
<1>2. /\ Len(t) = Len(sc)
      /\ \A i \in 1 .. Len(sc) : t[i].doc = sc[i].doc /\ t[i].keyword = sc[i].keyword
      /\ \A i \in 1 .. Len(sc) - 1 : t[i] = sc[i]
  BY DEF SameButLast
<1> QED BY <1>1, <1>2, GoesOnInside

LEMMA QuietInside ==
    ASSUME NEW ts, NEW us, NEW sc \in Seq(ScopeType), NEW ms, NEW es, NEW fs,
           ReadSoFar(ts, sc, ms, es), GoesOn(ts, us), QuietChunk(us, Len(ts)),
           \A e \in fs : e \in es \/ e.kind \notin TypeKeywords
    PROVE  ReadSoFar(us, AfterBody(sc, FALSE), ms, fs)
<1>1. PICK w, b : /\ Sentence(us, Len(ts), w, b, Len(us)) /\ Len(us) = b + 1
                  /\ NoLabels(us, Len(ts) + 1 .. w) /\ Quiet(us, Len(ts) + 1 .. w)
  BY DEF QuietChunk
<1>2. PICK t : t = AfterBody(sc, FALSE)
  OBVIOUS
<1>3. /\ SameButLast(t, sc)
      /\ sc # <<>> => t[Len(sc)].access = sc[Len(sc)].access /\ ~t[Len(sc)].afterBody
  BY <1>2, AfterBodyIs
<1>4. ASSUME sc # <<>>, sc[Len(sc)].doc # 0
      PROVE  InLast(us, Len(us), sc, ms, t[Len(sc)].access, t[Len(sc)].afterBody)
  <2>1. PICK p, q, from, d, own, ac, af, later :
           /\ p = Len(ts) /\ q = Len(us) /\ from = sc[Len(sc)].doc + 4 /\ d = DefaultAccess(sc[Len(sc)].keyword)
           /\ own = OwnOf(ms, sc[Len(sc)].doc) /\ ac = sc[Len(sc)].access /\ af = sc[Len(sc)].afterBody
           /\ later = t[Len(sc)].afterBody
    OBVIOUS
  <2>2. InBody(us, p, from, d, 0, ac, own, af) /\ af \in BOOLEAN
    BY <1>4, <2>1, LastIsOpen DEF InLast
  <2>3. /\ Sentence(us, p, w, b, q) /\ q = b + 1 /\ NoLabels(us, p + 1 .. w) /\ (af \/ Quiet(us, p + 1 .. w))
        /\ ~later
    BY <1>1, <1>3, <1>4, <2>1
  <2>4. InBody(us, q, from, d, 0, ac, own, later)
    BY <2>2, <2>3, QuietEnds
  <2> QED BY <1>3, <1>4, <2>1, <2>4 DEF InLast
<1>5. ms \union {} = ms
  OBVIOUS
<1>6. ReadSoFar(us, t, ms \union {}, fs)
  BY <1>1, <1>3, <1>4, <1>5, InsideKeeps
<1> QED BY <1>2, <1>5, <1>6

LEMMA BodyInside ==
    ASSUME NEW ts, NEW us, NEW sc \in Seq(ScopeType), NEW ms, NEW es, NEW fs,
           ReadSoFar(ts, sc, ms, es), GoesOn(ts, us), BodyChunk(us, Len(ts)),
           \A e \in fs : e \in es \/ e.kind \notin TypeKeywords
    PROVE  ReadSoFar(us, AfterBody(sc, TRUE), ms, fs)
<1>1. PICK w, b : /\ Sentence(us, Len(ts), w, b, Len(us)) /\ Len(us) = b
                  /\ NoLabels(us, Len(ts) + 1 .. w) /\ HasParen(us, Len(ts) + 1 .. w)
  BY DEF BodyChunk
<1>2. PICK t : t = AfterBody(sc, TRUE)
  OBVIOUS
<1>3. /\ SameButLast(t, sc)
      /\ sc # <<>> => t[Len(sc)].access = sc[Len(sc)].access /\ t[Len(sc)].afterBody = TRUE
  BY <1>2, AfterBodyIs
<1>4. ASSUME sc # <<>>, sc[Len(sc)].doc # 0
      PROVE  InLast(us, Len(us), sc, ms, t[Len(sc)].access, t[Len(sc)].afterBody)
  <2>1. PICK p, q, from, d, own, ac, af, later :
           /\ p = Len(ts) /\ q = Len(us) /\ from = sc[Len(sc)].doc + 4 /\ d = DefaultAccess(sc[Len(sc)].keyword)
           /\ own = OwnOf(ms, sc[Len(sc)].doc) /\ ac = sc[Len(sc)].access /\ af = sc[Len(sc)].afterBody
           /\ later = t[Len(sc)].afterBody
    OBVIOUS
  <2>2. InBody(us, p, from, d, 0, ac, own, af)
    BY <1>4, <2>1, LastIsOpen DEF InLast
  <2>3. /\ Sentence(us, p, w, b, q) /\ q = b /\ NoLabels(us, p + 1 .. w) /\ HasParen(us, p + 1 .. w)
        /\ later = TRUE
    BY <1>1, <1>3, <1>4, <2>1
  <2>4. InBody(us, q, from, d, 0, ac, own, later)
    BY <2>2, <2>3, BodyRead
  <2> QED BY <1>3, <1>4, <2>1, <2>4 DEF InLast
<1>5. ms \union {} = ms
  OBVIOUS
<1>6. ReadSoFar(us, t, ms \union {}, fs)
  BY <1>1, <1>3, <1>4, <1>5, InsideKeeps
<1> QED BY <1>2, <1>5, <1>6

(* The member that a declaration of data is to its type.                   *)
MemberOf(sc, name) ==
    [type |-> Last(sc).doc, name |-> name, access |-> Last(sc).access, afterBody |-> Last(sc).afterBody]
MembersWith(sc, name) == IF sc # <<>> /\ IsTypeScope(Last(sc)) THEN {MemberOf(sc, name)} ELSE {}

LEMMA DataInside ==
    ASSUME NEW ts, NEW us, NEW sc \in Seq(ScopeType), NEW ms, NEW es, NEW fs,
           ReadSoFar(ts, sc, ms, es), GoesOn(ts, us), NEW name, DataChunk(us, Len(ts), name),
           \A e \in fs : e \in es \/ e.kind \notin TypeKeywords
    PROVE  ReadSoFar(us, AfterBody(sc, FALSE), ms \union MembersWith(sc, name), fs)
<1>1. PICK w, b : /\ Sentence(us, Len(ts), w, b, Len(us)) /\ Len(us) = b + 1
                  /\ NoLabels(us, Len(ts) + 1 .. w)
                  /\ \E f, l : NamesAs(us, Len(ts) + 1 .. w, f, l) /\ us[l] = name
  BY DEF DataChunk
<1>2. PICK f, l : NamesAs(us, Len(ts) + 1 .. w, f, l) /\ us[l] = name
  BY <1>1
<1>3. PICK t, M : t = AfterBody(sc, FALSE) /\ M = MembersWith(sc, name)
  OBVIOUS
<1>4. /\ SameButLast(t, sc)
      /\ sc # <<>> => t[Len(sc)].access = sc[Len(sc)].access /\ ~t[Len(sc)].afterBody
  BY <1>3, AfterBodyIs
<1>5. \A m \in M : sc # <<>> /\ m.type = sc[Len(sc)].doc
  BY <1>3, LastFacts DEF MembersWith, MemberOf
<1>6. ASSUME sc # <<>>, sc[Len(sc)].doc # 0
      PROVE  InLast(us, Len(us), sc, ms \union M, t[Len(sc)].access, t[Len(sc)].afterBody)
  <2>1. PICK p, q, a, from, d, own, ac, af, later :
           /\ p = Len(ts) /\ q = Len(us) /\ a = sc[Len(sc)].doc /\ from = a + 4
           /\ d = DefaultAccess(sc[Len(sc)].keyword)
           /\ own = OwnOf(ms, a) /\ ac = sc[Len(sc)].access /\ af = sc[Len(sc)].afterBody
           /\ later = t[Len(sc)].afterBody
    OBVIOUS
  <2>2. InBody(us, p, from, d, 0, ac, own, af) /\ af \in BOOLEAN /\ IsTypeScope(sc[Len(sc)])
    BY <1>6, <2>1, LastIsOpen DEF InLast
  <2>3. PICK m : m = [type |-> a, name |-> name, access |-> ac, afterBody |-> af]
    OBVIOUS
  <2>4. M = {m} /\ m.type = a /\ m.name = name /\ m.access = ac /\ m.afterBody = af
    <3>1. Last(sc) = sc[Len(sc)]
      BY <1>6, LastFacts
    <3> QED BY <1>3, <1>6, <2>1, <2>2, <2>3, <3>1 DEF MembersWith, MemberOf
  <2>5. /\ Sentence(us, p, w, b, q) /\ q = b + 1 /\ NoLabels(us, p + 1 .. w) /\ ~later
        /\ NamesAs(us, p + 1 .. w, f, l) /\ us[l] = name
    BY <1>1, <1>2, <1>4, <1>6, <2>1
  <2>6. InBody(us, q, from, d, 0, ac, OwnOf(ms \union M, a), later)
    <3>1. CASE af
      <4>1. OwnOf(ms \union M, a) = own
        <5>1. \A x \in M : x.type # a \/ x.afterBody
          BY <2>4, <3>1
        <5> QED BY <2>1, <5>1, OwnSame
      <4>2. af \/ Quiet(us, p + 1 .. w)
        BY <3>1
      <4>3. InBody(us, q, from, d, 0, ac, own, later)
        BY <2>2, <2>5, <4>2, QuietEnds
      <4> QED BY <4>1, <4>3
    <3>2. CASE ~af
      <4>1. OwnOf(ms \union {m}, a) = OwnOf(ms, a) \union {[name |-> m.name, access |-> m.access]}
        <5>1. m.type = a /\ ~m.afterBody
          BY <2>4, <3>2
        <5> QED BY <5>1, OwnMore
      <4>2. PICK more : more = own \union {[name |-> us[l], access |-> ac]}
        OBVIOUS
      <4>3. OwnOf(ms \union M, a) = more
        BY <2>1, <2>4, <2>5, <4>1, <4>2
      <4>4. InBody(us, q, from, d, 0, ac, own \union {[name |-> us[l], access |-> ac]}, later)
        BY <2>2, <2>5, <3>2, DataEnds
      <4> QED BY <4>2, <4>3, <4>4
    <3> QED BY <3>1, <3>2
  <2> QED BY <1>4, <1>6, <2>1, <2>6 DEF InLast
<1>7. ReadSoFar(us, t, ms \union M, fs)
  BY <1>1, <1>4, <1>5, <1>6, InsideKeeps
<1> QED BY <1>3, <1>7

LEMMA LabelInside ==
    ASSUME NEW ts, NEW us, NEW sc \in Seq(ScopeType), NEW ms, NEW es,
           ReadSoFar(ts, sc, ms, es), GoesOn(ts, us), NEW l \in Labels, Stands(us, Len(ts), <<l>>), sc # <<>>
    PROVE  ReadSoFar(us, Relabelled(sc, AccessOf(l)), ms, es)
<1>1. PICK t : t = Relabelled(sc, AccessOf(l))
  OBVIOUS
<1>2. /\ SameButLast(t, sc)
      /\ t[Len(sc)].access = AccessOf(l) /\ t[Len(sc)].afterBody = sc[Len(sc)].afterBody
  BY <1>1, LabelledIs
<1>3. PICK p, q : p = Len(ts) /\ q = Len(us)
  OBVIOUS
<1>4. us \in Seq(Words) /\ p \in Nat /\ q = p + 1 /\ us[p + 1] = l
  BY <1>3 DEF Stands
<1>5. l \notin Braces /\ l # Semicolon
  BY TokensDiffer DEF Braces
<1>6. Sentence(us, p, q, q, q)
  <2>1. q \in Nat /\ q \in p .. q /\ q \in q .. Len(us) /\ \A i \in p + 1 .. q : i = p + 1
    BY <1>3, <1>4
  <2> QED BY <1>4, <1>5, <2>1 DEF Sentence, BodyTail
<1>7. ASSUME sc[Len(sc)].doc # 0
      PROVE  InLast(us, Len(us), sc, ms, t[Len(sc)].access, t[Len(sc)].afterBody)
  <2>1. PICK from, d, own, ac, af :
           /\ from = sc[Len(sc)].doc + 4 /\ d = DefaultAccess(sc[Len(sc)].keyword)
           /\ own = OwnOf(ms, sc[Len(sc)].doc) /\ ac = sc[Len(sc)].access /\ af = sc[Len(sc)].afterBody
    OBVIOUS
  <2>2. InBody(us, p, from, d, 0, ac, own, af)
    BY <1>3, <1>7, <2>1, LastIsOpen DEF InLast
  <2>3. p + 1 <= Len(us) /\ us[p + 1] \in Labels /\ us[p + 1] \notin Braces /\ us[p + 1] # Semicolon
    BY <1>3, <1>4, <1>5
  <2>4. InBody(us, p + 1, from, d, 0, AccessOf(us[p + 1]), own, af)
    BY <2>2, <2>3, LabelRead
  <2> QED BY <1>2, <1>3, <1>4, <2>1, <2>4 DEF InLast
<1>8. ms \union {} = ms
  OBVIOUS
<1>9. ReadSoFar(us, t, ms \union {}, es)
  <2>1. Sentence(us, Len(ts), q, q, Len(us))
    BY <1>3, <1>6
  <2> QED BY <1>2, <1>7, <1>8, <2>1, InsideKeeps
<1> QED BY <1>1, <1>8, <1>9

-----------------------------------------------------------------------------
(* A type opens, and one closes.                                           *)

LEMMA OnlyNamespaces ==
    ASSUME NEW ts, NEW sc \in Seq(ScopeType), NEW ms, NEW es, ReadSoFar(ts, sc, ms, es), NamespacesFirst(sc),
           sc = <<>> \/ ~IsTypeScope(Last(sc))
    PROVE  \A i \in 1 .. Len(sc) : sc[i].doc = 0
<1> SUFFICES ASSUME NEW i \in 1 .. Len(sc), sc[i].doc # 0 PROVE FALSE
  OBVIOUS
<1>1. IsTypeScope(sc[i])
  <2>1. OpenAt(ts, sc, ms, i)
    BY DEF ReadSoFar
  <2> QED BY <2>1 DEF OpenAt
<1>2. PICK m \in 0 .. Len(sc) : \A j \in 1 .. Len(sc) : IsTypeScope(sc[j]) <=> m < j
  BY DEF NamespacesFirst
<1>3. Len(sc) \in Nat /\ sc # <<>>
  <2>1. Len(sc) \in Nat
    OBVIOUS
  <2>2. Len(sc) # 0
    BY <2>1
  <2> QED BY <2>1, <2>2
<1>4. Last(sc) = sc[Len(sc)] /\ Len(sc) \in 1 .. Len(sc)
  BY <1>3, LastFacts
<1>5. m < i /\ i <= Len(sc) /\ m \in Nat
  BY <1>1, <1>2, <1>3
<1>6. IsTypeScope(sc[Len(sc)])
  BY <1>2, <1>3, <1>4, <1>5
<1> QED BY <1>3, <1>4, <1>6

LEMMA OutsideKeeps ==
    ASSUME NEW ts, NEW us, NEW sc, NEW t, NEW ms, NEW es, ReadSoFar(ts, sc, ms, es), GoesOn(ts, us),
           \A i \in 1 .. Len(sc) : sc[i].doc = 0, \A i \in 1 .. Len(t) : t[i].doc = 0
    PROVE  ReadSoFar(us, t, ms, es)
<1>1. \A k \in 0 .. Len(ts) : k \in 0 .. Len(us)
  BY DEF GoesOn
<1>2. \A m \in ms : m.type \in 0 .. Len(us)
  BY <1>1 DEF ReadSoFar
<1>3. 0 \in 0 .. Len(us)
  BY DEF GoesOn
<1>4. ASSUME NEW e \in es, e.kind \in TypeKeywords PROVE Headed(us, e.at) /\ HasEnded(us, t, ms, e)
  <2>1. Headed(ts, e.at) /\ (StillOpen(sc, e) \/ HasEnded(ts, sc, ms, e))
    BY <1>4 DEF ReadSoFar
  <2>2. e.at # 0
    BY <2>1 DEF Headed
  <2>3. ~StillOpen(sc, e)
    BY <2>2 DEF StillOpen
  <2>4. Ended(ts, e.at + 4, DefaultAccess(e.kind), OwnOf(ms, e.at))
    BY <2>1, <2>3 DEF HasEnded
  <2>5. Ended(us, e.at + 4, DefaultAccess(e.kind), OwnOf(ms, e.at))
    BY <2>4, EndedStays
  <2>6. Headed(us, e.at)
    BY <2>1, HeadedStays
  <2> QED BY <2>2, <2>5, <2>6 DEF HasEnded
<1> QED BY <1>2, <1>3, <1>4 DEF ReadSoFar

(* The head of a type, behind its comment or not.                          *)
LEMMA HeadChunk ==
    ASSUME NEW us, NEW p \in Nat, NEW d \in BOOLEAN, NEW k \in TypeKeywords, NEW name \in ToSet(Types),
           d => us[p + 1] = "doc", NEW z, d => z = p + 1, ~d => z = p, Stands(us, z, <<k, name, Opening>>),
           NEW w, w = z + 2
    PROVE  /\ us \in Seq(Words) /\ Len(us) = w + 1 /\ us[w + 1] = Opening
           /\ Sentence(us, p, w, w, w) /\ NoLabels(us, p + 1 .. w) /\ Quiet(us, p + 1 .. w)
           /\ \A i \in p + 1 .. w : us[i] # Opening
<1>1. us \in Seq(Words) /\ Len(us) = z + 3 /\ us[z + 1] = k /\ us[z + 2] = name /\ us[z + 3] = Opening
  BY DEF Stands
<1>2. z \in Nat /\ p <= z /\ w \in Nat
  OBVIOUS
<1>3. \A i \in p + 1 .. w : (d /\ i = p + 1) \/ i = z + 1 \/ i = z + 2
  BY <1>2
<1>4. /\ k \notin Braces /\ k # Semicolon /\ k \notin Labels /\ k # Opening /\ k # "doc"
      /\ "doc" \notin Braces /\ "doc" # Semicolon /\ "doc" \notin Labels /\ "doc" # Opening
  <2>1. k \in NoBraceWords /\ "doc" \in NoBraceWords /\ k # "doc"
    BY DEF TypeKeywords, NoBraceWords
  <2> QED BY <2>1, PlainOnes
<1>5. name \notin Braces /\ name # Semicolon /\ name \notin Labels /\ name # Opening
  BY NamesArePlain DEF Braces
<1>6. \A i \in p + 1 .. w : us[i] \notin Braces /\ us[i] # Semicolon /\ us[i] \notin Labels /\ us[i] # Opening
  BY <1>1, <1>3, <1>4, <1>5
<1>7. Sentence(us, p, w, w, w)
  <2>1. w \in p .. w /\ w \in w .. Len(us)
    BY <1>1, <1>2
  <2> QED BY <1>1, <1>2, <1>6, <2>1 DEF Sentence, BodyTail
<1>8. Quiet(us, p + 1 .. w)
  <2>1. z + 1 \in p + 1 .. w /\ \A j \in p + 1 .. w : (d /\ j = p + 1) \/ z + 1 <= j
    BY <1>2
  <2>2. us[z + 1] \in TypeKeywords \union {"enum", "using"} /\ us[z + 1] \notin Labels \union {"doc"}
    BY <1>1, <1>4
  <2>3. \A j \in p + 1 .. w : us[j] \notin Labels \union {"doc"} => z + 1 <= j
    BY <2>1
  <2> QED BY <2>1, <2>2, <2>3 DEF Quiet, Skips
<1>9. w + 1 = z + 3
  BY <1>2
<1> QED BY <1>1, <1>6, <1>7, <1>8, <1>9 DEF NoLabels

LEMMA TypeOpened ==
    ASSUME NEW ts, NEW us, NEW sc \in Seq(ScopeType), NEW ms, NEW es, NEW fs, ReadSoFar(ts, sc, ms, es), GoesOn(ts, us),
           NEW d \in BOOLEAN, NEW k \in TypeKeywords, NEW name \in ToSet(Types),
           d => us[Len(ts) + 1] = "doc", Stands(us, Behind(ts, d), <<k, name, Opening>>),
           NEW r \in ScopeType, r.keyword = k, r.access = DefaultAccess(k), ~r.afterBody,
           r.doc = IF d THEN Len(ts) + 1 ELSE 0,
           \A e \in fs : e \in es \/ (d /\ e.at = Len(ts) + 1 /\ e.kind = k)
    PROVE  ReadSoFar(us, Append(sc, r), ms, fs)
<1>1. PICK n, p, q, z, w, t :
         /\ n = Len(sc) /\ p = Len(ts) /\ q = Len(us) /\ z = Behind(ts, d) /\ w = z + 2 /\ t = Append(sc, r)
  OBVIOUS
<1>2. /\ n \in Nat /\ Len(t) = n + 1 /\ t[n + 1] = r /\ \A i \in 1 .. n : t[i] = sc[i]
  BY <1>1, AppendProperties
<1>3. p \in Nat /\ q \in Nat /\ p <= q
  BY <1>1 DEF GoesOn
<1>4. (d => z = p + 1) /\ (~d => z = p) /\ z \in Nat
  BY <1>1, <1>3 DEF Behind
<1>5. /\ us \in Seq(Words) /\ q = w + 1 /\ us[w + 1] = Opening
      /\ Sentence(us, p, w, w, w) /\ NoLabels(us, p + 1 .. w) /\ Quiet(us, p + 1 .. w)
      /\ \A i \in p + 1 .. w : us[i] # Opening
  <2>1. (d => us[p + 1] = "doc") /\ Stands(us, z, <<k, name, Opening>>) /\ w = z + 2
    BY <1>1
  <2>2. /\ us \in Seq(Words) /\ Len(us) = w + 1 /\ us[w + 1] = Opening
        /\ Sentence(us, p, w, w, w) /\ NoLabels(us, p + 1 .. w) /\ Quiet(us, p + 1 .. w)
        /\ \A i \in p + 1 .. w : us[i] # Opening
    BY <1>3, <1>4, <2>1, HeadChunk
  <2> QED BY <1>1, <2>2
<1>6. /\ \A m \in ms : m.type \in 0 .. p
      /\ \A i \in 1 .. n : sc[i].doc \in 0 .. p /\ (sc[i].doc # 0 => OpenAt(ts, sc, ms, i))
      /\ \A e \in es : e.kind \in TypeKeywords =>
            Headed(ts, e.at) /\ (StillOpen(sc, e) \/ HasEnded(ts, sc, ms, e))
  BY <1>1 DEF ReadSoFar
<1>7. \A m \in ms : m.type \in 0 .. q
  BY <1>3, <1>6
<1>8. \A i \in 1 .. n + 1 : i = n + 1 \/ i \in 1 .. n
  BY <1>2
<1>9. d => w = p + 3 /\ q = p + 4
  <2>1. w = z + 2 /\ q = w + 1
    BY <1>1, <1>5
  <2> QED BY <1>3, <1>4, <2>1
<1>10. r.doc \in 0 .. q /\ (r.doc # 0 => r.doc = p + 1 /\ d)
  BY <1>1, <1>3, <1>9
<1>11. ASSUME NEW i \in 1 .. n, sc[i].doc # 0 PROVE OpenAt(us, t, ms, i)
  <2>1. /\ IsTypeScope(sc[i]) /\ \A j \in 1 .. n : j # i => sc[j].doc # sc[i].doc
        /\ InBody(ts, p, sc[i].doc + 4, DefaultAccess(sc[i].keyword), n - i,
                  sc[i].access, OwnOf(ms, sc[i].doc), sc[i].afterBody)
    BY <1>1, <1>6, <1>11 DEF OpenAt
  <2>2. \A j \in 1 .. n + 1 : j # i => t[j].doc # sc[i].doc
    <3>1. r.doc # sc[i].doc
      BY <1>3, <1>6, <1>10, <1>11
    <3> QED BY <1>2, <1>8, <2>1, <3>1
  <2>3. PICK from, def, inner, own, ac, af :
           /\ from = sc[i].doc + 4 /\ def = DefaultAccess(sc[i].keyword) /\ inner = n - i
           /\ own = OwnOf(ms, sc[i].doc) /\ ac = sc[i].access /\ af = sc[i].afterBody
    OBVIOUS
  <2>4. inner \in Nat /\ (n + 1) - i = inner + 1 /\ af \in BOOLEAN
    <3>1. sc[i] \in ScopeType
      BY <1>1
    <3> QED BY <1>2, <2>3, <3>1 DEF ScopeType
  <2>5. InBody(us, p, from, def, inner, ac, own, af)
    BY <1>1, <2>1, <2>3, InBodyStays
  <2>6. w + 1 <= Len(us)
    BY <1>1, <1>3, <1>5
  <2>7. InBody(us, w + 1, from, def, inner + 1, ac, own, af)
    BY <1>5, <2>4, <2>5, <2>6, TypeOpens
  <2>8. InBody(us, Len(us), sc[i].doc + 4, DefaultAccess(sc[i].keyword), Len(t) - i,
               sc[i].access, OwnOf(ms, sc[i].doc), sc[i].afterBody)
    BY <1>1, <1>2, <1>5, <2>3, <2>4, <2>7
  <2> QED BY <1>2, <2>1, <2>2, <2>8 DEF OpenAt
<1>12. d => OpenAt(us, t, ms, n + 1)
  <2> SUFFICES ASSUME d PROVE OpenAt(us, t, ms, n + 1)
    OBVIOUS
  <2>1. r.doc = p + 1 /\ IsTypeScope(r)
    BY <1>1 DEF IsTypeScope, TypeKeywords
  <2>2. \A j \in 1 .. n + 1 : j # n + 1 => t[j].doc # r.doc
    <3>1. \A j \in 1 .. n : sc[j].doc # p + 1
      BY <1>3, <1>6
    <3> QED BY <1>2, <1>8, <2>1, <3>1
  <2>3. PICK from, def, later : from = p + 5 /\ def = DefaultAccess(k) /\ later = r.afterBody
    OBVIOUS
  <2>4. from \in Nat \ {0} /\ from - 1 <= Len(us) /\ from - 1 = Len(us) /\ from = r.doc + 4 /\ (n + 1) - (n + 1) = 0
    BY <1>1, <1>2, <1>3, <1>9, <2>1, <2>3
  <2>5. InBody(us, from - 1, from, def, 0, def, {}, later)
    BY <1>5, <2>3, <2>4, BodyBegins
  <2>6. OwnOf(ms, r.doc) = {}
    <3>1. PICK a : a = r.doc
      OBVIOUS
    <3>2. \A m \in ms : m.type # a
      BY <1>3, <1>6, <2>1, <3>1
    <3>3. OwnOf(ms, a) = {}
      BY <3>2, OwnNone
    <3> QED BY <3>1, <3>3
  <2>7. InBody(us, Len(us), r.doc + 4, DefaultAccess(r.keyword), (n + 1) - (n + 1), r.access, OwnOf(ms, r.doc), r.afterBody)
    BY <2>3, <2>4, <2>5, <2>6
  <2> QED BY <1>2, <2>1, <2>2, <2>7 DEF OpenAt
<1>13. \A i \in 1 .. Len(t) : t[i].doc \in 0 .. Len(us) /\ (t[i].doc # 0 => OpenAt(us, t, ms, i))
  <2> SUFFICES ASSUME NEW i \in 1 .. n + 1 PROVE t[i].doc \in 0 .. q /\ (t[i].doc # 0 => OpenAt(us, t, ms, i))
    BY <1>1, <1>2
  <2>1. CASE i = n + 1
    BY <1>2, <1>10, <1>12, <2>1
  <2>2. CASE i \in 1 .. n
    <3>1. t[i] = sc[i] /\ sc[i].doc \in 0 .. q
      BY <1>2, <1>3, <1>6, <2>2
    <3> QED BY <1>11, <2>2, <3>1
  <2> QED BY <1>8, <2>1, <2>2
<1>14. ASSUME NEW e \in fs, e.kind \in TypeKeywords
       PROVE  Headed(us, e.at) /\ (StillOpen(t, e) \/ HasEnded(us, t, ms, e))
  <2>1. CASE e \in es
    <3>1. Headed(ts, e.at) /\ (StillOpen(sc, e) \/ HasEnded(ts, sc, ms, e))
      BY <1>6, <1>14, <2>1
    <3>2. Headed(us, e.at)
      BY <3>1, HeadedStays
    <3>3. CASE StillOpen(sc, e)
      <4>1. \A i \in 1 .. n : i \in 1 .. Len(t)
        BY <1>2
      <4>2. StillOpen(t, e)
        BY <1>1, <1>2, <3>3, <4>1 DEF StillOpen
      <4> QED BY <3>2, <4>2
    <3>4. CASE HasEnded(ts, sc, ms, e)
      <4>1. Ended(us, e.at + 4, DefaultAccess(e.kind), OwnOf(ms, e.at))
        <5>1. Ended(ts, e.at + 4, DefaultAccess(e.kind), OwnOf(ms, e.at))
          BY <3>4 DEF HasEnded
        <5> QED BY <5>1, EndedStays
      <4>2. e.at # r.doc
        <5>1. e.at \in Nat \ {0} /\ e.at + 3 <= p
          BY <1>1, <3>1 DEF Headed
        <5> QED BY <1>3, <1>10, <5>1
      <4>3. \A i \in 1 .. n : sc[i].doc # e.at
        BY <1>1, <3>4 DEF HasEnded
      <4>4. \A i \in 1 .. Len(t) : t[i].doc # e.at
        BY <1>2, <1>8, <4>2, <4>3
      <4>5. HasEnded(us, t, ms, e)
        BY <4>1, <4>4 DEF HasEnded
      <4> QED BY <3>2, <4>5
    <3> QED BY <3>1, <3>3, <3>4
  <2>2. CASE d /\ e.at = p + 1 /\ e.kind = k
    <3>1. Headed(us, e.at)
      <4>1. e.at \in Nat \ {0} /\ e.at + 3 = w + 1 /\ e.at + 3 <= Len(us) /\ \A i \in e.at .. e.at + 2 : i \in p + 1 .. w
        <5>1. w = p + 3 /\ q = p + 4 /\ e.at = p + 1 /\ q = Len(us)
          BY <1>1, <1>9, <2>2
        <5> QED BY <1>3, <5>1
      <4> QED BY <1>5, <4>1 DEF Headed
    <3>2. StillOpen(t, e)
      <4>1. n + 1 \in 1 .. Len(t) /\ t[n + 1].doc = e.at /\ t[n + 1].keyword = e.kind
        BY <1>1, <1>2, <2>2
      <4> QED BY <4>1 DEF StillOpen
    <3> QED BY <3>1, <3>2
  <2> QED BY <1>1, <2>1, <2>2
<1> QED BY <1>1, <1>7, <1>13, <1>14 DEF ReadSoFar

LEMMA AfterFree ==
    ASSUME NEW us, NEW n, NEW from, NEW default, NEW inner \in Nat, inner > 0, NEW access, NEW own, NEW after, NEW later,
           InBody(us, n, from, default, inner, access, own, after)
    PROVE  InBody(us, n, from, default, inner, access, own, later)
<1>1. ~(inner = 0)
  OBVIOUS
<1>2. Stood(us, Parsed(us, from, default)[n], inner, access, own, later)
  BY <1>1 DEF InBody, Stood
<1> QED BY <1>2 DEF InBody

LEMMA TypeClosed ==
    ASSUME NEW ts, NEW us, NEW sc \in Seq(ScopeType), NEW ms, NEW es, ReadSoFar(ts, sc, ms, es), GoesOn(ts, us),
           sc # <<>>, Stands(us, Len(ts), <<Closing, Semicolon>>), NEW t, t = AfterBody(Front(sc), FALSE)
    PROVE  ReadSoFar(us, t, ms, es)
<1>1. PICK n, p, q : n = Len(sc) /\ p = Len(ts) /\ q = Len(us)
  OBVIOUS
<1>2. n \in Nat /\ n \in 1 .. n /\ n - 1 \in Nat
  <2>1. Len(sc) \in Nat /\ Len(sc) \in 1 .. Len(sc)
    BY LastFacts
  <2> QED BY <1>1, <2>1
<1>3. us \in Seq(Words) /\ p \in Nat /\ q = p + 2 /\ us[p + 1] = Closing /\ us[p + 2] = Semicolon /\ q \in Nat
  BY <1>1 DEF Stands
<1>4. PICK f : f = Front(sc)
  OBVIOUS
<1>5. f \in Seq(ScopeType) /\ Len(f) = n - 1 /\ \A i \in 1 .. n - 1 : f[i] = sc[i]
  BY <1>1, <1>4, PopsLast
<1>6. SameButLast(t, f) /\ (f # <<>> => t[Len(f)].access = f[Len(f)].access /\ ~t[Len(f)].afterBody)
  <2>1. t = AfterBody(f, FALSE)
    BY <1>4
  <2> QED BY <1>5, <2>1, AfterBodyIs
<1>7. /\ Len(t) = n - 1
      /\ \A i \in 1 .. n - 1 : t[i].doc = sc[i].doc /\ t[i].keyword = sc[i].keyword /\ t[i].access = sc[i].access
      /\ n - 1 > 0 => ~t[n - 1].afterBody
  <2>1. Len(t) = n - 1
    BY <1>5, <1>6 DEF SameButLast
  <2>2. n - 1 > 0 => f # <<>>
    BY <1>5
  <2>3. ASSUME NEW i \in 1 .. n - 1
        PROVE  t[i].doc = sc[i].doc /\ t[i].keyword = sc[i].keyword /\ t[i].access = sc[i].access
    <3>1. t[i].doc = f[i].doc /\ t[i].keyword = f[i].keyword /\ f[i] = sc[i]
      BY <1>5, <1>6 DEF SameButLast
    <3>2. CASE i = n - 1
      <4>1. n - 1 > 0
        BY <1>2, <3>2
      <4> QED BY <1>5, <1>6, <2>2, <3>1, <3>2, <4>1
    <3>3. CASE i # n - 1
      <4>1. i \in 1 .. (n - 1) - 1
        BY <1>2, <3>3
      <4>2. t[i] = f[i]
        BY <1>5, <1>6, <4>1 DEF SameButLast
      <4> QED BY <3>1, <4>2
    <3> QED BY <3>2, <3>3
  <2> QED BY <1>5, <1>6, <2>1, <2>2, <2>3
<1>8. /\ \A m \in ms : m.type \in 0 .. p
      /\ \A i \in 1 .. n : sc[i].doc \in 0 .. p /\ (sc[i].doc # 0 => OpenAt(ts, sc, ms, i))
      /\ \A e \in es : e.kind \in TypeKeywords =>
            Headed(ts, e.at) /\ (StillOpen(sc, e) \/ HasEnded(ts, sc, ms, e))
  BY <1>1 DEF ReadSoFar
<1>9. (\A m \in ms : m.type \in 0 .. q) /\ \A k \in 0 .. p : k \in 0 .. q
  BY <1>3, <1>8
<1>10. \A i \in 1 .. n - 1 : i \in 1 .. n
  BY <1>2
<1>11. ASSUME NEW i \in 1 .. n, sc[i].doc # 0
       PROVE  /\ IsTypeScope(sc[i]) /\ \A j \in 1 .. n : j # i => sc[j].doc # sc[i].doc
              /\ InBody(us, p, sc[i].doc + 4, DefaultAccess(sc[i].keyword), n - i,
                        sc[i].access, OwnOf(ms, sc[i].doc), sc[i].afterBody)
              /\ sc[i].afterBody \in BOOLEAN
  <2>1. /\ IsTypeScope(sc[i]) /\ \A j \in 1 .. n : j # i => sc[j].doc # sc[i].doc
        /\ InBody(ts, p, sc[i].doc + 4, DefaultAccess(sc[i].keyword), n - i,
                  sc[i].access, OwnOf(ms, sc[i].doc), sc[i].afterBody)
    BY <1>1, <1>8, <1>11 DEF OpenAt
  <2>2. PICK from, def, inner, own, ac, af :
           /\ from = sc[i].doc + 4 /\ def = DefaultAccess(sc[i].keyword) /\ inner = n - i
           /\ own = OwnOf(ms, sc[i].doc) /\ ac = sc[i].access /\ af = sc[i].afterBody
    OBVIOUS
  <2>3. InBody(us, p, from, def, inner, ac, own, af)
    BY <2>1, <2>2, InBodyStays
  <2>4. sc[i] \in ScopeType
    BY <1>1
  <2>5. sc[i].afterBody \in BOOLEAN
    BY <2>4 DEF ScopeType
  <2> QED BY <2>1, <2>2, <2>3, <2>5
<1>12. ASSUME NEW i \in 1 .. n - 1, sc[i].doc # 0 PROVE OpenAt(us, t, ms, i)
  <2>1. IsTypeScope(t[i]) /\ \A j \in 1 .. Len(t) : j # i => t[j].doc # t[i].doc
    <3>1. i \in 1 .. n
      BY <1>10, <1>12
    <3>2. IsTypeScope(sc[i]) /\ \A j \in 1 .. n : j # i => sc[j].doc # sc[i].doc
      BY <1>11, <1>12, <3>1
    <3>3. t[i].keyword = sc[i].keyword /\ t[i].doc = sc[i].doc
      BY <1>7, <1>12
    <3>4. IsTypeScope(t[i])
      BY <3>2, <3>3 DEF IsTypeScope
    <3>5. ASSUME NEW j \in 1 .. Len(t), j # i PROVE t[j].doc # t[i].doc
      <4>1. j \in 1 .. n - 1
        BY <1>7, <3>5
      <4>2. t[j].doc = sc[j].doc
        BY <1>7, <4>1
      <4>3. j \in 1 .. n
        BY <1>10, <4>1
      <4> QED BY <3>2, <3>3, <3>5, <4>2, <4>3
    <3> QED BY <3>4, <3>5
  <2>2. PICK from, def, inner, own, ac, af, later :
           /\ from = sc[i].doc + 4 /\ def = DefaultAccess(sc[i].keyword) /\ inner = n - i
           /\ own = OwnOf(ms, sc[i].doc) /\ ac = sc[i].access /\ af = sc[i].afterBody
           /\ later = t[i].afterBody
    OBVIOUS
  <2>3. inner \in Nat /\ inner > 0 /\ (n - 1) - i = inner - 1 /\ inner - 1 \in Nat
    BY <1>2, <2>2
  <2>4. InBody(us, p, from, def, inner, ac, own, af) /\ af \in BOOLEAN
    BY <1>10, <1>11, <1>12, <2>2
  <2>5. p + 2 <= Len(us)
    BY <1>1, <1>3
  <2>6. ASSUME NEW l, ~l PROVE InBody(us, p + 2, from, def, inner - 1, ac, own, l)
    BY <1>3, <2>3, <2>4, <2>5, <2>6, TypeCloses
  <2>7. InBody(us, p + 2, from, def, inner - 1, ac, own, later)
    <3>1. CASE i = n - 1
      <4>1. n - 1 > 0
        BY <1>2, <1>12
      <4>2. ~t[n - 1].afterBody
        BY <1>7, <4>1
      <4>3. ~later
        BY <2>2, <3>1, <4>2
      <4> QED BY <2>6, <4>3
    <3>2. CASE i # n - 1
      <4>1. inner - 1 > 0
        BY <1>2, <2>2, <3>2
      <4>2. PICK l : l = FALSE
        OBVIOUS
      <4>3. InBody(us, p + 2, from, def, inner - 1, ac, own, l)
        BY <2>6, <4>2
      <4> QED BY <2>3, <4>1, <4>3, AfterFree
    <3> QED BY <3>1, <3>2
  <2>8. InBody(us, Len(us), t[i].doc + 4, DefaultAccess(t[i].keyword), Len(t) - i,
               t[i].access, OwnOf(ms, t[i].doc), t[i].afterBody)
    BY <1>1, <1>3, <1>7, <2>2, <2>3, <2>7
  <2> QED BY <2>1, <2>8 DEF OpenAt
<1>13. \A i \in 1 .. Len(t) : t[i].doc \in 0 .. Len(us) /\ (t[i].doc # 0 => OpenAt(us, t, ms, i))
  BY <1>1, <1>7, <1>8, <1>9, <1>10, <1>12
<1>14. ASSUME NEW e \in es, e.kind \in TypeKeywords
       PROVE  Headed(us, e.at) /\ (StillOpen(t, e) \/ HasEnded(us, t, ms, e))
  <2>1. Headed(ts, e.at) /\ (StillOpen(sc, e) \/ HasEnded(ts, sc, ms, e))
    BY <1>8, <1>14
  <2>2. Headed(us, e.at)
    BY <2>1, HeadedStays
  <2>3. CASE StillOpen(sc, e)
    <3>1. PICK i \in 1 .. n : sc[i].doc = e.at /\ sc[i].keyword = e.kind
      BY <1>1, <2>3 DEF StillOpen
    <3>2. CASE i = n
      <4>1. sc[n].doc # 0
        BY <2>1, <3>1, <3>2 DEF Headed
      <4>2. PICK from, def, own, ac, af :
               /\ from = sc[n].doc + 4 /\ def = DefaultAccess(sc[n].keyword)
               /\ own = OwnOf(ms, sc[n].doc) /\ ac = sc[n].access /\ af = sc[n].afterBody
        OBVIOUS
      <4>3. n - n = 0 /\ p + 1 <= Len(us)
        BY <1>1, <1>2, <1>3
      <4>4. InBody(us, p, from, def, 0, ac, own, af) /\ af \in BOOLEAN
        BY <1>2, <1>11, <4>1, <4>2, <4>3
      <4>5. Ended(us, from, def, own)
        BY <1>3, <4>3, <4>4, BodyEnds
      <4>6. \A j \in 1 .. Len(t) : t[j].doc # e.at
        <5>1. \A j \in 1 .. n - 1 : j \in 1 .. n /\ j # n
          BY <1>2
        <5>2. \A j \in 1 .. n : j # n => sc[j].doc # sc[n].doc
          BY <1>2, <1>11, <4>1
        <5> QED BY <1>7, <3>1, <3>2, <5>1, <5>2
      <4>7. HasEnded(us, t, ms, e)
        BY <3>1, <3>2, <4>2, <4>5, <4>6 DEF HasEnded
      <4> QED BY <2>2, <4>7
    <3>3. CASE i # n
      <4>1. i \in 1 .. n - 1
        BY <1>2, <3>3
      <4>2. StillOpen(t, e)
        BY <1>7, <3>1, <4>1 DEF StillOpen
      <4> QED BY <2>2, <4>2
    <3> QED BY <3>2, <3>3
  <2>4. CASE HasEnded(ts, sc, ms, e)
    <3>1. Ended(us, e.at + 4, DefaultAccess(e.kind), OwnOf(ms, e.at))
      <4>1. Ended(ts, e.at + 4, DefaultAccess(e.kind), OwnOf(ms, e.at))
        BY <2>4 DEF HasEnded
      <4> QED BY <4>1, EndedStays
    <3>2. \A i \in 1 .. Len(t) : t[i].doc # e.at
      <4>1. \A i \in 1 .. n : sc[i].doc # e.at
        BY <1>1, <2>4 DEF HasEnded
      <4> QED BY <1>7, <1>10, <4>1
    <3> QED BY <2>2, <3>1, <3>2 DEF HasEnded
  <2> QED BY <2>1, <2>3, <2>4
<1> QED BY <1>1, <1>9, <1>13, <1>14 DEF ReadSoFar

-----------------------------------------------------------------------------
(* The steps of the writer.                                                *)
LEMMA DeclareReads ==
    ASSUME WrittenInv, NEW c \in Seq(Words), NEW kind, NEW name, NEW b, Declare(c, kind, name, b)
    PROVE  /\ GoesOn(tokens, tokens') /\ tokens'[Len(tokens) + 1] = "doc" /\ Stands(tokens', Len(tokens) + 1, c)
           /\ scopes' = AfterBody(scopes, b) /\ scopes \in Seq(ScopeType) /\ Len(tokens) \in Nat
           /\ kind \notin TypeKeywords => \A e \in declared' : e \in declared \/ e.kind \notin TypeKeywords
<1>1. Write(c, TRUE, kind, name) /\ scopes' = AfterBody(scopes, b)
  BY DEF Declare
<1>2. /\ Adds(tokens', tokens, TRUE, c)
      /\ declared' = declared \union {Noted(tokens, kind, name)}
  BY <1>1, WriteIs
<1>3. tokens \in Seq(Words) /\ scopes \in Seq(ScopeType) /\ Len(tokens) \in Nat
  BY DEF WrittenInv, Ready
<1>4. GoesOn(tokens, tokens') /\ tokens'[Len(tokens) + 1] = "doc"
  BY <1>2, <1>3, WrittenAs
<1>5. Stands(tokens', Len(tokens) + 1, c)
  BY <1>2, WrittenBehind
<1>6. Noted(tokens, kind, name).kind = kind
  BY DEF Noted
<1> QED BY <1>1, <1>2, <1>3, <1>4, <1>5, <1>6

LEMMA FunctionKeepsFields == WrittenInv /\ FieldsInv /\ DeclareFunction => FieldsInv'
<1> SUFFICES ASSUME WrittenInv, FieldsInv, DeclareFunction PROVE FieldsInv'
  OBVIOUS
<1>1. Declare(FunctionTokens, "function", "f", FALSE) /\ members' = members
  BY DEF DeclareFunction, FunctionTokens
<1>2. /\ GoesOn(tokens, tokens') /\ tokens'[Len(tokens) + 1] = "doc" /\ Stands(tokens', Len(tokens) + 1, FunctionTokens)
      /\ scopes' = AfterBody(scopes, FALSE) /\ scopes \in Seq(ScopeType) /\ Len(tokens) \in Nat
      /\ \A e \in declared' : e \in declared \/ e.kind \notin TypeKeywords
  <2>1. "function" \notin TypeKeywords
    BY DEF TypeKeywords
  <2> QED BY <1>1, <2>1, ChunksAreWords, DeclareReads
<1>3. QuietChunk(tokens', Len(tokens))
  BY <1>2, FunctionChunk
<1> QED BY <1>1, <1>2, <1>3, QuietInside DEF FieldsInv

LEMMA DefinitionKeepsFields == WrittenInv /\ FieldsInv /\ DefineFunction => FieldsInv'
<1> SUFFICES ASSUME WrittenInv, FieldsInv, DefineFunction PROVE FieldsInv'
  OBVIOUS
<1>1. Declare(DefinitionTokens, "function", "f", TRUE) /\ members' = members
  BY DEF DefineFunction, DefinitionTokens
<1>2. /\ GoesOn(tokens, tokens') /\ tokens'[Len(tokens) + 1] = "doc" /\ Stands(tokens', Len(tokens) + 1, DefinitionTokens)
      /\ scopes' = AfterBody(scopes, TRUE) /\ scopes \in Seq(ScopeType) /\ Len(tokens) \in Nat
      /\ \A e \in declared' : e \in declared \/ e.kind \notin TypeKeywords
  <2>1. "function" \notin TypeKeywords
    BY DEF TypeKeywords
  <2> QED BY <1>1, <2>1, ChunksAreWords, DeclareReads
<1>3. BodyChunk(tokens', Len(tokens))
  BY <1>2, DefinitionChunk
<1> QED BY <1>1, <1>2, <1>3, BodyInside DEF FieldsInv

LEMMA EnumKeepsFields == WrittenInv /\ FieldsInv /\ DeclareEnum => FieldsInv'
<1> SUFFICES ASSUME WrittenInv, FieldsInv, DeclareEnum PROVE FieldsInv'
  OBVIOUS
<1>1. Declare(EnumTokens, "enum", "E", FALSE) /\ members' = members
  BY DEF DeclareEnum, EnumTokens
<1>2. /\ GoesOn(tokens, tokens') /\ tokens'[Len(tokens) + 1] = "doc" /\ Stands(tokens', Len(tokens) + 1, EnumTokens)
      /\ scopes' = AfterBody(scopes, FALSE) /\ scopes \in Seq(ScopeType) /\ Len(tokens) \in Nat
      /\ \A e \in declared' : e \in declared \/ e.kind \notin TypeKeywords
  <2>1. "enum" \notin TypeKeywords
    BY DEF TypeKeywords
  <2> QED BY <1>1, <2>1, ChunksAreWords, DeclareReads
<1>3. QuietChunk(tokens', Len(tokens))
  BY <1>2, EnumChunk
<1> QED BY <1>1, <1>2, <1>3, QuietInside DEF FieldsInv

LEMMA AliasKeepsFields == WrittenInv /\ FieldsInv /\ DeclareAlias => FieldsInv'
<1> SUFFICES ASSUME WrittenInv, FieldsInv, DeclareAlias PROVE FieldsInv'
  OBVIOUS
<1>1. Declare(AliasTokens, "type", "T", FALSE) /\ members' = members
  BY DEF DeclareAlias, AliasTokens
<1>2. /\ GoesOn(tokens, tokens') /\ tokens'[Len(tokens) + 1] = "doc" /\ Stands(tokens', Len(tokens) + 1, AliasTokens)
      /\ scopes' = AfterBody(scopes, FALSE) /\ scopes \in Seq(ScopeType) /\ Len(tokens) \in Nat
      /\ \A e \in declared' : e \in declared \/ e.kind \notin TypeKeywords
  <2>1. "type" \notin TypeKeywords
    BY DEF TypeKeywords
  <2> QED BY <1>1, <2>1, ChunksAreWords, DeclareReads
<1>3. QuietChunk(tokens', Len(tokens))
  BY <1>2, AliasChunk
<1> QED BY <1>1, <1>2, <1>3, QuietInside DEF FieldsInv

LEMMA HoldingIs == \A name : Holding(name) = members \union MembersWith(scopes, name)
<1>1. members \union {} = members
  OBVIOUS
<1> QED BY <1>1 DEF Holding, MembersWith, MemberOf, InType

LEMMA ConstantKeepsFields == WrittenInv /\ FieldsInv /\ DeclareConstant => FieldsInv'
<1> SUFFICES ASSUME WrittenInv, FieldsInv, DeclareConstant PROVE FieldsInv'
  OBVIOUS
<1>1. Declare(ConstantTokens, "var", "c", FALSE) /\ members' = members \union MembersWith(scopes, "c")
  BY HoldingIs DEF DeclareConstant, ConstantTokens
<1>2. /\ GoesOn(tokens, tokens') /\ tokens'[Len(tokens) + 1] = "doc" /\ Stands(tokens', Len(tokens) + 1, ConstantTokens)
      /\ scopes' = AfterBody(scopes, FALSE) /\ scopes \in Seq(ScopeType) /\ Len(tokens) \in Nat
      /\ \A e \in declared' : e \in declared \/ e.kind \notin TypeKeywords
  <2>1. "var" \notin TypeKeywords
    BY DEF TypeKeywords
  <2> QED BY <1>1, <2>1, ChunksAreWords, DeclareReads
<1>3. DataChunk(tokens', Len(tokens), "c")
  BY <1>2, ConstantChunk
<1> QED BY <1>1, <1>2, <1>3, DataInside DEF FieldsInv

(* Tokens without a comment before them.                                   *)
LEMMA WriteReads ==
    ASSUME WrittenInv, NEW c \in Seq(Words), NEW kind, NEW name, Write(c, FALSE, kind, name)
    PROVE  /\ GoesOn(tokens, tokens') /\ Stands(tokens', Len(tokens), c)
           /\ scopes \in Seq(ScopeType) /\ NamespacesFirst(scopes) /\ Len(tokens) \in Nat /\ declared' = declared
<1>1. Adds(tokens', tokens, FALSE, c) /\ declared' = declared
  BY WriteIs
<1>2. tokens \in Seq(Words) /\ scopes \in Seq(ScopeType) /\ Len(tokens) \in Nat /\ NamespacesFirst(scopes)
  BY DEF WrittenInv, Ready
<1>3. GoesOn(tokens, tokens')
  BY <1>1, <1>2, WrittenAs
<1>4. Behind(tokens, FALSE) = Len(tokens)
  BY <1>2 DEF Behind
<1>5. Stands(tokens', Len(tokens), c)
  BY <1>1, <1>4, WrittenBehind
<1> QED BY <1>1, <1>2, <1>3, <1>5

LEMMA DataKeepsFields == WrittenInv /\ FieldsInv /\ DeclareData => FieldsInv'
<1> SUFFICES ASSUME WrittenInv, FieldsInv, DeclareData PROVE FieldsInv'
  OBVIOUS
<1>1. /\ Write(DataTokens, FALSE, "none", "x") /\ scopes' = AfterBody(scopes, FALSE)
      /\ members' = members \union MembersWith(scopes, "x")
  BY HoldingIs DEF DeclareData, DataTokens
<1>2. /\ GoesOn(tokens, tokens') /\ Stands(tokens', Len(tokens), DataTokens)
      /\ scopes \in Seq(ScopeType) /\ Len(tokens) \in Nat /\ declared' = declared
  BY <1>1, ChunksAreWords, WriteReads
<1>3. DataChunk(tokens', Len(tokens), "x")
  BY <1>2, MemberChunk
<1> QED BY <1>1, <1>2, <1>3, DataInside DEF FieldsInv

LEMMA LabelKeepsFields ==
    ASSUME WrittenInv, FieldsInv, NEW l \in Labels, Label(l)
    PROVE  FieldsInv'
<1>1. /\ Write(<<l>>, FALSE, "none", "") /\ scopes # <<>> /\ members' = members
      /\ scopes' = Relabelled(scopes, AccessOf(l))
  BY DEF Label, InType, Relabelled
<1>2. <<l>> \in Seq(Words)
  BY PlainWords
<1>3. /\ GoesOn(tokens, tokens') /\ Stands(tokens', Len(tokens), <<l>>)
      /\ scopes \in Seq(ScopeType) /\ declared' = declared
  BY <1>1, <1>2, WriteReads
<1> QED BY <1>1, <1>3, LabelInside DEF FieldsInv

LEMMA NamespaceKeepsFields == WrittenInv /\ FieldsInv /\ OpenNamespace => FieldsInv'
<1> SUFFICES ASSUME WrittenInv, FieldsInv, OpenNamespace PROVE FieldsInv'
  OBVIOUS
<1>1. PICK r : r = [keyword |-> "namespace", name |-> "n", doc |-> 0, afterBody |-> FALSE, access |-> "public"]
  OBVIOUS
<1>2. /\ Write(<<"namespace", "n", Opening>>, FALSE, "none", "n") /\ members' = members /\ ~InType
      /\ scopes' = Append(scopes, r)
  BY <1>1 DEF OpenNamespace, Opened
<1>3. <<"namespace", "n", Opening>> \in Seq(Words)
  BY PlainWords
<1>4. /\ GoesOn(tokens, tokens') /\ scopes \in Seq(ScopeType) /\ NamespacesFirst(scopes) /\ declared' = declared
  BY <1>2, <1>3, WriteReads
<1>5. \A i \in 1 .. Len(scopes) : scopes[i].doc = 0
  <2>1. scopes = <<>> \/ ~IsTypeScope(Last(scopes))
    BY <1>2 DEF InType
  <2> QED BY <1>4, <2>1, OnlyNamespaces DEF FieldsInv
<1>6. \A i \in 1 .. Len(scopes') : scopes'[i].doc = 0
  <2>1. PICK n, t : n = Len(scopes) /\ t = scopes'
    OBVIOUS
  <2>2. n \in Nat /\ Len(t) = n + 1 /\ t[n + 1] = r /\ \A i \in 1 .. n : t[i] = scopes[i]
    BY <1>2, <1>4, <2>1, AppendProperties
  <2>3. \A i \in 1 .. n + 1 : i = n + 1 \/ i \in 1 .. n
    BY <2>2
  <2>4. r.doc = 0
    BY <1>1
  <2> QED BY <1>5, <2>1, <2>2, <2>3, <2>4
<1> QED BY <1>2, <1>4, <1>5, <1>6, OutsideKeeps DEF FieldsInv

LEMMA TypeKeepsFields ==
    ASSUME WrittenInv, FieldsInv, NEW k \in TypeKeywords, NEW d \in BOOLEAN, OpenType(k, d)
    PROVE  FieldsInv'
<1>1. PICK name : name = Types[types']
  OBVIOUS
<1>2. PICK r : r = [keyword |-> k, name |-> name, doc |-> IF d THEN Len(tokens) + 1 ELSE 0, afterBody |-> FALSE,
                    access |-> IF k = "class" THEN "private" ELSE "public"]
  OBVIOUS
<1>3. /\ Write(<<k, name, Opening>>, d, k, name) /\ types < Len(Types) /\ types' = types + 1
      /\ scopes' = Append(scopes, r) /\ members' = members
  BY <1>1, <1>2 DEF OpenType, Opened
<1>4. types \in 0 .. Len(Types) /\ Types \in Seq(STRING) /\ tokens \in Seq(Words) /\ scopes \in Seq(ScopeType)
  BY TypesAssumption DEF WrittenInv, Ready
<1>5. types' \in 1 .. Len(Types)
  BY <1>3, <1>4
<1>6. name \in ToSet(Types)
  BY <1>1, <1>4, <1>5 DEF ToSet
<1>7. /\ r \in ScopeType /\ r.keyword = k /\ r.access = DefaultAccess(k) /\ ~r.afterBody
      /\ r.doc = IF d THEN Len(tokens) + 1 ELSE 0
  BY <1>2, <1>4, <1>6 DEF ScopeType, DefaultAccess
<1>8. <<k, name, Opening>> \in Seq(Words)
  <2>1. k \in Words /\ name \in Words /\ Opening \in Words
    BY <1>6, PlainWords DEF TypeKeywords, Words, Keywords
  <2> QED BY <2>1
<1>9. /\ Adds(tokens', tokens, d, <<k, name, Opening>>)
      /\ declared' = IF d THEN declared \union {Noted(tokens, k, name)} ELSE declared
  BY <1>3, WriteIs
<1>10. PICK c : c = <<k, name, Opening>>
  OBVIOUS
<1>11. /\ GoesOn(tokens, tokens') /\ (d => tokens'[Len(tokens) + 1] = "doc")
       /\ Stands(tokens', Behind(tokens, d), c)
  <2>1. tokens \in Seq(Words) /\ c \in Seq(Words)
    BY <1>4, <1>8, <1>10
  <2>2. Adds(tokens', tokens, d, c)
    BY <1>9, <1>10
  <2>3. GoesOn(tokens, tokens') /\ (d => tokens'[Len(tokens) + 1] = "doc")
    BY <2>1, <2>2, WrittenAs
  <2>4. Stands(tokens', Behind(tokens, d), c)
    BY <2>1, <2>2, WrittenBehind
  <2> QED BY <2>3, <2>4
<1>12. \A e \in declared' : e \in declared \/ (d /\ e.at = Len(tokens) + 1 /\ e.kind = k)
  BY <1>9 DEF Noted
<1> QED BY <1>3, <1>4, <1>6, <1>7, <1>10, <1>11, <1>12, TypeOpened DEF FieldsInv

LEMMA CloseKeepsFields == WrittenInv /\ FieldsInv /\ CloseScope => FieldsInv'
<1> SUFFICES ASSUME WrittenInv, FieldsInv, CloseScope PROVE FieldsInv'
  OBVIOUS
<1>1. PICK c : c = IF InType THEN <<Closing, Semicolon>> ELSE <<Closing>>
  OBVIOUS
<1>2. /\ scopes # <<>> /\ tokens' = tokens \o c /\ scopes' = AfterBody(Front(scopes), FALSE)
      /\ members' = members /\ declared' = declared
  BY <1>1 DEF CloseScope
<1>3. tokens \in Seq(Words) /\ scopes \in Seq(ScopeType) /\ NamespacesFirst(scopes) /\ Len(tokens) \in Nat
  BY DEF WrittenInv, Ready
<1>4. c \in Seq(Words)
  <2>1. Closing \in Words /\ Semicolon \in Words
    BY PlainWords
  <2> QED BY <1>1, <2>1
<1>5. Adds(tokens', tokens, FALSE, c)
  <2>1. tokens \o <<>> = tokens
    BY <1>3, ConcatEmptySeq
  <2> QED BY <1>2, <2>1 DEF Adds
<1>6. Behind(tokens, FALSE) = Len(tokens)
  BY <1>3 DEF Behind
<1>7. GoesOn(tokens, tokens') /\ Stands(tokens', Len(tokens), c)
  BY <1>3, <1>4, <1>5, <1>6, WrittenAs, WrittenBehind
<1>8. CASE InType
  <2>1. Stands(tokens', Len(tokens), <<Closing, Semicolon>>)
    BY <1>1, <1>7, <1>8
  <2> QED BY <1>2, <1>3, <1>7, <2>1, TypeClosed DEF FieldsInv
<1>9. CASE ~InType
  <2>1. \A i \in 1 .. Len(scopes) : scopes[i].doc = 0
    <3>1. scopes = <<>> \/ ~IsTypeScope(Last(scopes))
      BY <1>9 DEF InType
    <3> QED BY <1>3, <3>1, OnlyNamespaces DEF FieldsInv
  <2>2. \A i \in 1 .. Len(scopes') : scopes'[i].doc = 0
    <3>1. PICK f, t : f = Front(scopes) /\ t = scopes'
      OBVIOUS
    <3>2. f \in Seq(ScopeType) /\ Len(f) = Len(scopes) - 1 /\ \A i \in 1 .. Len(scopes) - 1 : f[i] = scopes[i]
      BY <1>2, <1>3, <3>1, PopsLast
    <3>3. t = AfterBody(f, FALSE)
      BY <1>2, <3>1
    <3>4. SameButLast(t, f)
      BY <3>2, <3>3, AfterBodyIs
    <3>5. \A i \in 1 .. Len(scopes) - 1 : i \in 1 .. Len(scopes)
      BY <1>3
    <3>6. Len(t) = Len(scopes) - 1 /\ \A i \in 1 .. Len(scopes) - 1 : t[i].doc = f[i].doc
      BY <3>2, <3>4 DEF SameButLast
    <3> QED BY <2>1, <3>1, <3>2, <3>5, <3>6
  <2> QED BY <1>2, <1>7, <2>1, <2>2, OutsideKeeps DEF FieldsInv
<1> QED BY <1>8, <1>9

-----------------------------------------------------------------------------
LEMMA FieldsBegin == WriterInit => FieldsInv
<1> SUFFICES ASSUME WriterInit PROVE FieldsInv
  OBVIOUS
<1>1. scopes = <<>> /\ members = {} /\ declared = {}
  BY DEF WriterInit
<1>2. Len(scopes) = 0
  BY <1>1
<1> QED BY <1>1, <1>2 DEF FieldsInv, ReadSoFar

LEMMA FieldsKeep == WrittenInv /\ FieldsInv /\ [WriterNext]_declaration => FieldsInv'
<1> SUFFICES ASSUME WrittenInv, FieldsInv, [WriterNext]_declaration PROVE FieldsInv'
  OBVIOUS
<1>1. CASE OpenNamespace
  BY <1>1, NamespaceKeepsFields
<1>2. CASE CloseScope
  BY <1>2, CloseKeepsFields
<1>3. CASE \E k \in TypeKeywords, d \in BOOLEAN : OpenType(k, d)
  BY <1>3, TypeKeepsFields
<1>4. CASE \E l \in Labels : Label(l)
  BY <1>4, LabelKeepsFields
<1>5. CASE DeclareFunction
  BY <1>5, FunctionKeepsFields
<1>6. CASE DefineFunction
  BY <1>6, DefinitionKeepsFields
<1>7. CASE DeclareEnum
  BY <1>7, EnumKeepsFields
<1>8. CASE DeclareAlias
  BY <1>8, AliasKeepsFields
<1>9. CASE DeclareConstant
  BY <1>9, ConstantKeepsFields
<1>10. CASE DeclareData
  BY <1>10, DataKeepsFields
<1>11. CASE UNCHANGED declaration
  <2>1. tokens' = tokens /\ scopes' = scopes /\ members' = members /\ declared' = declared
    BY <1>11 DEF declaration
  <2> QED BY <2>1 DEF FieldsInv
<1> QED BY <1>1, <1>2, <1>3, <1>4, <1>5, <1>6, <1>7, <1>8, <1>9, <1>10, <1>11 DEF WriterNext

LEMMA FieldsAreTheirs == WrittenInv /\ FieldsInv => FieldsAreOwn
<1> SUFFICES ASSUME WrittenInv, FieldsInv, Complete, NEW e \in Entities(tokens), e.kind \in TypeKeywords
             PROVE  FieldsOf(tokens, e) = OwnOf(members, e.at)
  BY DEF FieldsAreOwn, OwnOf
<1>1. e \in declared
  BY WrittenIsTold DEF EntitiesAsWritten
<1>2. Headed(tokens, e.at) /\ (StillOpen(scopes, e) \/ HasEnded(tokens, scopes, members, e))
  BY <1>1 DEF FieldsInv, ReadSoFar
<1>3. ~StillOpen(scopes, e)
  <2>1. Len(scopes) = 0
    BY DEF Complete
  <2> QED BY <2>1 DEF StillOpen
<1>4. Ended(tokens, e.at + 4, DefaultAccess(e.kind), OwnOf(members, e.at))
  BY <1>2, <1>3 DEF HasEnded
<1>5. e.at \in Nat \ {0} /\ tokens[e.at + 3] = Opening /\ \A i \in e.at .. e.at + 2 : tokens[i] # Opening
  BY <1>2 DEF Headed
<1>6. PICK a, default, own : a = e.at /\ default = DefaultAccess(e.kind) /\ own = OwnOf(members, e.at)
  OBVIOUS
<1>7. ParseFields(tokens, BodyAfter(tokens, a), default) = own
  BY <1>4, <1>5, <1>6, FieldsAreTold
<1> QED BY <1>6, <1>7 DEF FieldsOf

(* What is told of a documented type are its own data members, each with   *)
(* the access it has where it stands, whatever nested types, function      *)
(* bodies, enumerations, aliases and labels stand between them, however    *)
(* long the file is; of its own members only one behind a function defined *)
(* in place is missed (_body_after, _without_nested_blocks, _parse_fields).*)
THEOREM FieldsAreAlwaysOwn == WriterSpec => []FieldsAreOwn
<1>1. WriterInit => WrittenInv /\ FieldsInv
  BY WrittenBegins, FieldsBegin
<1>2. WrittenInv /\ FieldsInv /\ [WriterNext]_declaration => (WrittenInv /\ FieldsInv)'
  BY WrittenKeeps, FieldsKeep
<1>3. WrittenInv /\ FieldsInv => FieldsAreOwn
  BY FieldsAreTheirs
<1> QED BY <1>1, <1>2, <1>3, PTL DEF WriterSpec

-----------------------------------------------------------------------------
(* The directory (ApiPages).                                               *)

(* While sources are read the directory is empty.                          *)
EmptyInv == step = "Read" => \A n \in Names : output[n] = Nothing

(* At most one package is being written, and none of its documents is      *)
(* drawn before it began.                                                  *)
PackageInv ==
    step = "Write" =>
        /\ todo \subseteq Grouped /\ current \subseteq Grouped
        /\ \A p, q \in current : p = q
        /\ \A p \in current : p \notin todo
        /\ \A s \in undrawn : PackageOf[s] \in current

(* What is in the directory is what the packages that are done, and the    *)
(* documents of the current one that are drawn, call for.                  *)
PublishedInv ==
    step = "Write" =>
        /\ \A p \in Packages : output[PageFile(p)] =
              IF p \in Grouped /\ p \notin todo /\ p \notin current THEN Page(p) ELSE Nothing
        /\ \A s \in Sources : output[DiagramFile(s)] =
              IF DrawnApart(s) /\ PackageOf[s] \notin todo /\ s \notin undrawn
              THEN Diagram(s) ELSE Nothing
        /\ output[IndexFile] = Nothing

PagesInv == TypeOK /\ EmptyInv /\ PackageInv /\ PublishedInv /\ PublishesWhatItRead

-----------------------------------------------------------------------------
(* Every file has its own name: pages, diagrams and the index do not share *)
(* one, and neither do two of a kind.                                      *)
LEMMA NamesDiffer ==
    /\ \A p, q \in Packages : PageFile(p) = PageFile(q) => p = q
    /\ \A s, t \in Sources : DiagramFile(s) = DiagramFile(t) => s = t
    /\ \A p \in Packages, s \in Sources : PageFile(p) # DiagramFile(s)
    /\ \A p \in Packages : PageFile(p) # IndexFile
    /\ \A s \in Sources : DiagramFile(s) # IndexFile
    /\ \A p \in Packages : PageFile(p) \in Names
    /\ \A s \in Sources : DiagramFile(s) \in Names
    /\ IndexFile \in Names
<1>1. \A p, q \in Packages : PageFile(p) = PageFile(q) => p = q
  BY DEF PageFile
<1>2. \A s, t \in Sources : DiagramFile(s) = DiagramFile(t) => s = t
  BY NamesAssumption DEF DiagramFile
<1>3. \A p \in Packages, s \in Sources : PageFile(p) # DiagramFile(s)
  BY DEF PageFile, DiagramFile
<1>4. \A p \in Packages : PageFile(p) # IndexFile
  BY NamesAssumption DEF PageFile, IndexFile
<1>5. \A s \in Sources : DiagramFile(s) # IndexFile
  BY DEF DiagramFile, IndexFile
<1>6. /\ \A p \in Packages : PageFile(p) \in Names
      /\ \A s \in Sources : DiagramFile(s) \in Names
      /\ IndexFile \in Names
  BY DEF Names
<1> QED BY <1>1, <1>2, <1>3, <1>4, <1>5, <1>6

(* The files a run writes have the type of a file.                         *)
FileType == [state : {"Fresh", "Nothing", "Old", "Partial"}, of : SUBSET Sources, names : SUBSET Names]

LEMMA FilesTyped ==
    /\ \A p \in Packages : Page(p) \in FileType
    /\ \A s \in Sources : Diagram(s) \in FileType
    /\ TocTree \in FileType
    /\ Nothing \in FileType /\ Old \in FileType /\ Partial \in FileType
<1>1. \A p \in Packages : Members(p) \subseteq Sources
  BY DEF Members, Documented
<1>2. Grouped \subseteq Packages
  BY DEF Grouped, Documented, Packages
<1>3. ASSUME NEW p \in Packages PROVE Page(p) \in FileType
  <2>1. {DiagramFile(s) : s \in {m \in Members(p) : NamedByItsPage(m)}} \subseteq Names
    BY <1>1, NamesDiffer
  <2> QED BY <1>1, <2>1 DEF Page, Fresh, File, FileType
<1>4. \A s \in Sources : Diagram(s) \in FileType
  BY DEF Diagram, Fresh, File, FileType
<1>5. TocTree \in FileType
  <2>1. {PageFile(p) : p \in Grouped} \subseteq Names
    BY <1>2, NamesDiffer
  <2> QED BY <2>1 DEF TocTree, Fresh, File, FileType
<1>6. Nothing \in FileType /\ Old \in FileType /\ Partial \in FileType
  BY DEF Nothing, Old, Partial, File, FileType
<1> QED BY <1>3, <1>4, <1>5, <1>6

(* A diagram of its own belongs to a document of a package.                *)
LEMMA DrawnIsMember ==
    ASSUME NEW s \in Sources, DrawnApart(s)
    PROVE  s \in Members(PackageOf[s]) /\ PackageOf[s] \in Grouped
BY DEF DrawnApart, Members, Documented, Grouped

-----------------------------------------------------------------------------
LEMMA PagesTypeStep == ASSUME TypeOK, [Next]_vars PROVE TypeOK'
<1> USE DEF TypeOK
<1>1. CASE UNCHANGED vars
  BY <1>1 DEF vars, reading, writing
<1>2. ASSUME NEW s \in Sources, Read(s) PROVE TypeOK'
  BY <1>2 DEF Read, writing
<1>3. ASSUME NEW s \in Sources, WriteDiagram(s) PROVE TypeOK'
  <2>1. output' \in [Names -> FileType]
    BY <1>3, FilesTyped, NamesDiffer DEF WriteDiagram, Writes, FileType
  <2> QED BY <1>3, <2>1 DEF WriteDiagram, reading, FileType
<1>4. ASSUME NEW without \in BOOLEAN, Start(without) PROVE TypeOK'
  <2>1. output' \in [Names -> FileType]
    BY <1>4, FilesTyped DEF Start
  <2> QED BY <1>4, <2>1 DEF Start, reading, writing, FileType
<1>5. ASSUME NEW p \in Packages, BeginPackage(p) PROVE TypeOK'
  BY <1>5 DEF BeginPackage, reading, Members, Documented
<1>6. ASSUME NEW p \in Packages, WritePage(p) PROVE TypeOK'
  <2>1. output' \in [Names -> FileType]
    BY <1>6, FilesTyped, NamesDiffer DEF WritePage, Writes, FileType
  <2> QED BY <1>6, <2>1 DEF WritePage, reading, FileType
<1>7. CASE Clear
  <2>1. output' \in [Names -> FileType]
    BY <1>7, FilesTyped DEF Clear, RemoveTree
  <2>2. documents' \in [Sources -> Contents]
    BY <1>7 DEF Clear, NoneRead, Contents
  <2> QED BY <1>7, <2>1, <2>2 DEF Clear, RemoveTree, writing, FileType
<1>8. CASE ClearStopped
  <2>1. output' \in [Names -> FileType]
    BY <1>8, FilesTyped DEF ClearStopped, FileType
  <2> QED BY <1>8, <2>1 DEF ClearStopped, reading, writing, FileType
<1>9. CASE Group
  <2>1. Grouped \subseteq Packages
    BY DEF Grouped, Documented, Packages
  <2> QED BY <1>9, <2>1 DEF Group, reading
<1>10. CASE WriteIndex
  <2>1. output' \in [Names -> FileType]
    BY <1>10, FilesTyped, NamesDiffer DEF WriteIndex, Writes, FileType
  <2> QED BY <1>10, <2>1 DEF WriteIndex, reading, writing, FileType
<1>11. CASE WriteStopped
  <2>1. output' \in [Names -> FileType]
    BY <1>11, FilesTyped, NamesDiffer DEF WriteStopped, Writes, FileType
  <2> QED BY <1>11, <2>1 DEF WriteStopped, reading, writing, FileType
<1>12. CASE Stopped
  BY <1>12 DEF Stopped, reading, writing
<1> QED BY <1>1, <1>2, <1>3, <1>4, <1>5, <1>6, <1>7, <1>8, <1>9, <1>10, <1>11, <1>12 DEF Next

LEMMA PagesTypeInit == Init => TypeOK
<1> SUFFICES ASSUME Init PROVE TypeOK
  OBVIOUS
<1>1. output \in [Names -> FileType]
  BY FilesTyped DEF Init
<1>2. documents \in [Sources -> Contents]
  BY DEF Init, NoneRead, Contents
<1> QED BY <1>1, <1>2 DEF Init, TypeOK, FileType

(* Types hold in every state: a file is written by a run whole or in part, *)
(* and names only files that may be.                                       *)
THEOREM TypeCorrect == Spec => []TypeOK
<1> QED BY PagesTypeInit, PagesTypeStep, PTL DEF Spec

-----------------------------------------------------------------------------
(* What is said of the files changes only with what it speaks of.          *)
LEMMA SameDocuments ==
    ASSUME UNCHANGED <<documents, noDiagrams>>
    PROVE  /\ Grouped' = Grouped /\ TocTree' = TocTree
           /\ \A p : Members(p)' = Members(p) /\ Page(p)' = Page(p)
           /\ \A s : DrawnApart(s)' = DrawnApart(s) /\ Diagram(s)' = Diagram(s)
BY DEF Grouped, Documented, TocTree, Fresh, File, Members, Page, NamedByItsPage, DrawnApart, Diagram

(* Outside of Read, Write and Done nothing but the types is said.          *)
LEMMA AtRest ==
    ASSUME step' \in {"Idle", "Clear"}
    PROVE  (EmptyInv /\ PackageInv /\ PublishedInv /\ PublishesWhatItRead)'
BY DEF EmptyInv, PackageInv, PublishedInv, PublishesWhatItRead

(* The run has written everything: what is there is what it read.          *)
LEMMA IndexCompletes ==
    ASSUME PagesInv, WriteIndex
    PROVE  PublishesWhatItRead'
<1> USE DEF PagesInv
<1>1. /\ step = "Write" /\ todo = {} /\ current = {} /\ undrawn = {}
      /\ output' = [output EXCEPT ![IndexFile] = TocTree]
      /\ UNCHANGED <<documents, noDiagrams>>
  BY DEF WriteIndex, Writes, PackageInv, reading
<1>2. output \in [Names -> FileType]
  BY DEF TypeOK, FileType
<1>3. /\ \A p \in Packages : output'[PageFile(p)] = output[PageFile(p)]
      /\ \A s \in Sources : output'[DiagramFile(s)] = output[DiagramFile(s)]
      /\ output'[IndexFile] = TocTree
  BY <1>1, <1>2, NamesDiffer
<1>4. \A p \in Packages : output'[PageFile(p)] = IF p \in Grouped THEN Page(p) ELSE Nothing
  BY <1>1, <1>3 DEF PublishedInv
<1>5. \A s \in Sources : output'[DiagramFile(s)] = IF DrawnApart(s) THEN Diagram(s) ELSE Nothing
  BY <1>1, <1>3 DEF PublishedInv
<1>6. Grouped \subseteq Packages
  BY DEF Grouped, Documented, Packages
<1>7. ASSUME NEW s \in Sources
      PROVE  (\E p \in Grouped : DiagramFile(s) \in output'[PageFile(p)].names) <=> DrawnApart(s)
  <2>1. \A p \in Grouped :
           output'[PageFile(p)].names = {DiagramFile(t) : t \in {m \in Members(p) : NamedByItsPage(m)}}
    <3>1. \A p : Page(p).names = {DiagramFile(t) : t \in {m \in Members(p) : NamedByItsPage(m)}}
      BY DEF Page, Fresh, File
    <3>2. \A p \in Grouped : output'[PageFile(p)] = Page(p)
      BY <1>4, <1>6
    <3> QED BY <3>1, <3>2
  <2>2. ASSUME NEW p \in Grouped, DiagramFile(s) \in output'[PageFile(p)].names
        PROVE  DrawnApart(s)
    <3>1. PICK t \in Members(p) : NamedByItsPage(t) /\ DiagramFile(s) = DiagramFile(t)
      BY <2>1, <2>2
    <3>2. t = s
      BY <3>1, NamesDiffer DEF Members, Documented
    <3> QED BY <3>1, <3>2 DEF NamedByItsPage, DrawnApart
  <2>3. ASSUME DrawnApart(s)
        PROVE  \E p \in Grouped : DiagramFile(s) \in output'[PageFile(p)].names
    <3>1. s \in Members(PackageOf[s]) /\ PackageOf[s] \in Grouped /\ NamedByItsPage(s)
      BY <2>3, DrawnIsMember DEF DrawnApart, NamedByItsPage
    <3> QED BY <2>1, <3>1
  <2> QED BY <2>2, <2>3
<1>8. /\ Grouped' = Grouped /\ TocTree' = TocTree
      /\ \A p : Page(p)' = Page(p)
      /\ \A s : Diagram(s)' = Diagram(s)
  BY <1>1, SameDocuments
<1>9. \A s \in Sources : output'[DiagramFile(s)] =
          IF \E p \in Grouped : DiagramFile(s) \in output'[PageFile(p)].names
          THEN Diagram(s) ELSE Nothing
  BY <1>5, <1>7
<1> QED BY <1>3, <1>4, <1>8, <1>9 DEF PublishesWhatItRead

-----------------------------------------------------------------------------
(* Each step keeps what is said of reading and writing.                    *)
LEMMA PagesStep == ASSUME PagesInv, [Next]_vars PROVE PagesInv'
<1> USE DEF PagesInv
<1>0. TypeOK'
  BY PagesTypeStep
<1> DEFINE Rest == EmptyInv /\ PackageInv /\ PublishedInv /\ PublishesWhatItRead
<1>1. CASE UNCHANGED vars
  <2>1. Rest'
    BY <1>1, SameDocuments
       DEF vars, reading, writing, EmptyInv, PackageInv, PublishedInv, PublishesWhatItRead
  <2> QED BY <1>0, <2>1
<1>2. ASSUME NEW s \in Sources, Read(s) PROVE Rest'
  BY <1>2 DEF Read, EmptyInv, PackageInv, PublishedInv, PublishesWhatItRead
<1>3. ASSUME NEW s \in Sources, WriteDiagram(s) PROVE Rest'
  <2>1. /\ step = "Write" /\ step' = "Write" /\ undrawn' = undrawn \ {s} /\ s \in undrawn
        /\ UNCHANGED <<noDiagrams, documents, todo, current>>
    BY <1>3 DEF WriteDiagram, reading
  <2>2. output \in [Names -> FileType]
    BY DEF TypeOK, FileType
  <2>3. PackageOf[s] \in current /\ PackageOf[s] \notin todo
    BY <2>1 DEF PackageInv
  <2>4. /\ \A p \in Packages : output'[PageFile(p)] = output[PageFile(p)]
        /\ \A t \in Sources : t # s => output'[DiagramFile(t)] = output[DiagramFile(t)]
        /\ output'[IndexFile] = output[IndexFile]
        /\ output'[DiagramFile(s)] = IF DrawnApart(s) THEN Diagram(s) ELSE output[DiagramFile(s)]
    BY <1>3, <2>2, NamesDiffer DEF WriteDiagram, Writes
  <2>5. PackageInv'
    BY <2>1, SameDocuments DEF PackageInv
  <2>6. \A p \in Packages : output'[PageFile(p)] =
           IF p \in Grouped /\ p \notin todo /\ p \notin current THEN Page(p) ELSE Nothing
    BY <2>1, <2>4 DEF PublishedInv
  <2>7. ASSUME NEW t \in Sources
        PROVE  output'[DiagramFile(t)] =
                 IF DrawnApart(t) /\ PackageOf[t] \notin todo /\ t \notin undrawn'
                 THEN Diagram(t) ELSE Nothing
    BY <2>1, <2>3, <2>4 DEF PublishedInv
  <2>8. PublishedInv'
    BY <2>1, <2>4, <2>6, <2>7, SameDocuments DEF PublishedInv
  <2> QED BY <2>1, <2>5, <2>8 DEF EmptyInv, PublishesWhatItRead
<1>4. ASSUME NEW without \in BOOLEAN, Start(without) PROVE Rest'
  BY <1>4, AtRest DEF Start
<1>5. ASSUME NEW p \in Packages, BeginPackage(p) PROVE Rest'
  <2>1. /\ step = "Write" /\ step' = "Write" /\ current = {} /\ p \in todo
        /\ todo' = todo \ {p} /\ current' = {p} /\ undrawn' = Members(p)
        /\ UNCHANGED <<output, noDiagrams, documents>>
    BY <1>5 DEF BeginPackage, reading
  <2>2. undrawn = {}
    BY <2>1 DEF PackageInv
  <2>3. \A t \in Sources : DrawnApart(t) => t \in Members(PackageOf[t])
    BY DrawnIsMember
  <2>4. PackageInv'
    BY <2>1, SameDocuments DEF PackageInv, Members
  <2>5. \A q \in Packages : output'[PageFile(q)] =
           IF q \in Grouped /\ q \notin todo' /\ q \notin current' THEN Page(q) ELSE Nothing
    BY <2>1 DEF PublishedInv
  <2>6. ASSUME NEW t \in Sources
        PROVE  output'[DiagramFile(t)] =
                 IF DrawnApart(t) /\ PackageOf[t] \notin todo' /\ t \notin undrawn'
                 THEN Diagram(t) ELSE Nothing
    BY <2>1, <2>2, <2>3 DEF PublishedInv, Members
  <2>7. PublishedInv'
    BY <2>1, <2>5, <2>6, SameDocuments DEF PublishedInv
  <2> QED BY <2>1, <2>4, <2>7 DEF EmptyInv, PublishesWhatItRead
<1>6. ASSUME NEW p \in Packages, WritePage(p) PROVE Rest'
  <2>1. /\ step = "Write" /\ step' = "Write" /\ p \in current /\ undrawn = {} /\ undrawn' = {}
        /\ current' = {} /\ output' = [output EXCEPT ![PageFile(p)] = Page(p)]
        /\ UNCHANGED <<noDiagrams, documents, todo>>
    BY <1>6 DEF WritePage, Writes, reading
  <2>2. output \in [Names -> FileType]
    BY DEF TypeOK, FileType
  <2>3. /\ \A q \in Packages : q # p => output'[PageFile(q)] = output[PageFile(q)]
        /\ output'[PageFile(p)] = Page(p)
        /\ \A t \in Sources : output'[DiagramFile(t)] = output[DiagramFile(t)]
        /\ output'[IndexFile] = output[IndexFile]
    BY <2>1, <2>2, NamesDiffer
  <2>4. current = {p} /\ p \in Grouped /\ p \notin todo
    BY <2>1 DEF PackageInv
  <2>5. PackageInv'
    BY <2>1, SameDocuments DEF PackageInv
  <2>6. \A q \in Packages : output'[PageFile(q)] =
           IF q \in Grouped /\ q \notin todo /\ q \notin current' THEN Page(q) ELSE Nothing
    BY <2>1, <2>3, <2>4 DEF PublishedInv
  <2>7. PublishedInv'
    BY <2>1, <2>3, <2>6, SameDocuments DEF PublishedInv
  <2> QED BY <2>1, <2>5, <2>7 DEF EmptyInv, PublishesWhatItRead
<1>7. CASE Clear
  <2>1. Rest'
    BY <1>7 DEF Clear, RemoveTree, EmptyInv, PackageInv, PublishedInv, PublishesWhatItRead
  <2> QED BY <1>0, <2>1
<1>8. CASE ClearStopped
  BY <1>0, <1>8, AtRest DEF ClearStopped
<1>9. CASE Group
  <2>1. /\ step = "Read" /\ step' = "Write" /\ todo' = Grouped /\ current' = {} /\ undrawn' = {}
        /\ UNCHANGED <<output, noDiagrams, documents>>
    BY <1>9 DEF Group, reading
  <2>2. \A n \in Names : output'[n] = Nothing
    BY <2>1 DEF EmptyInv
  <2>3. \A t \in Sources : DrawnApart(t) => PackageOf[t] \in Grouped
    BY DrawnIsMember
  <2>4. PackageInv'
    BY <2>1, SameDocuments DEF PackageInv
  <2>5. PublishedInv'
    BY <2>1, <2>2, <2>3, NamesDiffer, SameDocuments DEF PublishedInv
  <2> QED BY <1>0, <2>1, <2>4, <2>5 DEF EmptyInv, PublishesWhatItRead
<1>10. CASE WriteIndex
  <2>1. step' = "Done"
    BY <1>10 DEF WriteIndex
  <2> QED BY <1>0, <1>10, <2>1, IndexCompletes DEF EmptyInv, PackageInv, PublishedInv
<1>11. CASE WriteStopped
  BY <1>0, <1>11, AtRest DEF WriteStopped
<1>12. CASE Stopped
  BY <1>0, <1>12, AtRest DEF Stopped
<1> QED BY <1>0, <1>1, <1>2, <1>3, <1>4, <1>5, <1>6, <1>7, <1>8, <1>9, <1>10, <1>11, <1>12 DEF Next

(* A finished run has published what it read and nothing else, whatever an *)
(* earlier run left and wherever it was stopped (PublishesWhatItRead).     *)
THEOREM FinishedRunIsExact == Spec => []PublishesWhatItRead
<1>1. Init => PagesInv
  BY PagesTypeInit DEF Init, PagesInv, EmptyInv, PackageInv, PublishedInv, PublishesWhatItRead
<1>2. PagesInv => PublishesWhatItRead
  BY DEF PagesInv
<1> QED BY <1>1, <1>2, PagesStep, PTL DEF Spec

-----------------------------------------------------------------------------
(* The sections of a page (ApiSections).                                   *)

(* The calls for a list of entities are as many as the list is long, all   *)
(* at one depth and inside one parent.                                     *)
LEMMA CallsPlaced ==
    ASSUME NEW es, NEW depth, NEW parent
    PROVE  /\ \E C : Calls(es, depth, parent) \in Seq(C)
           /\ \A i \in 1 .. Len(Calls(es, depth, parent)) :
                 /\ Calls(es, depth, parent)[i].entity = es[i]
                 /\ Calls(es, depth, parent)[i].depth = depth
                 /\ Calls(es, depth, parent)[i].parent = parent
           /\ Len(Calls(es, depth, parent)) = Len(es)
<1> DEFINE n    == Len(es)
           f(i) == [entity |-> es[i], depth |-> depth, parent |-> parent]
           C    == {f(i) : i \in 1 .. n}
<1>1. n \in Nat
  OBVIOUS
<1>2. \A i \in 1 .. n : /\ f(i) \in C /\ f(i).entity = es[i]
                     /\ f(i).depth = depth /\ f(i).parent = parent
  OBVIOUS
<1>3. Calls(es, depth, parent) = [i \in 1 .. n |-> f(i)]
  BY DEF Calls
<1> HIDE DEF n, f, C
<1>4. [i \in 1 .. n |-> f(i)] \in Seq(C) /\ Len([i \in 1 .. n |-> f(i)]) = n
  BY <1>1, <1>2
<1> QED BY <1>1, <1>2, <1>3, <1>4 DEF n

-----------------------------------------------------------------------------
(* An edge leaves a type of the module that is drawn.                      *)
LEMMA EdgesLeaveDrawn ==
    ASSUME NEW module, NEW r \in Edges(module)
    PROVE  r.from \in Local(module) /\ Drawn(module) # {}
<1>1. r \in Mentioned(module)
  BY DEF Edges
<1>2. ASSUME NEW i \in Drawn(module)
      PROVE  module[i].name \in Local(module)
  BY DEF Drawn, Local, TypeNames, ToSet
<1>3. CASE \E i \in Drawn(module) : r \in HeldBy(module[i])
  BY <1>2, <1>3 DEF HeldBy, Relation
<1>4. CASE \E e \in OfFunctions(module) : r \in TakenBy(e)
  <2>1. r.from \in Local(module)
    BY <1>4 DEF OfFunctions, TakenBy, Relation
  <2>2. Drawn(module) # {}
    BY <2>1 DEF Local, TypeNames, Drawn, ToSet
  <2> QED BY <2>1, <2>2
<1> QED BY <1>1, <1>3, <1>4 DEF Mentioned

(* A diagram is closed (DiagramsClosed), on any page: where an edge goes   *)
(* there is a box, and where a box is there is a link.                     *)
THEOREM DiagramsAlwaysClosed == SectionsSpec => []DiagramsClosed
<1>1. DiagramsClosed
  <2> SUFFICES ASSUME NEW m \in 1 .. Len(page)
               PROVE  /\ \A r \in Edges(page[m]) : r.from # r.to /\ {r.from, r.to} \subseteq Boxes(page[m])
                      /\ \A n \in Boxes(page[m]) \ TypeNames(page[m]) :
                            \E r \in Edges(page[m]) : r.to = n /\ r.from \in TypeNames(page[m])
                      /\ Legend(page[m]) = Boxes(page[m])
                      /\ Edges(page[m]) # {} => HasDiagram(page[m])
    BY DEF DiagramsClosed
  <2> DEFINE module == page[m]
  <2>1. \A r \in Edges(module) : r.to # r.from /\ r.to \in Known
    BY DEF Edges
  <2>2. \A r \in Edges(module) : r.from \in Local(module) /\ Drawn(module) # {}
    BY EdgesLeaveDrawn
  <2>3. \A r \in Edges(module) : {r.from, r.to} \subseteq Boxes(module)
    BY <2>2 DEF Boxes, Outside
  <2>4. \A n \in Boxes(module) \ TypeNames(module) :
           \E r \in Edges(module) : r.to = n /\ r.from \in TypeNames(module)
    BY <2>2 DEF Boxes, Outside, Local
  <2>5. Boxes(module) \subseteq Known
    BY <2>1 DEF Boxes, Outside, Local, Known
  <2> QED BY <2>1, <2>2, <2>3, <2>4, <2>5 DEF Legend, HasDiagram
<1> QED BY <1>1, PTL

-----------------------------------------------------------------------------
(* The members of a type (ApiSections).  Lists are recursive functions and *)
(* completeness is a matter of what comes first, so both need induction.   *)

-----------------------------------------------------------------------------
(* A list holds the entities of the module that are kept, and no other.    *)
LEMMA ListedMeans ==
    ASSUME NEW S, NEW module \in Seq(S), NEW kept
    PROVE  /\ Listed(module, kept) \in Seq(S)
           /\ ToSet(Listed(module, kept)) = ToSet(module) \intersect kept
<1> DEFINE N == Len(module)
           More(l, i) == IF module[i] \in kept THEN Append(l, module[i]) ELSE l
           Body(n, f) == [i \in 0 .. n |-> IF i = 0 THEN <<>> ELSE More(f[i - 1], i)]
           P == {n \in Nat : \E f : f = Body(n, f)}
<1>0. Listed(module, kept) = (CHOOSE f : f = Body(N, f))[N]
  BY DEF Listed
<1>1. N \in Nat
  OBVIOUS
<1> HIDE DEF More
<1>2. 0 \in P
  <2>1. [i \in 0 .. 0 |-> <<>>] = Body(0, [i \in 0 .. 0 |-> <<>>])
    OBVIOUS
  <2> QED BY <2>1
<1>3. ASSUME NEW n \in P PROVE n + 1 \in P
  <2>1. n \in Nat
    OBVIOUS
  <2>2. PICK f : f = Body(n, f)
    OBVIOUS
  <2> DEFINE next == More(f[n], n + 1)
             g == [i \in 0 .. n + 1 |-> IF i = n + 1 THEN next ELSE f[i]]
  <2>3. /\ f[0] = <<>>
        /\ \A i \in 1 .. n : f[i] = More(f[i - 1], i)
    BY <2>1, <2>2
  <2>4. ASSUME NEW i \in 0 .. n + 1
        PROVE  g[i] = Body(n + 1, g)[i]
    <3>1. CASE i = 0
      BY <3>1, <2>1, <2>3
    <3>2. CASE i \in 1 .. n
      <4>1. g[i] = f[i] /\ g[i - 1] = f[i - 1]
        BY <3>2, <2>1
      <4>2. Body(n + 1, g)[i] = More(g[i - 1], i)
        BY <3>2, <2>1
      <4> QED BY <4>1, <4>2, <3>2, <2>3
    <3>3. CASE i = n + 1
      <4>1. g[i] = next /\ g[n] = f[n]
        BY <3>3, <2>1
      <4>2. Body(n + 1, g)[i] = More(g[i - 1], i)
        BY <3>3, <2>1
      <4>3. i - 1 = n
        BY <3>3, <2>1
      <4> QED BY <4>1, <4>2, <4>3, <3>3
    <3> QED BY <3>1, <3>2, <3>3, <2>1
  <2>5. g = Body(n + 1, g)
    BY <2>4
  <2> HIDE DEF g, Body
  <2> QED BY <2>1, <2>5
<1>4. P = Nat
  <2> HIDE DEF P
  <2>1. P \in SUBSET Nat
    BY DEF P
  <2> QED BY <1>2, <1>3, <2>1, Induction
<1>5. \E f : f = Body(N, f)
  BY <1>1, <1>4
<1> DEFINE list == CHOOSE f : f = Body(N, f)
<1>6. list = Body(N, list)
  BY <1>5
<1>7. Listed(module, kept) = list[N]
  BY <1>0
<1> HIDE DEF list
<1>8. /\ list[0] = <<>>
      /\ \A i \in 1 .. N : list[i] = More(list[i - 1], i)
  <2>1. \A i \in 0 .. N : list[i] = Body(N, list)[i]
    BY <1>6
  <2>2. Body(N, list)[0] = <<>>
    BY <1>1
  <2>3. ASSUME NEW i \in 1 .. N
        PROVE  list[i] = More(list[i - 1], i)
    <3>1. Body(N, list)[i] = More(list[i - 1], i)
      BY <1>1
    <3> HIDE DEF Body
    <3> QED BY <3>1, <2>1, <1>1
  <2> HIDE DEF Body
  <2> QED BY <1>1, <2>1, <2>2, <2>3
<1> DEFINE Sofar(n) == /\ list[n] \in Seq(S)
                       /\ ToSet(list[n]) = {module[i] : i \in 1 .. n} \intersect kept
           Q == {n \in Nat : n <= N => Sofar(n)}
<1>9. 0 \in Q
  <2>1. list[0] = <<>> /\ ToSet(<<>>) = {} /\ <<>> \in Seq(S)
    BY <1>8 DEF ToSet
  <2>2. {module[i] : i \in 1 .. 0} = {}
    OBVIOUS
  <2> QED BY <2>1, <2>2
<1>10. ASSUME NEW n \in Q PROVE n + 1 \in Q
  <2> SUFFICES ASSUME n + 1 <= N PROVE Sofar(n + 1)
    OBVIOUS
  <2>1. n \in Nat /\ n <= N /\ n + 1 \in 1 .. N /\ (n + 1) - 1 = n
    BY <1>1
  <2>2. Sofar(n)
    BY <2>1
  <2>3. list[n + 1] = IF module[n + 1] \in kept THEN Append(list[n], module[n + 1]) ELSE list[n]
    BY <1>8, <2>1 DEF More
  <2>4. {module[i] : i \in 1 .. n + 1} = {module[i] : i \in 1 .. n} \union {module[n + 1]}
    <3>1. 1 .. n + 1 = (1 .. n) \union {n + 1}
      BY <2>1
    <3> QED BY <3>1
  <2>5. module[n + 1] \in S
    BY <2>1
  <2> DEFINE had == list[n]
             last == module[n + 1]
  <2>6. Append(had, last) \in Seq(S) /\ ToSet(Append(had, last)) = ToSet(had) \union {last}
    <3>1. had \in Seq(S) /\ last \in S
      BY <2>2, <2>5
    <3> HIDE DEF had, last
    <3>2. /\ Append(had, last) \in Seq(S) /\ Len(Append(had, last)) = Len(had) + 1
          /\ \A i \in 1 .. Len(had) : Append(had, last)[i] = had[i]
          /\ Append(had, last)[Len(had) + 1] = last
          /\ Len(had) \in Nat
      BY <3>1
    <3>3. \A s \in Seq(S) : DOMAIN s = 1 .. Len(s)
      OBVIOUS
    <3> DEFINE longer == Append(had, last)
    <3>4. DOMAIN longer = 1 .. Len(had) + 1 /\ DOMAIN had = 1 .. Len(had)
      BY <3>1, <3>2, <3>3
    <3> HIDE DEF longer
    <3>5. \A x : x \in ToSet(longer) <=> x \in ToSet(had) \union {last}
      BY <3>2, <3>4 DEF ToSet, longer
    <3> QED BY <3>2, <3>5 DEF longer
  <2> HIDE DEF had, last
  <2>7. CASE module[n + 1] \in kept
    BY <2>2, <2>3, <2>4, <2>6, <2>7 DEF had, last
  <2>8. CASE module[n + 1] \notin kept
    BY <2>2, <2>3, <2>4, <2>8
  <2> QED BY <2>7, <2>8
<1>11. Q = Nat
  <2> HIDE DEF Q
  <2>1. Q \in SUBSET Nat
    BY DEF Q
  <2> QED BY <1>9, <1>10, <2>1, Induction
<1>12. Sofar(N)
  <2> HIDE DEF Sofar
  <2> QED BY <1>1, <1>11
<1>13. ToSet(module) = {module[i] : i \in 1 .. N}
  BY DEF ToSet
<1> QED BY <1>7, <1>12, <1>13

-----------------------------------------------------------------------------
(* What holds of an entity x of module m that is, or will be, in entry p:  *)
(* p is the entry of its owner, or the page.                               *)
Inside(m, x, p) ==
    IF x.owner \in TypeNames(page[m])
    THEN p \in InSection(m) /\ IsType(entries[p].entity) /\ entries[p].entity.name = x.owner
    ELSE p = 0

Written(m, x)      == \E k \in InSection(m) : Key(entries[k].entity) = Key(x)
OwnerWritten(m, x) == \E k \in InSection(m) :
                          IsType(entries[k].entity) /\ entries[k].entity.name = x.owner

PositionInv ==
    /\ page \in Pages /\ section \in 0 .. Len(page)
    /\ section = 0 => work = <<>>
    /\ \E C : work \in Seq(C)
    /\ \E C : entries \in Seq(C)

(* Each entry is of an entity of its section, and inside its owner's.      *)
WrittenInside ==
    \A k \in 1 .. Len(entries) :
        /\ entries[k].section \in 1 .. section
        /\ entries[k].entity \in ToSet(page[entries[k].section])
        /\ Inside(entries[k].section, entries[k].entity, entries[k].parent)

WrittenOnce ==
    \A j, k \in 1 .. Len(entries) :
        (/\ entries[j].section = entries[k].section
         /\ Key(entries[j].entity) = Key(entries[k].entity)) => j = k

CalledInside ==
    \A i \in 1 .. Len(work) :
        /\ work[i].entity \in ToSet(Module)
        /\ Inside(section, work[i].entity, work[i].parent)

(* An entity is written, called for, or its owner has yet to be written.   *)
NoneForgotten ==
    section > 0 =>
        \A x \in ToSet(Module) :
            \/ Written(section, x)
            \/ \E i \in 1 .. Len(work) : work[i].entity = x
            \/ x.owner \in TypeNames(Module) /\ ~OwnerWritten(section, x)

SectionsComplete ==
    \A m \in 1 .. section - 1 : \A x \in ToSet(page[m]) : Written(m, x)

MembersInv ==
    /\ PositionInv /\ WrittenInside /\ WrittenOnce
    /\ CalledInside /\ NoneForgotten /\ SectionsComplete

(* What the file's reader promises of a module.                            *)
LEMMA ModuleMeans ==
    ASSUME NEW p \in Pages, NEW m \in 1 .. Len(p)
    PROVE  /\ Len(p) \in Nat /\ p[m] \in Seq(Entity) /\ Len(p[m]) \in Nat
           /\ \A x \in ToSet(p[m]) : IsMember(p[m], x) <=> x.owner \in TypeNames(p[m])
           /\ \A i \in 1 .. Len(p[m]) : p[m][i].owner \in TypeNames(p[m]) =>
                 \E j \in 1 .. i - 1 : IsType(p[m][j]) /\ p[m][j].name = p[m][i].owner
<1>1. p \in Seq(Seq(Entity))
  BY PagesAssumption
<1>2. p[m] \in Seq(Entity) /\ Len(p) \in Nat
  BY <1>1
<1>3. Len(p[m]) \in Nat /\ DOMAIN p[m] = 1 .. Len(p[m])
  BY <1>2
<1>4. \A i \in 1 .. Len(p[m]) :
         /\ IsType(p[m][i]) => p[m][i].owner # p[m][i].name
         /\ p[m][i].owner \in TypeNames(p[m]) =>
               \E j \in 1 .. i - 1 : IsType(p[m][j]) /\ p[m][j].name = p[m][i].owner
  BY PagesAssumption
<1>5. ASSUME NEW x \in ToSet(p[m])
      PROVE  IsMember(p[m], x) <=> x.owner \in TypeNames(p[m])
  <2>1. IsType(x) => x.owner # x.name
    BY <1>3, <1>4 DEF ToSet
  <2> QED BY <2>1 DEF IsMember
<1> QED BY <1>2, <1>3, <1>4, <1>5

(* A section whose calls have all returned has every entity: the first     *)
(* that were missing would wait for an owner that stands before it.        *)
LEMMA SectionEnds ==
    ASSUME MembersInv, section > 0, work = <<>>
    PROVE  \A x \in ToSet(Module) : Written(section, x)
<1> USE DEF MembersInv
<1>1. page \in Pages /\ section \in 1 .. Len(page)
  <2>1. page \in Pages /\ section \in 0 .. Len(page)
    BY DEF PositionInv
  <2> QED BY <2>1
<1> DEFINE N == Len(Module)
           Missing == {i \in 1 .. N : ~Written(section, Module[i])}
<1>2. /\ N \in Nat /\ DOMAIN Module = 1 .. N
      /\ \A i \in 1 .. N : Module[i].owner \in TypeNames(Module) =>
            \E j \in 1 .. i - 1 : IsType(Module[j]) /\ Module[j].name = Module[i].owner
  BY <1>1, ModuleMeans DEF Module
<1>3. SUFFICES ASSUME Missing # {} PROVE FALSE
  BY <1>2 DEF ToSet
<1>4. PICK least \in Missing : \A other \in Missing : least <= other
  <2>1. Missing \in SUBSET Nat
    BY <1>2
  <2> HIDE DEF Missing
  <2> QED BY <1>3, <2>1, LeastMember
<1>5. least \in 1 .. N /\ ~Written(section, Module[least])
  OBVIOUS
<1>6. Module[least] \in ToSet(Module)
  BY <1>2, <1>5 DEF ToSet
<1>7. Module[least].owner \in TypeNames(Module) /\ ~OwnerWritten(section, Module[least])
  BY <1>5, <1>6 DEF NoneForgotten
<1>8. PICK j \in 1 .. least - 1 : IsType(Module[j]) /\ Module[j].name = Module[least].owner
  BY <1>2, <1>5, <1>7
<1>9. Written(section, Module[j])
  <2>1. j \in 1 .. N /\ ~(least <= j)
    BY <1>2, <1>5, <1>8
  <2> QED BY <1>4, <2>1
<1>10. PICK k \in InSection(section) : Key(entries[k].entity) = Key(Module[j])
  BY <1>9 DEF Written
<1>11. IsType(entries[k].entity) /\ entries[k].entity.name = Module[least].owner
  BY <1>8, <1>10 DEF Key, IsType
<1> QED BY <1>7, <1>10, <1>11 DEF OwnerWritten

(* An entry of an entity's key has its identity, or is of one alike in     *)
(* another namespace.                                                      *)
LEMMA KeyMeans ==
    ASSUME NEW e, NEW f, Key(f) = Key(e)
    PROVE  /\ IsType(f) <=> IsType(e)
           /\ Identity(f) = Identity(e) \/ AlikeElsewhere(e, f)
BY DEF Key, IsType, Identity, AlikeElsewhere

LEMMA MembersFollow == MembersInv => MembersInsideTheirType
<1> SUFFICES ASSUME MembersInv, Rendered, NEW m \in 1 .. Len(page)
             PROVE  /\ \A e \in ToSet(page[m]) :
                          \/ EntriesOf(m, e) # {}
                          \/ \E f \in ToSet(page[m]) : AlikeElsewhere(e, f) /\ EntriesOf(m, f) # {}
                    /\ \A j, k \in InSection(m) :
                          Identity(entries[j].entity) = Identity(entries[k].entity) => j = k
                    /\ \A k \in InSection(m) :
                          LET e     == entries[k].entity
                              p     == entries[k].parent
                              homes == TypesNamed(page[m], e.owner)
                          IN  IF homes = {} THEN p = 0
                              ELSE /\ p \in InSection(m) /\ entries[p].entity \in homes
                                   /\ (\A t \in homes : t.namespace = e.namespace) =>
                                         entries[p].entity.namespace = e.namespace
  BY DEF MembersInsideTheirType
<1> USE DEF MembersInv
<1>1. Len(page) \in Nat /\ section = Len(page) /\ section > 0 /\ work = <<>>
  <2>1. section = Len(page) /\ work = <<>> /\ Len(page) \in Nat
    BY PagesAssumption DEF Rendered, PositionInv
  <2> QED BY <2>1
<1>2. \A x \in ToSet(page[m]) : Written(m, x)
  <2>1. CASE m = section
    BY <1>1, <2>1, SectionEnds DEF Module
  <2>2. CASE m # section
    BY <1>1, <2>2 DEF SectionsComplete
  <2> QED BY <2>1, <2>2
<1>3. \A k \in InSection(m) : /\ entries[k].entity \in ToSet(page[m])
                              /\ Inside(m, entries[k].entity, entries[k].parent)
  BY DEF WrittenInside, InSection
<1>4. ASSUME NEW e \in ToSet(page[m])
      PROVE  \/ EntriesOf(m, e) # {}
             \/ \E f \in ToSet(page[m]) : AlikeElsewhere(e, f) /\ EntriesOf(m, f) # {}
  <2>1. PICK k \in InSection(m) : Key(entries[k].entity) = Key(e)
    BY <1>2 DEF Written
  <2>2. PICK f \in ToSet(page[m]) : f = entries[k].entity
    BY <1>3
  <2>3. k \in EntriesOf(m, f)
    BY <2>2 DEF EntriesOf
  <2>4. CASE Identity(f) = Identity(e)
    BY <2>2, <2>4 DEF EntriesOf
  <2>5. CASE AlikeElsewhere(e, f)
    BY <2>3, <2>5
  <2> QED BY <2>1, <2>2, <2>4, <2>5, KeyMeans
<1>5. ASSUME NEW j \in InSection(m), NEW k \in InSection(m),
             Identity(entries[j].entity) = Identity(entries[k].entity)
      PROVE  j = k
  <2>1. Key(entries[j].entity) = Key(entries[k].entity)
    BY <1>5 DEF Identity, Key
  <2> QED BY <2>1 DEF WrittenOnce, InSection
<1>6. ASSUME NEW k \in InSection(m)
      PROVE  LET e     == entries[k].entity
                 p     == entries[k].parent
                 homes == TypesNamed(page[m], e.owner)
             IN  IF homes = {} THEN p = 0
                 ELSE /\ p \in InSection(m) /\ entries[p].entity \in homes
                      /\ (\A t \in homes : t.namespace = e.namespace) =>
                            entries[p].entity.namespace = e.namespace
  <2>1. PICK e, p : e = entries[k].entity /\ p = entries[k].parent
    OBVIOUS
  <2>2. Inside(m, e, p)
    BY <1>3, <2>1
  <2>3. TypesNamed(page[m], e.owner) # {} <=> e.owner \in TypeNames(page[m])
    BY DEF TypesNamed, TypeNames
  <2>4. ASSUME e.owner \in TypeNames(page[m])
        PROVE  p \in InSection(m) /\ entries[p].entity \in TypesNamed(page[m], e.owner)
    <3>1. p \in InSection(m) /\ IsType(entries[p].entity) /\ entries[p].entity.name = e.owner
      BY <2>2, <2>4 DEF Inside
    <3> QED BY <1>3, <3>1 DEF TypesNamed
  <2>5. e.owner \notin TypeNames(page[m]) => p = 0
    BY <2>2 DEF Inside
  <2> QED BY <2>1, <2>3, <2>4, <2>5
<1> QED BY <1>4, <1>5, <1>6

(* Entries are only added behind: what was written stays written.          *)
LEMMA WrittenStays ==
    ASSUME Len(entries) \in Nat, Len(entries') \in Nat, Len(entries) <= Len(entries'),
           \A k \in 1 .. Len(entries) : entries'[k] = entries[k],
           page' = page
    PROVE  /\ \A m : InSection(m) \subseteq InSection(m)'
           /\ \A m, x, p : Inside(m, x, p) => Inside(m, x, p)'
           /\ \A m, x : Written(m, x) => Written(m, x)'
<1>1. \A m : \A k \in InSection(m) : k \in InSection(m)' /\ entries'[k] = entries[k]
  BY DEF InSection
<1>2. ASSUME NEW m, NEW x, NEW p, Inside(m, x, p) PROVE Inside(m, x, p)'
  BY <1>1, <1>2 DEF Inside
<1>3. ASSUME NEW m, NEW x, Written(m, x) PROVE Written(m, x)'
  BY <1>1, <1>3 DEF Written
<1> QED BY <1>1, <1>2, <1>3

LEMMA TailMeans ==
    ASSUME NEW C, NEW s \in Seq(C), s # <<>>
    PROVE  LET t == Tail(s) IN
           /\ t \in Seq(C) /\ Len(s) \in Nat /\ Len(s) > 0 /\ Len(t) = Len(s) - 1
           /\ \A i \in 1 .. Len(t) : t[i] = s[i + 1] /\ i + 1 \in 1 .. Len(s)
           /\ Head(s) = s[1]
OBVIOUS

LEMMA MembersBegin == ASSUME MembersInv, BeginSection PROVE MembersInv'
<1> USE DEF MembersInv
<1>0. PICK s : s = section + 1
  OBVIOUS
<1>1. /\ page' = page /\ entries' = entries /\ section' = s /\ work = <<>> /\ section < Len(page)
      /\ work' = Calls(Roots(page[s]), 0, 0)
  BY <1>0 DEF BeginSection
<1>2. page \in Pages /\ Len(page) \in Nat /\ section \in Nat /\ s \in 1 .. Len(page)
  <2>1. page \in Pages /\ Len(page) \in Nat /\ section \in 0 .. Len(page)
    BY PagesAssumption DEF PositionInv
  <2> QED BY <1>0, <1>1, <2>1
<1>3. PICK C : entries \in Seq(C)
  BY DEF PositionInv
<1>4. /\ \A m, x, p : Inside(m, x, p) => Inside(m, x, p)'
      /\ \A m, x : Written(m, x) => Written(m, x)'
  BY <1>1, <1>3, WrittenStays
<1>5. Module' = page[s]
  BY <1>1 DEF Module
<1> DEFINE roots == Roots(page[s])
           free  == {x \in ToSet(page[s]) : ~IsMember(page[s], x)}
<1>6. roots \in Seq(Entity) /\ ToSet(roots) = ToSet(page[s]) \intersect free
  BY <1>2, ModuleMeans, ListedMeans DEF Roots
<1>7. /\ \E D : work' \in Seq(D)
      /\ Len(work') = Len(roots)
      /\ \A i \in 1 .. Len(work') : work'[i].entity = roots[i] /\ work'[i].parent = 0
  BY <1>1, CallsPlaced
<1>8. Len(roots) \in Nat /\ DOMAIN roots = 1 .. Len(roots)
  BY <1>6
<1> HIDE DEF roots
<1>9. PositionInv'
  BY <1>1, <1>2, <1>3, <1>7 DEF PositionInv
<1>10. WrittenInside'
  BY <1>0, <1>1, <1>2, <1>4 DEF WrittenInside
<1>11. WrittenOnce'
  BY <1>1 DEF WrittenOnce
<1>12. CalledInside'
  <2>1. ASSUME NEW i \in 1 .. Len(work')
        PROVE  (work[i].entity \in ToSet(Module) /\ Inside(section, work[i].entity, work[i].parent))'
    <3>1. roots[i] \in ToSet(roots) /\ work'[i].entity = roots[i] /\ work'[i].parent = 0
      BY <1>7, <1>8 DEF ToSet
    <3>2. roots[i] \in ToSet(page[s]) /\ ~IsMember(page[s], roots[i])
      BY <1>6, <3>1
    <3>3. roots[i].owner \notin TypeNames(page[s])
      BY <1>2, <3>2, ModuleMeans
    <3> QED BY <1>1, <1>5, <3>1, <3>2, <3>3 DEF Inside
  <2> QED BY <2>1 DEF CalledInside
<1>13. NoneForgotten'
  <2>1. ASSUME NEW x \in ToSet(page[s])
        PROVE  \/ \E i \in 1 .. Len(work') : work'[i].entity = x
               \/ x.owner \in TypeNames(page[s]) /\ ~OwnerWritten(s, x)'
    <3>1. CASE IsMember(page[s], x)
      <4>1. x.owner \in TypeNames(page[s])
        BY <1>2, <3>1, ModuleMeans
      <4>2. \A k \in 1 .. Len(entries') : entries'[k].section # s
        BY <1>0, <1>1, <1>2 DEF WrittenInside
      <4> QED BY <4>1, <4>2 DEF OwnerWritten, InSection
    <3>2. CASE ~IsMember(page[s], x)
      <4>1. x \in ToSet(roots)
        BY <1>6, <3>2
      <4>2. PICK i \in 1 .. Len(roots) : roots[i] = x
        BY <1>8, <4>1 DEF ToSet
      <4> QED BY <1>7, <4>2
    <3> QED BY <3>1, <3>2
  <2> QED BY <1>1, <1>5, <2>1 DEF NoneForgotten
<1>14. SectionsComplete'
  <2>1. ASSUME NEW m \in 1 .. s - 1, NEW x \in ToSet(page[m]) PROVE Written(m, x)'
    <3>1. CASE m = section
      BY <1>0, <1>1, <1>2, <1>4, <3>1, SectionEnds DEF Module
    <3>2. CASE m # section
      BY <1>0, <1>2, <1>4, <3>2 DEF SectionsComplete
    <3> QED BY <3>1, <3>2
  <2> QED BY <1>1, <2>1 DEF SectionsComplete
<1> QED BY <1>9, <1>10, <1>11, <1>12, <1>13, <1>14

LEMMA MembersCollapse == ASSUME MembersInv, Collapse PROVE MembersInv'
<1> USE DEF MembersInv
<1>1. /\ page' = page /\ entries' = entries /\ section' = section
      /\ work # <<>> /\ work' = Tail(work) /\ Key(Head(work).entity) \in Emitted
  BY DEF Collapse
<1>2. PICK C : work \in Seq(C)
  BY DEF PositionInv
<1>3. PICK D : entries \in Seq(D)
  BY DEF PositionInv
<1>4. /\ work' \in Seq(C) /\ Len(work) \in Nat /\ Len(work) > 0 /\ Len(work') = Len(work) - 1
      /\ \A i \in 1 .. Len(work') : work'[i] = work[i + 1] /\ i + 1 \in 1 .. Len(work)
      /\ Head(work) = work[1]
  BY <1>1, <1>2, TailMeans
<1>5. /\ \A m, x, p : Inside(m, x, p) => Inside(m, x, p)'
      /\ \A m, x : Written(m, x) => Written(m, x)'
  BY <1>1, <1>3, WrittenStays
<1>6. Module' = Module
  BY <1>1 DEF Module
<1>7. PositionInv'
  BY <1>1, <1>3, <1>4 DEF PositionInv
<1>8. WrittenInside'
  BY <1>1, <1>5 DEF WrittenInside
<1>9. WrittenOnce'
  BY <1>1 DEF WrittenOnce
<1>10. CalledInside'
  BY <1>1, <1>4, <1>5, <1>6 DEF CalledInside
<1>11. NoneForgotten'
  <2>1. ASSUME section > 0, NEW x \in ToSet(Module)
        PROVE  \/ Written(section, x)
               \/ \E i \in 1 .. Len(work') : work'[i].entity = x
               \/ x.owner \in TypeNames(Module) /\ ~OwnerWritten(section, x)
    <3>1. ASSUME NEW i \in 1 .. Len(work), work[i].entity = x
          PROVE  Written(section, x) \/ \E j \in 1 .. Len(work') : work'[j].entity = x
      <4>1. CASE i = 1
        BY <1>1, <1>4, <3>1, <4>1 DEF Emitted, Written, InSection
      <4>2. CASE i # 1
        <5>1. i - 1 \in 1 .. Len(work') /\ (i - 1) + 1 = i
          BY <1>4, <4>2
        <5> QED BY <1>4, <3>1, <5>1
      <4> QED BY <4>1, <4>2
    <3> QED BY <2>1, <3>1 DEF NoneForgotten
  <2>2. \A x : OwnerWritten(section, x)' <=> OwnerWritten(section, x)
    BY <1>1 DEF OwnerWritten, InSection
  <2> QED BY <1>1, <1>5, <1>6, <2>1, <2>2 DEF NoneForgotten
<1>12. SectionsComplete'
  BY <1>1, <1>5 DEF SectionsComplete
<1> QED BY <1>7, <1>8, <1>9, <1>10, <1>11, <1>12

(* Emit writes one entity and calls for its members, before the calls that *)
(* were pending.                                                           *)
LEMMA MembersEmit == ASSUME MembersInv, Emit PROVE MembersInv'
<1> USE DEF MembersInv
<1>0. PICK n, e, up : n = Len(entries) /\ e = Head(work).entity /\ up = Head(work).parent
  OBVIOUS
<1>1. PICK new :
        /\ new.section = section /\ new.entity = e /\ new.parent = up
        /\ entries' = Append(entries, new)
  BY <1>0 DEF Emit
<1>2. PICK kids, depth :
        /\ kids = Calls(Children(Module, e), depth, n + 1)
        /\ work' = kids \o Tail(work)
  BY <1>0 DEF Emit
<1>3. /\ page' = page /\ section' = section /\ work # <<>>
      /\ Key(Head(work).entity) \notin Emitted
  BY DEF Emit
<1>4. PICK C : work \in Seq(C)
  BY DEF PositionInv
<1>5. PICK D : entries \in Seq(D)
  BY DEF PositionInv
<1>6. /\ n \in Nat /\ Len(entries') = n + 1
      /\ \A k \in 1 .. n : entries'[k] = entries[k]
      /\ entries'[n + 1] = new
      /\ \E E : entries' \in Seq(E)
  <2>1. entries \in Seq(D \union {new}) /\ new \in D \union {new}
    BY <1>5
  <2> QED BY <1>0, <1>1, <2>1
<1>7. PICK rest : rest = Tail(work)
  OBVIOUS
<1>8. /\ rest \in Seq(C) /\ Len(work) \in Nat /\ Len(work) > 0 /\ Len(rest) = Len(work) - 1
      /\ \A i \in 1 .. Len(rest) : rest[i] = work[i + 1] /\ i + 1 \in 1 .. Len(work)
      /\ Head(work) = work[1]
  BY <1>3, <1>4, <1>7, TailMeans
<1>9. page \in Pages /\ section \in 1 .. Len(page) /\ section \in Nat
  <2>1. page \in Pages /\ section \in 0 .. Len(page) /\ section # 0
    BY <1>3 DEF PositionInv
  <2>2. Len(page) \in Nat
    BY <2>1, PagesAssumption
  <2> QED BY <2>1, <2>2
<1>10. Module' = Module /\ Module = page[section]
  BY <1>3 DEF Module
<1>11. /\ \A m, x, p : Inside(m, x, p) => Inside(m, x, p)'
       /\ \A m, x : Written(m, x) => Written(m, x)'
  BY <1>0, <1>3, <1>6, WrittenStays
<1>12. e \in ToSet(Module) /\ Inside(section, e, up)
  <2>1. 1 \in 1 .. Len(work)
    BY <1>8
  <2> QED BY <1>0, <1>8, <2>1 DEF CalledInside
<1>13. n + 1 \in InSection(section)' /\ Written(section, e)'
  <2>1. n + 1 \in InSection(section)'
    BY <1>1, <1>3, <1>6 DEF InSection
  <2> QED BY <1>1, <1>6, <2>1 DEF Written
(* The calls for the members of e.                                         *)
<1> DEFINE owned == {c \in ToSet(Module) : /\ OnlyTypesOwn(e)
                                           /\ IsMember(Module, c) /\ c.owner = e.name}
<1>14. PICK children : children = Children(Module, e)
  OBVIOUS
<1>15. /\ children \in Seq(Entity) /\ ToSet(children) = ToSet(Module) \intersect owned
       /\ Len(children) \in Nat /\ DOMAIN children = 1 .. Len(children)
  BY <1>9, <1>10, <1>14, ModuleMeans, ListedMeans DEF Children
<1>16. /\ \E K : kids \in Seq(K)
       /\ Len(kids) = Len(children)
       /\ \A i \in 1 .. Len(kids) : kids[i].entity = children[i] /\ kids[i].parent = n + 1
  BY <1>2, <1>14, CallsPlaced
<1>17. PICK K : kids \in Seq(K)
  BY <1>16
<1>18. /\ work' \in Seq(K \union C) /\ Len(work') = Len(kids) + Len(rest)
       /\ Len(kids) \in Nat /\ Len(rest) \in Nat
       /\ \A i \in 1 .. Len(work') :
             work'[i] = IF i <= Len(kids) THEN kids[i] ELSE rest[i - Len(kids)]
  <2>1. kids \in Seq(K \union C) /\ rest \in Seq(K \union C) /\ work' = kids \o rest
    BY <1>2, <1>7, <1>8, <1>17
  <2> QED BY <2>1
<1>19. \A i \in 1 .. Len(kids) :
          kids[i].entity \in ToSet(Module) /\ IsType(e) /\ kids[i].entity.owner = e.name
  <2>1. \A i \in 1 .. Len(children) : children[i] \in ToSet(children)
    BY <1>15 DEF ToSet
  <2> QED BY <1>15, <1>16, <2>1 DEF OnlyTypesOwn
<1> HIDE DEF owned
<1>20. PositionInv'
  BY <1>3, <1>6, <1>9, <1>18 DEF PositionInv
<1>21. WrittenInside'
  <2>1. ASSUME NEW k \in 1 .. n + 1
        PROVE  /\ entries'[k].section \in 1 .. section
               /\ entries'[k].entity \in ToSet(page[entries'[k].section])
               /\ Inside(entries[k].section, entries[k].entity, entries[k].parent)'
    <3>1. CASE k = n + 1
      BY <1>1, <1>3, <1>6, <1>9, <1>10, <1>11, <1>12, <3>1
    <3>2. CASE k # n + 1
      <4>1. k \in 1 .. Len(entries) /\ entries'[k] = entries[k]
        BY <1>0, <1>6, <3>2
      <4> QED BY <1>11, <4>1 DEF WrittenInside
    <3> QED BY <3>1, <3>2
  <2> QED BY <1>3, <1>6, <2>1 DEF WrittenInside
<1>22. WrittenOnce'
  <2>1. \A k \in 1 .. n : entries[k].section = section => Key(entries[k].entity) # Key(e)
    BY <1>0, <1>3 DEF Emitted
  <2>2. \A j, k \in 1 .. n : (/\ entries[j].section = entries[k].section
                              /\ Key(entries[j].entity) = Key(entries[k].entity)) => j = k
    BY <1>0 DEF WrittenOnce
  <2>3. \A j \in 1 .. n + 1 : j = n + 1 \/ j \in 1 .. n
    BY <1>6
  <2>4. ASSUME NEW j \in 1 .. n + 1, NEW k \in 1 .. n + 1,
               entries'[j].section = entries'[k].section,
               Key(entries'[j].entity) = Key(entries'[k].entity)
        PROVE  j = k
    BY <1>1, <1>6, <2>1, <2>2, <2>3, <2>4
  <2> QED BY <1>6, <2>4 DEF WrittenOnce, Key
<1>23. CalledInside'
  <2>1. ASSUME NEW i \in 1 .. Len(work')
        PROVE  (work[i].entity \in ToSet(Module) /\ Inside(section, work[i].entity, work[i].parent))'
    <3>1. CASE i <= Len(kids)
      <4>1. i \in 1 .. Len(kids) /\ work'[i] = kids[i]
        BY <1>18, <3>1
      <4>2. work'[i].parent = n + 1 /\ work'[i].entity \in ToSet(Module)
            /\ IsType(e) /\ work'[i].entity.owner = e.name
        BY <1>16, <1>19, <4>1
      <4>3. e.name \in TypeNames(Module)
        BY <1>12, <4>2 DEF TypeNames
      <4> QED BY <1>1, <1>3, <1>6, <1>10, <1>13, <4>2, <4>3 DEF Inside
    <3>2. CASE i > Len(kids)
      <4>1. i - Len(kids) \in 1 .. Len(rest) /\ work'[i] = rest[i - Len(kids)]
        BY <1>18, <3>2
      <4>2. PICK j \in 1 .. Len(work) : work'[i] = work[j]
        BY <1>8, <4>1
      <4>3. work[j].entity \in ToSet(Module) /\ Inside(section, work[j].entity, work[j].parent)
        BY <4>2 DEF CalledInside
      <4> QED BY <1>3, <1>10, <1>11, <4>2, <4>3
    <3> QED BY <1>18, <3>1, <3>2
  <2> QED BY <2>1 DEF CalledInside
<1>24. NoneForgotten'
  <2>1. ASSUME NEW x \in ToSet(Module)
        PROVE  \/ Written(section, x)'
               \/ \E i \in 1 .. Len(work') : work'[i].entity = x
               \/ x.owner \in TypeNames(Module) /\ ~OwnerWritten(section, x)'
    <3>1. CASE Written(section, x)
      BY <1>3, <1>11, <3>1
    <3>2. ASSUME NEW j \in 1 .. Len(work), work[j].entity = x
          PROVE  Written(section, x)' \/ \E i \in 1 .. Len(work') : work'[i].entity = x
      <4>1. CASE j = 1
        BY <1>0, <1>8, <1>13, <3>2, <4>1
      <4>2. CASE j # 1
        <5>1. j - 1 \in 1 .. Len(rest) /\ (j - 1) + 1 = j
          BY <1>8, <4>2
        <5>2. Len(kids) + (j - 1) \in 1 .. Len(work') /\ ~(Len(kids) + (j - 1) <= Len(kids))
              /\ (Len(kids) + (j - 1)) - Len(kids) = j - 1
          BY <1>18, <5>1
        <5>3. work'[Len(kids) + (j - 1)] = work[j]
          BY <1>8, <1>18, <5>1, <5>2
        <5> QED BY <3>2, <5>2, <5>3
      <4> QED BY <4>1, <4>2
    <3>3. CASE x.owner \in TypeNames(Module) /\ ~OwnerWritten(section, x)
      <4>1. CASE IsType(e) /\ e.name = x.owner
        <5>1. IsMember(Module, x)
          BY <1>9, <1>10, <3>3, ModuleMeans
        <5>2. x \in ToSet(children)
          BY <1>15, <4>1, <5>1 DEF owned, OnlyTypesOwn
        <5>3. PICK i \in 1 .. Len(children) : children[i] = x
          BY <1>15, <5>2 DEF ToSet
        <5>4. i \in 1 .. Len(kids) /\ i \in 1 .. Len(work') /\ i <= Len(kids)
          BY <1>15, <1>16, <1>18, <5>3
        <5> QED BY <1>16, <1>18, <5>3, <5>4
      <4>2. CASE ~(IsType(e) /\ e.name = x.owner)
        <5>1. ASSUME NEW k \in 1 .. n + 1, entries'[k].section = section,
                     IsType(entries'[k].entity), entries'[k].entity.name = x.owner
              PROVE  FALSE
          <6>1. k # n + 1
            BY <1>1, <1>6, <4>2, <5>1
          <6>2. k \in 1 .. Len(entries) /\ entries'[k] = entries[k]
            BY <1>0, <1>6, <6>1
          <6> QED BY <3>3, <5>1, <6>2 DEF OwnerWritten, InSection
        <5> QED BY <1>3, <1>6, <3>3, <5>1 DEF OwnerWritten, InSection
      <4> QED BY <4>1, <4>2
    <3> QED BY <1>9, <2>1, <3>1, <3>2, <3>3 DEF NoneForgotten
  <2> QED BY <1>3, <1>10, <2>1 DEF NoneForgotten
<1>25. SectionsComplete'
  BY <1>3, <1>11 DEF SectionsComplete
<1> QED BY <1>20, <1>21, <1>22, <1>23, <1>24, <1>25

(* Every declaration has one entry of its own, if none of another          *)
(* namespace is alike, and an entry stands in that of the type that owns   *)
(* it, or on the page (MembersInsideTheirType).                            *)
THEOREM MembersAlwaysInside == SectionsSpec => []MembersInsideTheirType
<1>1. SectionsInit => MembersInv
  <2> SUFFICES ASSUME SectionsInit PROVE MembersInv
    OBVIOUS
  <2>1. /\ page \in Pages /\ Len(page) \in Nat /\ section = 0
        /\ work \in Seq({}) /\ Len(work) = 0 /\ work = <<>>
        /\ entries \in Seq({}) /\ Len(entries) = 0
    BY PagesAssumption DEF SectionsInit
  <2>2. PositionInv
    BY <2>1 DEF PositionInv
  <2>3. WrittenInside /\ WrittenOnce /\ CalledInside
    BY <2>1 DEF WrittenInside, WrittenOnce, CalledInside
  <2>4. NoneForgotten /\ SectionsComplete
    BY <2>1 DEF NoneForgotten, SectionsComplete
  <2> QED BY <2>2, <2>3, <2>4 DEF MembersInv
<1>2. MembersInv /\ [SectionsNext]_sections => MembersInv'
  <2> SUFFICES ASSUME MembersInv, [SectionsNext]_sections PROVE MembersInv'
    OBVIOUS
  <2>1. CASE UNCHANGED sections
    BY <2>1 DEF sections, MembersInv, PositionInv, WrittenInside, WrittenOnce, CalledInside,
                NoneForgotten, SectionsComplete, Module, Inside, InSection, Written, OwnerWritten
  <2> QED BY <2>1, MembersEmit, MembersCollapse, MembersBegin DEF SectionsNext
<1> QED BY <1>1, <1>2, MembersFollow, PTL DEF SectionsSpec
=============================================================================
