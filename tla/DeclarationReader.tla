-------------------------- MODULE DeclarationReader -------------------------
(***************************************************************************)
(* How the reference generator recovers the declaration a comment stands   *)
(* before, and where it is declared (tools/docs/generate_api_docs.py:      *)
(* parse_file and the functions it calls).  They are operators on a file   *)
(* whose comments are blanked, as a sequence of tokens; "doc" marks where  *)
(* a documentation comment was.  The state is the file and its writer, who *)
(* knows what is being declared; the operators see the tokens only.        *)
(*                                                                         *)
(* Definitions named for a slip are not the code's; see AppleDeliveryCore. *)
(***************************************************************************)
EXTENDS Integers, Sequences, FiniteSets, SequencesExt

CONSTANTS Types,       \* names of types, in the order a file declares them
          MaxItems     \* declarations and labels in one file

(* Three of the tokens have names: the provers take no such literal.       *)
Opening   == "{"
Closing   == "}"
Semicolon == ";"

Punctuation  == {Opening, Closing, "(", ")", Semicolon, "="}
Labels       == {"public:", "private:"}
TypeKeywords == {"class", "struct"}
Keywords     == TypeKeywords \union {"namespace", "enum", "using", "const", "int", "doc"}

ASSUME TypesAssumption ==
    /\ MaxItems \in Nat /\ Types \in Seq(STRING)
    /\ ToSet(Types) \intersect (Punctuation \union Labels \union Keywords
                                   \union {"n", "E", "T", "f", "x", "c"}) = {}

VARIABLES tokens,      \* the file
          types,       \* how many of Types it has
          scopes,      \* its writer's open scopes: keyword, name, access, doc
          declared,    \* what its comments document
          members,     \* the data members of its types
          items

declaration == <<tokens, types, scopes, declared, members, items>>

IsWord(w)   == w \notin Punctuation \union Labels
AccessOf(l) == IF l = "public:" THEN "public" ELSE "private"
FirstAt(S)  == CHOOSE i \in S : \A j \in S : i <= j
LastAt(S)   == CHOOSE i \in S : \A j \in S : j <= i

-----------------------------------------------------------------------------
(* SCOPE and the walks over the braces.                                    *)

(* The keyword and name that SCOPE finds before the brace at i, or none:   *)
(* the first since the last semicolon or brace opened.                     *)
Opener(ts, i) ==
    LET from == {j \in 1 .. i - 1 : ts[j] \in {Semicolon, Opening}}
        keys == {j \in 1 .. i - 2 : /\ \A k \in from : k < j
                                    /\ ts[j] \in TypeKeywords \union {"namespace"}
                                    /\ IsWord(ts[j + 1])}
    IN  IF keys = {} THEN <<>> ELSE <<ts[FirstAt(keys)], ts[FirstAt(keys) + 1]>>

(* Scopes are popped while the last of them is that deep.                  *)
PoppedLate(stack, depth) ==
    SubSeq(stack, 1, FirstAt({k \in 0 .. Len(stack) : \A j \in k + 1 .. Len(stack) : stack[j].depth > depth}))
Popped(stack, depth) ==
    SubSeq(stack, 1, FirstAt({k \in 0 .. Len(stack) : \A j \in k + 1 .. Len(stack) : stack[j].depth >= depth}))

DefaultAccess(keyword) == IF keyword = "class" THEN "private" ELSE "public"

(* A label counts for the type whose body it stands in, never for one that *)
(* is nested there.                                                        *)
Labelled(walk, label) ==
    IF walk.stack # <<>> /\ Last(walk.stack).depth = walk.depth
    THEN [walk EXCEPT !.stack[Len(walk.stack)].access = AccessOf(label)]
    ELSE walk

StepOver(ts, walk, i) ==
    CASE ts[i] = Opening ->
            [depth |-> walk.depth + 1,
             stack |-> IF Opener(ts, i) = <<>> THEN walk.stack
                       ELSE Append(walk.stack,
                                [depth   |-> walk.depth + 1,
                                 keyword |-> Opener(ts, i)[1], name |-> Opener(ts, i)[2],
                                 access  |-> DefaultAccess(Opener(ts, i)[1])])]
      [] ts[i] = Closing ->
            [depth |-> walk.depth - 1, stack |-> Popped(walk.stack, walk.depth)]
      [] ts[i] \in Labels -> Labelled(walk, ts[i])
      [] OTHER -> walk

(* The scopes open at an offset: _scopes_at and _member_access_at walk the *)
(* same way and read different parts of the stack.                         *)
Walk(ts) ==
    LET walk[i \in 0 .. Len(ts)] ==
            IF i = 0 THEN [depth |-> 0, stack |-> <<>>] ELSE StepOver(ts, walk[i - 1], i)
    IN  walk

ScopesAt(ts, offset) == Walk(ts)[offset - 1].stack

IsTypeScope(scope)  == scope.keyword # "namespace"
TypesIn(stack) == {i \in 1 .. Len(stack) : IsTypeScope(stack[i])}

NamespaceAt(stack) ==
    LET names[i \in 0 .. Len(stack)] ==
            IF i = 0 THEN <<>>
            ELSE IF IsTypeScope(stack[i]) THEN names[i - 1] ELSE Append(names[i - 1], stack[i].name)
    IN  names[Len(stack)]

OwnerAt(stack)  == IF TypesIn(stack) = {} THEN "" ELSE stack[LastAt(TypesIn(stack))].name
AccessAt(stack) == IF TypesIn(stack) = {} THEN "public" ELSE stack[LastAt(TypesIn(stack))].access

-----------------------------------------------------------------------------
(* The declaration, and what it declares.                                  *)

(* The parentheses open before each token from an offset on.               *)
WithParen(depth, token) ==
    CASE token = "(" -> depth + 1
      [] token = ")" -> IF depth = 0 THEN 0 ELSE depth - 1
      [] OTHER       -> depth

ParenDepth(ts, from) ==
    LET depth[i \in from .. Len(ts)] ==
            IF i = from THEN 0 ELSE WithParen(depth[i - 1], ts[i - 1])
    IN  depth

EndsDeclaration(ts, from, i) ==
    /\ \/ ts[i] \in {Opening, Semicolon}
       \/ ts[i] = "=" /\ ts[from] # "using"
    /\ ParenDepth(ts, from)[i] = 0

(* _declaration_after: up to the brace, semicolon or initialiser that ends *)
(* it, outside parentheses; an alias keeps its right-hand side.            *)
DeclarationAfter(ts, offset) ==
    LET ends == {i \in offset + 1 .. Len(ts) : EndsDeclaration(ts, offset + 1, i)}
    IN  SubSeq(ts, offset + 1, IF ends = {} THEN Len(ts) ELSE FirstAt(ends) - 1)

NoDeclaration == [kind |-> "none", name |-> ""]

(* A keyword that introduces a type counts before the parameters only.     *)
HeadOf(signature) ==
    LET parens == {i \in 1 .. Len(signature) : signature[i] = "("}
    IN  IF parens = {} THEN signature ELSE SubSeq(signature, 1, FirstAt(parens) - 1)

Introduced(signature, keyword) ==
    LET head == HeadOf(signature)
        at   == {i \in 1 .. Len(head) - 1 : head[i] = keyword}
        name == FirstAt(at) + (IF keyword = "enum" /\ head[FirstAt(at) + 1] = "class" THEN 2 ELSE 1)
    IN  IF at = {} THEN NoDeclaration ELSE [kind |-> keyword, name |-> head[name]]

Called(signature) ==
    LET calls == {i \in 2 .. Len(signature) : signature[i] = "(" /\ IsWord(signature[i - 1])}
    IN  IF calls = {} THEN NoDeclaration
        ELSE [kind |-> "function", name |-> signature[FirstAt(calls) - 1]]

Classify(signature) ==
    LET tries == << Introduced(signature, "enum"), Introduced(signature, "struct"),
                    Introduced(signature, "class"),
                    IF signature[1] = "using" THEN [kind |-> "type", name |-> signature[2]]
                    ELSE NoDeclaration,
                    Called(signature),
                    IF (\E i \in 1 .. Len(signature) : signature[i] = "const")
                       /\ IsWord(Last(signature))
                    THEN [kind |-> "var", name |-> Last(signature)] ELSE NoDeclaration >>
        hits  == {i \in 1 .. Len(tries) : tries[i] # NoDeclaration}
    IN  IF signature[1] = "namespace" \/ hits = {} THEN NoDeclaration ELSE tries[FirstAt(hits)]

-----------------------------------------------------------------------------
(* The body of a type, and the data members in it.                         *)

(* The braces open behind each token from an offset on.                    *)
WithBrace(depth, token) ==
    CASE token = Opening -> depth + 1
      [] token = Closing -> depth - 1
      [] OTHER       -> depth

BraceDepth(ts, from) ==
    LET depth[i \in from - 1 .. Len(ts)] ==
            IF i = from - 1 THEN 0 ELSE WithBrace(depth[i - 1], ts[i])
    IN  depth

(* The body that follows an offset, from its first token to its last, or   *)
(* nothing while its brace is open.                                        *)
BodyAfter(ts, offset) ==
    LET opens  == {i \in offset .. Len(ts) : ts[i] = Opening}
        open   == FirstAt(opens)
        closes == {i \in open .. Len(ts) : ts[i] = Closing /\ BraceDepth(ts, open)[i] = 0}
    IN  IF opens = {} \/ closes = {} THEN [first |-> 1, last |-> 0]
        ELSE [first |-> open + 1, last |-> FirstAt(closes) - 1]

WithNestedBlocks(ts, from) == {i \in from .. Len(ts) : ts[i] \notin {Opening, Closing}}
WithoutNestedBlocks(ts, from) ==
    {i \in from .. Len(ts) : ts[i] \notin {Opening, Closing} /\ BraceDepth(ts, from)[i] = 0}

(* One statement, of the places in S: its last label holds from here on,   *)
(* and what is neither a type, an alias nor a function is data.            *)
AccessAfter(ts, S, access) ==
    LET labels == {i \in S : ts[i] \in Labels}
    IN  IF labels = {} THEN access ELSE AccessOf(ts[LastAt(labels)])

WordsIn(ts, S) == {i \in S : ts[i] \notin Labels \union {"doc"}}

IsData(ts, S) ==
    LET words == WordsIn(ts, S)
    IN  /\ words # {} /\ FirstAt(words) # LastAt(words)
        /\ ts[FirstAt(words)] \notin TypeKeywords \union {"enum", "using"}
        /\ \A i \in words : ts[i] \notin {"(", ")"}
        /\ IsWord(ts[LastAt(words)])

EndStatement(ts, s) ==
    LET access == AccessAfter(ts, s.statement, s.access)
    IN  [access |-> access, statement |-> {},
         fields |-> IF IsData(ts, s.statement)
                    THEN s.fields \union
                           {[name |-> ts[LastAt(WordsIn(ts, s.statement))], access |-> access]}
                    ELSE s.fields]

ReadInto(ts, from, s, i) ==
    IF i \notin WithoutNestedBlocks(ts, from) THEN s
    ELSE IF ts[i] = Semicolon THEN EndStatement(ts, s)
    ELSE [s EXCEPT !.statement = @ \union {i}]

(* What is known behind each token of a body that begins at an offset.     *)
Parsed(ts, from, default) ==
    LET parsed[i \in from - 1 .. Len(ts)] ==
            IF i = from - 1 THEN [access |-> default, statement |-> {}, fields |-> {}]
            ELSE ReadInto(ts, from, parsed[i - 1], i)
    IN  parsed

ParseFields(ts, body, default) ==
    EndStatement(ts, Parsed(ts, body.first, default)[body.last]).fields

-----------------------------------------------------------------------------
(* parse_file: an entity for each comment before a declaration that is     *)
(* public where it stands.                                                 *)

EntityAt(ts, at) ==
    LET stack == ScopesAt(ts, at)
        what  == Classify(DeclarationAfter(ts, at))
    IN  [at |-> at, kind |-> what.kind, name |-> what.name, namespace |-> NamespaceAt(stack),
         owner |-> OwnerAt(stack), access |-> AccessAt(stack)]

Entities(ts) ==
    {e \in {EntityAt(ts, at) : at \in {i \in 1 .. Len(ts) : ts[i] = "doc"}} :
        e.kind # "none" /\ e.access = "public"}

FieldsOf(ts, e) == ParseFields(ts, BodyAfter(ts, e.at), DefaultAccess(e.kind))

-----------------------------------------------------------------------------
(* The writer.                                                             *)

WriterInit ==
    /\ tokens = <<>> /\ types = 0 /\ scopes = <<>>
    /\ declared = {} /\ members = {} /\ items = 0

InType == scopes # <<>> /\ IsTypeScope(Last(scopes))

Namespaces == {i \in 1 .. Len(scopes) : ~IsTypeScope(scopes[i])}

(* Tokens of one more declaration, behind its comment if it has one, and   *)
(* what the comment then documents.  No namespace stands in a type.        *)
Write(ts, documented, kind, name) ==
    /\ items < MaxItems /\ items' = items + 1
    /\ tokens' = tokens \o (IF documented THEN <<"doc">> ELSE <<>>) \o ts
    /\ declared' =
          IF ~documented THEN declared
          ELSE declared \union
                 {[at |-> Len(tokens) + 1, kind |-> kind, name |-> name,
                   namespace |-> [i \in Namespaces |-> scopes[i].name],
                   owner |-> IF InType THEN Last(scopes).name ELSE "",
                   access |-> IF InType THEN Last(scopes).access ELSE "public"]}

Opened(keyword, name, doc) ==
    Append(scopes, [keyword |-> keyword, name |-> name, doc |-> doc, afterBody |-> FALSE,
                    access |-> IF keyword = "class" THEN "private" ELSE "public"])

(* Whether the parser's next statement begins with a function's body.      *)
AfterBody(inner, b) ==
    IF inner = <<>> THEN inner ELSE [inner EXCEPT ![Len(inner)].afterBody = b]

Holding(name) ==
    IF ~InType THEN members
    ELSE members \union
           {[type |-> Last(scopes).doc, name |-> name, access |-> Last(scopes).access,
             afterBody |-> Last(scopes).afterBody]}

OpenNamespace ==
    /\ ~InType
    /\ Write(<<"namespace", "n", Opening>>, FALSE, "none", "n")
    /\ scopes' = Opened("namespace", "n", 0)
    /\ UNCHANGED <<types, members>>

OpenType(keyword, documented) ==
    /\ types < Len(Types) /\ types' = types + 1
    /\ Write(<<keyword, Types[types'], Opening>>, documented, keyword, Types[types'])
    /\ scopes' = Opened(keyword, Types[types'], IF documented THEN Len(tokens) + 1 ELSE 0)
    /\ UNCHANGED members

CloseScope ==
    /\ scopes # <<>>
    /\ tokens' = tokens \o (IF InType THEN <<Closing, Semicolon>> ELSE <<Closing>>)
    /\ scopes' = AfterBody(Front(scopes), FALSE)
    /\ UNCHANGED <<types, declared, members, items>>

Label(l) ==
    /\ InType /\ Last(scopes).access # AccessOf(l)
    /\ Write(<<l>>, FALSE, "none", "")
    /\ scopes' = [scopes EXCEPT ![Len(scopes)].access = AccessOf(l)]
    /\ UNCHANGED <<types, members>>

(* A declaration with nothing inside it; it ends with a body or not.       *)
Declare(ts, kind, name, body) ==
    /\ Write(ts, TRUE, kind, name)
    /\ scopes' = AfterBody(scopes, body)
    /\ UNCHANGED types

DeclareFunction ==
    /\ Declare(<<"int", "f", "(", "class", "int", ")", Semicolon>>, "function", "f", FALSE)
    /\ UNCHANGED members

DefineFunction ==
    /\ Declare(<<"int", "f", "(", ")", Opening, "int", "x", Semicolon, Closing>>, "function", "f", TRUE)
    /\ UNCHANGED members

DeclareEnum ==
    /\ Declare(<<"enum", "class", "E", Opening, "x", Closing, Semicolon>>, "enum", "E", FALSE)
    /\ UNCHANGED members

DeclareAlias ==
    /\ Declare(<<"using", "T", "=", "int", Semicolon>>, "type", "T", FALSE)
    /\ UNCHANGED members

DeclareConstant ==
    /\ Declare(<<"const", "int", "c", Opening, Closing, Semicolon>>, "var", "c", FALSE)
    /\ members' = Holding("c")

DeclareData ==
    /\ InType
    /\ Write(<<"int", "x", Semicolon>>, FALSE, "none", "x")
    /\ scopes' = AfterBody(scopes, FALSE)
    /\ members' = Holding("x")
    /\ UNCHANGED types

WriterNext ==
    \/ OpenNamespace \/ CloseScope
    \/ \E k \in TypeKeywords, d \in BOOLEAN : OpenType(k, d)
    \/ \E l \in Labels : Label(l)
    \/ DeclareFunction \/ DefineFunction \/ DeclareEnum \/ DeclareAlias
    \/ DeclareConstant \/ DeclareData

WriterSpec == WriterInit /\ [][WriterNext]_declaration

-----------------------------------------------------------------------------
Complete == scopes = <<>>

(* What a file contributes to the reference is what its comments document  *)
(* and what is public where it stands, each in its namespace, in its       *)
(* innermost type and under its name and kind: after a nested type closes, *)
(* its outer type's name and access hold again, and a body, an initialiser *)
(* or a parameter's type is no scope and no declaration.                   *)
EntitiesAsWritten ==
    Complete => Entities(tokens) = {d \in declared : d.access = "public"}

(* The members told of a type are its own, with the access they have in    *)
(* it; a nested type's or a function body's are not.  Of its own, only one *)
(* behind a function defined in place is missed.                           *)
FieldsAreOwn ==
    Complete => \A e \in Entities(tokens) :
        e.kind \in TypeKeywords => FieldsOf(tokens, e) =
              {[name |-> m.name, access |-> m.access] :
                  m \in {x \in members : x.type = e.at /\ ~x.afterBody}}
=============================================================================
