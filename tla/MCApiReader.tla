---------------------------- MODULE MCApiReader -----------------------------
(***************************************************************************)
(* The three readers of a source, of which one works in each behaviour:    *)
(* the lexer, the parser of a comment and the reader of declarations.      *)
(***************************************************************************)
EXTENDS CommentLexer, DocComments, DeclarationReader

LexerRests ==
    /\ program = <<>> /\ text = <<>> /\ phase = "Done"
    /\ index = 1 /\ quote = "None" /\ codeStart = 1 /\ regions = <<>>
    /\ at = 1 /\ inRun = FALSE /\ docs = <<>>

CommentRests ==
    /\ lines = <<>> /\ doc = EmptyDoc
    /\ toDetails = FALSE /\ inFence = FALSE /\ finished = TRUE

ReaderRests ==
    /\ tokens = <<>> /\ types = 0 /\ scopes = <<>>
    /\ declared = {} /\ members = {} /\ items = MaxItems

ReadersInit ==
    \/ Init /\ CommentRests /\ ReaderRests
    \/ LexerRests /\ CommentInit /\ ReaderRests
    \/ LexerRests /\ CommentRests /\ WriterInit

ReadersNext ==
    \/ Next /\ UNCHANGED <<comment, declaration>>
    \/ CommentNext /\ UNCHANGED <<vars, declaration>>
    \/ WriterNext /\ UNCHANGED <<vars, comment>>

ReadersSpec ==
    /\ ReadersInit /\ [][ReadersNext]_<<vars, comment, declaration>>
    /\ WF_vars(Next)

-----------------------------------------------------------------------------
(* Files for the lexer: every program of up to three of these tokens, and  *)
(* of up to five of those that matter to a run of comment lines.           *)
Tok(kind, documents, chars) == [kind |-> kind, doc |-> documents, chars |-> chars]
Code(chars) == Tok("code", "none", chars)

MCTokens ==
    { Code(<<"a">>), Code(<<"R">>), Code(<<"/">>), Code(<<"*">>), Code(<<" ">>),
      Code(<<NL>>), Code(<<NL, " ">>), Code(<<"#", Tick>>),
      Code(<<Tick, Quote, Tick>>), Code(<<Tick, Escape, Tick, Tick>>),
      Code(<<Quote, "/", "/", Quote>>), Code(<<Quote, "/", "*", Quote>>),
      Code(<<Quote, Escape, Quote, "/", "/", Quote>>), Code(<<Quote, Escape, Escape, Quote>>),
      Code(<<Quote, Tick, Quote>>),
      Code(<<"R", Quote, "(", Quote, "/", "*", ")", Quote>>),
      Code(<<"R", Quote, "a", "(", ")", Quote, "/", "/", ")", "a", Quote>>),
      Tok("line", "none", <<"/", "/">>), Tok("line", "none", <<"/", "/", Quote>>),
      Tok("line", "none", <<"/", "/", "*">>), Tok("line", "none", <<"/", "/", "/", "<">>),
      Tok("line", "line", <<"/", "/", "/">>), Tok("line", "line", <<"/", "/", "/", Tick>>),
      Tok("block", "none", <<"/", "*", "/", "*", "/">>),
      Tok("block", "none", <<"/", "*", NL, Tick, "*", "/">>),
      Tok("block", "block", <<"/", "*", "*", Quote, "/", "/", "*", "/">>),
      Tok("block", "block", <<"/", "*", "!", Quote, "*", "/">>) }

RunTokens ==
    { Tok("line", "line", <<"/", "/", "/">>), Tok("block", "block", <<"/", "*", "*", "*", "/">>),
      Code(<<NL>>), Code(<<"a">>),
      Tok("line", "none", <<"/", "/">>), Tok("line", "none", <<"/", "/", "/", "<">>) }

Programs(ts, length) ==
    {f \in UNION {[1 .. k -> ts] : k \in 1 .. length} :
        \A i \in 1 .. Len(f) - 1 : MayFollow(f[i], f[i + 1])}

MCFiles == Programs(MCTokens, 3) \union Programs(RunTokens, 5)

(* Lines of a comment: each tag once, text and an example indented or not, *)
(* text without decoration, and the one tag Doxygen spells in vain.        *)
Line(tag, marked, indented) == [tag |-> tag, doxygen |-> FALSE, marked |-> marked, indented |-> indented]

MCLines ==
    {Line(tag, TRUE, FALSE) : tag \in {"file", "brief", "returns", "note", "warning", "param",
                                       "page", "text", "blank", "fence"}}
        \union {Line("text", TRUE, TRUE), Line("text", FALSE, TRUE),
                [Line("page", TRUE, FALSE) EXCEPT !.doxygen = TRUE]}

MCTypes == <<"A", "B">>
=============================================================================
