---------------------------- MODULE DocComments -----------------------------
(***************************************************************************)
(* How the reference generator reads one documentation comment             *)
(* (tools/docs/generate_api_docs.py: _comment_content and parse_doc): one  *)
(* action per branch of the loop over its lines.  Whoever wrote the        *)
(* comment chooses the next line.  A line is known by its number, and the  *)
(* lines of a tag's text are joined into one entry, so an entry is the     *)
(* sequence of the lines it took.                                          *)
(*                                                                         *)
(* Definitions named for a slip are not the code's; see AppleDeliveryCore. *)
(***************************************************************************)
EXTENDS Naturals, Sequences, FiniteSets, SequencesExt

CONSTANTS Lines,      \* what a line may be: its tag, spelling and decoration
          MaxLines

BucketTags == {"note", "warning", "pre", "post"}
NamedTags  == {"param", "tparam", "page"}
SimpleTags == {"file", "brief", "returns"} \union BucketTags
PlainTags  == {"text", "blank", "fence"}

ASSUME LinesAssumption ==
    /\ MaxLines \in Nat
    /\ Lines \subseteq [tag : NamedTags \union SimpleTags \union PlainTags,
                        doxygen : BOOLEAN,      \* spelled \note, not {note}
                        marked : BOOLEAN,       \* opened by a star or slashes
                        indented : BOOLEAN]

VARIABLES lines,             \* the lines read so far, as their writer left them
          doc,               \* the DocComment
          toDetails, inFence, \* `current' is doc.details or None; in_fence
          finished

comment == <<lines, doc, toDetails, inFence, finished>>

EmptyDoc == [brief |-> <<>>, returns |-> <<>>, page |-> <<>>, details |-> <<>>,
             param |-> <<>>, tparam |-> <<>>,
             note |-> <<>>, warning |-> <<>>, pre |-> <<>>, post |-> <<>>]

-----------------------------------------------------------------------------
(* What is left of a line: _comment_content takes its decoration, and with *)
(* no decoration its indentation; _normalized_tag turns a Doxygen tag into *)
(* a brace tag, and knows of no page in that spelling.                     *)

Content(n, line) == [number |-> n, blank |-> line.tag = "blank",
                     indented |-> line.marked /\ line.indented]

NormalizedTag(line) ==
    IF line.doxygen /\ line.tag = "page" THEN "text" ELSE line.tag

-----------------------------------------------------------------------------
CommentInit ==
    /\ lines = <<>> /\ doc = EmptyDoc
    /\ toDetails = FALSE /\ inFence = FALSE /\ finished = FALSE

(* The next line of the comment; no comment begins with a blank one.       *)
Takes(line) ==
    /\ ~finished /\ Len(lines) < MaxLines
    /\ lines = <<>> => line.tag # "blank"
    /\ lines' = Append(lines, line)
    /\ UNCHANGED finished

Here(line) == Content(Len(lines) + 1, line)

ToDetails(line) == [doc EXCEPT !.details = Append(@, Here(line))]

FenceLine(line) ==
    /\ NormalizedTag(line) = "fence"
    /\ Takes(line)
    /\ inFence' = ~inFence
    /\ doc' = ToDetails(line)
    /\ UNCHANGED toDetails

FenceForgotten == FALSE
Fenced         == inFence

InsideFence(line) ==
    /\ NormalizedTag(line) # "fence" /\ Fenced
    /\ Takes(line)
    /\ doc' = ToDetails(line)
    /\ UNCHANGED <<toDetails, inFence>>

NamedTag(line) ==
    LET tag == NormalizedTag(line) IN
    /\ tag \in NamedTags /\ ~Fenced
    /\ Takes(line)
    /\ doc' = IF tag = "page" THEN [doc EXCEPT !.page = <<Here(line)>>]
              ELSE [doc EXCEPT ![tag] = Append(@, <<Here(line)>>)]
    /\ toDetails' = (tag = "page")
    /\ UNCHANGED inFence

SimpleTag(line) ==
    LET tag == NormalizedTag(line) IN
    /\ tag \in SimpleTags /\ ~Fenced
    /\ Takes(line)
    /\ doc' = IF tag = "file" THEN doc
              ELSE IF tag \in BucketTags THEN [doc EXCEPT ![tag] = Append(@, <<Here(line)>>)]
              ELSE [doc EXCEPT ![tag] = <<Here(line)>>]
    /\ toDetails' = FALSE
    /\ UNCHANGED inFence

(* The text of the last entry of a bucket goes on.                         *)
Joins(tag, line) == [doc EXCEPT ![tag][Len(doc[tag])] = Append(@, Here(line))]

ExtendsParam(line) == doc.param # <<>> /\ line.tag # "blank" /\ doc.details = <<>>
ExtendsNote(line)  == doc.note # <<>> /\ line.tag # "blank" /\ doc.details = <<>>

LastTagOnly(line) ==
    IF toDetails THEN ToDetails(line)
    ELSE IF doc.param # <<>> THEN [doc EXCEPT !.param[Len(doc.param)] = <<Here(line)>>]
    ELSE ToDetails(line)

Continued(line) ==
    IF toDetails THEN ToDetails(line)
    ELSE IF ExtendsParam(line) THEN Joins("param", line)
    ELSE IF ExtendsNote(line) THEN Joins("note", line)
    ELSE ToDetails(line)

Continuation(line) ==
    /\ NormalizedTag(line) \in {"text", "blank"} /\ ~Fenced
    /\ Takes(line)
    /\ doc' = Continued(line)
    /\ UNCHANGED <<toDetails, inFence>>

(* No comment ends with a blank line either.  Those that lead the details  *)
(* go.                                                                     *)
Finish ==
    /\ ~finished /\ lines # <<>>
    /\ lines[Len(lines)].tag # "blank"
    /\ finished' = TRUE
    /\ LET said == {i \in 1 .. Len(doc.details) : ~doc.details[i].blank}
       IN  doc' = [doc EXCEPT !.details =
                      IF said = {} THEN <<>>
                      ELSE SubSeq(@, CHOOSE i \in said : \A j \in said : i <= j, Len(@))]
    /\ UNCHANGED <<lines, toDetails, inFence>>

CommentNext ==
    \/ \E line \in Lines : \/ FenceLine(line) \/ InsideFence(line)
                           \/ NamedTag(line) \/ SimpleTag(line)
                           \/ Continuation(line)
    \/ Finish

CommentSpec == CommentInit /\ [][CommentNext]_comment

-----------------------------------------------------------------------------
(* What the reference says of a comment, in its order.  parse_file takes   *)
(* one that names a {file} anywhere, an example included, for the module's *)
(* own, of which render_module_section writes three fields; any other is   *)
(* an entity's, and goes through _render_doc.                              *)

OfModule == \E n \in 1 .. Len(lines) : lines[n].tag = "file"

OfSection == doc.brief \o doc.details \o doc.page

OfEntity ==
    doc.brief \o doc.details \o FlattenSeq(doc.tparam) \o FlattenSeq(doc.param) \o doc.returns
        \o FlattenSeq(doc.pre) \o FlattenSeq(doc.note) \o FlattenSeq(doc.warning)
        \o FlattenSeq(doc.post)

Rendered == IF OfModule THEN OfSection ELSE OfEntity

Numbers(s) == {s[i].number : i \in 1 .. Len(s)}

-----------------------------------------------------------------------------
(* The lines between two fences, and the fences.                           *)
FencesUpTo(n) == Cardinality({m \in 1 .. n : lines[m].tag = "fence"})
InExample(n)  == lines[n].tag = "fence" \/ FencesUpTo(n) % 2 = 1

TagOf(n) == NormalizedTag(lines[n])

(* Said once only: the last of these in a comment replaces the one before. *)
Single(n) == ~InExample(n) /\ TagOf(n) \in {"brief", "returns", "page"}

Replaced(n) ==
    /\ Single(n)
    /\ \E m \in n + 1 .. Len(lines) : Single(m) /\ TagOf(m) = TagOf(n)

(* What is written of an entity only, and of a module only.                *)
Untold == {"file"} \union IF OfModule THEN {"param", "tparam", "returns"} \union BucketTags
                          ELSE {"page"}

(* A line that goes on with a param or a note, and goes where that goes:   *)
(* nothing that stands before it is of the details.                        *)
ExtendsTag(n) ==
    /\ TagOf(n) = "text" /\ n > 1 /\ TagOf(n - 1) # "page"
    /\ \E m \in 1 .. n - 1 : TagOf(m) \in {"param", "note"}

GoesWithTag(n) ==
    /\ ExtendsTag(n)
    /\ \A m \in 1 .. n - 1 : TagOf(m) \in PlainTags => ExtendsTag(m)

(* Each line of a comment that says something is told in the reference,    *)
(* and told once: a continuation line is neither dropped when its tag is   *)
(* told nor told under two tags.  Not told are the tags that have no place *)
(* in what is written (of a module, all but its brief, its details and its *)
(* page), with the lines that continue them, and a brief, returns or page  *)
(* that another replaces.                                                  *)
EveryLineToldOnce ==
    /\ Cardinality(Numbers(Rendered)) = Len(Rendered)
    /\ \A n \in 1 .. Len(lines) :
          \/ lines[n].tag = "blank"
          \/ n \in Numbers(Rendered)
          \/ ~InExample(n) /\ TagOf(n) \in Untold
          \/ OfModule /\ GoesWithTag(n)
          \/ Replaced(n)

(* An example is told as it was written: its fences and everything between *)
(* them, tags and blank lines included, in one piece and in order in the   *)
(* details, and the lines that carry a decoration with their indentation.  *)
ExamplesIntact ==
    \A n \in 1 .. Len(lines) : InExample(n) =>
        \E i \in 1 .. Len(doc.details) :
            /\ doc.details[i].number = n
            /\ lines[n].marked => doc.details[i].indented = lines[n].indented
            /\ (n > 1 /\ InExample(n - 1) /\ ~(lines[n].tag = "fence" /\ FencesUpTo(n) % 2 = 1)) =>
                  i > 1 /\ doc.details[i - 1].number = n - 1
=============================================================================
