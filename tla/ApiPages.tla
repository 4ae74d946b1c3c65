------------------------------ MODULE ApiPages ------------------------------
(***************************************************************************)
(* The generator of the reference pages (tools/docs/generate_api_docs.py,  *)
(* main): it empties its directory, reads the sources and writes a page    *)
(* for each package, the diagrams too long for their page, and the index.  *)
(* It may be stopped in any step, or fail in it; the next run finds what   *)
(* was left.  The sources may be edited at any time, so what a run lists   *)
(* and what it reads of a source are anything.                             *)
(*                                                                         *)
(* How a source is read and a section rendered is left to CommentLexer,    *)
(* DocComments, DeclarationReader and ApiSections; here a file is what it  *)
(* was written from.                                                       *)
(*                                                                         *)
(* Definitions named for a slip are not the code's; see AppleDeliveryCore. *)
(***************************************************************************)
EXTENDS Naturals

CONSTANTS Sources,            \* translation units there may be
          PackageOf,          \* _package_key of each, by its module's name
          SlugOf              \* its path, dots for slashes, without suffix

Packages == {PackageOf[s] : s \in Sources}
Index    == "index"

(* Two files of one slug would share a diagram's file, and a package named *)
(* index would share the index's.                                          *)
ASSUME NamesAssumption ==
    /\ PackageOf \in [Sources -> STRING] /\ SlugOf \in [Sources -> STRING]
    /\ \A s, t \in Sources : SlugOf[s] = SlugOf[t] => s = t
    /\ Index \notin Packages

VARIABLES output,             \* the directory --output names
          step, noDiagrams,
          listed, documents,  \* _api_files; what has been read of them
          todo, current, undrawn  \* packages to write, the one being written

reading    == <<listed, documents>>
writing    == <<todo, current, undrawn>>
vars == <<output, step, noDiagrams, reading, writing>>

(* What is read of a source: no comment, or a diagram that fits its page,  *)
(* or one that does not.                                                   *)
Contents == {"Undocumented", "Short", "Long"}

PageFile(p)    == <<p, "md">>
DiagramFile(s) == <<SlugOf[s], "puml">>
IndexFile      == <<Index, "md">>
Names == {PageFile(p) : p \in Packages} \union {DiagramFile(s) : s \in Sources} \union {IndexFile}

(* A file as written by this run: what it is of, and the files it names.   *)
(* "Old" is whatever an earlier run wrote.                                 *)
File(state, of, names) == [state |-> state, of |-> of, names |-> names]

Fresh(of, names) == File("Fresh", of, names)
Nothing == File("Nothing", {}, {})
Old     == File("Old", {}, {})
Partial == File("Partial", {}, {})

Documented   == {s \in Sources : documents[s] \in {"Short", "Long"}}
Members(p)   == {s \in Documented : PackageOf[s] = p}
Grouped      == {PackageOf[s] : s \in Documented}

(* MAXIMUM_INLINE_DIAGRAM, as main and as render_module_section see it.    *)
DrawnApart(s)     == documents[s] = "Long" /\ ~noDiagrams
NamedByItsPage(s) == documents[s] = "Long" /\ ~noDiagrams

Page(p)    == Fresh(Members(p), {DiagramFile(s) : s \in {m \in Members(p) : NamedByItsPage(m)}})
Diagram(s) == Fresh({s}, {})
TocTree    == Fresh({}, {PageFile(p) : p \in Grouped})

-----------------------------------------------------------------------------
NoneRead == [s \in Sources |-> "Undocumented"]

Init ==
    /\ output = [n \in Names |-> Nothing]
    /\ step = "Idle" /\ noDiagrams = FALSE
    /\ listed = {} /\ documents = NoneRead
    /\ todo = {} /\ current = {} /\ undrawn = {}

Start(without) ==
    /\ step \in {"Idle", "Done"}
    /\ step' = "Clear" /\ noDiagrams' = without
    /\ output' = [n \in Names |-> IF output[n] = Nothing THEN Nothing ELSE Old]
    /\ UNCHANGED <<reading, writing>>

(* The run is stopped between two calls, or one of them fails.             *)
Stopped ==
    /\ step \in {"Clear", "Read", "Write"}
    /\ step' = "Idle"
    /\ UNCHANGED <<output, noDiagrams, reading, writing>>

-----------------------------------------------------------------------------
KeepTree ==
    /\ output' = output
    /\ step' = "Read"
    /\ UNCHANGED writing

RemoveTree ==
    /\ output' = [n \in Names |-> Nothing]
    /\ step' = "Read"
    /\ UNCHANGED writing

(* rmtree and mkdir; _api_files lists the sources there are.               *)
Clear ==
    /\ step = "Clear"
    /\ RemoveTree
    /\ listed' \in SUBSET Sources
    /\ documents' = NoneRead
    /\ UNCHANGED noDiagrams

(* rmtree is cut short: some of the files are gone.                        *)
ClearStopped ==
    /\ step = "Clear"
    /\ \E gone \in SUBSET Names :
          output' = [n \in Names |-> IF n \in gone THEN Nothing ELSE output[n]]
    /\ step' = "Idle"
    /\ UNCHANGED <<noDiagrams, reading, writing>>

(* parse_file of a source that was listed.  If it is gone since, or cannot *)
(* be read, the run fails: Stopped.                                        *)
Read(s) ==
    /\ step = "Read" /\ s \in listed
    /\ listed' = listed \ {s}
    /\ \E c \in Contents : documents' = [documents EXCEPT ![s] = c]
    /\ UNCHANGED <<output, step, noDiagrams, writing>>

Group ==
    /\ step = "Read" /\ listed = {}
    /\ step' = "Write"
    /\ todo' = Grouped /\ current' = {} /\ undrawn' = {}
    /\ UNCHANGED <<output, noDiagrams, reading>>

-----------------------------------------------------------------------------
Writes(name, file) == output' = [output EXCEPT ![name] = file]

BeginPackage(p) ==
    /\ step = "Write" /\ current = {} /\ p \in todo
    /\ todo' = todo \ {p} /\ current' = {p} /\ undrawn' = Members(p)
    /\ UNCHANGED <<output, step, noDiagrams, reading>>

WriteDiagram(s) ==
    /\ step = "Write" /\ s \in undrawn
    /\ undrawn' = undrawn \ {s}
    /\ IF DrawnApart(s) THEN Writes(DiagramFile(s), Diagram(s)) ELSE UNCHANGED output
    /\ UNCHANGED <<step, noDiagrams, reading, todo, current>>

WritePage(p) ==
    /\ step = "Write" /\ p \in current /\ undrawn = {}
    /\ Writes(PageFile(p), Page(p))
    /\ current' = {}
    /\ UNCHANGED <<step, noDiagrams, reading, todo, undrawn>>

WriteIndex ==
    /\ step = "Write" /\ current = {} /\ todo = {}
    /\ Writes(IndexFile, TocTree)
    /\ step' = "Done"
    /\ UNCHANGED <<noDiagrams, reading, writing>>

(* One of the files is left half written.                                  *)
WriteStopped ==
    /\ step = "Write"
    /\ \/ \E s \in undrawn : DrawnApart(s) /\ Writes(DiagramFile(s), Partial)
       \/ \E p \in current : undrawn = {} /\ Writes(PageFile(p), Partial)
       \/ current = {} /\ todo = {} /\ Writes(IndexFile, Partial)
    /\ step' = "Idle"
    /\ UNCHANGED <<noDiagrams, reading, writing>>

Next ==
    \/ \E s \in Sources : Read(s) \/ WriteDiagram(s)
    \/ \E without \in BOOLEAN : Start(without)
    \/ \E p \in Packages : BeginPackage(p) \/ WritePage(p)
    \/ Clear \/ ClearStopped \/ Group \/ WriteIndex \/ WriteStopped \/ Stopped

Spec == Init /\ [][Next]_vars

-----------------------------------------------------------------------------
TypeOK ==
    /\ documents \in [Sources -> Contents]
    /\ output \in [Names -> [state : {"Fresh", "Nothing", "Old", "Partial"},
                            of : SUBSET Sources, names : SUBSET Names]]
    /\ step \in {"Idle", "Clear", "Read", "Write", "Done"} /\ noDiagrams \in BOOLEAN
    /\ listed \subseteq Sources /\ undrawn \subseteq Sources
    /\ todo \subseteq Packages /\ current \subseteq Packages

(* A finished run has published what it read and nothing else: a page for  *)
(* each package with all its documented sources, every diagram a page      *)
(* names and no other, an index of exactly these pages.  No file of an     *)
(* earlier run is left, whatever that run had read and wherever it was     *)
(* stopped.                                                                *)
PublishesWhatItRead ==
    step = "Done" =>
        /\ \A p \in Packages : output[PageFile(p)] = IF p \in Grouped THEN Page(p) ELSE Nothing
        /\ \A s \in Sources : output[DiagramFile(s)] =
              IF \E p \in Grouped : DiagramFile(s) \in output[PageFile(p)].names
              THEN Diagram(s) ELSE Nothing
        /\ output[IndexFile] = TocTree
=============================================================================
