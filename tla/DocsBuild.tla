----------------------------- MODULE DocsBuild -----------------------------
(***************************************************************************)
(* The documentation build (tools/docs/build_docs.py).  It keeps a virtual *)
(* environment and a downloaded jar between runs, and stages the prose and *)
(* the generated reference afresh in every run.  Any step may fail, and    *)
(* the process may be stopped in any of them; the next build starts from   *)
(* the files that were left.                                               *)
(*                                                                         *)
(* One action per step of main, in the order of the code.  An action whose *)
(* step writes more than one file has an outcome Torn besides its result.  *)
(* The people who edit the repository are actors too, at any time.         *)
(*                                                                         *)
(* Definitions named for a slip are not the code's; see AppleDeliveryCore. *)
(***************************************************************************)
EXTENDS Naturals

CONSTANTS Versions,   \* contents requirements.txt may have
          Guides,     \* documents besides the entry point
          ApiPages,   \* pages generate_api_docs.py writes
          EditsMeanwhile  \* requirements may be edited while a build prepares

Entry  == "INDEX"                     \* ENTRY_POINT, and the name it is given
Index  == "index"
Prose  == Guides \union {Entry}
Pages  == Prose \union {Index} \union ApiPages

ASSUME NamesAssumption == /\ {Entry, Index} \intersect (Guides \union ApiPages) = {}
                          /\ Guides \intersect ApiPages = {}
                          /\ {"None", "Nothing", "Partial"} \intersect Versions = {}
                          /\ EditsMeanwhile \in BOOLEAN

VARIABLES
    requirements, docs,               \* requirements.txt, docs/
    interpreter, installed, stamp,    \* ENVIRONMENT: its Python, packages, stamp
    staged,                           \* STAGING
    jar,                              \* PLANTUML_JAR
    step,                             \* where the running build is
    noVenv, wanted, command,          \* its option, the hash it took, PLANTUML_COMMAND
    ready,                            \* history: what the environment was completed for
    disturbed,                        \* history: a step on it did not end as written
    throughout, during                \* history: documents all along, or at some time

repository  == <<requirements, docs>>
environment == <<interpreter, installed, stamp, ready>>
options     == <<noVenv, wanted, command>>
presence    == <<throughout, during>>
vars == <<repository, environment, staged, jar, step, options, disturbed, presence>>

(* The environment's Python: none, too old, without pip, or fit for use.   *)
Interpreters == {"None", "Old", "Bare", "New"}

InToolchain == {"Check", "Prepare", "Install", "Stamp"}
AfterwardsSteps == {"Clear", "Copy", "Api", "Plantuml", "Sphinx"}

GoTo(from, to) == step = from /\ step' = to
Torn(from)     == GoTo(from, "Idle")

-----------------------------------------------------------------------------
Init ==
    /\ requirements \in Versions
    /\ docs = Prose
    /\ \/ interpreter = "None" /\ installed = "Nothing" /\ stamp = "None"
       \/ interpreter = "Old" /\ installed \in Versions /\ stamp = installed
    /\ staged = {} /\ jar = "None"
    /\ step = "Idle"
    /\ noVenv = FALSE /\ wanted = requirements /\ command = "Own"
    /\ ready = "None" /\ disturbed = FALSE
    /\ throughout = {} /\ during = {}

(* Someone edits the repository, or the build comes to need a newer Python.*)
EditRequirements ==
    /\ step \in InToolchain => EditsMeanwhile
    /\ requirements' \in Versions \ {requirements}
    /\ disturbed' = (disturbed \/ step \in InToolchain)
    /\ UNCHANGED <<docs, environment, staged, jar, step, options, presence>>

EditDocs ==
    /\ docs' \in SUBSET Prose \ {docs}
    /\ IF step = "Idle" THEN UNCHANGED presence
       ELSE throughout' = throughout \intersect docs' /\ during' = during \union docs'
    /\ UNCHANGED <<requirements, environment, staged, jar, step, options, disturbed>>

RaiseMinimumPython ==
    /\ step = "Idle"
    /\ interpreter \in {"Bare", "New"}
    /\ interpreter' = "Old" /\ ready' = "None"
    /\ UNCHANGED <<repository, installed, stamp, staged, jar, step, options, disturbed,
                   presence>>

(* A step fails before it has written anything, or the build is stopped    *)
(* between two steps.                                                      *)
Interrupt ==
    /\ step # "Idle"
    /\ step' = "Idle"
    /\ disturbed' = (disturbed \/ step = "Stamp")
    /\ UNCHANGED <<repository, environment, staged, jar, options, presence>>

BeginBuild(own) ==
    /\ GoTo("Idle", IF own THEN "Clear" ELSE "Check")
    /\ noVenv' = own
    /\ wanted' = requirements
    /\ throughout' = docs /\ during' = docs
    /\ UNCHANGED <<repository, environment, staged, jar, command, disturbed>>

-----------------------------------------------------------------------------
(* _ensure_toolchain.                                                      *)

KeepOldEnvironment ==
    /\ GoTo("Check", "Prepare")
    /\ UNCHANGED <<environment, disturbed>>

(* An environment of an unsupported Python is removed first; rmtree takes  *)
(* its files in no particular order.                                       *)
ReplaceOldEnvironment ==
    \/ /\ interpreter # "Old"
       /\ GoTo("Check", "Prepare")
       /\ UNCHANGED <<environment, disturbed>>
    \/ /\ interpreter = "Old"
       /\ GoTo("Check", "Prepare")
       /\ interpreter' = "None" /\ installed' = "Nothing" /\ stamp' = "None"
       /\ ready' = "None"
       /\ UNCHANGED disturbed
    \/ /\ interpreter = "Old"
       /\ Torn("Check")
       /\ interpreter' \in {"Old", "None"}
       /\ installed' \in {installed, "Partial", "Nothing"}
       /\ stamp' \in {stamp, "None"}
       /\ ready' = "None" /\ disturbed' = TRUE

CheckToolchain ==
    /\ ReplaceOldEnvironment
    /\ UNCHANGED <<repository, staged, jar, options, presence>>

StampExists     == stamp # "None"
StampUnstripped == FALSE
StampMatches    == stamp = wanted

CreateEnvironment ==
    /\ interpreter = "None"
    /\ \/ GoTo("Prepare", "Install") /\ interpreter' = "New"
       \/ Torn("Prepare") /\ interpreter' = "Bare"
    /\ installed' = "Nothing"
    /\ UNCHANGED <<stamp, ready>>

(* A stamp of the same requirements is all that is asked for.  Otherwise   *)
(* the environment is created unless its Python is there.                  *)
PrepareEnvironment ==
    /\ \/ /\ interpreter # "None" /\ StampMatches
          /\ GoTo("Prepare", "Clear")
          /\ UNCHANGED environment
       \/ /\ interpreter # "None" /\ ~StampMatches
          /\ GoTo("Prepare", "Install")
          /\ UNCHANGED environment
       \/ CreateEnvironment
    /\ UNCHANGED <<repository, staged, jar, options, disturbed, presence>>

(* pip reads the requirements as they are now.                             *)
InstallToolchain ==
    /\ interpreter = "New"
    /\ \/ /\ GoTo("Install", "Stamp")
          /\ installed' = requirements
          /\ UNCHANGED disturbed
       \/ /\ Torn("Install")
          /\ installed' \in {"Partial", requirements}
          /\ disturbed' = TRUE
    /\ ready' = "None"
    /\ UNCHANGED <<repository, interpreter, stamp, staged, jar, options, presence>>

WriteStamp ==
    /\ \/ /\ GoTo("Stamp", "Clear")
          /\ stamp' = wanted
          /\ ready' = wanted
          /\ disturbed' = (installed # wanted)
       \/ /\ Torn("Stamp")
          /\ stamp' = "None"
          /\ UNCHANGED <<ready, disturbed>>
    /\ UNCHANGED <<repository, interpreter, installed, staged, jar, options, presence>>

-----------------------------------------------------------------------------
(* _stage_prose, the reference, and the site.                              *)

ClearNothing == GoTo("Clear", "Copy") /\ UNCHANGED staged

RemoveStaging ==
    \/ GoTo("Clear", "Copy") /\ staged' = {}
    \/ Torn("Clear") /\ staged' \in SUBSET staged

ClearStaging ==
    /\ RemoveStaging
    /\ UNCHANGED <<repository, environment, jar, options, disturbed, presence>>

CopiedEntry(pages) == pages \union {Index}
Renamed(pages)     == (pages \ {Entry}) \union {Index}

(* copytree and the renaming of the entry point.                           *)
StageProse ==
    /\ \/ /\ Entry \in docs
          /\ GoTo("Copy", "Api")
          /\ staged' = staged \union Renamed(docs)
       \/ /\ Torn("Copy")
          /\ \E copied \in SUBSET docs : staged' = staged \union copied
    /\ UNCHANGED <<repository, environment, jar, options, disturbed, presence>>

GenerateApi ==
    /\ \/ GoTo("Api", "Plantuml") /\ staged' = staged \union ApiPages
       \/ /\ Torn("Api")
          /\ \E written \in SUBSET ApiPages : staged' = staged \union written
    /\ UNCHANGED <<repository, environment, jar, options, disturbed, presence>>

(* _plantuml_command.  A jar that is there is taken as it is; a download   *)
(* with another checksum is a failure that writes nothing.                 *)
PlantumlCommand ==
    /\ \/ GoTo("Plantuml", "Sphinx") /\ command' = "Own" /\ UNCHANGED jar
       \/ /\ GoTo("Plantuml", "Sphinx")
          /\ jar # "None"
          /\ command' = "Jar" /\ UNCHANGED jar
       \/ /\ jar = "None"
          /\ \/ GoTo("Plantuml", "Sphinx") /\ jar' = "Pinned" /\ command' = "Jar"
             \/ Torn("Plantuml") /\ jar' = "Truncated" /\ UNCHANGED command
    /\ UNCHANGED <<repository, environment, staged, noVenv, wanted, disturbed, presence>>

BuildSite ==
    /\ GoTo("Sphinx", "Idle")
    /\ UNCHANGED <<repository, environment, staged, jar, options, disturbed, presence>>

Next ==
    \/ EditRequirements
    \/ EditDocs
    \/ RaiseMinimumPython
    \/ Interrupt
    \/ \E own \in BOOLEAN : BeginBuild(own)
    \/ CheckToolchain
    \/ PrepareEnvironment
    \/ InstallToolchain
    \/ WriteStamp
    \/ ClearStaging
    \/ StageProse
    \/ GenerateApi
    \/ PlantumlCommand
    \/ BuildSite

Spec == Init /\ [][Next]_vars

-----------------------------------------------------------------------------
(* copytree refuses a directory that exists, so what an earlier build left *)
(* must be gone by then.                                                   *)
TypeOK ==
    /\ requirements \in Versions /\ wanted \in Versions
    /\ docs \subseteq Prose /\ throughout \subseteq Prose /\ during \subseteq Prose
    /\ interpreter \in Interpreters
    /\ installed \in Versions \union {"Nothing", "Partial"}
    /\ stamp \in Versions \union {"None"} /\ ready \in Versions \union {"None"}
    /\ staged \subseteq Pages
    /\ jar \in {"None", "Truncated", "Pinned"}
    /\ step \in {"Idle"} \union InToolchain \union AfterwardsSteps
    /\ noVenv \in BOOLEAN /\ disturbed \in BOOLEAN
    /\ command \in {"Own", "Jar"}
    /\ step = "Copy" => staged = {}

(* Whatever Python and packages earlier builds left, stopped or not, pip   *)
(* and Sphinx never run in an environment of an unsupported Python.        *)
InterpreterSupported ==
    step \in {"Install", "Stamp"} \/ (step \in AfterwardsSteps /\ ~noVenv)
    => interpreter \in {"Bare", "New"}

(* The name each document is published under.                              *)
Published(documents) == {IF page = Entry THEN Index ELSE page : page \in documents}

(* Sphinx reads every document that was there all through this build, none *)
(* that was not there during it, and a complete reference: nothing that an *)
(* earlier build, stopped half way or of other documents, staged is read.  *)
StagedAfresh ==
    step = "Sphinx" => /\ Published(throughout) \union ApiPages \subseteq staged
                       /\ staged \subseteq Published(during) \union ApiPages

(* An edit of the requirements reinstalls (_ensure_toolchain): as long as  *)
(* no step on the environment was cut short and nobody edits them while it *)
(* is being prepared, the toolchain in use is the one asked for.           *)
UndisturbedToolchainMatches ==
    step \in AfterwardsSteps /\ ~noVenv /\ ~disturbed => installed = wanted

(* Requirements that are unchanged cost nothing (_ensure_toolchain): what  *)
(* an environment was completed for is not installed again.                *)
NoNeedlessInstall == [][InstallToolchain => ready # wanted]_vars

(* A Python that has Sphinx, and an edit to the requirements reinstalls    *)
(* (_ensure_toolchain).                                                    *)
ToolchainMatches == step \in AfterwardsSteps /\ ~noVenv => installed = wanted
=============================================================================
