-------------------------- MODULE DocsBuildProofs --------------------------
(***************************************************************************)
(* Theorems about the documentation build, for any contents of the         *)
(* requirements, any documents and any pages of the reference.             *)
(***************************************************************************)
EXTENDS DocsBuild, TLAPS

(* Where the environment stands at each step of _ensure_toolchain.         *)
EnvironmentInv ==
    /\ step \in {"Prepare"} => interpreter \in {"None", "Bare", "New"}
    /\ step \in {"Install", "Stamp"} => interpreter \in {"Bare", "New"}
    /\ step \in AfterwardsSteps /\ ~noVenv => interpreter \in {"Bare", "New"}
    /\ step \in InToolchain => ~noVenv

(* As long as nothing was cut short, the stamp is that of the packages, but*)
(* for the moment between pip and the new stamp.                           *)
StampInv ==
    ~disturbed =>
        /\ interpreter = "None" => stamp = "None"
        /\ stamp # "None" /\ step # "Stamp" => installed = stamp
        /\ step \in InToolchain => wanted = requirements
        /\ step = "Stamp" => installed = wanted
        /\ step \in AfterwardsSteps /\ ~noVenv => installed = wanted

(* An environment is completed for what its stamp says, and pip only runs  *)
(* in one that is not completed for what is wanted.                        *)
ReadyInv ==
    /\ ready # "None" => stamp = ready /\ interpreter # "None"
    /\ step = "Install" => ready # wanted
    /\ step = "Stamp" => ready = "None"

(* What is staged, from the copy on, and the documents it was copied from. *)
StagedInv ==
    /\ step # "Idle" => throughout \subseteq docs /\ docs \subseteq during
    /\ step \in {"Api", "Plantuml", "Sphinx"} =>
          /\ Published(throughout) \subseteq staged
          /\ staged \subseteq Published(during) \union ApiPages
    /\ step \in {"Plantuml", "Sphinx"} => ApiPages \subseteq staged

IndInv == TypeOK /\ EnvironmentInv /\ StampInv /\ ReadyInv /\ StagedInv

(* The first build finds no environment, or one of an unsupported Python.  *)
LEMMA IndInit == Init => IndInv
BY NamesAssumption DEF Init, IndInv, TypeOK, EnvironmentInv, StampInv, ReadyInv, StagedInv,
   Prose, Pages, Interpreters, InToolchain, AfterwardsSteps

(* Every step keeps the types.                                             *)
LEMMA TypeStep == TypeOK /\ [Next]_vars => TypeOK'
<1> SUFFICES ASSUME TypeOK, [Next]_vars PROVE TypeOK'
  OBVIOUS
<1> USE DEF TypeOK, GoTo, Torn, InToolchain, AfterwardsSteps, Interpreters,
        repository, environment, options, presence
<1>1. CASE EditRequirements
  BY <1>1 DEF EditRequirements
<1>2. CASE EditDocs
  BY <1>2 DEF EditDocs
<1>3. CASE RaiseMinimumPython
  BY <1>3 DEF RaiseMinimumPython
<1>4. CASE Interrupt
  BY <1>4 DEF Interrupt
<1>5. ASSUME NEW own \in BOOLEAN, BeginBuild(own) PROVE TypeOK'
  BY <1>5 DEF BeginBuild
<1>6. CASE CheckToolchain
  BY <1>6 DEF CheckToolchain, ReplaceOldEnvironment
<1>7. CASE PrepareEnvironment
  BY <1>7 DEF PrepareEnvironment, CreateEnvironment
<1>8. CASE InstallToolchain
  BY <1>8 DEF InstallToolchain
<1>9. CASE WriteStamp
  BY <1>9 DEF WriteStamp
<1>10. CASE ClearStaging
  BY <1>10 DEF ClearStaging, RemoveStaging
<1>11. CASE StageProse
  BY <1>11 DEF StageProse, Renamed, Prose, Pages
<1>12. CASE GenerateApi
  BY <1>12 DEF GenerateApi, Pages
<1>13. CASE PlantumlCommand
  BY <1>13 DEF PlantumlCommand
<1>14. CASE BuildSite
  BY <1>14 DEF BuildSite
<1>15. CASE UNCHANGED vars
  BY <1>15 DEF vars
<1> QED
  BY <1>1, <1>2, <1>3, <1>4, <1>5, <1>6, <1>7, <1>8, <1>9, <1>10, <1>11, <1>12,
     <1>13, <1>14, <1>15 DEF Next

(* Every step keeps what is known of the environment's Python.             *)
LEMMA EnvironmentStep == TypeOK /\ EnvironmentInv /\ [Next]_vars => EnvironmentInv'
<1> SUFFICES ASSUME TypeOK, EnvironmentInv, [Next]_vars PROVE EnvironmentInv'
  OBVIOUS
<1> USE NamesAssumption DEF TypeOK, EnvironmentInv, Interpreters,
        GoTo, Torn, InToolchain, AfterwardsSteps,
        repository, environment, options, presence
<1>1. CASE EditRequirements
  BY <1>1 DEF EditRequirements
<1>2. CASE EditDocs
  BY <1>2 DEF EditDocs
<1>3. CASE RaiseMinimumPython
  BY <1>3 DEF RaiseMinimumPython
<1>4. CASE Interrupt
  BY <1>4 DEF Interrupt
<1>5. ASSUME NEW own \in BOOLEAN, BeginBuild(own) PROVE EnvironmentInv'
  BY <1>5 DEF BeginBuild
<1>6. CASE CheckToolchain
  BY <1>6 DEF CheckToolchain, ReplaceOldEnvironment
<1>7. CASE PrepareEnvironment
  BY <1>7 DEF PrepareEnvironment, CreateEnvironment, StampMatches
<1>8. CASE InstallToolchain
  BY <1>8 DEF InstallToolchain
<1>9. CASE WriteStamp
  BY <1>9 DEF WriteStamp
<1>10. CASE ClearStaging
  BY <1>10 DEF ClearStaging, RemoveStaging
<1>11. CASE StageProse
  BY <1>11 DEF StageProse
<1>12. CASE GenerateApi
  BY <1>12 DEF GenerateApi
<1>13. CASE PlantumlCommand
  BY <1>13 DEF PlantumlCommand
<1>14. CASE BuildSite
  BY <1>14 DEF BuildSite
<1>15. CASE UNCHANGED vars
  BY <1>15 DEF vars
<1> QED
  BY <1>1, <1>2, <1>3, <1>4, <1>5, <1>6, <1>7, <1>8, <1>9, <1>10, <1>11, <1>12,
     <1>13, <1>14, <1>15 DEF Next

(* Every step keeps the stamp right, or is noted as a disturbance.         *)
LEMMA StampStep == TypeOK /\ EnvironmentInv /\ StampInv /\ [Next]_vars => StampInv'
<1> SUFFICES ASSUME TypeOK, EnvironmentInv, StampInv, [Next]_vars PROVE StampInv'
  OBVIOUS
<1> USE NamesAssumption DEF TypeOK, EnvironmentInv, StampInv, Interpreters,
        GoTo, Torn, InToolchain, AfterwardsSteps,
        repository, environment, options, presence
<1>1. CASE EditRequirements
  BY <1>1 DEF EditRequirements
<1>2. CASE EditDocs
  BY <1>2 DEF EditDocs
<1>3. CASE RaiseMinimumPython
  BY <1>3 DEF RaiseMinimumPython
<1>4. CASE Interrupt
  BY <1>4 DEF Interrupt
<1>5. ASSUME NEW own \in BOOLEAN, BeginBuild(own) PROVE StampInv'
  BY <1>5 DEF BeginBuild
<1>6. CASE CheckToolchain
  BY <1>6 DEF CheckToolchain, ReplaceOldEnvironment
<1>7. CASE PrepareEnvironment
  BY <1>7 DEF PrepareEnvironment, CreateEnvironment, StampMatches
<1>8. CASE InstallToolchain
  BY <1>8 DEF InstallToolchain
<1>9. CASE WriteStamp
  BY <1>9 DEF WriteStamp
<1>10. CASE ClearStaging
  BY <1>10 DEF ClearStaging, RemoveStaging
<1>11. CASE StageProse
  BY <1>11 DEF StageProse
<1>12. CASE GenerateApi
  BY <1>12 DEF GenerateApi
<1>13. CASE PlantumlCommand
  BY <1>13 DEF PlantumlCommand
<1>14. CASE BuildSite
  BY <1>14 DEF BuildSite
<1>15. CASE UNCHANGED vars
  BY <1>15 DEF vars
<1> QED
  BY <1>1, <1>2, <1>3, <1>4, <1>5, <1>6, <1>7, <1>8, <1>9, <1>10, <1>11, <1>12,
     <1>13, <1>14, <1>15 DEF Next

(* Every step keeps a completed environment apart from one to install in.  *)
LEMMA ReadyStep == TypeOK /\ EnvironmentInv /\ StampInv /\ ReadyInv /\ [Next]_vars => ReadyInv'
<1> SUFFICES ASSUME TypeOK, EnvironmentInv, StampInv, ReadyInv, [Next]_vars PROVE ReadyInv'
  OBVIOUS
<1> USE NamesAssumption DEF TypeOK, EnvironmentInv, ReadyInv, Interpreters,
        GoTo, Torn, InToolchain, AfterwardsSteps,
        repository, environment, options, presence
<1>1. CASE EditRequirements
  BY <1>1 DEF EditRequirements
<1>2. CASE EditDocs
  BY <1>2 DEF EditDocs
<1>3. CASE RaiseMinimumPython
  BY <1>3 DEF RaiseMinimumPython
<1>4. CASE Interrupt
  BY <1>4 DEF Interrupt
<1>5. ASSUME NEW own \in BOOLEAN, BeginBuild(own) PROVE ReadyInv'
  BY <1>5 DEF BeginBuild
<1>6. CASE CheckToolchain
  BY <1>6 DEF CheckToolchain, ReplaceOldEnvironment
<1>7. CASE PrepareEnvironment
  BY <1>7 DEF PrepareEnvironment, CreateEnvironment, StampMatches
<1>8. CASE InstallToolchain
  BY <1>8 DEF InstallToolchain
<1>9. CASE WriteStamp
  BY <1>9 DEF WriteStamp
<1>10. CASE ClearStaging
  BY <1>10 DEF ClearStaging, RemoveStaging
<1>11. CASE StageProse
  BY <1>11 DEF StageProse
<1>12. CASE GenerateApi
  BY <1>12 DEF GenerateApi
<1>13. CASE PlantumlCommand
  BY <1>13 DEF PlantumlCommand
<1>14. CASE BuildSite
  BY <1>14 DEF BuildSite
<1>15. CASE UNCHANGED vars
  BY <1>15 DEF vars
<1> QED
  BY <1>1, <1>2, <1>3, <1>4, <1>5, <1>6, <1>7, <1>8, <1>9, <1>10, <1>11, <1>12,
     <1>13, <1>14, <1>15 DEF Next

(* Every step keeps the staging directory between its two bounds.          *)
LEMMA StagedStep == TypeOK /\ StagedInv /\ [Next]_vars => StagedInv'
<1> SUFFICES ASSUME TypeOK, StagedInv, [Next]_vars PROVE StagedInv'
  OBVIOUS
<1> USE NamesAssumption DEF TypeOK, StagedInv,
        GoTo, Torn, InToolchain, AfterwardsSteps,
        repository, environment, options, presence
<1>1. CASE EditRequirements
  BY <1>1 DEF EditRequirements
<1>2. CASE EditDocs
  BY <1>2 DEF EditDocs, Published
<1>3. CASE RaiseMinimumPython
  BY <1>3 DEF RaiseMinimumPython
<1>4. CASE Interrupt
  BY <1>4 DEF Interrupt
<1>5. ASSUME NEW own \in BOOLEAN, BeginBuild(own) PROVE StagedInv'
  BY <1>5 DEF BeginBuild
<1>6. CASE CheckToolchain
  BY <1>6 DEF CheckToolchain, ReplaceOldEnvironment
<1>7. CASE PrepareEnvironment
  BY <1>7 DEF PrepareEnvironment, CreateEnvironment, StampMatches
<1>8. CASE InstallToolchain
  BY <1>8 DEF InstallToolchain
<1>9. CASE WriteStamp
  BY <1>9 DEF WriteStamp
<1>10. CASE ClearStaging
  BY <1>10 DEF ClearStaging, RemoveStaging
<1>11. CASE StageProse
  BY <1>11 DEF StageProse, Renamed, Published, Prose
<1>12. CASE GenerateApi
  BY <1>12 DEF GenerateApi
<1>13. CASE PlantumlCommand
  BY <1>13 DEF PlantumlCommand
<1>14. CASE BuildSite
  BY <1>14 DEF BuildSite
<1>15. CASE UNCHANGED vars
  BY <1>15 DEF vars
<1> QED
  BY <1>1, <1>2, <1>3, <1>4, <1>5, <1>6, <1>7, <1>8, <1>9, <1>10, <1>11, <1>12,
     <1>13, <1>14, <1>15 DEF Next

(* The inductive invariant holds throughout.                               *)
THEOREM Invariance == Spec => []IndInv
<1>1. IndInv /\ [Next]_vars => IndInv'
  BY TypeStep, EnvironmentStep, StampStep, ReadyStep, StagedStep DEF IndInv
<1> QED
  BY IndInit, <1>1, PTL DEF Spec

(* Every variable keeps its type, and nothing is left in the staging       *)
(* directory when the prose is copied.                                     *)
THEOREM TypeCorrect == Spec => []TypeOK
<1>1. IndInv => TypeOK
  BY DEF IndInv
<1> QED
  BY <1>1, Invariance, PTL

(* No build runs pip or Sphinx in an environment of an unsupported Python, *)
(* whatever was interrupted before it.                                     *)
THEOREM InterpreterAlwaysSupported == Spec => []InterpreterSupported
<1>1. IndInv => InterpreterSupported
  BY DEF IndInv, EnvironmentInv, InterpreterSupported
<1> QED
  BY <1>1, Invariance, PTL

(* Sphinx reads the documents of this build and no leftovers, whatever was *)
(* interrupted before it and whoever edits the documents meanwhile.        *)
THEOREM StagingNeverStale == Spec => []StagedAfresh
<1>1. IndInv => StagedAfresh
  BY DEF IndInv, StagedInv, StagedAfresh
<1> QED
  BY <1>1, Invariance, PTL

(* The stamp is right as long as no step on the environment is cut short.  *)
THEOREM StampRightUndisturbed == Spec => []UndisturbedToolchainMatches
<1>1. IndInv => UndisturbedToolchainMatches
  BY DEF IndInv, StampInv, UndisturbedToolchainMatches
<1> QED
  BY <1>1, Invariance, PTL

(* Unchanged requirements cost nothing.                                    *)
THEOREM UnchangedCostsNothing == Spec => NoNeedlessInstall
<1>1. IndInv /\ [Next]_vars => [InstallToolchain => ready # wanted]_vars
  BY DEF IndInv, ReadyInv, InstallToolchain, GoTo, Torn
<1> QED
  BY <1>1, Invariance, PTL DEF Spec, NoNeedlessInstall
=============================================================================
