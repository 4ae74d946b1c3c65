# LightPHI: specifications, model checking and proofs

LightPHI turns pen and tablet events into identified samples and delivers them
in bounded batches; its documentation is built and its API reference generated by
two programs of their own. This directory holds TLA+ modules translated from the
source of all of these, TLC configurations that check them on small instances, and
proofs that TLAPS checks for every value of the constants. `PROJECT.json` links every definition to
the lines it models.

To check a module: `tlc -config AppleDeliveryCore.cfg MCAppleDeliveryCore`. To
check its proofs: `tlapm AppleDeliveryCoreProofs.tla`.

## The system

```text
AppKit event ──> MacOSInputMonitor.swift ──> AppleDeliveryCore ──> macos_backend.cpp ──> IInputReceiver
                 retry timer, eraser,         ring, contact,         sample storage,
                 device seen                  identities             session
script ────────> FakeInputSource (checks with ValidateBatch) ─────────────────────────> IInputReceiver
                                                     ValidateBatch, for any receiver or test

build_docs.py ──> generate_api_docs.py ──> staging directory ──> Sphinx
environment,      regions ─> comments ─> DocComment ┐
stamp, jar                └─> declarations, scopes ─┴─> sections ─> pages, diagrams, index
```

| Component | State | Operations | Model |
| --- | --- | --- | --- |
| Apple delivery core, `source/backend_apple` | ring of deliveries, capability mask, open contact with ordinal and sequence, counters of contacts and samples, started | Start, Stop, Submit (eight kinds of event), RetryPending, `_drain`, `_fail` | `AppleDeliveryCore` |
| macOS source, `source/backend_macos` | receiver, sample storage, monitor; eraser, device seen, retry scheduled; timers of the main queue | Start, Stop, Receive, Failed, the monitor's callbacks, the retry timer | `MacOSInputSource` |
| Validation, `source/phi/{sample,batch}_validation.cppm` | none of its own; a `DeliveryState` its caller keeps | Validate, ValidateBatch | `BatchValidation`, `DeliveryRules` |
| Fake source, `source/backend_fake` | ring of slots, sample arena, script state, last delivered contact and ordinal, failure asked for | Enqueue, DispatchNext, FailNext, Start, Stop | `FakeInputSource` |
| Source contract, `source/phi/source.cppm` | a session and what the receiver has accepted | Start, Receive, SourceFailed, Stop | `ContactStream` |
| Documentation build, `tools/docs/build_docs.py` | virtual environment, stamp, staging directory, jar: files that outlive a run | the steps of `main` | `DocsBuild` |
| API page generator, `tools/docs/generate_api_docs.py` | its output directory outlives a run; within one, the cursors and stacks of its loops | `_regions`, `_doc_spans`, `parse_doc`, `parse_file` and what they call, `render_module_section`, `main` | `CommentLexer`, `DocComments`, `DeclarationReader`, `ApiSections`, `ApiPages` |
| Module interface, diagnostics, examples, tests, `conf.py`, build files | none | | not modelled |

What is hard in it:

- *Ordering.* Events keep arriving while a receiver is busy. They wrap around the
  ring behind the delivery that waits, and that delivery must be offered again
  unchanged.
- *Callbacks inside callbacks.* A Submit drains into the receiver, or fails and
  releases the monitor whose callback is still running. A first pointer event is
  two calls of the core, not one.
- *Two truths about the contact.* The core knows the contact it captured last,
  the receiver the one it accepted last. Stop, a rejection and an overflow act on
  one of them while the backlog lies between them.
- *A retry that nothing else drives.* A quiet pen offers no second chance; the
  timer does, if every path back from the core arms it and none arms it twice.
- *A summary in place of a history.* ValidateBatch decides from a state of fixed
  size what is a rule about a whole contact.
- *Files left by a build that was stopped*, or by a run of the page generator.
- *A reader that has no grammar.* The page generator finds comments, scopes and
  members of C++ by scanning. One quote, brace or label misread moves everything
  behind it, and a page that is wrong still builds.

Nothing here is threaded: calls concerning one source are serialized by its owner
and AppKit calls the monitor on the main thread (docs/ARCHITECTURE.md, API policy;
`MacOSInputMonitor.start` refuses another thread). Interleaving means the order of
callbacks and calls, and what runs inside them.

`PROJECT.json` lists the hazards line by line, with the properties that would
catch each, and why some have none.

## Modules

| Module | Role |
| --- | --- |
| `ContactStream` | abstract: what any source promises, seen from its receiver |
| `AppleDeliveryCore` | the ring and the contact lifecycle; implements `ContactStream` |
| `AppleDeliveryCoreProofs` | its theorems |
| `MacOSInputSource` | monitor, timer and adapter around an instance of the core |
| `MacOSInputSourceProofs` | its theorems, on those of the core |
| `BatchValidation` | ValidateBatch and Validate as operators; the scan over the samples is a recursive function |
| `BatchValidationProofs` | what the scan computes, for batches of every length |
| `DeliveryRules` | a receiver that uses them, and the rules told of a whole history |
| `DeliveryRulesProofs` | its theorems, on those of `BatchValidation` |
| `FakeInputSource` | the scripted source, on `BatchValidation`; implements `ContactStream` |
| `FakeInputSourceProofs` | its theorems, on those of `BatchValidation` |
| `DocsBuild` | the steps of the documentation build, each with the ways it can be cut short |
| `DocsBuildProofs` | its theorems |
| `CommentLexer` | how the page generator finds the comments of a file |
| `DocComments` | how it reads one comment |
| `ApiReaderProofs` | theorems of `CommentLexer` and `DocComments` |
| `DeclarationReader` | how it recovers what a comment documents and where that is declared |
| `ApiSections` | how it lays out the sections, links and diagrams of a page |
| `ApiPages` | its run: what it reads, writes and leaves behind when it is stopped |
| `ApiProofs` | theorems of `DeclarationReader`, `ApiSections` and `ApiPages` |
| `MC...` | values for the constants |

`MacOSInputSource` composes the core with the monitor and the adapter, and
`MCMacOSInputSource` checks the composition. `MCApiReader` and `MCApiPages` hold
several components of the page generator side by side and let one of them run in
each behaviour: they hand each other finished values and never interleave, so
running them together shows nothing that running each does not.

### Correspondence to the code

*AppleDeliveryCore.* Variables carry the names of the members without the
underscore. `queue` is a function over `0 .. Capacity-1`, indexed with the code's
`(head + size) % capacity`. `_submit` is one action per kind of event and per
state it branches on: `BeginContact`, `RestartContact` (Begin inside a contact,
which needs two places and may find only one), `ExtendContact` (Update, End),
`CancelContact`, `ObserveDevice`. A handler that ends in `_drain` leaves `draining`
set, and only `Drain` steps follow, one per Receive call. `Stop` clears the ring
whatever its Receive answers, so it is one step. `_fail` is part of the handler
that runs into it. Counters and the mask change before the ring turns out to be
full, as in the code. `seen`, `seenSample` and `failure` are history variables: no
guard reads them.

*MacOSInputSource.* `TabletProximity`, `TabletPoint`, `Cancelled`, `Pointer` and
`FirstPointer` are the monitor's callbacks; `RetryTimer` is the block `asyncAfter`
runs; `Receive` is one Receive of the adapter with its answer and, at the end of
the loop, `retryIfPending`. `Submit` with `started'` false runs `Failed` inside the
callback. The block holds the monitor weakly, so releasing the monitor is modelled
as taking its timers away.

*BatchValidation.* `ValidateBatch(batch, capabilities, state)` returns the reason
and the next state, with the order of the checks kept. The loop over the samples is
a recursive function of the place of the sample, whose value is the loop's locals
there. A reading is `Sound` or wrong in one of the ways Validate tells apart.

*FakeInputSource.* Each call is one step. `arena` is flat, a slot owns
`MaximumBatchSamples` places from its offset, and `Offered` reads the batch back
from there. `delivered` is the receiver's own `DeliveryState` and `pending` the
batches as they were enqueued: both history.

*DocsBuild.* `step` is the position of the running build. A step that writes more
than one file has a torn outcome with every subset it may leave. Anyone may edit
the requirements or the documents between two steps. `ready`, `disturbed`,
`throughout` and `during` are history.

*CommentLexer.* A file is a program, a sequence of C++ tokens; the lexer sees their
characters only. `Lexing` actions are the branches of `_regions` in its order, the
actions on `quote` those of `_skip_quoted` (whose cursor is the same `index`), the
`Grouping` ones those of `_doc_spans`, where `inRun` is its inner loop. Tokens and
what they document by are the language's, not the generator's: they are what the
properties compare with, and `WellFormed` and `MayFollow` say which there are. Regions count from one where Python counts from zero.

*DocComments.* One action per branch of `parse_doc`'s loop, taking the next line.
`toDetails` is whether `current` is `doc.details`; the other lists it may be are
replaced as a whole by the code and need no pointer. Of `_comment_content` the
model keeps what decides the branches: decoration, indentation and blankness.

*DeclarationReader.* The functions of `parse_file` are operators on the tokens of a
file whose comments are blanked. A regular expression is a condition on the tokens
it matches (`Opener` is SCOPE before a brace, `Introduced` and `Called` are the
tries of `_classify` in their order). `_scopes_at` and `_member_access_at` are one
walk, `Walk`, of which each reads a part. A loop over the characters is a recursive
function over the places of the tokens; so is `Parsed`, which keeps the statement
being read as the set of its places, since a body without its blocks is not one piece
of the file. The actions write the file, one
declaration at a time; they are the file's author, and `declared` and `members` are
what he means. They stand for no line of the generator.

*ApiSections.* `_emit` calls itself for the children of a type: `work` is the calls
that are still to be made, innermost first, and `Emit` is one call up to its loop. The
lists its loop over the entities fills are a recursive function over a prefix
(`Listed`).
An entity is its kind, name, owner, namespace and the types it mentions; `overload`
tells two functions of one name apart. The diagram is a set of operators on a page.

*ApiPages.* A step for each file read or written, and torn outcomes as in
`DocsBuild`. A page is what it was written from and the files it names, so that
`PublishesWhatItRead` can compare the two.

Some definitions bear the name of a slip (`RoomBeforeEnd`, `DropRing`, ...). They
are not used; `PROJECT.json` names, for each, the definition it would replace
and the property that fails then.

## Runs

Sizes are distinct states.

| Run | States | Asks |
| --- | --- | --- |
| `apple_core` | 62,774 | Is every offer the receiver's next delivery? Is a busy retry exact? Does Overflow mean a busy receiver? Does the core implement `ContactStream`? |
| `macos` | 35,647 | Do monitor, core and adapter agree on the session at each step? Does a waiting delivery always have one timer, does it get offered again and leave the ring with no more events? Is the lent sample the delivery's? Is the eraser declared while in use? |
| `delivery_rules` | 821 | Does the summary of fixed size give the verdict of the whole history? Is a prediction corrected at most once, and never before it was made? |
| `fake_source` | 15,930 | Do batches checked against the script obey the rules from where the receiver stands? Do they come out of the arena as they went in? Does Stop cancel what the receiver has open? |
| `docs_build` | 1,421,000 | Is anything stale staged? Is a right stamp kept right? Does pip run only when it must? |
| `api_reader` | 260,904 | Are comments found where C++ has them, and lines of one comment read together? Does the lexer come to its end? Is every line of a comment that has a place in the reference told once? Are entities told with their scope, access and own members? |
| `api_pages` | 150,431 | Does a finished run leave exactly what it read? Is every declaration written once, inside its type? Is each diagram closed? |

These hold. Five more runs each check one sentence of the documentation that
the code does not keep:

| Run | The documentation | The code |
| --- | --- | --- |
| `apple_stop_backlog` | Stop delivers one empty Cancel for the contact the receiver has seen open, as the macOS source does (ARCHITECTURE.md:48) | cancels the core's contact. With a Begin pending, the receiver gets a Cancel for a contact it never saw; with an End pending, its open contact gets none. `DrainedStopCancelsSeen` holds: without a backlog the sentence is right. |
| `committed_sequences` | committed sequences increase (ARCHITECTURE.md:134) | a correction is compared with its prediction only, so it may repeat a sequence or fall below one that was committed meanwhile; the maximum is kept, so what follows is still ahead |
| `docs_toolchain` | a Python that has Sphinx; an edit reinstalls (build_docs.py:108) | a matching stamp is taken as proof, but is not removed before the environment changes: a removal cut short can keep it, and an install cut short leaves the old one over other packages |
| `glance_links` | a table of every type the package declares, each linked to its entry (generate_api_docs.py:1245) | only the first of a module's namespaces is declared (:936), while each link has its type's own. The entry of `lightphi::input::detail::BatchScan` is declared in `lightphi::input`, so its link names nothing |
| `fences` | each nesting level needs a longer fence than the one it contains (generate_api_docs.py:968) | the length is `6 - min(depth, 2)` (:971): a member of a type that stands in two others has a fence as long as that type's |

### Bounds

- *apple_core:* a ring of three and five captured points in one behaviour. Three
  is the smallest ring where the two places of a restarted contact wrap around
  with a delivery waiting before them. Five points fill the ring, run it over and
  open a contact in the next session. `MaxSamples` bounds the only growth: no
  action but `Capture` makes anything new for ever.
- *macos:* a ring of two and three points, with the pointer fallback and both
  masks: a lap and a half of the storage, so a slot is written again while the next
  delivery waits, and the second slot's identity could be confused with the third's.
  A behaviour has one reading for all its points; the storage is compared by
  identity, so the reading's value decides nothing.
- *delivery_rules:* four identities, two sequences, three ordinals, one or two
  samples in a batch, and batches with one thing wrong of every kind. A prediction
  can be corrected in the next batch, in a later one, twice, or after committed
  samples passed it, with a sample to follow. Contacts differ only in whether
  they are the open one, so three values do. Every batch is tried in every state,
  those no device would send included, and phases and origins outside their
  enumeration: a refusal is a claim too.
- *fake_source:* a ring of two and a script of two contacts with predictions,
  corrections and batches of no, one and two samples. A ring of three gives
  686,554 states and the same answer. `OrdinalValues = 8` stands for 2^64; a
  script reaches 3.
- *docs_build:* two contents of the requirements, so an edit can be taken back;
  a document besides the entry point, and one page of the reference. Nothing
  counts, so the state space is finite without a bound, and every number of
  builds is covered.
- *api_reader:* every file of up to three of 27 tokens, and of up to five of the six
  tokens that matter to a run of comments. The tokens are literals with quotes,
  escapes, slashes and stars, raw strings with and without a delimiter, an
  apostrophe in a directive, and comments holding any of these. Three are one before,
  the one, and one behind it. Comments have four lines, each line one of 13 kinds: a
  tag, its text, a detail and a continuation. Files have up to four declarations or
  labels and two type names, so a type may stand inside the other, with a label, a
  member or a body before and behind it.
- *api_pages:* for the run, three sources in two packages, so a page has two
  sources. For the sections, modules of up to four entities out of thirteen, nested
  three deep, with a constructor, overloads, types of one name in two places, and a
  type and a member that a second namespace has too; and pages of two modules whose
  types mention each other. *glance_links* takes pages with one type in each of two
  namespaces, *fences* a function in a type in two others.

### Fairness

Two runs assume any.

`macos` has three conditions. `CallbacksReturn`: a callback that has begun runs
to its end, the program being single-threaded and Receive a call that returns.
`TimersFire`: the main queue runs a block after its delay. Both are weak, for
nothing takes these steps away from a source that is left alone. `ReceiverAnswers`
is not the code's but the receiver's part of the bargain: offered a batch again and
again, it is not busy for ever. Only `HeadLeaves` needs it; `WaitingIsOffered`
holds without. No event is assumed ever to arrive again.

`api_reader` has `WF_vars(Next)` of the lexer, that a loop which can take a step
takes it. `ReadToTheEnd` then says that none of the branches fails to advance.

## Proofs

### AppleDeliveryCoreProofs

For every `Capacity` above zero, every device and every number of captured points.

| Theorem | States |
| --- | --- |
| `TypeCorrect` | `Spec => []TypeOK`: head and size stay in the ring |
| `Invariance` | `Spec => []IndInv` |
| `OffersNeverOutOfSequence` | `Spec => []OffersInSequence` |
| `BusyNeverReplacesHead` | `Spec => BusyRetainsHead` |
| `DrainedStopIsExact` | `Spec => DrainedStopCancelsSeen` |
| `OverflowMeansBusy` | `Capacity >= 2 => (Spec => OverflowOnlyWhileBusy)` |
| `CoreImplementsStream` | `Spec => ImplementsContactStream` |

`OffersInSequence` speaks of the head of the ring only and is not inductive: once
the head is accepted, the next delivery is the head, and nothing was said of it.
`IndInv` says of the whole ring that its deliveries follow one another, from the
receiver's position (`seen`) to the core's contact. Its parts:

- `SessionInv`: outside a session nothing is pending and no contact is open;
- `PendingInv`: entry *i* is the next delivery of a receiver that has taken the
  entries before it, each in the slot it names;
- `SamplesInv`: identities in the ring increase, above the receiver's and up to
  the counter;
- `CoreAheadInv`: a receiver that takes everything stands where the core stands.

A capture appends one entry (or two), which follows `CoreAheadInv`'s position; an
acceptance takes the first, so the remaining entries are pending from the new
position; a rejection, a failure and a Stop empty the ring. The lemmas on
`Pending`, `Reached` and `Put` say this of any ring, in terms of slots taken modulo
`Capacity`; the rest is one step per action. A busy retry is exact because a
delivery is stored at `SlotAt(size)`, which is not the head's slot while there is
room.

`OverflowMeansBusy` needs room for two: with `Capacity = 1`, a Begin inside an open
contact overflows with nothing pending, because its Cancel takes the only slot.
`InputSource::Create` takes one to 1024 places, 64 unless it is told otherwise, so
the exception is a source that asks for one.

Refinement maps `session` to `started` and the view to what `seen` and
`seenSample` record; all but the accepting `Drain`, `Start`, `Stop`, failures and
rejections are stuttering steps.

### MacOSInputSourceProofs

For every capacity above zero, any tablet and any order of callbacks.

| Theorem | States |
| --- | --- |
| `TypeCorrect` | `Spec => []TypeOK`: also, one retry timer at most |
| `SessionAlwaysAgrees` | `Spec => []SessionAgrees` |
| `RetryAlwaysArmed` | `Spec => []RetryArmed` |
| `LentSampleIsCurrent` | `Spec => []LentMatchesDelivery` |
| `EraserAlwaysDeclared` | `Spec => []EraserDeclared` |
| `SourceImplementsCore` | `Spec => Core!Spec` |
| `SourceKeepsCorePromises` | offers in sequence, exact busy retry and `ContactStream`, for the whole source |

The module instantiates `AppleDeliveryCoreProofs` as `Proved`, with the device of
the macOS source, and shows both instances of the core the same, so its theorems
hold here. `SourceInv` adds to the core's `IndInv`:

- `RestInv`: outside a session the head is zero. An unavailable start resets the
  core; with `SessionInv` and this, what it resets is reset already, and the step
  leaves the core alone;
- `StorageInv`: stored identities and those in the ring are at most the counter,
  and a slot whose storage has the identity of its delivery holds its sample. It
  speaks of every slot, not only of the pending ones, so no ring arithmetic is
  needed: Submit writes a fresh identity, Receive makes the slots agree;
- `EraserInv`: an eraser was seen in proximity, so the pointer fallback, which
  replaces the mask, is not for this device any more.

Steps that submit an event are taken together (`Submitting`, `Ignoring`): what
matters of a Submit is in `SubmitEnds` (it drains, or the session is over) and
`SubmitStored` (what it may have put into the ring).

### BatchValidationProofs

For every bound on a batch, every batch, capabilities and state.

| Theorem | States |
| --- | --- |
| `AcceptsMeans` | ValidateBatch accepts exactly if the batch `Fits`, `Stands` where it may, and each sample `Passes` against the totals before it; the state then follows from the totals, and else stays |
| `ReturnedStateType` | what it returns is a `DeliveryState`, the old one after a refusal |
| `AcceptedMoves` | an accepted batch opens, takes forward or closes the contact as its phase says; identities and ordinals go up, the committed sequence never back |

The scan stops at the first sample that fails; `AcceptsMeans` says the same of all
samples at once, without the order of the checks. Everything about ValidateBatch
below rests on these three and never opens the scan again.

*Induction.* The library's induction theorems cannot be used by these provers, as
they take an operator. What the proofs use is a lemma on sets: a set of naturals
that holds zero, and with each number the next, holds them all. It follows from
the library's least element of a well-founded order. A recursive definition is
written as a function, shown to exist by `TotalsExist` and its like, and its
property is the set.

### DeliveryRulesProofs

For every source, any batches offered and contacts of every length.

| Theorem | States |
| --- | --- |
| `StateSummarises` | the inductive invariant |
| `StateIsEnough` | `Spec => []VerdictMatchesHistory` |
| `CorrectedOnce` | `Spec => []PredictionCorrectedOnce` |
| `CorrectionsAreLate` | `Spec => []CorrectsAnEarlierPrediction` |

The rules speak of every two samples of a contact, ValidateBatch of one sample and
four numbers. `SampleRule`, what the rules ask of one sample given all before it,
stands between them: a history obeys the rules if its batches form one contact and
each sample obeys its rule. `SummaryInv` says of the accepted batches and the kept
state that the batches obey the rules, that contact and ordinal are those of the
first and the last batch, that the last identity, time and committed sequence bound
all of them and are attained, and that the predictions listed are those of the last
batch, the only ones a correction may still name. From this the verdict on the next sample
follows in both directions: what passes obeys, and what obeys passes. Nothing is
assumed of the batches but their type.

### FakeInputSourceProofs

For every descriptor that Create accepts and every script.

| Theorem | States |
| --- | --- |
| `TypeCorrect` | `Spec => []TypeOK` |
| `Invariance` | `Spec => []IndInv` |
| `OffersOldestBatch` | `Spec => []OffersOldest` |
| `OffersPassTheRules` | `Spec => []OffersObeyRules` |
| `ScriptLeads` | `Spec => []ScriptLeadsReceiver` |
| `StopCancels` | `OrdinalsRemain => (Spec => StopCancelsDelivered)` |
| `SourceImplementsStream` | `Spec => ImplementsContactStream` |

- `RingInv`: the slots from `head` on, taken modulo the capacity, hold what is
  pending, sample for sample, each slot in its own part of the arena;
- `PathInv`: what is pending, accepted in order, leads the receiver's state to the
  script's (`Leads`). Enqueue makes the path longer at its end, an acceptance takes
  its first step, a rejection, a failure and a Stop leave no path to speak of;
- `ReceiverInv`: what the source remembers of the delivered contact is what the
  receiver has.

`OffersObeyRules` is the first step of the path. Stop sends a Cancel with the last
ordinal plus one, in 64 bits without a check. `OrdinalsRemain` says that no Begin
or Update of the script has the greatest ordinal; without it the Cancel has
ordinal 0 and the receiver refuses it. The script of the run uses 1 to 3 of 8.

### DocsBuildProofs

For any contents of the requirements, documents and pages, and any sequence of
builds, edits and interruptions.

| Theorem | States |
| --- | --- |
| `TypeCorrect` | types, and that nothing is staged when copying starts |
| `InterpreterAlwaysSupported` | `Spec => []InterpreterSupported` |
| `StagingNeverStale` | `Spec => []StagedAfresh` |
| `StampRightUndisturbed` | `Spec => []UndisturbedToolchainMatches` |
| `UnchangedCostsNothing` | `Spec => NoNeedlessInstall` |

`IndInv` is the type invariant with four parts, one per thing a build relies on at
each of its steps: `EnvironmentInv` (the Python there is), `StampInv` (the stamp is
that of the packages, unless something was cut short, but for the moment between
pip and the new stamp), `ReadyInv` (a completed environment has its stamp and is
not one pip runs in), `StagedInv` (bounds on what is staged, from the copy on).

`UndisturbedToolchainMatches` leaves out an environment whose preparation was cut
short, which `docs_toolchain` is about, and one prepared while the requirements were
edited: pip then reads other contents than were hashed (build_docs.py:114), and the
stamp is wrong. `StagedAfresh` is about the staging directory only.

### ApiReaderProofs

For any files of well-formed tokens and any comments, however long.

| Theorem | States |
| --- | --- |
| `RegionsLieEndToEnd` | `Spec => []RegionsTile` |
| `CommentsFoundAsInCpp` | `Spec => []CommentsAsInCpp` |
| `RunsAlwaysTogether` | `Spec => []RunsReadTogether` |
| `ExamplesAlwaysIntact` | `CommentSpec => []ExamplesIntact` |
| `EveryLineAlwaysTold` | `CommentSpec => []EveryLineToldOnce` |

*The lexer, any text.* The regions, at every moment, lie end to end from the start of the
file to `code_start`, so no character is lost or read twice. That is what makes
blanking comments out of a file safe: every offset stays what it was. `IndInv` adds
to it only types, that the regions are a sequence and the cursor a number. Nothing
is used of what a file contains, so this holds of text that is not C++.
`WithRegionTiles` says that one more region goes on tiling and `CommentTiles` that
a comment, with the code before it, does; the rest is one step per action, in
groups by what they leave alone.

*The lexer, C++.* The other two compare what is found with the tokens the text was
written from. What a token may be is `FilesAssumption`, which the values of the run
meet: a literal is characters and escapes between two quotes, a raw string ends at
the first place that ends it, a comment as its kind does, and no two tokens stand
side by side that would make another (`MayFollow`). It is C++'s grammar, short of
what the generator is known not to read (below). The argument is one over the
tokens, whatever their number and length:

- where token `i` begins in the text, and that its characters stand there, by
  induction over the tokens (`WrittenInTurn`, `FileFacts`, `TokenFacts`);
- from where a comment or a raw string begins, the first hit of the search the code
  makes is the end of that token: `LineEnds`, `BlockEnds`, `RawEnds`;
- `PositionAt`: the cursor is at the beginning of a token, with no quote open; or in
  a token of code where a character or an escape of it begins, with that token's
  quote open; or behind the text of an `#error`, with one open that the end of the
  line closes. `LexerStep` takes each branch of the loop from one such position to
  another of the same token or the next, and only from a comment's first character
  to a comment's region;
- `ReadTo`: the regions so far are the comments before the cursor's token, and the
  code since the last of them is `code_start` to here. `LexedInv` is that, with the
  file unchanged. At the end it says that the regions are those of all comments,
  which is `CommentsAsInCpp` (`FoundAreComments`).

For the runs, `Grouped` says of the comments read up to a token that each is a block,
or lines of one run from the run's first on, to its last unless it is still open,
and that none that documents is left out. A region is read as its token is told
(`ReadAsTold`), a gap is blank when its tokens are (`BlankAsTokens`), and
`RunsJoin` and `PartOfRun` are what makes a run one. `GroupInv` ties this to the
region the cursor of `_doc_spans` is at.

*A comment.* Both properties speak of the description as it ends up, and say too
little while it is read. `CommentInv` has, besides types:

- `FenceInv`: `in_fence` is whether an odd number of fences was read. The
  properties count the fences of the comment and never look at the flag;
- `ExamplesInv`: an example still open was told up to the last line, and none leads
  the details without a line that is not blank. So the trim of leading and trailing
  blank lines, at the end, takes nothing from an example;
- `ToldInv`: no two places of the description hold one line (`Apart`), a place
  holds what was read there (`AsRead`), and every line is in the description, or
  replaced by a later one of its tag, or names the file (`Covered`);
- `JoinInv`: as long as the details are empty, each line so far was a tag or went on
  with a param or a note (`ExtendsTag`), and what stands under these began with its tag.

Each branch of the loop is shown to put its line in one place and to leave the
others alone, or to replace one list as a whole (`Puts` and its like). That a line
is told once is then a bijection between the places that hold it and at most one.
The lists of lists are unfolded by induction.

What is in the description need not be written: of a comment that names a `{file}`
`render_module_section` writes the brief, the details and the page, of any other
`_render_doc` writes all but the page. In `EveryLineToldOnce`, `Untold` are the tags
without a place, and `GoesWithTag` the lines that continue one of them. A comment
may turn out to be the module's with its last line, so the invariant speaks of the
description and leaves the choice to the end (`OfEntityTells`, `OfSectionTells`).

### ApiProofs

For the declarations, any file the writer of `DeclarationReader` can make, with any
number of types, scopes and declarations; for the sections, any pages, of any number
of modules and any depth of types; for the run, any sources, packages and slugs that give no two files one name, and any
sequence of runs, each finished, failed or stopped.

| Theorem | States |
| --- | --- |
| `EntitiesAlwaysAsWritten` | `WriterSpec => []EntitiesAsWritten` |
| `FieldsAreAlwaysOwn` | `WriterSpec => []FieldsAreOwn` |
| `DiagramsAlwaysClosed` | `SectionsSpec => []DiagramsClosed` |
| `MembersAlwaysInside` | `SectionsSpec => []MembersInsideTheirType` |
| `TypeCorrect` | `Spec => []TypeOK` |
| `FinishedRunIsExact` | `Spec => []PublishesWhatItRead` |

*Entities.* `EntitiesAsWritten` speaks of complete files, and compares what is
read of a file, from its beginning, with what its writer noted while he wrote it.
`WrittenInv` says of the file as far as it is written that

- it is `Ready`: the scopes the reader's walk holds at its end are the writer's open
  ones, each at its depth and with the access that holds in it now (`StackOf`), and
  no keyword of a scope waits for a brace still to come (`NoneWaits`). The second
  part is needed because SCOPE looks back from a brace to the last semicolon or
  opening brace: `class` among the parameters of a function would otherwise open a
  scope at the next brace. A closing brace does not settle a keyword, an opening one
  or a semicolon does;
- no namespace stands in a type (`NamespacesFirst`), so that the innermost type is
  the last scope and the namespaces are all before it;
- behind every comment stands a declaration with its end (`HasEnd`). What comes
  later cannot change how it is read (`SameEntity`), and neither the scopes before it,
  as each value of a walk depends on the tokens before it only;
- the writer's notes are the entities read behind the comments.

Each of the writer's steps then has to show two things of the tokens it adds, from
any state that is `Ready` (`WriteKeeps`): that they leave it so, and that the
declaration they hold is told as what it is. For the first, `ReadyOver` steps over a
token that is no brace and no label, `BlockSkipped` over a body or an initialiser,
`EnumSkipped` over an enumeration, whose `class` does open a scope that its brace
closes again, and `ScopeOpened`, `ScopeClosed` and `ScopeLabelled` over what the
writer means as a scope. The second is `Classify` of six signatures.

*Members.* `FieldsAreOwn` has the reader look at the body of a type a second time,
by statements, once the file is complete. `FieldsInv` says, of the file as far as it
is written, that the documented types are told apart by where they stand and that each

- begins behind its comment with its keyword, its name and its brace (`Headed`);
- if it is still open, has been read up to here (`InBody`): as many braces are open in
  its body as types stand inside it; the access that would hold is the writer's; its
  fields are the members of its own the writer has put down. The statement that is
  being read has nothing in it, or, behind a function defined in place, whose body
  ends no statement, parentheses, which is why the next member is taken for a
  function and missed (`afterBody`). While a type is open inside, the statement is no
  data, whatever its words;
- if it is closed, ends at the first brace that closes it (`Ended`), with its members.

A step of the writer adds a sentence: words, perhaps a body, perhaps a semicolon
(`Sentence`). `SameParsed` says that what was read of a body does not depend on what
follows. In a type further out than the innermost, a sentence is between braces
and changes nothing (`DeepRead`); in the innermost, `FlatRead` joins its words to the
statement, and `QuietEnds`, `DataEnds`, `BodyRead` and `LabelRead` say what it leaves: no
member, one, an open statement behind a body, another access. `TypeOpens`,
`BodyBegins`, `TypeCloses` and `BodyEnds` say what a brace does to the types outside
it and to its own. `FieldsAreTold` takes `Ended` to what `BodyAfter` and `ParseFields`
make of the complete file.

*A page.* `MembersInsideTheirType` speaks of finished sections and tells declarations
apart by their namespace too, which the code's key leaves out (`KeyMeans` says what
equal keys mean). `MembersInv` says of an
unfinished one that entries and calls stand inside their owner (`WrittenInside`,
`CalledInside`), that no key is written twice (`WrittenOnce`), and that every
entity is written, or called for, or its owner is not written yet
(`NoneForgotten`). When no call is left, an entity that is missing waits for an
owner; take the first missing one of the file: `PagesAssumption` puts its owner
before it, so the owner is written, and nothing is missing. This replaces an
induction over the depth of the types. The lists of a module's entities are recursive
functions, and what they list is shown by induction over the prefix.

*The run.* `PublishesWhatItRead` speaks of finished runs only. `EmptyInv` says the directory is
empty while sources are read; `PackageInv` that the diagrams to come are those of the
package being written; `PublishedInv` that what is there belongs to what is done. The
last step of a run turns these into the property: no package is left, so no more
can be there and no less.

### Only model-checked

- `HeadLeaves`, `WaitingIsOffered` and `ReadToTheEnd`: liveness is beyond the prover.

Every other property of the passing runs is stated by a theorem.

## Not modelled

- Positions, view geometry, unit conversions and clamping; times, which the core
  passes on as they come. An event older than the last would break the rules, and
  nothing in the source excludes it.
- Allocation failure, in Create and in Start.
- A receiver that calls back into its source from Receive (forbidden by
  ARCHITECTURE.md), and `stop` off the main thread (calls are serialized).
- The end of the counters' ranges: contacts, samples and ordinals of the core are
  64 bits wide and start at zero. In the fake source a script chooses its ordinals,
  and Stop adds one to the last without a check, so a script that ends on the
  greatest would be cancelled with ordinal 0; `OrdinalValues` has the arithmetic,
  the script of the run stops short of it.
- A fake script that reuses a closed contact's identity: the rules allow it.
- A capability mask that is replaced while samples taken under the old one wait,
  and a jar of which only a part was downloaded. Both are in the models and both
  happen; ARCHITECTURE.md:142 admits the first and nothing promises anything of the
  second, so no property is about them.
- In the documentation build: which Python is picked, Sphinx, and the site of an
  earlier build, which is written over and not cleared. A Python whose creation was
  cut short (`Bare`) exists, so no later build repairs it; nothing promises that.
- In the page generator: the C domain, trailing member descriptions, enumerators,
  base clauses, operators and macros, package summaries, and the wording of a page.
- `conf.py` holds constants for Sphinx. The examples and the manual pen check, the
  build files and the tests keep no state and no rule of their own.

### What the page generator does not read

The files of `api_reader` are C++ that the generator is written for. Reading its
code shows C++ that it is not; none of this is in the repository's sources today.

- *Lexer:* a digit separator (`1'000`) opens a character literal; a raw string
  with an encoding prefix (`u8R"..."`) is read as an ordinary one; a line comment
  that a backslash continues ends with its line.
- *Comments:* the text that follows a `{warning}` or `{returns}` line goes to the
  details and not under the tag, although a comment says that a continuation line
  "extends whatever tag was last opened" (:303). `EveryLineToldOnce` says only that
  it is told. A comment that names a `{file}` anywhere, in an example too, is the
  module's (:731): its notes, warnings, conditions, parameters and returns are read
  and not written. What a line holds is abstract, so a line of an example behind
  `///` that ends in `*/`, and loses it (:240), is not seen.
- *Declarations:* a function that returns `struct X`, and a template over
  `class T`, are taken for the type; a type that is only declared gets the next
  body there is; a member behind a method defined in place is missed (the models
  have this one, `afterBody`), and so is `int pub = 3`; a public member of a private
  nested type is published; `LIGHTPHI_FLAG_ENUM(X)` before a name is taken for it.
- *Sections:* what is written already is known by kind, owner and signature (:963),
  so of declarations alike in two namespaces of one file the second gets no entry;
  two documented types of one name in one file share their members' entries, which
  stand under the first. `MembersInsideTheirType` names both as its exceptions, and
  the pages of its run have both. A type nested in an undocumented one, or two deep,
  has a link that names no entry.
- *Pages:* sources that differ in their suffix only share a diagram's file, and a
  package named `index` the index's. `NamesAssumption` excludes both.

## Plan

1. The rest of `DeclarationReader`: enumerators, base clauses and macros, and the C
   domain; then the diagram's edges from a file's text to `ApiSections`.
