----------------------------- MODULE EditCommand -----------------------------
(***************************************************************************)
(* The commands that edit one file (cmd/replace, delete, insert_before,    *)
(* insert_after, append: internal/toolenv/source.go, internal/toolcmd) and *)
(* cmd/query, and recipes (cmd/recipe, core/recipe.go) over one file.  A   *)
(* command loads the file, transforms what it read and writes the result   *)
(* in place; a recipe tries each step without writing, compares the score  *)
(* with the step's minimum and then transforms the file again.             *)
(***************************************************************************)
EXTENDS CodeQuery, TLC

CONSTANTS
  Texts,      \* what the file may hold at first
  Others,     \* what other programs write into it
  Selectors,  \* the sequences of tokens given as selectors; <<>> for none
  Recipes,    \* recipes: sequences of steps, records of selector, method, min
  Contents    \* the contents inserted

Methods == {"replace", "delete", "insert_before", "insert_after", "append", "query"}
StepMethods == Methods \ {"query"}

ASSUME EditAssumptions ==
  /\ \A t \in Texts \union Others : t \in Seq(Symbols)
  /\ \A ts \in Selectors : ts \in Seq(Tokens)
  /\ \A r \in Recipes : r \in Seq([ts: Selectors, method: StepMethods, min: 1 .. 100])
  /\ \A new \in Contents : new \in Seq(Symbols) /\ new # <<>>

VARIABLES
  disk,     \* the file
  command,  \* what runs: steps, whether a recipe, on a file, dry, new content
  at,       \* where it is
  step,     \* the step that runs
  src,      \* the source it has read
  result,   \* what Transform returned
  applied,  \* the response: the file was written
  done,     \* history: the steps that changed the file, each with its score
  edited,   \* history: somebody else wrote the file while the command ran
  theirs,   \* history: what the file held at first, or somebody else last wrote
  untried   \* history: the steps whose dry run failed on the file

editVars == <<disk, command, at, step, src, result, applied, done, edited, theirs, untried>>

EditTypeOK ==
  /\ at \in {"start", "loaded", "transformed", "writing", "preflight", "apply",
            "done", "failed", "torn"}
  /\ step \in 1 .. Len(command.steps) + 1
  /\ result.score \in 0 .. 100
  /\ applied \in BOOLEAN /\ edited \in BOOLEAN
  /\ \A i \in DOMAIN done : done[i].step \in DOMAIN command.steps
  /\ untried \subseteq DOMAIN command.steps

EditStep(ts, method) == <<[ts |-> ts, method |-> method, min |-> 0]>>

\* A command runs one step, a recipe its own.
SingleSteps == {EditStep(ts, method) : ts \in Selectors, method \in Methods}
SingleRuns == [steps: SingleSteps, recipe: {FALSE}, file: BOOLEAN, dry: {FALSE}, new: Contents]
RecipeRuns == [steps: Recipes, recipe: {TRUE}, file: {TRUE}, dry: BOOLEAN, new: Contents]

EditInit ==
  /\ disk \in Texts
  /\ command \in SingleRuns \union RecipeRuns
  /\ at = "start" /\ step = 1 /\ src = <<>> /\ result = NoResult
  /\ applied = FALSE /\ done = <<>> /\ edited = FALSE /\ theirs = disk /\ untried = {}

This == command.steps[step]
Blank(text) == text = <<>>
Fails == at' = "failed" /\ UNCHANGED <<src, result, applied, done, step>>

\* The selector of a step: nothing is a query only for append.
Parsed(ts) == IF ts = <<>> THEN [ok |-> TRUE, q |-> <<>>]
              ELSE LET r == ParseDSL(ts) IN [ok |-> r.ok, q |-> <<r.q>>]

-----------------------------------------------------------------------------
(* The commands *)

\* The required fields, and LoadSource: the file, or the source given inline.
LoadSource ==
  /\ at = "start" /\ ~command.recipe
  /\ IF This.ts = <<>> /\ This.method # "append" THEN Fails
     ELSE \/ at' = "loaded" /\ src' = disk /\ UNCHANGED <<result, applied, done, step>>
          \/ command.file /\ Fails
  /\ UNCHANGED <<disk, command, edited, theirs, untried>>

\* Query refuses a source with syntax errors; Transform does not look.
TransformSource ==
  /\ at = "loaded"
  /\ LET query == Parsed(This.ts)
     IN  IF ~query.ok \/ (This.method = "query" /\ ~Valid(src)) THEN Fails
         ELSE LET r == IF This.method = "query"
                       THEN [NoResult EXCEPT !.ok = TRUE, !.out = src,
                               !.targets = FindTargets(src, Nodes(src), query.q[1])]
                       ELSE Transform(src, query.q, This.method, command.new)
              IN  IF r.ok THEN /\ at' = "transformed" /\ result' = r
                               /\ UNCHANGED <<src, applied, done, step>>
                  ELSE Fails
  /\ UNCHANGED <<disk, command, edited, theirs, untried>>

\* Mutant: the response does not say what was skipped.
SkipWriteApplied ==
  /\ at = "transformed" /\ at' = "done" /\ applied' = command.file
  /\ ~command.file \/ Blank(result.out) \/ result.out = src
  /\ UNCHANGED <<disk, command, step, src, result, done, edited, theirs, untried>>

\* WriteModifiedSource writes nothing for inline source, a result that is
\* blank, or one that is the source.
SkipWrite ==
  /\ at = "transformed" /\ at' = "done" /\ applied' = FALSE
  /\ ~command.file \/ Blank(result.out) \/ result.out = src
  /\ UNCHANGED <<disk, command, step, src, result, done, edited, theirs, untried>>

\* os.WriteFile truncates the file and writes into it.
Truncate ==
  /\ at = "transformed" /\ at' = "writing"
  /\ command.file /\ ~Blank(result.out) /\ result.out # src
  /\ disk' = <<>>
  /\ UNCHANGED <<command, step, src, result, applied, done, edited, theirs, untried>>

\* What a failing write has written stays in the file.
WriteModified ==
  /\ at = "writing"
  /\ \/ /\ at' = "done" /\ disk' = result.out /\ applied' = TRUE
        /\ done' = Append(done, [step |-> step, score |-> result.score])
     \/ at' = "torn" /\ (\E k \in 0 .. Len(result.out) - 1 : disk' = SubSeq(result.out, 1, k))
        /\ UNCHANGED <<applied, done>>
  /\ UNCHANGED <<command, step, src, result, edited, theirs, untried>>

-----------------------------------------------------------------------------
(* ExecuteRecipe *)

\* ValidateRecipe looks at every step before any runs.
ValidateRecipe ==
  /\ at = "start" /\ command.recipe
  /\ IF /\ command.steps # <<>>
        /\ \A i \in DOMAIN command.steps :
             LET s == command.steps[i]
             IN  IF s.ts = <<>> THEN s.method = "append" ELSE ParseDSL(s.ts).ok
     THEN at' = "preflight" /\ UNCHANGED <<src, result, applied, done, step>>
     ELSE Fails
  /\ UNCHANGED <<disk, command, edited, theirs, untried>>

Finished == step' = step + 1 /\ at' = IF step = Len(command.steps) THEN "done" ELSE "preflight"

\* calculateOverallConfidence, of the one file: it counts if it is changed,
\* and a low score is lowered once more.
OverallConfidence(text, r) ==
  IF r.out = text THEN 0 ELSE Clamp(IF r.score < 70 THEN r.score - 10 ELSE r.score)

\* The trial of a step has gone well.
Passed == IF command.dry THEN Finished ELSE at' = "apply" /\ UNCHANGED step

\* Mutant: the score is not compared.
PreflightUngated ==
  /\ at = "preflight"
  /\ LET r == Transform(disk, Parsed(This.ts).q, This.method, command.new)
     IN  \/ Passed /\ result' = r /\ UNCHANGED <<src, applied, done, untried>>
         \/ Passed /\ result' = NoResult /\ untried' = untried \union {step}
            /\ UNCHANGED <<src, applied, done>>
         \/ Fails /\ UNCHANGED untried
  /\ UNCHANGED <<disk, command, edited, theirs>>

\* The dry run of a step.  No match is no objection (requireRecipeConfidence),
\* and a file that fails (it cannot be read, or Transform or the policy refuses
\* it) counts as one without a match: TransformFiles returns no error for it.
Preflight ==
  /\ at = "preflight"
  /\ LET r == Transform(disk, Parsed(This.ts).q, This.method, command.new)
     IN  \/ /\ r.ok => OverallConfidence(disk, r) >= This.min
            /\ Passed /\ result' = r /\ UNCHANGED <<src, applied, done, untried>>
         \/ Passed /\ result' = NoResult /\ untried' = untried \union {step}
            /\ UNCHANGED <<src, applied, done>>
         \/ Fails /\ UNCHANGED untried
  /\ UNCHANGED <<disk, command, edited, theirs>>

Written(r) ==
  /\ r.ok /\ r.out # disk
  /\ disk' = r.out
  /\ done' = Append(done, [step |-> step, score |-> OverallConfidence(disk, r)])

\* TransformFiles reads the file again, and writes it whole; a file without a
\* match is left.  If the file fails it is rolled back and the recipe goes on
\* all the same, or the transaction fails with it and the recipe ends: with the
\* change in the file where the rollback fails, or the write was done.
ApplyStep ==
  /\ at = "apply"
  /\ LET r == Transform(disk, Parsed(This.ts).q, This.method, command.new)
         kept == UNCHANGED <<disk, done>>
     IN  \/ Finished /\ result' = r /\ IF r.ok /\ r.out # disk THEN Written(r) ELSE kept
         \/ /\ \/ Finished /\ result' = NoResult
               \/ at' = "failed" /\ UNCHANGED <<step, result>>
            /\ kept \/ Written(r)
  /\ UNCHANGED <<src, applied, command, edited, theirs, untried>>

-----------------------------------------------------------------------------
\* Another program writes the file while the command runs, once.
OutsideEdit ==
  /\ at \notin {"start", "done", "failed", "writing", "torn"} /\ ~edited
  /\ disk' \in Others \ {disk} /\ edited' = TRUE /\ theirs' = disk'
  /\ UNCHANGED <<command, at, step, src, result, applied, done, untried>>

\* main of a command, one step after another.
Runs(method) ==
  /\ ~command.recipe /\ This.method = method
  /\ LoadSource \/ TransformSource \/ SkipWrite \/ Truncate \/ WriteModified

ReplaceCommand      == Runs("replace")
DeleteCommand       == Runs("delete")
InsertBeforeCommand == Runs("insert_before")
InsertAfterCommand  == Runs("insert_after")
AppendCommand       == Runs("append")
QueryCommand        == Runs("query")
RecipeCommand       == ValidateRecipe \/ Preflight \/ ApplyStep

EditNext ==
  \/ ReplaceCommand \/ DeleteCommand \/ InsertBeforeCommand \/ InsertAfterCommand
  \/ AppendCommand \/ QueryCommand \/ RecipeCommand
  \/ OutsideEdit

EditSpec == EditInit /\ [][EditNext]_editVars

-----------------------------------------------------------------------------
(* Properties *)

\* A result of targets; an append may be made without.
Finding == at = "transformed" /\ (This.method = "append" => result.targets # <<>>)
Editing == Finding /\ This.method # "query"

\* A selector finds what its grammar says: | before & before > and >>, a
\* chain read from the right, ! within a kind; for every supported selector.
\* No selector finds a target twice: no edit is made twice in one place.
SelectorsMean ==
  /\ Finding /\ Supported(This.ts) => SetOf(result.targets) = Means(src, This.ts)
  /\ \A i, j \in DOMAIN result.targets : result.targets[i] = result.targets[j] => i = j

\* An edit changes the text of its targets, or the places before or after
\* them, and nothing else: of disjoint targets, and before any targets.  What
\* it leaves is a text.
EditExact ==
  /\ result.out \in Seq(Symbols)
  /\ Editing /\ (This.method \in {"insert_before", "append"} \/ Disjoint(result.targets))
     => result.out = Meant(src, result.targets, This.method, command.new)

\* An edit that leaves an error node in the tree (findErrors) scores below the
\* threshold at which edits are applied without asking (0.85).  What the parser
\* repairs with missing tokens counts as no error, and keeps its score.
BrokenNeverHigh ==
  Editing /\ ~Valid(result.out) => result.score < 85

\* A recipe applies its steps in order, each at most once, and none whose score
\* is below its minimum, but for those whose dry run failed on the file: unless
\* the file was written by another between the trial of a step and the step.  A
\* recipe that has applied nothing, a dry run among them, has left the file to
\* others.  What it has applied is of steps before the one that runs, but for a
\* step that failed after its write, which ends the recipe.
RecipeGate ==
  command.recipe =>
    /\ command.dry => done = <<>>
    /\ done = <<>> => disk = theirs
    /\ ~edited => \A i \in DOMAIN done :
         done[i].step \notin untried => done[i].score >= command.steps[done[i].step].min
    /\ \A i, j \in DOMAIN done : i < j => done[i].step < done[j].step
    /\ \A i \in DOMAIN done :
         done[i].step <= step /\ (done[i].step = step => at = "failed")

\* README.md: "Morfx only mutates files after the step meets its
\* `min_confidence` gate".  A step whose dry run failed on the file has met none.
GateBeforeChange ==
  command.recipe /\ ~edited =>
    \A i \in DOMAIN done : done[i].score >= command.steps[done[i].step].min

\* The response says applied exactly if the file holds the result, which is the
\* source changed.  A command that was refused, or had nothing to change, has
\* left the file to others, also when another wrote it meanwhile.  Only a write
\* that fails leaves part of the result, and then nothing is said to be applied.
AppliedTrue ==
  ~command.recipe =>
    /\ applied => /\ at = "done" /\ command.file
                  /\ disk = result.out /\ result.out # src
                  /\ ~edited => src = theirs
    /\ ~applied /\ at \notin {"writing", "torn"} => disk = theirs
    /\ at = "torn" => /\ ~applied /\ command.file
                      /\ \E k \in 0 .. Len(result.out) - 1 : disk = SubSeq(result.out, 1, k)
    /\ applied = (done # <<>>)

\* What a command says of its file is so.
EditInv == EditTypeOK /\ AppliedTrue

\* providers/base/provider.go: targets are replaced "from end to start to
\* preserve positions".  A target inside another moves the end of the other.
PositionsPreserved ==
  Editing => result.out = Meant(src, result.targets, This.method, command.new)

\* docs/standalone-tools.md: append goes "to a specific target scope", or to a
\* place of the provider's choice "when target is omitted".  With a compound
\* selector it goes to the end of the file, whatever the selector finds.
AppendAtTarget ==
  at = "transformed" /\ This.method = "append" /\ This.ts # <<>> =>
    \E n \in Means(src, This.ts) : result.out = DoAppend(src, n.to, command.new)
=============================================================================
