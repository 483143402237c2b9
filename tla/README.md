# TLA+ models of the issue-creation scripts

The repository's `src/` holds three Python scripts that turn the issue draft
`ISSUES_DRAFT.md` into GitHub issues through the `gh` command-line tool:

| script | what it does |
|---|---|
| `src/create_issues_auto.py` | `check_gh_cli`, then `parse_issues_from_draft`, then the `--start/--end` slice, then one `create_issue` per issue with a 1 s sleep between real calls, then the summary and exit status. The parser does a regex split of `### Issue #n:` headings, takes labels from backticks, and extracts a description block. |
| `src/create_issues.py` | The same flow over a hard-coded table `ISSUES` of (title, labels, start_line, end_line). Each iteration re-reads the draft (`extract_issue_body`) inside `main`'s `try/except Exception`. |
| `src/create_issues_no_labels.py` | No gh check, no range and no dry run. It parses the draft, puts the labels into the body and calls `gh issue create` for every issue. Its `create_issue` catches only `CalledProcessError`. |

The parts interact only through the outside world:
* the gh CLI: is it installed and authenticated, and what does one call do?
* the draft file: is it readable, what lines does it hold, and does it still match the table's line numbers?
* the GitHub repository the calls add to, which is shared by successive runs.

Each run is one sequential process. The only blocking points are the `gh` subprocess and the rate-limit sleep.

## Modules

| module | models | how |
|---|---|---|
| `PySlice` | Python's `s[a:b]` | `ClampIndex` normalises a bound: negative counts from the end, then clamp to `0..len`. `Slice` applies both bounds. `InclusiveRange` is the reading the help text gives. |
| `CreateIssuesAuto` | `create_issues_auto.py` | One action per branch of `main` (see below). The draft is abstracted to the number of issues it yields. |
| `CreateIssues` | `create_issues.py` | The same shape over `ISSUES`. `BodyUnreadable` is an `extract_issue_body` that raises. |
| `CreateIssuesNoLabels` | `create_issues_no_labels.py` | `CreateCrashes` is the uncaught OSError. |
| `IssueBatch` | the batch contract (spec sections 6 and 7) | The abstract specification: `Abort`, `Start`, `Create`, `Preview`, `Fail`, `Finish`. |
| `DraftParser` | `parse_issues_from_draft`, `extract_issue_body` | Pure operators over a draft given as a sequence of line kinds. |
| `DraftLayout` | the drafts the parsers are written for | Generates drafts block by block, with what each issue should become and the table's line ranges. |
| `LabelCodec` | the label string | `','.join` in the parser, then `split(',')`/`strip`/filter in `create_issue`, over strings of characters. |
| `CreateIssuesRetry` | successive runs of `create_issues_auto.py` | The operator reruns each reported failure with `--start k --end k` against the same repository. |
| `ScriptLemmas`, `CreateIssuesAuto_proofs`, `CreateIssues_proofs`, `CreateIssuesNoLabels_proofs`, `CreateIssuesRetry_proofs` | | TLAPS proofs. |
| `MC_*` | | The constants for TLC. |

### The script models

State of `CreateIssuesAuto`:
* `args`: what argparse returns.
* `env`: gh installed and authenticated, draft readable, number of issues.
* `pc`: where `main` is.
* `todo`: the selected issues not yet processed.
* `i`: the `enumerate` counter.
* `created` and `failed`: the two counters.
* `remote`: the issues created on GitHub, in order.
* `log`: the sequence of external effects `"create"` and `"sleep"`.
* `report`: the printed summary.
* `exitCode`: what `main` returns.

Actions:
* `GhCheckPasses` and `GhCheckFails` are the two outcomes of `check_gh_cli`.
* `ParseDraft` and `ParseFails` are the two outcomes of the `try` around the parse. `ParseDraft` includes the slice.
* `DryRunIssue`, `CreateSucceeds` and `CreateFails(e)` are the loop iterations. `e` is a non-zero exit or an OSError caught by `main`. Each iteration includes its trailing rate-limit sleep `SleepAfter`.
* `Summary` prints the summary and returns `0 if failed_count == 0 else 1`.

What a gh call does is a nondeterministic choice among exit 0, a non-zero exit and an OSError.

### Refinement

`CreateIssuesAuto` and `CreateIssues` are both shown to implement `IssueBatch`:

    Batch == INSTANCE IssueBatch WITH phase <- BatchPhase, dry <- args.dryRun,
               pending <- todo, remote <- remote, failures <- failed, exit <- exitCode

* `BatchPhase` maps `pc` to a phase: `"idle"` before the loop, `"running"` in it, `"finished"` after `return`.
* `ImplementsIssueBatch == Batch!Spec`, fairness included, is a PROPERTY of both safety runs.
* `CreateIssuesNoLabels` is not refined. It would fail to, and the `nolabels_crash` run already shows the reason: it can finish with issues still pending.

### The parser model

A draft is a sequence of line kinds plus a flag for a final newline. The kinds are the lines the regular expressions tell apart: heading, a heading inside other text, labels with a token, labels without one, a bare `**Labels:**`, the `**Description:**` header, blank, `---`, and text with or without a backtick token. A record's title is the index of its heading line. Its body is the indices of the lines it is made of.

`ParseIssues` follows the code step by step:
* `re.split` cuts at each heading match. The match needs a newline and is unanchored, so text in front of an inline heading stays in the previous section.
* The first `**Labels:**` match is used. Its `\s+` can run over blank lines to the next line.
* The Description regex needs `\s*\n\n` after the header, and its lazy group stops at the first `---` line followed by a newline.
* Otherwise the fallback `split('\n\n', 2)[2]` is used.

`ExtractIssueBody` follows `extract_issue_body`: the 1-based line slice, skip to the first `**Description:**`, drop `---` lines, strip.

Both operators were compared with the Python functions on 10,000 generated drafts and table ranges, by rendering every line kind as concrete text and comparing the resulting strings. `LabelCodec`'s operators were compared on 600 label lists. They agreed on all of them. Leading and trailing whitespace, which `strip()` removes, is not represented.

## Runs

| run | cfg | checks | result |
|---|---|---|---|
| auto_safety | MC_CreateIssuesAuto.cfg | TypeOK, ExitZeroMeansAllCreated, SummaryAccounts, DryRunNoSideEffects, RateLimitSpacing, ImplementsIssueBatch | pass (8025 states) |
| auto_range | MC_CreateIssuesAuto_range.cfg | CreatesRequestedRange | violation |
| table_safety | MC_CreateIssues.cfg | the same six properties for create_issues.py | pass (7769 states) |
| nolabels_safety | MC_CreateIssuesNoLabels.cfg | TypeOK, ExitZeroMeansAllCreated, SummaryAccounts | pass (199 states) |
| nolabels_crash | MC_CreateIssuesNoLabels_crash.cfg | EveryIssueAttempted | violation |
| parser_layout | MC_DraftLayout.cfg | ParseFollowsLayout, ScriptsAgree | pass (2404 drafts) |
| parser_tight | MC_DraftLayout_tight.cfg | ParseFollowsLayout | violation |
| table_stale | MC_DraftLayout_stale.cfg | ScriptsAgree | violation |
| labels_roundtrip | MC_LabelCodec.cfg | LabelsRoundTrip | pass (157 token lists) |
| labels_comma | MC_LabelCodec_comma.cfg | LabelsRoundTrip | violation |
| retry_safety | MC_CreateIssuesRetry.cfg | RetryCompletes, CreatesOnlyWanted, with lost responses | pass (5153 states) |
| retry_ghost | MC_CreateIssuesRetry_ghost.cfg | NoDuplicateIssues, with lost responses | violation |

What the properties mean:

* **ExitZeroMeansAllCreated.** Status 0 means exactly the selected issues are on GitHub, once each and in order. In a dry run it means none are.
* **SummaryAccounts.** The printed counts are true: "created" plus "failed" equals the number of selected issues.
* **DryRunNoSideEffects.** A dry run calls no `gh issue create` and never sleeps. `check_gh_cli` still runs `gh --version` in a dry run; the model does not track that call, which changes nothing.
* **RateLimitSpacing.** No two `gh issue create` calls are adjacent without a sleep between them. The sleep condition compares `i` with the whole list's length, not the slice's. The property is about calls only: a sleep skipped after an unreadable row of `create_issues.py`, which has no call to separate, would not break it.
* **ImplementsIssueBatch.** The script is a batch run: it processes the selected issues in order, each once, creating, previewing or failing it, and it exits 0 iff none failed.
* **ParseFollowsLayout.** For a draft in the block layout, the parser yields one record per block, with its title, the backtick tokens of its labels line and the whole description. This is the spec's "label list equals the backtick-quoted tokens" together with the code's comment "everything after **Description:** until next --- or end".
* **ScriptsAgree.** `create_issues.py` posts the same body as `create_issues_auto.py` for the same issue.
* **LabelsRoundTrip.** The `--label` arguments are the tokens, stripped, with blank ones dropped.
* **NoDuplicateIssues.** Across all runs, GitHub holds each issue at most once. It is proved for reruns without lost responses and a first `--start` of 0 or more. It is violated with lost responses, and with a negative start.
* **RetryCompletes.** Once every reported failure has been rerun and the last run returns 0, the set of issues on GitHub is exactly the set the first run selected: every one of them, and no other.
* **CreatesOnlyWanted.** An action property: every step of the first run or of a rerun either leaves GitHub alone or adds one issue of the first run's range. It depends on the index printed for an issue (`enumerate(..., start=start_idx+1)`) selecting, when rerun, an issue of that range.

### Bounds

* Drafts and tables have at most 3 issues (4 for the no-labels script). That lets a failure fall before, between and after successes, and lets a slice be empty, partial or full.
* `--start` ranges over -2..4 and `--end` over -1..4, plus "not given". This covers negative indices, the falsy 0, clamping past the end, and an empty slice.
* Generated drafts have up to two blocks, so a wrong boundary has a neighbouring block to take lines from. Each block has:
  * two label lines;
  * one or two paragraphs, with or without a backtick token;
  * an optional `---`.

  The draft may also have a preamble and a final newline.
* Label tokens have up to two tokens of up to two characters, which is enough for blank, padded and comma tokens.
* Reruns are bounded at 2. That covers two failures of one batch, or one issue failing twice.
* The retry runs take the first `--start` from {0, 1, 2}, not from negative values. A negative start breaks RetryCompletes and NoDuplicateIssues (see the printed-index finding), and these runs ask whether retrying works where the printed index is right. CreatesOnlyWanted also holds for negative starts: it was checked with `--start` in -4..4 and is proved for every start.

### Fairness

`WF_vars(Next)` models a single sequential process that always takes its next step. This is justified only if every gh call returns, and `subprocess.run` has no timeout, so that assumption is listed as a hazard. In `CreateIssuesRetry` only the process's own steps are fair (`WF_rvars(RunNext)`): whether the operator reruns is up to them.

Deadlock checking is off because `pc = "done"` is meant to be final, and the operator may stop rerunning. `ImplementsIssueBatch` covers liveness instead: IssueBatch's fairness demands that every run finishes, so a stuck state violates it.

### Findings

* **Range (auto_range).** `--start`/`--end` are documented as 1-indexed and inclusive, but they feed a Python slice. `create_issues.py` has the same slice code and the same divergence.
  * `--start 0` or a negative start counts from the end.
  * `--end 0` means "all".

  On the documented domain the promise holds: `RequestedRangeCorrect` proves CreatesRequestedRange for every positive `--start` and `--end` (see Proofs).
* **No-labels crash (nolabels_crash).** `create_issues_no_labels.py` aborts on an OSError from a gh call. Spec section 7 allows only two kinds of failure: a missing tool, which is fatal before any work, and a per-issue failure, which is recorded and skipped. The property therefore assumes gh is on PATH and the draft has two or more issues. TLC finds a first call that raises anyway, for example because the argument list is too long. The process exits 1, never tries issue 2 and prints no summary.
* **Tight description (parser_tight).** Without a blank line after `**Description:**`, the description regex fails and a fallback is posted.
  * TLC's trace is a one-issue draft with one paragraph. `split('\n\n', 2)` gives two parts, so the body is `body_section.strip()`: the labels line, the header and the paragraph.
  * With two paragraphs the fallback posts `parts[2]`. Run on the real code, a two-issue draft gives:
    * issue 1 the body `Second para.\n\n---`: its first paragraph is lost and the separator is kept;
    * issue 2 a body that starts with its own `**Labels:**` line.
* **Stale table (table_stale).** `create_issues.py` takes bodies from hard-coded line ranges. After a one-line edit of the draft, an issue is created with its description cut off.
* **Comma in a label (labels_comma).** Labels travel as one `','`-joined string, so a token containing `,` is split or dropped. TLC finds the token `,` sent as no label. With tokens longer than the model's two characters, `a,b` becomes two labels.
* **Lost response (retry_ghost).** A gh call that creates the issue and still fails is reported as failed, and rerunning it creates a duplicate. With lost responses `RetryCompletes` still holds (retry_safety): retrying never loses an issue and never adds a foreign one, but it may create one twice. Without lost responses, `NoDuplicatesCorrect` proves that reruns never create a duplicate.
* **Printed index after a negative start (hazard at `create_issues_auto.py:186`).** The slice clamps a negative `start_idx` to 0, but `enumerate(..., start=start_idx+1)` does not. The printed indices are then 0 or below and name other issues. TLC finds three cases, and each was confirmed by running the real script:
  * one issue, `--start -1`: the issue is printed as `-1`, and rerunning `-1 -1` selects nothing, so RetryCompletes fails;
  * two issues, `--start -2`: issue 2 is printed as `-1`, and rerunning it creates issue 1 again;
  * three issues, `--start -3 --end -1`: a duplicate without any lost response, so NoDuplicateIssues fails.

  The wrong index still names an issue of the first run's range, so CreatesOnlyWanted holds.

## Proofs

TLAPS checks every proof to the last leaf, for every value of the constants.

`CreateIssuesAuto_proofs` proves:
* `TypeCorrect`.
* `ExitZeroCorrect`, `SummaryCorrect` and `DryRunCorrect` for the three safety invariants.
  * The invariants are not inductive. The strengthening `IInv` (checked with TLC first) says:
    * before the loop, nothing has happened;
    * in and after the loop, `created + failed + Len(todo) = Len(Selected)`, a dry run has no failures, `Len(remote) = created`, and with no failure `remote \o todo = Selected`;
    * a report equals the final counters;
    * exit 0 implies a report with `failed = 0`.
* `RateLimitCorrect` (`Spec => []RateLimitSpacing`).
  * The invariant `SpaceInv` adds three facts:
    * the log ends in a call only once `todo` is empty;
    * `i + Len(todo) <= len(all_issues) + 1`, from `SelectedBound`: the slice starting at `start_idx` ends by the end of the list;
    * the log is empty before the loop.
  * Together these mean that the skipped sleep after index `len(all_issues)` never leaves a call to follow.
* `ImplementsBatchSafety` (`Spec => Batch!SafeSpec`).
  * `BatchInit` shows the initial states map to IssueBatch's.
  * `BatchStep` shows that every step maps to a batch step or a stutter, with one case per action.
  * The fairness part of the refinement is checked by TLC only.
* `RequestedRangeCorrect`: if every `--start` and `--end` tried is positive, then `Spec => []CreatesRequestedRange`. This is the documented domain of the help text, and outside it the auto_range run refutes the property.
  * `ArgsInv` says `args` stays as parsed.
  * `SelectedIsRequestedRange` shows that on that domain `issues[start-1:end]` equals the inclusive range start..end. When `start - 1` lies past the list, both sides are empty.
  * Together with `ExitZeroCorrect` this gives the theorem.

`CreateIssues_proofs` and `CreateIssuesNoLabels_proofs` prove the same results for the other two scripts, using the same `IInv` argument. `CreateIssues_proofs` proves `TypeCorrect`, `ExitZeroCorrect`, `SummaryCorrect`, `DryRunCorrect`, `RateLimitCorrect` and `ImplementsBatchSafety`. An unreadable draft adds one case (`BodyUnreadable`): the iteration makes no call and counts as failed, also in a dry run, and outside a dry run it still sleeps. For that reason a dry run can count failures there, and `SpaceInv` shows the log still never ends in a call that another call can follow. `CreateIssuesNoLabels_proofs` proves `TypeCorrect`, `ExitZeroCorrect` and `SummaryCorrect`. Its crash leaves status 1 and no summary, so it satisfies both properties.

`ScriptLemmas` holds the facts all four proof modules use:
* `ClampIndexRange`, `SliceType` and `SliceBound` on Python's slice;
* `AppendHeadTail` and `CountStep` for one loop iteration;
* `LogAppendSpaced` and `LogSleepSpaced` for the log of calls and sleeps.

`CreateIssuesRetry_proofs` proves three results about reruns. The first two assume the first `--start` is 0 or more (`StartArgs \subseteq Nat`), because both fail for a negative start (see Findings).

All three rest on one fact about the printed index. For `--start` of 0 or more, `LoopIdx` holds in the loop: entry j of `todo` is the issue `RerunIssue(i + j - 1)` that `--start i+j-1 --end i+j-1` selects. `RerunIssue(0)` is the last issue, because `--end 0` means "all". `StartSelected` proves this for the slice at the start, and `LoopIdxTail` shows one iteration keeps it.

* `NoDuplicatesCorrect`: if a failed call creates nothing, then `RSpec => []NoDuplicateIssues`. The inductive invariant `DupInv` says:
  * `remote` and `todo` have no repetitions;
  * `todo` is disjoint from GitHub and from the issues the reported failures rerun;
  * those issues are not on GitHub, and distinct reported indices rerun distinct issues;
  * a process that has not started its loop is either the first one, with nothing done yet, or a rerun of one index whose issue is on neither list.
* `RetryCompletesCorrect`: `RSpec => []RetryCompletes`, also when a failed call creates its issue. The inductive invariant `CompInv` says that every wanted issue is one of these:
  * on GitHub;
  * rerun by a reported failure;
  * still in `todo`;
  * the issue of the rerun in flight (`InFlight`).

  It also says that every reported index lies in `0..len(all_issues)`, so its rerun selects exactly one issue (`RerunSelected`, `FailedIndex`).

  For the other inclusion, the invariant `RemInv` extends `OnlyInv`:
  * every issue on GitHub is in the first run's range (`wanted`);
  * before the first run's loop, GitHub is empty.

  The second clause is needed because the first run's `ParseDraft` sets `wanted`. It was checked with TLC first, with the same bounds as `OnlyInv`.
* `CreatesOnlyWantedCorrect`: `RSpec => CreatesOnlyWanted`, for every `--start`, with no hypothesis. `RerunSel(k)` is the set of issues `--start k --end k` selects. The inductive invariant `OnlyInv` says these sets all lie in the first run's range:
  * the issues of `todo` in a real run;
  * `RerunSel` of every printed index still to come, and of every reported index;
  * `RerunSel` of the rerun in flight.

  `FirstSel` is the key lemma. For each entry of the first slice, `RerunSel` of its printed index lies inside the slice, whatever the sign of `--start`. When a negative start is clamped, the set is the issue itself, an earlier issue of the slice, or nothing. `SliceElems` and `IdSubSeqElems` compute a slice of `<<1, ..., n>>` as an interval. `OnlyAction` derives the action property from `OnlyInv`.

Before each invariant was proved, TLC checked it as an invariant of the retry model. `OnlyInv` was checked with `--start` in -4..4, `--end` in {-2, -1, 0, 1, 3}, three issues and three reruns, with and without lost responses.

The proofs rest on constant assumptions:
* `MaxIssues \in Nat`;
* the argument sets are sets of integers;
* `None` is neither an integer nor a summary record;
* `GhPostsThenFails` is Boolean and `MaxReruns \in Nat`.

The following are only model-checked:
* The fairness half of `ImplementsIssueBatch`. Liveness and ENABLED are out of the prover's reach.
* The parser and label properties (`ParseFollowsLayout`, `ScriptsAgree`, `LabelsRoundTrip`). `DraftLayout`, `DraftParser` and `LabelCodec` use the folds of SequencesExt (`FoldLeft`, `FlattenSeq`), which are RECURSIVE operators. The prover loses its SMT backend in any module that reaches them. A statement about every draft would also need induction over data, which the installed provers cannot instantiate.
* The violated properties. Each is refuted by a TLC trace. CreatesRequestedRange is also proved on the documented domain of positive arguments (`RequestedRangeCorrect`).

## Not modelled

* A gh call that hangs: `subprocess.run` has no timeout. The fairness assumption says every call returns.
* Drafts that quote a heading in a paragraph, or that have a bare `**Labels:**` followed by a tokenised line. The parser model handles them, but no generated layout contains them, so no run asserts what they should give.
* Printing and argparse. Output has no state, and argparse's result is the model's input.
