# TLA+ models of compliance-to-policy

This directory holds TLA+ models of the conversion engine in `src/c2p`, its PVP
plugins (PVP: policy validation point, the tool that checks live systems), the
report viewer, the heterogeneous sample and the common utilities. It also holds the
TLC configurations that check the models. Every definition is translated from the
Python source. `PROJECT.json` records:
- the line range each definition models;
- the runs;
- the mutants: for each property, a plausible bug that breaks it;
- the findings;
- the hazards.

## 1. Inventory of the system

The program is synchronous and single-threaded. Every conversion is one process
that reads documents, transforms them, and writes or prints the result. There are
no threads, messages or timeouts. What makes the code hard to test is different:
- loops whose result depends on iteration order ("last one wins", Python set order);
- values that silently drop out of the output;
- exceptions raised half-way through an in-place mutation or a directory write;
- variables carried from one loop iteration into the next;
- conversions with edge cases: whitespace, the OSCAL value pattern, timestamps, `str.replace`, natural sort;
- sequences of calls on one long-lived object or one output directory.

| Component | Source | State it keeps | Operations | Module |
|---|---|---|---|---|
| Property grouping | `framework/oscal_utils.py` `group_props_by_remarks` | none (pure) | group a prop list by `remarks` | `C2P` |
| Rule/parameter extractor | `framework/c2p.py` `_get_rule_sets`, `_find_rule_set`, `_get_parameters`, `get_policy` | reads the loaded component-definition | build `RuleSet`s and `Parameter`s | `C2P` |
| PVP result model | `framework/models/pvp_result.py` | the `PVPResult`, mutated in place by `set_defaults` | defaulting of title, description and evaluated_on | `C2P` |
| C2P object | `framework/c2p.py` `C2P` | component-definition, replaceable `pvp_result` | `__init__`, `set_pvp_result`, `result_to_oscal`, `get_policy` | `C2P` |
| OSCAL projection | `c2p.py` `_get_result`, `_get_observations`; `oscal_utils.py` `add_prop`, `whitespace`, `reviewed_controls` | none | PVPResult + rule sets -> AssessmentResults | `C2P` |
| Report renderer | `tools/viewer/viewer.py` | none | AssessmentResults + component-definition -> report | `Viewer` |
| Heterogeneous merge | `samples_public/heterogeneous/result_to_compliance.py` | none | merge the reviewed controls and observations of three PVP runs | `Heterogeneous` |
| Auditree plugin | `plugins_public/plugins/auditree.py` | the output file | check results -> PVPResult; parameters -> `auditree.json` | `Auditree` |
| Kyverno plugin | `plugins_public/plugins/kyverno.py` | deliverable directory | policy reports -> PVPResult; per-rule template copy and render | `Kyverno`; abstract `TemplateDeliverable` |
| OCM plugin | `plugins_public/plugins/ocm.py` | deliverable directory | policies -> PVPResult; policy generators, policy set and parameters | `OcmResult`, `OcmPolicy`; abstract `PolicySetDeliverable` |
| Common utilities | `common/utils.py` `get_dict_safely`, `get_control_list`, `ControlList.get_control_ids` | none (pure) | nested lookup; natural sort of control ids | `Utils` |
| Policy checker | `go/hack/policy-checker/check.py`, `common.py` | none (a script) | parse two directories of OCM Policies; compare each NIST Policy with its regeneration; summary | `PolicyChecker` |
| Tools commands | `commands/tools/viewer.py`, `csv2oscal_cd.py`, `tools/oscal_csv_to_json.py` | the file system | `tools viewer`: read, render, write the report; `tools csv-to-oscal-cd`: write a task configuration, run the trestle task | `Commands` |
| Peripheral | `cli.py`, `tools.py`, logging, `C2PBaseModel`, `list_generated_policies.py`, `hack`, single-PVP sample drivers | - | I/O and formatting | not modelled (section 12) |

How the parts interact:
- A plugin's `generate_pvp_result` produces a `PVPResult`.
- The C2P object's `result_to_oscal` projects it onto the rules that the component-definition declares.
- The viewer joins the resulting `AssessmentResults` with the same component-definition.
- The heterogeneous sample merges three such results.
- In the other direction, `get_policy` extracts a `Policy`, and a plugin's `generate_pvp_policy` writes a deliverable from it.

What makes each component correct:
- **Grouping:** one row per distinct remarks value, in first-seen order. Within a row, a later prop overrides an earlier one.
- **Extraction:** a malformed row is dropped, never raised (spec 4.2).
- **Defaulting:** fills only what is missing (spec 8.2).
- **Projection:** one OSCAL observation per matched observation, in order, with all its subjects. An unmatched observation is dropped, not raised (spec 8.1, 8.3).
- **Plugins:**
  - status tables fail closed to `error` (spec 8.4);
  - parametrized checks merge (spec 8.5);
  - timestamps fall back to the current time;
  - a deliverable reflects the current policy.
- **Viewer:** every rule of an implemented requirement appears, with the subjects of its observation (spec 4.5).

## 2. Plan and status

1. **`C2P`** (done): grouping, extraction, defaulting, projection and the call sequence of the C2P object.
2. **`OcmResult`**, **`Kyverno`**, **`Auditree`** (done): `generate_pvp_result` of each plugin.
3. **`OcmPolicy`**, and the policy side of `Kyverno` and `Auditree` (done): `generate_pvp_policy`, called repeatedly on one deliverable, so that stale content and half-written directories are states.
4. **`Viewer`** and **`Heterogeneous`** (done): composed with `C2P`. Both read the `AssessmentResults` the C2P object returned.
5. **`Utils`** (done): the pure helpers, checked against reference definitions.
6. **Refinement** (done): the deliverable promise of spec 4.3 (b) for Kyverno (`TemplateDeliverable`) and OCM (`PolicySetDeliverable`, with the layout of spec 6) as abstract specifications. `Kyverno` and `OcmPolicy` are shown to implement them with `INSTANCE ... WITH` and the abstract `Spec` as a PROPERTY. The abstract specs include the only liveness property: a started `generate_pvp_policy` call ends, by returning or raising (section 10).
7. **`Commands`** (done): the two `tools` commands over a file system, with failing writes and task outcomes as inputs.
8. **Next:** an abstract `ProjectionSpec` with the end-to-end promise: each subject a PVP reported shows up once, under the rule whose check produced it, refined by the `C2P` composition in the same way.

## 3. Module `C2P` (src/c2p/framework/c2p.py and helpers)

**State.**
- `cdef`: the component list, read once by `__init__`. A component has a type, a title, props, and implemented requirements (control id, statement ids, Rule_Id props).
- `pvp`: the configured `PVPResult`. This is the caller's object, mutated in place by `set_defaults`.
- `ar`: the last return of `result_to_oscal`, or `Error` if it raised.
- `policy`: the last return of `get_policy`.
- `arInput`: a history variable holding the defaulted PVPResult that `ar` was computed from.

**Modelling conventions.**
- A Python dict is a function whose DOMAIN is the set of present keys.
- `None` is a model value.
- Every exception (`TypeError`, `AttributeError`, pydantic `ValidationError`) makes the call return `Error`.

**Actions.** Each models a whole method:
- `SetPvpResult(r)`: `set_pvp_result`.
- `ResultToOscal`: `set_defaults` (the in-place mutation, including the partial mutation before a `TypeError`), then `_get_result`, which re-derives the rule sets and computes `reviewed_controls`.
- `GetPolicyOp`: `get_policy`.

**Algorithms as operators.**
- `GroupPropsByRemarks` is a left fold of the Python loop.
- `RuleRows` and `ParameterRows` are the "last match wins" loops.
- `FindRuleSet` is `next(filter(...))`.
- `Whitespace` and `IsPropValue` model `whitespace()` and the OSCAL property-value pattern, on texts given character by character.

**Properties.**
- `GroupPropsMatchesSpec`: the fold equals the set-based grouping of spec 4.1.
- `ProjectionRoundTrip`: spec 8.1 and 8.3. A result holds exactly one OSCAL observation per matched input observation, in input order, with a rule id whose check id matches, and the same subjects with results, times and blanked reasons.
- `ProjectionFailsOnlyOnMalformedInput`: `result_to_oscal` raises exactly on malformed input. A malformed observation that matches no rule is skipped, not raised.
- `DefaultsKeepGivenFields` (action property, violation run): spec 8.2.
- `ExtractionNeverRaises` (violation run): spec 4.2.

## 4. Module `Viewer` (src/c2p/tools/viewer/viewer.py)

`Viewer` extends `C2P` with two variables:
- `viewed`: the `AssessmentResults` passed to `render`;
- `report`: what it returned, or `Error`.

The one action `RenderReport` is `render` on the C2P object's last result and the same
component-definition. The helpers of `render` are operators:
- `RuleSetsMap`: keyed by title, a later component replaces the rows but keeps the position;
- `GetPvpRulePair`: `KeyError` on a row without `Rule_Id`;
- `FindObservation`;
- `Icon`;
- the pydantic models' required fields (`SubjectResult` raises on a missing reason).

The markdown template is layout and is left out.

Properties:
- `ReportMirrorsObservations` (pass): the report lists the non-validation components in order, each requirement as a control, and under it the rules that have an observation, each with exactly the subjects, glyphs and reasons of the first observation carrying its rule id.
- `EveryRuleListed` (violation run `viewer_missing_rule`): spec 4.5 asks for every rule, with an empty subject list when nothing was observed. The viewer drops the rule, or raises `KeyError` when the row has no `Check_Description`.

## 5. Module `Heterogeneous` (samples_public/heterogeneous/result_to_compliance.py)

The sample runs the three single-PVP scripts (auditree, kyverno, ocm) and merges their
`AssessmentResults`:
- the include-controls of every run's first result are concatenated in run order;
- they are folded into a dict keyed by control id, which appends the statement ids of a repeated control and keeps its first position (`IncludeControlsMap`);
- the observations are concatenated (`MergeResults`).

The action `Merge` takes the C2P object's result as the middle run. The other two are
drawn from the constant `OtherResults`. Subprocesses, metadata, uuids and times are
left out.

Property:
- `MergedReviewCoversRuns`: the merged result holds the three runs' observations in run order, and one control selection that reviews each control any run reviewed exactly once, in order of first review, with the statement ids of all its selections in run order.

## 6. Modules `OcmResult` and `OcmPolicy` (src/plugins_public/plugins/ocm.py)

**`OcmResult`** (`generate_pvp_result`).

State:
- `data`: `raw_result.data`. `Policies`, `RootPolicies` and `EachPolicies` are its three `filter` calls.
- `i` and `j`: the positions of the loop over root policies and the scan over per-cluster copies.
- `subjects` and `observations`: the lists the function builds.
- `eventName`, `lastTimestamp` and `message`: the function's locals. They start `Unbound`. Python scopes them to the whole function, so they carry over from one copy, and from one root policy, to the next.
- `pc`: the phase, one of `root`, `scan`, `done` or `error`.

Actions:
- `BeginObservation`;
- `SkipClusterPolicy`;
- `AddSubject`, which runs the details loop and raises if `last_timestamp` is still unbound;
- `EndObservation`;
- `Return`.

Properties:
- `ObservationsMirrorClusterPolicies` (pass): one observation per root policy, whose subjects are exactly its copies `<namespace>.<name>`, with results that fail closed.
- `SubjectTimeFromOwnHistory` (pass): a copy with a history gets its time and reason from the last detail that has one.
- `SubjectDiagnosticsFromOwnRecord` (violation run `ocm_stale_locals`): a copy without a history gets the previous copy's time and reason, where spec 4.3 asks for the current time and no reason.
- `NoUnboundLocal` (violation run `ocm_unbound_local`): the function raises `UnboundLocalError` when the first matching copy has no history.

**`OcmPolicy`** (`generate_pvp_policy`). It extends `OcmResult`. `OcmSpec` lets either
method be called.

State:
- `deliv`: the deliverable. It is `Absent`, `NotDir`, or the rule directories' generators plus the top-level generator.
- `pol`: the Policy of the current call.
- `k`: the index of the current rule set.
- `configMap`: `policy_config_map`, in insertion order.
- `ppc`: the phase of the call.
- `calls`: the number of calls so far.

Actions:
- `StartPolicy`: `mkdir`, or `C2PError` on a file.
- `PolicyRule`: one rule set, in the code's order:
  - `copytree`;
  - the rewritten `policyDefaults` dumped;
  - `policies[0]`;
  - the reused or parsed `PolicyConfig`, with each manifest path passed through `str.replace('./', './<id>/')` (`StrReplace`);
  - the three `__merge_uniquely` calls;
  - the map update.

  It raises `FileNotFoundError`, `KeyError`, `IndexError`, `TypeError` or `AttributeError` where the code does.
- `EndPolicy`: the policy-set generator and `parameters.yaml`.

`list(set(...))` makes the lists of a PolicyConfig sets, and their order is left out.

**`PolicySetDeliverable`** is the abstract spec of the deliverable (spec 4.3 (b), spec 6). It has the same `deliv`, `pol` and `calls`, and a `status` of `idle`, `running`, `done` or `error`.
- `Begin`: creates the directory, or raises on a file.
- `Write`: one rule directory of the policy takes its template's generator, as copied or as configured for the hub.
- `Return`: only when every rule directory of the policy holds its generator configured for the hub. It writes the top-level files.
- `Raise`: possibly right after a last write.
- `Spec` has weak fairness on `Return \/ Raise`: a running call ends.

`OcmPolicy` maps its phase onto `status` (`rule` is `running`). `OcmFairSpec` adds weak fairness on `PolicyRule \/ EndPolicy` (section 10).

Property:
- `DeliverableRefinement` (pass): `OcmFairSpec` implements `PolicySetDeliverable!Spec`. So every step of a call is a step of the abstract spec, and every started call ends. When a call returns:
  - the policy set lists each rule id once, in first-seen order;
  - each policy is its template's first policy, with every manifest path moved into the rule's own directory exactly once, also for a repeated rule set;
  - categories and controls are both the template's controls;
  - every listed rule directory holds the hub's `policyDefaults`, also when the directory existed from an earlier call;
  - each parameter id has its last value.

## 7. Module `Auditree` (src/plugins_public/plugins/auditree.py)

State:
- `raw`;
- `result`;
- `template`, `params` and `output`: the `auditree.json` template, the last parameters, and the written file;
- `raised`.

Actions:
- `GeneratePvpResult`: the status table, the reason dict, one observation per check method, then the merge of parametrized ids (`<method>_<digits>_<variant>`, matched on character texts). The merge walks the normalized ids in Python set order, which the model leaves free.
- `GeneratePvpPolicy`: substitutes each parameter at the dotted key path of its id. It converts the value to the template value's type (`isinstance` in the code's order) and raises before anything is written.

Properties:
- `MergeMatchesSpec`, `SubjectsFailClosed`, `ParametersApplied` (pass): spec 8.5, 8.4, and the substitution.
- `MergedInFirstSeenOrder` (violation run `auditree_set_order`): merged observations come in set order, not in order of first appearance.
- `SubstitutionKeepsTypes` (violation run `auditree_bool_param`): `isinstance(True, int)` holds, so the parameter value `1` replaces `true` by the number 1.

## 8. Module `Kyverno` (src/plugins_public/plugins/kyverno.py)

State:
- `raw` and `result`: the result side;
- `deliv`: the deliverable directory, as rule directory -> path -> file or `Dir`;
- `pol`, `k`, `todo`, `ppc` and `calls`: the current call, the rule set, the glob's remaining paths, the phase, and the call count.

Actions:
- `GeneratePvpResult`: one atomic step, since the function is a pure transform. It filters PolicyReports, then ClusterPolicyReports. Policy names are a Python set in free order. It uses the status table, `to_subject`, and the timestamp fallback.
- `StartPolicy`.
- `CopyRule`: `copytree` with `dirs_exist_ok`, and the glob in free order.
- `RenderPath`: open a path; `IsADirectoryError` on a directory. A file is kept when it is a Kyverno policy document, otherwise it is rendered with the parameters.
- `NextRule`.
- `EndPolicy`.

Properties:
- `ObservationsMirrorReports` (pass): one observation per policy, whose subjects are the resources of its results in report order and fail closed.
- `DeliverableRefinement` (pass): `FairSpec` implements `TemplateDeliverable!Spec`, the abstract spec of spec 4.3 (b), with `ppc` in `rule` or `render` mapped to `running`. In `TemplateDeliverable`:
  - a write changes only the policy's rule directories, each file to the template copy or its rendering;
  - a call returns only once every template file of the policy is rendered, or verbatim for Kyverno policies;
  - a running call ends.

  This holds over two calls on one directory.
- `EvaluatedOnFromTimestampOrNow` (violation run `kyverno_timestamp`): a result without `timestamp.seconds` gets `get_datetime().second`, a number below 60, as its epoch.

## 9. Module `Utils` (src/c2p/common/utils.py)

These are pure operators. A Python value is a tagged record, so that `isinstance(d, dict)`
is a tag test.
- `GetDictSafely` (RECURSIVE) pops a key and looks up the rest in the result, handing the caller's default down the path.
- `CustomSort` is `re.split('(\d+)')` with digit runs as ints.
- `StrLess` and `KeyLess` are Python's `<` on str (code points) and on token lists.
- `SortedByKey` is the stable `sorted`.
- `GetControlIds` returns every order the set may give.

Their properties are checked against reference definitions. `MC_Kyverno` states them
in every state of the kyverno run:
- `GetDictSafelyFollowsPath`: the value at the end of the path, or the default as soon as a step is missing or not a dict. This covers every default the callers pass.
- `ControlIdsInCatalogOrder`: the distinct ids in catalog order (`ac-2`, `ac-2.1`, `ac-2.10`, `ac-10`, then the other families), whatever the set order.

`get_control_list` and `get_control_ids` have no caller in `src/`; they are library helpers. No hazard is listed for them or for `get_dict_safely`, whose callers in the plugins are covered through the plugin modules.

## 9a. Module `PolicyChecker` (src/go/hack/policy-checker)

The checker reads the Policies of a policy collection and those regenerated from
them through the OCM plugin. For each collection Policy with the `NIST SP 800-53`
standard, it reports whether the regeneration is consistent. It is a straight-line
script, so the model is a pure operator. `Checker(collection, regenerated)` gives
the rows and the two summary lists, or `Error` when the script raises.

The definitions:
- `Walkthrough` and `Parse` (common.py): documents that are empty, have no kind, or are not a Policy are skipped. A missing key the code indexes raises. Annotations are split on `,` and stripped (`ParseComplianceAnnotation`).
- `CategoryGroup` and `ControlGroup`: the two regular expressions, on texts of characters. A category the pattern does not match makes `compare_category` raise (`None.lastindex`). A control the pattern does not match is skipped.
- `CompareStep`: one iteration of the compare loop, with its locals. `check_resources` is an insertion-ordered dict keyed by config policy and kind. `check_resources_all` is the value of its last key (`CheckResourcesAll`).
- `CompareStandard` looks only at the collection's standards, as the code does.

Properties, stated in `MC_Kyverno` over 9 collection directories and 5 regenerated
ones. The inputs include:
- a Policy with two Roles under one key;
- one with no ConfigurationPolicy;
- one without the standard, and one without annotations;
- one whose category makes the script raise, one where an unmatched category follows the matching one (no raise) and one where it follows another category (raise);
- a Policy without metadata;
- regenerations holding either Role, and duplicate names.

The properties:
- `ConsistentImpliesSomeResourceFound`: a Policy reported consistent has a regenerated namesake that holds at least one of its resources.
- `CheckerFailsOnlyOnMalformedInput`: the script aborts, reporting no Policy, exactly when a document of either directory is a Policy missing a key the parser indexes, or when a NIST Policy with a regenerated namesake has a category that `compare_category` cannot match (`None.lastindex`, check.py:62) before it finds the regenerated category. A control the pattern does not match is skipped, and a Policy without a namesake is never compared. The condition is stated over category indices, independently of the recursive early-return operator; the mutant that skips an unmatched category, as `compare_control` does, breaks it.

The stronger claim, that every resource is found, does not hold. A Policy whose
regeneration holds `s` but not `r` is reported consistent (hazard
`check.py:94`).

## 9b. Module `Commands` (src/c2p/commands/tools, src/c2p/tools/oscal_csv_to_json.py)

Each command's `_run` is a straight-line function of its arguments, a file system
and the outcomes the model cannot compute, so each is an operator returning
`[exit, fs]`. `exit` is `success` or `error` (the two return codes) or `raised`
(an exception that leaves `_run`). A file system maps a path to `Absent`, `Dir` or
a document record; `<<dir, name>>` are the files a command names inside a directory.

- `ViewerRun` (`Viewer._run`): the two `oscal_read` calls and `render` are outside the try, so a document of the wrong kind or a render that raises (`RenderRaises`, the cases module `Viewer` models) leaves `_run` as an exception. Then the report goes to stdout, or `open(out, 'w')` truncates `--out` and `write()` puts it. A write failure is an input (`WriteOutcomes`). It raises at `write()` when the report overflows the buffers, giving an error exit over a truncated file. Otherwise it surfaces only when the never-closed file object is finalised, where CPython does not raise it.
- `GenerateConfig`, `Generate`, `Csv2OscalCdRun` (`csv-to-oscal-cd`): `-c` wins; otherwise `--title`, `--csv` and `--out` together write `<out>/csv-to-oscal-cd.config` in a `with` block and run it; with neither nothing happens. `Generate` raises on a missing or sectionless file; a configuration without the task section only logs a warning, and the task then fails. A simulate or execute outcome other than success raises. The trestle task is an input: it writes `component-definition.json` only when it succeeds, which needs the section, a csv file and an existing output directory (`TaskWrites`).

Properties, stated in `MC_Kyverno` over 18 file systems, 18 viewer and 54
csv-to-oscal-cd argument sets, every write outcome and every pair of task outcomes:
- `ReportFileChangedOnlyAfterRender`: the viewer changes no file but `--out`, and changes it only after both documents were read and rendered, to the report or a truncation of it. An existing report survives a failed read or render. This rests on the order render-then-open.
- `SuccessMeansComponentDefinition`: after a call that selects a task, a success exit means the configuration's output directory holds the component-definition of its title and csv file. A call that writes a component-definition never exits with an error.

## 10. Runs, bounds and fairness

| Run | Module | Checks | Expect |
|---|---|---|---|
| `c2p` | `MC_C2P` | `ViewerTypeOK`, `GroupPropsMatchesSpec`, `ProjectionRoundTrip`, `ProjectionFailsOnlyOnMalformedInput`, `ReportMirrorsObservations`, `MergedReviewCoversRuns` | pass, 388,030 states |
| `ocm_result` | `MC_OcmResult` | `PolicyTypeOK`, `ObservationsMirrorClusterPolicies`, `SubjectTimeFromOwnHistory`; PROPERTY `DeliverableRefinement` | pass, 94,755 states |
| `auditree` | `MC_Auditree` | `TypeOK`, `MergeMatchesSpec`, `SubjectsFailClosed`, `ParametersApplied` | pass, 15,666 states |
| `kyverno` | `MC_Kyverno` | `TypeOK`, `ObservationsMirrorReports`, `GetDictSafelyFollowsPath`, `ControlIdsInCatalogOrder`, `ConsistentImpliesSomeResourceFound`, `CheckerFailsOnlyOnMalformedInput`, `ReportFileChangedOnlyAfterRender`, `SuccessMeansComponentDefinition`; PROPERTY `DeliverableRefinement` | pass, 5,188 states |
| `c2p_defaults_overwrite` | `MC_C2P` | `DefaultsKeepGivenFields` | violation |
| `c2p_extraction_raises` | `MC_C2P` | `ExtractionNeverRaises` | violation |
| `viewer_missing_rule` | `MC_C2P` | `EveryRuleListed` | violation |
| `ocm_stale_locals` | `MC_OcmResult` | `SubjectDiagnosticsFromOwnRecord` | violation |
| `ocm_unbound_local` | `MC_OcmResult` | `NoUnboundLocal` | violation |
| `auditree_set_order` | `MC_Auditree` | `MergedInFirstSeenOrder` | violation |
| `auditree_bool_param` | `MC_Auditree` | `SubstitutionKeepsTypes` | violation |
| `kyverno_timestamp` | `MC_Kyverno` | `EvaluatedOnFromTimestampOrNow` | violation |

### Bounds

**`c2p`.**
- Component-definitions:
  - Every validation component with up to three props from six rule props. The props cover two remarks groups, an overriding Check_Id, a check shared by two rules, and a prop without remarks.
  - The component is titled `OCM` (the pvp_name) or `Kyverno`, and is followed by a target with up to two parameter props.
  - Definitions with two `OCM` components or two targets.
  - Four projection definitions: c1 checked by two rules, with descriptions, only c1, and a rule without a check.
- PVPResults paired with the projection definitions: every single-observation result (check id matched, unmatched or doubly matched; title, description and subject list present or absent; reasons valid, None, or with a line end), plus a few two-observation results.
- `MCSpec` ends a run with either the viewer's render or the heterogeneous merge. `OtherResults` is one run reviewing `ac-1` with another statement and `cm-2` in two selections, so every control repeats.

**`ocm_result`.**
- Result side: one root policy, or a PlacementBinding and two roots. These are followed by up to two copies from a pool of 50: two clusters, three statuses, eight details lists, and misnamed copies. Two copies suffice for one to inherit from another.
- Policy side:
  - Rule templates: valid (one and two manifests), without `policyDefaults`, without policies, with a manifest without a path, with manifests None, and missing.
  - Policies: a repeated rule, a single rule, no rule, and parameters with a repeated id.
  - Deliverables: `Absent`, `NotDir`, or an existing directory.
  - Two calls, so that a second call meets the first one's directories.
- `OneOperationAtATime` explores the policy side only after the result side returned on empty data, because the two methods share no state.

**`auditree`.**
- 207 raw data: plain, parametrized, nested-parametrized and unmatched method names, two classes, every pair of statuses.
- Every set order.
- 74 parameter lists over a nested template.

**`kyverno`.**
- Reports with one result each, over two policies and three statuses (one outside the table), resources with and without a namespace or uid, and results that raise.
- Four templates, of which one is missing, and two calls.
- Utils inputs:
  - 18 dicts (flat and nested over keys `a` and `b`), six key paths and four defaults;
  - every set of up to four ids of a seven-id catalog.
- Policy checker inputs: 9 collection directories × 5 regenerated directories (section 9a). These are enough for a Policy to follow one whose `check_resources` is not empty, for a raise and a non-raise with an unmatched category, for a Role pair under one key, and for a raise.
- Commands inputs: a directory that exists and one that does not; two assessment results, of which render raises on one; a component-definition; a file of another kind; a csv file; a configuration with the section, without it, or naming the missing directory; `--out` absent, a directory, or an earlier report; an earlier `component-definition.json` or none. These reach every exit of both commands.
- The Utils, policy-checker and commands claims are zero-arity constant definitions, which TLC evaluates once. Their bound variables avoid the names of Kyverno's variables: a bound `k` would shadow the state variable `k` and force TLC to evaluate the claim in every state.

Each mutant listed in `PROJECT.json` breaks its property under the run's own cfg.

### Fairness

The code has no scheduler, no retry and no background work. Every call is the
caller's choice, so no fairness is put on calling. A call that has started runs
to its end in a bounded number of steps.

One thing must eventually happen: a started `generate_pvp_policy` call ends. In
`Kyverno` (`FairSpec`) and `OcmPolicy` (`OcmFairSpec`) the internal steps of a
call have weak fairness:
- `CopyRule`, `RenderPath`, `NextRule` and `EndPolicy` in Kyverno;
- `PolicyRule` and `EndPolicy` in OCM.

These steps are statements of one running Python function with no wait. Once
enabled, one of them stays enabled until it is taken, so the next statement does
run. The abstract specs state the ending as `WF_avars(Return \/ Raise)`, and the
refinement property checks it. Without the fairness the refinement fails with a
call that stutters forever. A returned or
raised call, a rendered report and a merged result are final states. This is why
every cfg except the Auditree ones says `CHECK_DEADLOCK FALSE`:
- the `kyverno` and `ocm_result` runs, which stop once the call bound is reached;
- `c2p`, whose runs end in a render or a merge;
- the C2P, viewer, Kyverno and OCM violation runs.

In `Auditree`, `generate_pvp_policy` may always be called again because its calls are not bounded, so no state is final and its runs check deadlock.

## 11. Findings

1. `set_defaults` overwrites a given title when the description is missing (`pvp_result.py:127`; spec 8.2).
2. `get_policy` raises on a parameter row without a value, or on a rule row without the configured check column (`c2p.py:148`, `:128`; spec 4.2).
3. OCM: a copy without a history inherits the previous copy's timestamp and reason (`ocm.py:160`; spec 4.3).
4. OCM: `UnboundLocalError` when the first matching copy has no history (`ocm.py:160`).
5. Auditree: merged observations come in hash-seed-dependent set order (`auditree.py:158`; spec 8.5 says first appearance).
6. Auditree: a boolean template value takes the int branch (`auditree.py:73`).
7. Kyverno: a result without a timestamp gets a time in the first minute of 1970 (`kyverno.py:95`).
8. Viewer: a rule without an observation is left out, and a row without `Check_Description` makes render raise (`viewer.py:103`; spec 4.5).

## 12. Not modelled, and why

- UUIDs, timestamps and metadata titles: fresh values that no code path branches on.
- Links, labels, relevant evidences and observation props: copied through unchanged.
- File loading and serialisation (`C2PBaseModel.read` and `serialize_json_bytes`, `C2PBaseDict`, `oscal_read`, `load_json_as_dict`): the external data layer.
- `remove_none`: it is applied only to the OCM policy-set generator, whose modelled fields are never None.
- The OCM `kustomization.yaml` and the sanitized policy-set name: they do not depend on the policy.
- The OCM templates' other files: they are copied and never read.
- `cli.py` and `tools.py` (subcommand lists and log levels), argument declarations, the trestle task's own conversion, logging, the markdown template, `list_generated_policies.py` and `hack/format`: I/O, layout and report formatting.
- The policy checker's JSON, CSV and table output: formatting of the rows the model computes.
- Disagreements found while modelling that have no violation run, because the project's twelve runs are spent on the findings above. They are recorded as hazards in `PROJECT.json`:
  - Auditree raises `TypeError` on a check without a timestamp (`auditree.py:91`), where spec 4.3 (3) asks for the current time, and `AttributeError` on a check class without checks (`auditree.py:89`).
  - `tools viewer` exits with success over an empty report when a write failure surfaces only at the implicit close of the output file (`commands/tools/viewer.py:67`). `tools csv-to-oscal-cd` exits with success and does nothing when neither `-c` nor all of `--title`, `--csv` and `--out` are given.
  - The policy checker judges resources by the last key only (`check.py:94`).
- The single-PVP sample drivers and `heterogeneous/compliance_to_policy.py`: they only wire a plugin to the C2P object or launch subprocesses.
- `str.replace` on paths with an inner or parent `./`: the model's `StrReplace` is the full replace-all, but the run's templates use only `./`-prefixed paths (hazard `ocm.py:224` in `PROJECT.json`).
