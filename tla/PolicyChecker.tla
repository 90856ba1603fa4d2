---------------------------- MODULE PolicyChecker ----------------------------
(***************************************************************************)
(* The policy checker of go/hack/policy-checker (check.py, common.py): it  *)
(* reads the OCM Policies of a policy collection and the Policies          *)
(* regenerated from them, and reports for each collection Policy with the  *)
(* NIST SP 800-53 standard whether its regeneration is consistent: found   *)
(* by name, with a matching category and control, and with its            *)
(* ConfigurationPolicy resources present.                                  *)
(*                                                                         *)
(* The script is a straight-line program over its two inputs, so it is a   *)
(* pure operator here: Checker(collection, regenerated) is the summary, or *)
(* Error when the script raises.  A directory is a sequence of files in    *)
(* glob order, a file the sequence of its YAML documents.  Texts the code  *)
(* splits, strips, matches or lowercases are sequences of characters; the  *)
(* file names, the JSON, CSV and table outputs are left out.               *)
(***************************************************************************)
EXTENDS Sequences, SequencesExt

CONSTANTS
  Collections,   \* candidate policy-collection directories
  Regenerateds,  \* candidate regenerated-policy directories
  None,          \* Python None
  Missing,       \* a key absent from a dict
  Error          \* an exception raised by the script

\* the characters of the model's texts, as the regular expressions class them
Upper == {"N", "I", "S", "T", "P", "C", "M"}
ToLower == [c \in Upper |-> CASE c = "N" -> "n" [] c = "I" -> "i" [] c = "S" -> "s"
                              [] c = "T" -> "t" [] c = "P" -> "p" [] c = "C" -> "c"
                              [] c = "M" -> "m"]
WordChar == Upper \cup {"n", "i", "s", "t", "p", "c", "m", "x"}
            \cup {"0", "1", "2", "3", "5", "8", "_"}

\* 'NIST SP 800-53'
NIST == <<"N", "I", "S", "T", " ", "S", "P", " ", "8", "0", "0", "-", "5", "3">>

\* str.lower() on the model's texts
Lower(s) == [j \in DOMAIN s |-> IF s[j] \in Upper THEN ToLower[s[j]] ELSE s[j]]

\* str.split(sep)
RECURSIVE SplitText(_, _)
SplitText(s, sep) ==
  IF s = <<>> THEN <<<<>>>>
  ELSE LET rest == SplitText(Tail(s), sep) IN
       IF Head(s) = sep THEN <<<<>>>> \o rest ELSE [rest EXCEPT ![1] = <<Head(s)>> \o @]

\* str.strip() on texts whose only whitespace is the blank
Strip(s) ==
  LET in == {j \in DOMAIN s : s[j] # " "}
      lo == IF in = {} THEN 1 ELSE CHOOSE j \in in : \A j2 \in in : j <= j2
      hi == IF in = {} THEN 0 ELSE CHOOSE j \in in : \A j2 \in in : j >= j2
  IN  SubSeq(s, lo, hi)

\* parse_compliance_annotation
ParseComplianceAnnotation(ann) ==
  LET parts == SplitText(ann, ",") IN [j \in DOMAIN parts |-> Strip(parts[j])]

\* the length of the longest prefix of s made of characters of C
PrefixLen(s, C) ==
  CHOOSE j \in 0..Len(s) : (\A x \in 1..j : s[x] \in C) /\ (j = Len(s) \/ s[j + 1] \notin C)

\* re.match('([A-Za-z0-9_]+) .+', x).group(1), or None when it does not
\* match; a match has lastindex 1
CategoryGroup(x) ==
  LET j == PrefixLen(x, WordChar) IN
  IF j >= 1 /\ j + 2 <= Len(x) /\ x[j + 1] = " " THEN SubSeq(x, 1, j) ELSE None

\* re.match('([A-Za-z0-9_-]+)( .+|$)', x).group(1), or None; a match has
\* lastindex 2
ControlGroup(x) ==
  LET j == PrefixLen(x, WordChar \cup {"-"}) IN
  IF j >= 1 /\ (j = Len(x) \/ (x[j + 1] = " " /\ j + 2 <= Len(x))) THEN SubSeq(x, 1, j) ELSE None

(***************************************************************************)
(* common.py: parse and walkthrough.                                       *)
(***************************************************************************)

\* the resource dict of one object template (the name '' when missing)
Resource(o) == [kind |-> o.kind, name |-> IF o.name = Missing THEN <<>> ELSE o.name]

\* parse: None for a document that is not a Policy; Error where a key the
\* code indexes is missing (the inputs' documents always give a template's
\* objectDefinition a kind, and an object its kind and apiVersion)
Parse(m) ==
  LET ann == m.metadata.annotations
      cps == SelectSeq(m.spec, LAMBDA t : t.kind = "ConfigurationPolicy")
  IN
  CASE m.kind # "Policy" -> None
    [] m.metadata = Missing \/ m.spec = Missing \/ m.metadata.name = Missing -> Error
    [] ann # Missing /\ Missing \in {ann.standards, ann.categories, ann.controls} -> Error
    [] \E n \in DOMAIN cps : cps[n].name = Missing -> Error
    [] OTHER ->
         LET text(f) == IF ann = Missing THEN <<>> ELSE ann[f] IN
         [name            |-> m.metadata.name,
          standards       |-> ParseComplianceAnnotation(text("standards")),
          categories      |-> ParseComplianceAnnotation(text("categories")),
          controls        |-> ParseComplianceAnnotation(text("controls")),
          config_policies |-> [n \in DOMAIN cps |->
                                 [name |-> cps[n].name,
                                  resources |-> [r \in DOMAIN cps[n].objects |->
                                                   Resource(cps[n].objects[r])]]]]

\* walkthrough: the parsed Policies of every file, skipping empty
\* documents and documents without a kind
Walkthrough(files) ==
  LET docs   == SelectSeq(FlattenSeq(files), LAMBDA m : m # None /\ m.kind # Missing)
      parsed == [n \in DOMAIN docs |-> Parse(docs[n])]
  IN  IF Error \in Range(parsed) THEN Error ELSE SelectSeq(parsed, LAMBDA p : p # None)

(***************************************************************************)
(* check.py: the comparison.                                               *)
(***************************************************************************)

\* find_regenerated_policy: the first regenerated Policy of the same name
FindRegeneratedPolicy(p, regens) ==
  LET same == SelectSeq(regens, LAMBDA r : r.name = p.name) IN
  IF same = <<>> THEN None ELSE same[1]

\* find_resource
FindResource(res, regenCps) ==
  \E c \in Range(regenCps) : \E r \in Range(c.resources) : r.kind = res.kind /\ r.name = res.name

\* compare_standard: the regenerated standards are not looked at
CompareStandard(standards, regenStandards) == NIST \in Range(standards)

\* fault model: a category the pattern does not match is skipped, as
\* compare_control skips a control
RECURSIVE CompareCategorySkip(_, _)
CompareCategorySkip(categories, regenCategories) ==
  IF categories = <<>> THEN FALSE
  ELSE LET g == CategoryGroup(Head(categories)) IN
       CASE g = None -> CompareCategorySkip(Tail(categories), regenCategories)
         [] regenCategories = <<>> -> Error
         [] Lower(g) = regenCategories[1] -> TRUE
         [] OTHER -> CompareCategorySkip(Tail(categories), regenCategories)

\* compare_category: TRUE at the first category whose word matches the
\* first regenerated category; a category the pattern does not match
\* raises AttributeError (None.lastindex), an empty regenerated list
\* IndexError
RECURSIVE CompareCategory(_, _)
CompareCategory(categories, regenCategories) ==
  IF categories = <<>> THEN FALSE
  ELSE LET g == CategoryGroup(Head(categories)) IN
       CASE g = None -> Error
         [] regenCategories = <<>> -> Error
         [] Lower(g) = regenCategories[1] -> TRUE
         [] OTHER -> CompareCategory(Tail(categories), regenCategories)

\* compare_control: as compare_category, but a control the pattern does not
\* match is skipped
RECURSIVE CompareControl(_, _)
CompareControl(controls, regenControls) ==
  IF controls = <<>> THEN FALSE
  ELSE LET g == ControlGroup(Head(controls)) IN
       CASE g = None -> CompareControl(Tail(controls), regenControls)
         [] regenControls = <<>> -> Error
         [] Lower(g) = regenControls[1] -> TRUE
         [] OTHER -> CompareControl(Tail(controls), regenControls)

\* a dict in insertion order: its keys and its values
EmptyDict == [keys |-> <<>>, val |-> <<>>]
DictSet(d, j, v) ==
  [keys |-> IF j \in Range(d.keys) THEN d.keys ELSE Append(d.keys, j), val |-> (j :> v) @@ d.val]
RECURSIVE DictSetAll(_, _)
DictSetAll(d, kvs) ==
  IF kvs = <<>> THEN d ELSE DictSetAll(DictSet(d, Head(kvs)[1], Head(kvs)[2]), Tail(kvs))

\* the loop filling check_resources with '<config policy>/<kind>' -> found
FillCheckResources(d, p, regen) ==
  LET found == FlattenSeq([c \in DOMAIN p.config_policies |->
                 LET cp == p.config_policies[c] IN
                 [r \in DOMAIN cp.resources |->
                    <<<<cp.name, cp.resources[r].kind>>,
                      FindResource(cp.resources[r], regen.config_policies)>>]])
  IN  DictSetAll(d, found)

\* fault model: the flag starts as True, the usual form of an all-check
CheckResourcesAllFromTrue(d) == IF d.keys = <<>> THEN TRUE ELSE d.val[d.keys[Len(d.keys)]]

\* for key in check_resources: check_resources_all = check_resources[key]
CheckResourcesAll(d) == IF d.keys = <<>> THEN FALSE ELSE d.val[d.keys[Len(d.keys)]]

\* one iteration of the compare loop over the NIST policies; acc holds the
\* rows so far and the local check_resources, or Error once the script
\* raised
CompareStep(acc, p, regens) ==
  LET regen == FindRegeneratedPolicy(p, regens)
      cat   == IF regen = None THEN FALSE ELSE CompareCategory(p.categories, regen.categories)
      ctl   == IF regen = None THEN FALSE ELSE CompareControl(p.controls, regen.controls)
      res   == IF regen = None THEN EmptyDict ELSE FillCheckResources(EmptyDict, p, regen)
  IN
  IF acc = Error \/ cat = Error \/ ctl = Error THEN Error
  ELSE [rows |-> Append(acc.rows,
                   [name            |-> p.name,
                    found           |-> regen # None,
                    check_standard  |-> regen # None /\ CompareStandard(p.standards, regen.standards),
                    check_category  |-> cat,
                    check_control   |-> ctl,
                    check_resources |-> res,
                    check_resources_all |-> CheckResourcesAll(res)]),
        resources |-> res]

\* the loop over the collection's policies with the NIST standard
RECURSIVE CompareLoop(_, _, _)
CompareLoop(acc, ps, regens) ==
  IF ps = <<>> THEN acc ELSE CompareLoop(CompareStep(acc, Head(ps), regens), Tail(ps), regens)

Compare(policies, regens) ==
  CompareLoop([rows |-> <<>>, resources |-> EmptyDict],
              SelectSeq(policies, LAMBDA p : NIST \in Range(p.standards)), regens)

\* is_regenerated of the summary
IsRegenerated(row) ==
  row.check_standard /\ row.check_category /\ row.check_control /\ row.check_resources_all

\* the script: both walkthroughs, the comparison, and the two lists of the
\* summary table
Checker(collection, regenerated) ==
  LET ps == Walkthrough(collection)
      rs == Walkthrough(regenerated)
      c  == IF ps = Error \/ rs = Error THEN Error ELSE Compare(ps, rs)
  IN  IF c = Error THEN Error
      ELSE [rows         |-> c.rows,
            consistent   |-> SelectSeq(c.rows, LAMBDA r : IsRegenerated(r)),
            inconsistent |-> SelectSeq(c.rows, LAMBDA r : ~IsRegenerated(r))]

-----------------------------------------------------------------------------
(* Properties, over every pair of candidate directories.                   *)

\* the collection's Policies with the NIST standard, in the order compared
NistPolicies(c) == SelectSeq(Walkthrough(c), LAMBDA p : NIST \in Range(p.standards))

\* check.py's summary lists a collection Policy as consistent only when a
\* regenerated Policy of its name holds at least one of the resources (kind
\* and name) of its ConfigurationPolicies: a Policy with no resource in
\* common with its regeneration, or with none at all, is never reported
\* as regenerated.
ConsistentImpliesSomeResourceFoundOnInputs ==
  \A c \in Collections, g \in Regenerateds :
    LET out == Checker(c, g)
        ps  == NistPolicies(c)
    IN  out # Error =>
          \A i \in DOMAIN out.rows :
            IsRegenerated(out.rows[i]) =>
              \E rp \in Range(Walkthrough(g)) :
                /\ rp.name = ps[i].name
                /\ \E cp \in Range(ps[i].config_policies), rcp \in Range(rp.config_policies) :
                     Range(cp.resources) \cap Range(rcp.resources) # {}

\* compare_category raises on the first category that the pattern does not
\* match, or at the first one at all when the regenerated list is empty,
\* unless an earlier category matched the first regenerated category
CategoryRaises(cats, rc) ==
  \E i \in DOMAIN cats :
    /\ CategoryGroup(cats[i]) = None \/ rc = <<>>
    /\ \A j \in 1..(i - 1) :
         CategoryGroup(cats[j]) # None /\ rc # <<>> /\ Lower(CategoryGroup(cats[j])) # rc[1]

\* compare_control raises only at a matching control when the regenerated
\* list is empty
ControlRaises(ctls, rc) == rc = <<>> /\ \E i \in DOMAIN ctls : ControlGroup(ctls[i]) # None

\* check.py aborts (and reports nothing for any Policy) exactly when a
\* document of either directory is a Policy missing a key the parser
\* indexes, or when a NIST Policy that has a regenerated namesake has a
\* category compare_category cannot match before it finds the regenerated
\* category (None.lastindex at check.py:62), or an empty regenerated list
\* to compare with; a control the pattern does not match is skipped, and a
\* Policy without a namesake is never compared.
CheckerFailsOnlyOnMalformedInputOnInputs ==
  \A c \in Collections, g \in Regenerateds :
    Checker(c, g) = Error <=>
      \/ Walkthrough(c) = Error
      \/ Walkthrough(g) = Error
      \/ \E p \in Range(NistPolicies(c)) :
           LET r == FindRegeneratedPolicy(p, Walkthrough(g)) IN
           /\ r # None
           /\ CategoryRaises(p.categories, r.categories) \/ ControlRaises(p.controls, r.controls)

====
