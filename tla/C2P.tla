-------------------------------- MODULE C2P --------------------------------
(***************************************************************************)
(* The C2P object of src/c2p/framework/c2p.py: a component-definition     *)
(* loaded once by the constructor, a configuration whose pvp_result the    *)
(* caller may replace at any time (set_pvp_result), and the two queries    *)
(* get_policy and result_to_oscal.  Both queries re-derive the rule sets   *)
(* from the component-definition on every call; result_to_oscal first      *)
(* runs set_defaults, which mutates the configured PVPResult in place.    *)
(*                                                                         *)
(* Data is abstracted to what the properties tell apart: identifiers,      *)
(* titles and texts are short strings from small sets, a Python dict is a  *)
(* TLA+ function whose DOMAIN is the set of present keys, a list is a      *)
(* sequence and Python's None is the model value None.  A raised           *)
(* exception (TypeError, AttributeError, pydantic ValidationError) makes   *)
(* the call return Error.                                                  *)
(***************************************************************************)
EXTENDS Naturals, Sequences, SequencesExt, FiniteSets, TLC

CONSTANTS
  PvpName,        \* c2p_config.pvp_name
  RuleIdColumn,   \* c2p_config.compliance.rule_id_column
  CheckIdColumn,  \* c2p_config.compliance.check_id_column
  CDefs,          \* component-definitions the constructor may have read
  PvpResults,     \* PVPResults a caller may pass to set_pvp_result
  None,           \* Python None
  Error           \* the call raised

VARIABLES
  cdef,      \* self._component_root.component_definition.components
  pvp,       \* self._c2p_config.pvp_result (mutated in place)
  ar,        \* the value last returned by result_to_oscal (None before)
  arInput,   \* history: the defaulted PVPResult that ar was computed from
  policy     \* the value last returned by get_policy (None before)

vars == <<cdef, pvp, ar, arInput, policy>>

ResultValues == {"pass", "failure", "error"}   \* ResultEnum values

-----------------------------------------------------------------------------
(* Helpers of src/c2p/common                                               *)

\* utils.get_dict_safely(d, key) for a single string key
GetDictSafely(d, k) == IF k \in DOMAIN d THEN d[k] ELSE None

\* common/oscal.is_component_type_validation: component_type.lower() == 'validation'
IsComponentTypeValidation(type) == type \in {"validation", "Validation", "VALIDATION"}

\* Python's  d[k] = v  on a dict d
DictPut(d, k, v) == (k :> v) @@ d

-----------------------------------------------------------------------------
(* oscal_utils.group_props_by_remarks: one dict per distinct remarks      *)
(* value, in first-seen order, later props overriding earlier ones.        *)

\* fault model: a new remarks group is put in front instead of at the end
GroupStepPrepend(acc, prop) ==
  IF prop.remarks \in DOMAIN acc.grouped
  THEN [acc EXCEPT !.grouped[prop.remarks] = DictPut(@, prop.name, prop.value)]
  ELSE [order   |-> <<prop.remarks>> \o acc.order,
        grouped |-> (prop.remarks :> (prop.name :> prop.value)) @@ acc.grouped]

GroupStep(acc, prop) ==
  IF prop.remarks \in DOMAIN acc.grouped
  THEN [acc EXCEPT !.grouped[prop.remarks] = DictPut(@, prop.name, prop.value)]
  ELSE [order   |-> Append(acc.order, prop.remarks),
        grouped |-> (prop.remarks :> (prop.name :> prop.value)) @@ acc.grouped]

GroupPropsByRemarks(props) ==
  LET g == FoldLeft(GroupStep, [order |-> <<>>, grouped |-> <<>>], props)
  IN  [i \in 1..Len(g.order) |-> g.grouped[g.order[i]]]

-----------------------------------------------------------------------------
(* C2P._get_rule_sets / get_rule_sets: rows of the validation component   *)
(* titled pvp_name (the last such component in iteration order), kept when *)
(* they carry the literal key Rule_Id.  _RuleSet declares effective_rule_id *)
(* and effective_check_id as str, so a kept row without one of the         *)
(* configured columns makes pydantic raise.                                *)

RuleRows(comps) ==
  FoldLeft(LAMBDA rows, comp :
             IF IsComponentTypeValidation(comp.type) /\ comp.title = PvpName
             THEN GroupPropsByRemarks(comp.props) ELSE rows,
           <<>>, comps)

ToRuleSet(row) ==
  [rule_id  |-> GetDictSafely(row, RuleIdColumn),
   check_id |-> GetDictSafely(row, CheckIdColumn)]

\* fault model: the effective ids are declared Optional, so nothing raises
GetRuleSetsOptional(comps) ==
  LET kept == SelectSeq(RuleRows(comps), LAMBDA row : "Rule_Id" \in DOMAIN row)
  IN  [i \in DOMAIN kept |-> ToRuleSet(kept[i])]

GetRuleSets(comps) ==
  LET kept == SelectSeq(RuleRows(comps), LAMBDA row : "Rule_Id" \in DOMAIN row)
  IN  IF \E i \in DOMAIN kept : None \in {ToRuleSet(kept[i]).rule_id, ToRuleSet(kept[i]).check_id}
      THEN Error
      ELSE [i \in DOMAIN kept |-> ToRuleSet(kept[i])]

\* C2P._find_rule_set: the first rule set whose effective check id matches
\* fault model: the observation's check id is compared with the rule id
FindRuleSetByRuleId(checkId, ruleSets) ==
  LET i == SelectInSeq(ruleSets, LAMBDA rs : rs.rule_id = checkId)
  IN  IF i = 0 THEN None ELSE ruleSets[i]

FindRuleSet(checkId, ruleSets) ==
  LET i == SelectInSeq(ruleSets, LAMBDA rs : rs.check_id = checkId)
  IN  IF i = 0 THEN None ELSE ruleSets[i]

-----------------------------------------------------------------------------
(* C2P._get_parameters: rows of the last non-validation component that     *)
(* carry Parameter_Id.  Parameter.value is a required str.                 *)

ParameterRows(comps) ==
  FoldLeft(LAMBDA rows, comp :
             IF ~IsComponentTypeValidation(comp.type)
             THEN GroupPropsByRemarks(comp.props) ELSE rows,
           <<>>, comps)

GetParameters(comps) ==
  LET kept == SelectSeq(ParameterRows(comps), LAMBDA row : "Parameter_Id" \in DOMAIN row)
      ToParameter(row) ==
        [id    |-> row["Parameter_Id"],
         value |-> GetDictSafely(row, "Parameter_Value_Alternatives")]
  IN  IF \E i \in DOMAIN kept : ToParameter(kept[i]).value = None
      THEN Error
      ELSE [i \in DOMAIN kept |-> ToParameter(kept[i])]

\* C2P.get_policy: rule sets first, then parameters; either may raise
GetPolicy(comps) ==
  LET rs == GetRuleSets(comps)
      ps == GetParameters(comps)
  IN  IF rs = Error \/ ps = Error THEN Error
      ELSE [rule_sets |-> rs, parameters |-> ps]

-----------------------------------------------------------------------------
(* pvp_result.set_defaults, applied in place.  An observation without a    *)
(* description gets check_id as both title and description; a subject    *)
(* without evaluated_on inherits collected.  Iterating a None              *)
(* observations_by_check or subjects list raises TypeError after the       *)
(* observations before it (and the title of the failing one) were already  *)
(* mutated.                                                                *)

DefaultObservation(o) ==
  LET titled == IF o.description = None
                THEN [o EXCEPT !.title = o.check_id, !.description = o.check_id]
                ELSE o
  IN  IF o.subjects = None THEN titled
      ELSE [titled EXCEPT !.subjects =
              [j \in DOMAIN o.subjects |->
                 IF o.subjects[j].evaluated_on = None
                 THEN [o.subjects[j] EXCEPT !.evaluated_on = o.collected]
                 ELSE o.subjects[j]]]

\* [value |-> the PVPResult after the call, ok |-> FALSE iff it raised]
SetDefaults(p) ==
  IF p = None \/ p.observations_by_check = None
  THEN [value |-> p, ok |-> FALSE]
  ELSE LET obs  == p.observations_by_check
           stop == SelectInSeq(obs, LAMBDA o : o.subjects = None)
           last == IF stop = 0 THEN Len(obs) ELSE stop
       IN  [value |-> [p EXCEPT !.observations_by_check =
                         [i \in DOMAIN obs |->
                            IF i <= last THEN DefaultObservation(obs[i]) ELSE obs[i]]],
            ok    |-> stop = 0]

-----------------------------------------------------------------------------
(* C2P._get_observations with oscal_utils.add_prop.  add_prop skips a None *)
(* value and builds Property(value=whitespace(value)); a value that is not *)
(* a valid OSCAL property value makes Property raise.  Observation takes   *)
(* description=observation.title, a required str in the OSCAL model.       *)

\* A free text (a reason) is a sequence of characters drawn from a small
\* alphabet; "\n" is a line end and " " a blank.
Blanks == {" ", "\n"}

\* oscal_utils.whitespace: every line end becomes a blank
Whitespace(text) == [i \in DOMAIN text |-> IF text[i] = "\n" THEN " " ELSE text[i]]

\* The OSCAL property value pattern ^\S(.*\S)?$ : non-empty, no line end,
\* neither starting nor ending with a blank
IsPropValue(text) ==
  /\ Len(text) >= 1
  /\ "\n" \notin Range(text)
  /\ text[1] \notin Blanks
  /\ text[Len(text)] \notin Blanks

\* the props add_prop attaches to a SubjectReference (None: no prop)
SubjectProps(s) ==
  [resource_id  |-> s.resource_id,
   result       |-> s.result,
   evaluated_on |-> s.evaluated_on,
   reason       |-> IF s.reason = None THEN None ELSE Whitespace(s.reason)]

ObservationRaises(o) ==
  \/ o.title = None
  \/ \E j \in DOMAIN o.subjects :
        o.subjects[j].reason # None /\ ~IsPropValue(Whitespace(o.subjects[j].reason))

ToOscalObservation(o, rs) ==
  [rule_id     |-> rs.rule_id,
   title       |-> o.title,
   description |-> o.title,
   collected   |-> o.collected,
   subjects    |-> [j \in DOMAIN o.subjects |-> SubjectProps(o.subjects[j])]]

\* fault model: the OSCAL observation is built before the rule set is looked up
GetObservationsEager(p, ruleSets) ==
  LET step(acc, o) ==
        LET rs == FindRuleSet(o.check_id, ruleSets) IN
        IF acc = Error THEN acc
        ELSE IF ObservationRaises(o) THEN Error
        ELSE IF rs = None THEN acc
        ELSE Append(acc, ToOscalObservation(o, rs))
  IN  FoldLeft(step, <<>>, p.observations_by_check)

GetObservations(p, ruleSets) ==
  LET step(acc, o) ==
        LET rs == FindRuleSet(o.check_id, ruleSets) IN
        IF acc = Error \/ rs = None THEN acc
        ELSE IF ObservationRaises(o) THEN Error
        ELSE Append(acc, ToOscalObservation(o, rs))
  IN  FoldLeft(step, <<>>, p.observations_by_check)

\* oscal_utils.reviewed_controls: one control selection per control
\* implementation of every non-validation component, selecting the control
\* id and statement ids (none for statements None) of each implemented
\* requirement
ReviewedControls(comps) ==
  LET targets == SelectSeq(comps, LAMBDA c : ~IsComponentTypeValidation(c.type))
      select(r) == [control_id |-> r.control_id,
                    statement_ids |-> IF r.statements = None THEN <<>> ELSE r.statements]
  IN  [i \in DOMAIN targets |-> [n \in DOMAIN targets[i].reqs |-> select(targets[i].reqs[n])]]

\* C2P.result_to_oscal -> _get_result: set_defaults, then the observations
\* (which re-derive the rule sets), then the reviewed controls
ResultToOscalValue(d) ==
  IF ~d.ok THEN Error
  ELSE LET rs == GetRuleSets(cdef) IN
       IF rs = Error THEN Error
       ELSE LET obs == GetObservations(d.value, rs) IN
            IF obs = Error THEN Error
            ELSE [observations |-> obs, reviewed_controls |-> ReviewedControls(cdef)]

-----------------------------------------------------------------------------
(* Operations of the C2P object                                            *)

\* C2P.__init__ : the component-definition is read once; the configuration
\* may already carry a pvp_result (as the sample scripts do)
Init ==
  /\ cdef \in CDefs
  /\ pvp \in PvpResults \cup {None}
  /\ ar = None
  /\ arInput = None
  /\ policy = None

\* C2P.set_pvp_result: the configuration now refers to the caller's object
SetPvpResult(r) ==
  /\ pvp' = r
  /\ UNCHANGED <<cdef, ar, arInput, policy>>

\* C2P.result_to_oscal
ResultToOscal ==
  LET d == SetDefaults(pvp) IN
  /\ pvp' = d.value
  /\ ar' = ResultToOscalValue(d)
  /\ arInput' = d.value
  /\ UNCHANGED <<cdef, policy>>

\* C2P.get_policy
GetPolicyOp ==
  /\ policy' = GetPolicy(cdef)
  /\ UNCHANGED <<cdef, pvp, ar, arInput>>

Next ==
  \/ \E r \in PvpResults : SetPvpResult(r)
  \/ ResultToOscal
  \/ GetPolicyOp

Spec == Init /\ [][Next]_vars

-----------------------------------------------------------------------------
(* Types                                                                   *)

Text      == Seq(STRING)                        \* a free text, character by character
Prop      == [name : STRING, value : STRING, remarks : STRING \cup {None}]
Requirement == [control_id : STRING, statements : Seq(STRING) \cup {None},
                rule_ids : Seq(STRING) \cup {None}]
Component == [type : STRING, title : STRING, props : Seq(Prop), reqs : Seq(Requirement)]
Subject   == [title : STRING, resource_id : STRING, result : ResultValues,
              evaluated_on : STRING \cup {None}, reason : Text \cup {None}]
ObservationByCheck ==
             [check_id : STRING, title : STRING \cup {None}, description : STRING \cup {None},
              collected : STRING, subjects : Seq(Subject) \cup {None}]
PVPResult  == [observations_by_check : Seq(ObservationByCheck) \cup {None}]
OscalObservation ==
             [rule_id : STRING, title : STRING, description : STRING, collected : STRING,
              subjects : Seq([resource_id : STRING, result : ResultValues,
                              evaluated_on : STRING, reason : Text \cup {None}])]
Selection == [control_id : STRING, statement_ids : Seq(STRING)]
AssessmentResults == [observations : Seq(OscalObservation), reviewed_controls : Seq(Seq(Selection))]
Policy == [rule_sets  : Seq([rule_id : STRING, check_id : STRING]),
           parameters : Seq([id : STRING, value : STRING])]

TypeOK ==
  /\ cdef \in Seq(Component)
  /\ pvp \in PVPResult \cup {None}
  /\ ar \in AssessmentResults \cup {None, Error}
  /\ arInput \in PVPResult \cup {None}
  /\ policy \in Policy \cup {None, Error}

-----------------------------------------------------------------------------
(* Properties                                                              *)

(* group_props_by_remarks against the grouping the spec (4.1) describes:   *)
(* one row per distinct remarks value, rows in the order their remarks was *)
(* first seen, and in each row every name bound to the value of the LAST   *)
(* prop with that remarks and name.                                        *)
GroupPropsSpec(props) ==
  LET firstSeen == {i \in DOMAIN props :
                      \A j \in 1..(i - 1) : props[j].remarks # props[i].remarks}
      order     == SetToSortSeq(firstSeen, <)
      Row(r)    == LET idx == {i \in DOMAIN props : props[i].remarks = r}
                   IN  [n \in {props[i].name : i \in idx} |->
                          props[Max({i \in idx : props[i].name = n})].value]
  IN  [k \in DOMAIN order |-> Row(props[order[k]].remarks)]

GroupPropsMatchesSpec ==
  \A c \in Range(cdef) : GroupPropsByRemarks(c.props) = GroupPropsSpec(c.props)

(* Round-trip projection (spec 8.1 and 8.3): a result of result_to_oscal   *)
(* holds exactly one OSCAL observation per input observation whose         *)
(* check_id matches an extracted rule set, in input order, none for an     *)
(* unmatched one; each carries the rule id of a rule set with that check   *)
(* id, the input's title and collected time, and one subject per input     *)
(* subject with the same result, an evaluated-on time, and the reason with *)
(* line ends blanked.                                                      *)
ProjectionRoundTrip ==
  ar \notin {None, Error} =>
    LET rs      == GetRuleSets(cdef)
        matched == SelectSeq(arInput.observations_by_check,
                             LAMBDA o : \E i \in DOMAIN rs : rs[i].check_id = o.check_id)
    IN  /\ Len(ar.observations) = Len(matched)
        /\ \A k \in DOMAIN matched :
             LET out == ar.observations[k]
                 src == matched[k]
             IN  /\ \E i \in DOMAIN rs : rs[i].check_id = src.check_id /\ rs[i].rule_id = out.rule_id
                 /\ out.title = src.title /\ out.collected = src.collected
                 /\ Len(out.subjects) = Len(src.subjects)
                 /\ \A j \in DOMAIN src.subjects :
                      /\ out.subjects[j].result = src.subjects[j].result
                      /\ out.subjects[j].evaluated_on # None
                      /\ out.subjects[j].reason =
                           IF src.subjects[j].reason = None THEN None
                           ELSE Whitespace(src.subjects[j].reason)

(* When result_to_oscal raises.  It fails exactly when there is no         *)
(* PVPResult or observation list, some observation has no subject list,    *)
(* rule extraction fails, or an observation that MATCHES a rule set has no *)
(* title after defaulting or a reason that is not a valid property value;  *)
(* malformed observations that match no rule set are dropped silently.     *)
ProjectionFailsOnlyOnMalformedInput ==
  ar # None =>
    (ar = Error <=>
       \/ arInput = None
       \/ arInput.observations_by_check = None
       \/ \E o \in Range(arInput.observations_by_check) : o.subjects = None
       \/ GetRuleSets(cdef) = Error
       \/ \E o \in Range(arInput.observations_by_check) :
            /\ \E rs \in Range(GetRuleSets(cdef)) : rs.check_id = o.check_id
            /\ \/ o.title = None
               \/ \E s \in Range(o.subjects) :
                    s.reason # None /\ ~IsPropValue(Whitespace(s.reason)))

(* Spec 8.2: the defaulting step of result_to_oscal never overwrites a     *)
(* title, description or evaluated_on that the PVPResult already has.      *)
DefaultsKeepGivenFields ==
  [][ResultToOscal /\ pvp \notin {None} /\ pvp.observations_by_check # None =>
      \A i \in DOMAIN pvp.observations_by_check :
        LET o == pvp.observations_by_check[i]
            n == pvp'.observations_by_check[i]
        IN  /\ o.title # None => n.title = o.title
            /\ o.description # None => n.description = o.description
            /\ o.subjects # None =>
                 \A j \in DOMAIN o.subjects :
                   o.subjects[j].evaluated_on # None =>
                     n.subjects[j].evaluated_on = o.subjects[j].evaluated_on]_vars

(* Spec 4.2: rule and parameter extraction raise nothing; a malformed row  *)
(* is dropped.  get_policy never fails on a loaded component-definition.   *)
ExtractionNeverRaises == policy # Error

=============================================================================
