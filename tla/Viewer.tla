------------------------------- MODULE Viewer -------------------------------
(***************************************************************************)
(* The report renderer of src/c2p/tools/viewer/viewer.py, composed with    *)
(* the C2P object: render(assessment_results, component_definition) reads *)
(* the AssessmentResults that result_to_oscal returned and the component-  *)
(* definition the C2P object loaded, and joins them: for each non-         *)
(* validation component, each implemented requirement and each of its      *)
(* Rule_Id props, the validation row with that Rule_Id and the first       *)
(* observation whose assessment-rule-id is that rule id.                   *)
(*                                                                         *)
(* The report keeps the structure the markdown template lays out; the      *)
(* template itself, uuids and subject titles are left out.  An exception   *)
(* (KeyError, TypeError, pydantic ValidationError) makes the call return   *)
(* Error.                                                                  *)
(***************************************************************************)
EXTENDS C2P

VARIABLES
  viewed,    \* the AssessmentResults last passed to render (None before)
  report     \* what render returned, Error if it raised

viewerVars == <<viewed, report>>

\* rule_sets_map: validation component title -> its grouped rows.  A later
\* component with the same title replaces the rows, but the title keeps the
\* position where it was first inserted.
RuleSetsMap(comps) ==
  LET vals   == SelectSeq(comps, LAMBDA c : IsComponentTypeValidation(c.type))
      titles == FoldLeft(LAMBDA acc, c : IF c.title \in Range(acc) THEN acc ELSE Append(acc, c.title),
                         <<>>, vals)
      last(t) == vals[CHOOSE n \in DOMAIN vals : vals[n].title = t
                                                /\ \A m \in n+1..Len(vals) : vals[m].title # t]
  IN  [n \in DOMAIN titles |-> [pvp |-> titles[n], rows |-> GroupPropsByRemarks(last(titles[n]).props)]]

\* get_pvp_rule_pair: the first row, over the pvps in order, whose Rule_Id
\* is rule_id; rule['Rule_Id'] raises KeyError on a row without one
GetPvpRulePair(map, ruleId) ==
  LET pairs == FlattenSeq([n \in DOMAIN map |->
                 [m \in DOMAIN map[n].rows |-> [pvp |-> map[n].pvp, row |-> map[n].rows[m]]]])
  IN  FoldLeft(LAMBDA acc, p :
                 IF acc # None THEN acc
                 ELSE IF "Rule_Id" \notin DOMAIN p.row THEN Error
                 ELSE IF p.row["Rule_Id"] = ruleId THEN p
                 ELSE None,
               None, pairs)

\* find_observation: the first observation whose assessment-rule-id prop
\* is the rule id, None if there is none
FindObservation(obs, ruleId) ==
  LET hits == SelectSeq(obs, LAMBDA o : o.rule_id = ruleId)
  IN  IF hits = <<>> THEN None ELSE hits[1]

\* mutant: an error result is shown with the failure glyph
IconErrorAsFailure(result) ==
  IF result = "pass" THEN "check" ELSE "cross"

\* get_pass_fail_icon: string equality on the result
Icon(result) ==
  CASE result = "pass"    -> "check"
    [] result = "failure" -> "cross"
    [] OTHER              -> "warning"

\* SubjectResult(uuid, title, result=f'{result} {icon}', reason): reason is
\* a required str, so a subject without a reason prop raises ValidationError
SubjectResult(s) ==
  IF s.reason = None THEN Error ELSE [result |-> s.result, icon |-> Icon(s.result), reason |-> s.reason]

\* the body of the Rule_Id loop for one rule id: nothing when no row names
\* it; rule_set['Check_Description'] (KeyError when the row has none); the
\* rule result is appended only when an observation is found
RuleResult(map, obs, ruleId) ==
  LET pair == GetPvpRulePair(map, ruleId) IN
  IF pair \in {None, Error} THEN pair
  ELSE IF "Check_Description" \notin DOMAIN pair.row THEN Error
  ELSE LET o == FindObservation(obs, pair.row["Rule_Id"]) IN
       IF o = None THEN None
       ELSE LET ss == [n \in DOMAIN o.subjects |-> SubjectResult(o.subjects[n])] IN
            IF Error \in Range(ss) THEN Error
            ELSE [rule_id |-> ruleId, pvp |-> pair.pvp,
                  description |-> pair.row["Check_Description"], subjects |-> ss]

\* the rule results of one implemented requirement; filter over props None
\* raises TypeError
ControlResult(map, obs, req) ==
  IF req.rule_ids = None THEN Error
  ELSE LET rs == [n \in DOMAIN req.rule_ids |-> RuleResult(map, obs, req.rule_ids[n])] IN
       IF Error \in Range(rs) THEN Error
       ELSE [id |-> req.control_id, rules |-> SelectSeq(rs, LAMBDA r : r # None)]

\* render: one rendered component per non-validation component, one control
\* result per implemented requirement
Render(results, comps) ==
  LET map     == RuleSetsMap(comps)
      targets == SelectSeq(comps, LAMBDA c : ~IsComponentTypeValidation(c.type))
      out     == [k \in DOMAIN targets |->
                    [n \in DOMAIN targets[k].reqs |->
                       ControlResult(map, results.observations, targets[k].reqs[n])]]
  IN  IF \E k \in DOMAIN out : Error \in Range(out[k]) THEN Error
      ELSE [k \in DOMAIN targets |-> [title |-> targets[k].title, controls |-> out[k]]]

-----------------------------------------------------------------------------

ViewerInit == Init /\ viewed = None /\ report = None

\* the viewer command on the AssessmentResults result_to_oscal returned and
\* the same component-definition
RenderReport ==
  /\ ar \notin {None, Error}
  /\ viewed' = ar
  /\ report' = Render(ar, cdef)
  /\ UNCHANGED vars

\* the C2P object's operations leave the last report as it is
C2PStep == Next /\ UNCHANGED viewerVars

ViewerNext == C2PStep \/ RenderReport

ViewerSpec == ViewerInit /\ [][ViewerNext]_<<vars, viewerVars>>

-----------------------------------------------------------------------------
(* Types and properties.  The expected report is written from spec 4.5.   *)

RuleView == [rule_id : STRING, pvp : STRING, description : STRING,
             subjects : Seq([result : ResultValues, icon : {"check", "cross", "warning"},
                             reason : Text])]
ReportView == Seq([title : STRING, controls : Seq([id : STRING, rules : Seq(RuleView)])])

ViewerTypeOK ==
  /\ TypeOK
  /\ viewed \in AssessmentResults \cup {None}
  /\ report \in ReportView \cup {None, Error}

\* the glyph spec 4.5 chooses by string equality on the result
Glyph(result) == IF result = "pass" THEN "check" ELSE IF result = "failure" THEN "cross" ELSE "warning"

\* the Rule_Id values of every grouped row of every validation component
RowRuleIds ==
  UNION {{GroupPropsByRemarks(c.props)[n]["Rule_Id"] :
            n \in {m \in DOMAIN GroupPropsByRemarks(c.props) : "Rule_Id" \in DOMAIN GroupPropsByRemarks(c.props)[m]}} :
           c \in {d \in Range(cdef) : IsComponentTypeValidation(d.type)}}

\* the index of the first observation of the rendered results that carries
\* the rule id, 0 if none does
FirstObservation(id) ==
  LET hits == {j \in DOMAIN viewed.observations : viewed.observations[j].rule_id = id}
  IN  IF hits = {} THEN 0 ELSE CHOOSE j \in hits : \A i \in hits : j <= i

\* When render returns, the report has the non-validation components in
\* order, each implemented requirement as a control, and under it the rules
\* it names, in the requirement's order; every rule listed is the Rule_Id
\* of some validation row (the description text is abstracted away) and
\* shows exactly the subjects of the first observation carrying the rule
\* id, each with its result, the glyph for it, and its reason.
ReportMirrorsObservations ==
  report \notin {None, Error} =>
    LET targets == SelectSeq(cdef, LAMBDA c : ~IsComponentTypeValidation(c.type)) IN
    /\ Len(report) = Len(targets)
    /\ \A k \in DOMAIN targets :
         /\ report[k].title = targets[k].title
         /\ Len(report[k].controls) = Len(targets[k].reqs)
         /\ \A n \in DOMAIN targets[k].reqs :
              LET c   == report[k].controls[n]
                  req == targets[k].reqs[n]
                  ids == [i \in DOMAIN c.rules |-> c.rules[i].rule_id]
              IN
              /\ c.id = req.control_id
              /\ ids = SelectSeq(req.rule_ids, LAMBDA id : id \in Range(ids))
              /\ \A i \in DOMAIN c.rules :
                   LET r == c.rules[i]
                       j == FirstObservation(r.rule_id)
                   IN  /\ r.rule_id \in RowRuleIds
                       /\ j > 0
                       /\ Len(r.subjects) = Len(viewed.observations[j].subjects)
                       /\ \A m \in DOMAIN r.subjects :
                            LET s == viewed.observations[j].subjects[m] IN
                            r.subjects[m] = [result |-> s.result, icon |-> Glyph(s.result),
                                             reason |-> s.reason]

\* Spec 4.5: render never fails on a missing cross-reference; every Rule_Id
\* of an implemented requirement that a validation row defines is listed,
\* with an empty subject list when no observation carries it.
EveryRuleListed ==
  viewed # None =>
    /\ report # Error
    /\ \A k \in DOMAIN report : \A n \in DOMAIN report[k].controls :
         LET req == SelectSeq(cdef, LAMBDA c : ~IsComponentTypeValidation(c.type))[k].reqs[n] IN
         \A id \in Range(req.rule_ids) \cap RowRuleIds :
           \E i \in DOMAIN report[k].controls[n].rules : report[k].controls[n].rules[i].rule_id = id

====
