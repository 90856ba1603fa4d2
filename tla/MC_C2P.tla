------------------------------- MODULE MC_C2P -------------------------------
(***************************************************************************)
(* Model-checking instance of C2P: the component-definitions and PVPResults *)
(* the runs enumerate.  ExtractCDefs varies the component-definition      *)
(* widely against a few PVPResults; ProjectCDefs fixes a few component-    *)
(* definitions and ProjectPvps varies the PVPResult widely.                 *)
(***************************************************************************)
EXTENDS Viewer, Heterogeneous

\* ---- props of a validation component (name, value, remarks) ----
PR1  == [name |-> "Rule_Id",  value |-> "r1", remarks |-> "g1"]
PC1  == [name |-> "Check_Id", value |-> "c1", remarks |-> "g1"]
PC2a == [name |-> "Check_Id", value |-> "c2", remarks |-> "g1"]   \* overrides PC1 in g1
PR2  == [name |-> "Rule_Id",  value |-> "r2", remarks |-> "g2"]
PC1b == [name |-> "Check_Id", value |-> "c1", remarks |-> "g2"]   \* c1 checked by two rules
PCn  == [name |-> "Check_Id", value |-> "c2", remarks |-> None]   \* no remarks
RulePropPool == {PR1, PC1, PC2a, PR2, PC1b, PCn}
PD1  == [name |-> "Check_Description", value |-> "d1", remarks |-> "g1"]
PD2  == [name |-> "Check_Description", value |-> "d2", remarks |-> "g2"]

\* ---- props of a target (non-validation) component ----
PP  == [name |-> "Parameter_Id",                 value |-> "x", remarks |-> "p1"]
PV  == [name |-> "Parameter_Value_Alternatives", value |-> "3", remarks |-> "p1"]
PP2 == [name |-> "Parameter_Id",                 value |-> "y", remarks |-> "p2"]

Validation(title, props) ==
  [type |-> "validation", title |-> title, props |-> props, reqs |-> <<>>]
Target(props) ==
  [type |-> "Service", title |-> "Cluster", props |-> props,
   reqs |-> <<[control_id |-> "ac-1", statements |-> <<"ac-1_smt.a">>, rule_ids |-> <<"r1", "r2">>]>>]

\* every validation component with up to three rule props, titled pvp_name
\* or another PVP, followed by a target component with up to two
\* parameter props; and definitions with two components titled pvp_name
ExtractCDefs ==
  { <<Validation(t, ps), Target(qs)>> :
      t \in {"OCM", "Kyverno"}, ps \in BoundedSeq(RulePropPool, 3),
      qs \in BoundedSeq({PP, PV, PP2}, 2) }
  \cup
  { <<Validation("OCM", a), Validation("OCM", b), Target(<<PP, PV>>)>> :
      a \in {<<PR1, PC1>>, <<PR2, PC1b>>}, b \in {<<PR1, PC1>>, <<PR2, PC1b>>, <<>>} }
  \cup
  { <<Target(<<PP, PV>>), Validation("OCM", <<PR1, PC1>>), Target(<<PP2>>)>> }

Obs(c, t, d, ss) ==
  [check_id |-> c, title |-> t, description |-> d, collected |-> "t0", subjects |-> ss]

ExtractPvps ==
  { [observations_by_check |-> <<Obs("c1", None, None, <<>>)>>],
    [observations_by_check |-> <<Obs("c9", None, "D", <<>>), Obs("c2", "T", "D", <<>>)>>] }

\* ---- component-definitions for the projection runs ----
ProjectCDefs ==
  { <<Validation("OCM", <<PR1, PC1, PR2, PC1b>>), Target(<<PP, PV>>)>>,   \* c1 twice
    <<Validation("OCM", <<PR1, PC1, PD1, PR2, PC1b, PD2>>), Target(<<>>)>>, \* with descriptions
    <<Validation("OCM", <<PR1, PC1, PCn>>), Target(<<>>)>>,               \* only c1
    <<Validation("OCM", <<PR1, PR2, PC1b>>), Target(<<>>)>> }            \* r1 has no check

\* ---- subjects and observations ----
SA == [title |-> "s1", resource_id |-> "u1", result |-> "pass",
       evaluated_on |-> None, reason |-> None]
SB == [title |-> "s2", resource_id |-> "u2", result |-> "failure",
       evaluated_on |-> "t1", reason |-> <<"a", "\n", "b">>]
SC == [title |-> "s3", resource_id |-> "u3", result |-> "error",
       evaluated_on |-> None, reason |-> <<"a", "\n">>]
SD == [title |-> "s4", resource_id |-> "u4", result |-> "error",
       evaluated_on |-> None, reason |-> <<"b">>]
SubjectLists == {None, <<>>, <<SA>>, <<SB>>, <<SC>>, <<SD>>, <<SA, SC>>, <<SB, SD>>}

SingleObservations ==
  { Obs(c, t, d, ss) : c \in {"c1", "c2", "c9"}, t \in {None, "T"}, d \in {None, "D"},
                       ss \in SubjectLists }

ProjectPvps ==
  { [observations_by_check |-> None] }
  \cup { [observations_by_check |-> <<o>>] : o \in SingleObservations }
  \cup { [observations_by_check |-> <<Obs("c9", None, "D", <<SB>>), Obs(c, None, None, <<SA>>)>>] :
           c \in {"c1", "c2"} }
  \cup { [observations_by_check |-> <<Obs("c1", None, None, <<SA>>), Obs("c2", "T", None, None)>>] }

\* ---- the two families together ----
AllCDefs == ExtractCDefs \cup ProjectCDefs
AllPvps  == ExtractPvps \cup ProjectPvps

\* the results a run sets: the many extraction definitions are paired
\* with the extraction results only, the projection definitions with all
PairedPvps == IF cdef \in ProjectCDefs THEN AllPvps ELSE ExtractPvps

\* ---- the other single-PVP runs of the heterogeneous sample ----
OObs(rid) == [rule_id |-> rid, title |-> "T", description |-> "D", collected |-> "t0", subjects |-> <<>>]
Sel(c, ids) == [control_id |-> c, statement_ids |-> ids]
\* a run reviewing ac-1 with another statement, then cm-2 in two
\* selections; it stands for both other runs, so every control repeats
MCOtherResults ==
  { [observations |-> <<OObs("a1")>>,
     reviewed_controls |-> <<<<Sel("ac-1", <<"ac-1_smt.b">>), Sel("cm-2", <<>>)>>,
                             <<Sel("cm-2", <<"cm-2_smt">>)>>>>] }

\* runs that do not merge
NoOtherResults == {}

\* Spec with the results of set_pvp_result drawn from PairedPvps
MCInit == ViewerInit /\ merged = None /\ pvp \in PairedPvps \cup {None}

\* render and the heterogeneous merge each end a run: they read the
\* results written by the C2P object's last result_to_oscal
Running == viewed = None /\ merged = None
MCNext ==
  \/ Running /\ (\E r \in PairedPvps : SetPvpResult(r)) /\ UNCHANGED <<viewerVars, merged>>
  \/ Running /\ ResultToOscal /\ UNCHANGED <<viewerVars, merged>>
  \/ Running /\ GetPolicyOp /\ UNCHANGED <<viewerVars, merged>>
  \/ Running /\ RenderReport /\ UNCHANGED merged
  \/ Running /\ Merge /\ UNCHANGED viewerVars

MCSpec == MCInit /\ [][MCNext]_<<vars, viewerVars, merged>>

=====
