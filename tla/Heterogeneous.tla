---------------------------- MODULE Heterogeneous ----------------------------
(***************************************************************************)
(* The heterogeneous sample (src/samples_public/heterogeneous/             *)
(* result_to_compliance.py): the AssessmentResults of three single-PVP     *)
(* runs (auditree, kyverno, ocm, in that order) merged into one.  The       *)
(* reviewed controls of every run's first result are taken in run order    *)
(* and folded into a dict keyed by control id, the statement ids of a      *)
(* repeated control appended to the first; the observations are            *)
(* concatenated.  Composed with the C2P object: the middle run is the      *)
(* AssessmentResults result_to_oscal returned, the other two are given.    *)
(* The subprocess calls, metadata, uuids and times are left out.           *)
(***************************************************************************)
EXTENDS C2P

CONSTANTS
  OtherResults   \* AssessmentResults the other single-PVP runs may print

VARIABLE
  merged         \* the merged AssessmentResults printed (None before)

\* map_to_include_controls: every include_control of every control
\* selection of the run's first result
MapToIncludeControls(a) == FlattenSeq(a.reviewed_controls)

\* mutant: a repeated control id keeps only its last statement ids
IncludeControlsMapLastWins(cs) ==
  FoldLeft(LAMBDA acc, c :
             IF \E n \in DOMAIN acc : acc[n].control_id = c.control_id
             THEN [n \in DOMAIN acc |-> IF acc[n].control_id = c.control_id THEN c ELSE acc[n]]
             ELSE Append(acc, c),
           <<>>, cs)

\* include_controls_map: the dict in insertion order; a repeated control id
\* keeps its place and gets its statement ids appended
IncludeControlsMap(cs) ==
  FoldLeft(LAMBDA acc, c :
             IF \E n \in DOMAIN acc : acc[n].control_id = c.control_id
             THEN [n \in DOMAIN acc |->
                     IF acc[n].control_id = c.control_id
                     THEN [acc[n] EXCEPT !.statement_ids = @ \o c.statement_ids]
                     ELSE acc[n]]
             ELSE Append(acc, c),
           <<>>, cs)

\* the merged result: one control selection with the map's controls, and
\* the observations of the runs in order
MergeResults(ars) ==
  [observations      |-> FlattenSeq([n \in DOMAIN ars |-> ars[n].observations]),
   reviewed_controls |-> <<IncludeControlsMap(
                             FlattenSeq([n \in DOMAIN ars |-> MapToIncludeControls(ars[n])]))>>]

\* the sample script after the three runs printed their results
Merge ==
  /\ ar \notin {None, Error} /\ merged = None
  /\ \E auditree, ocm \in OtherResults : merged' = MergeResults(<<auditree, ar, ocm>>)
  /\ UNCHANGED vars

-----------------------------------------------------------------------------
(* Properties                                                              *)

\* the control ids of a sequence of selections, in order of first appearance
ControlOrder(cs) ==
  FoldLeft(LAMBDA acc, c : IF c \in Range(acc) THEN acc ELSE Append(acc, c),
           <<>>, [n \in DOMAIN cs |-> cs[n].control_id])

\* A merged result holds the observations of the three runs, auditree's,
\* then the C2P object's, then ocm's; and one control selection reviewing
\* each control any run reviewed exactly once, in order of first review,
\* with the statement ids of every selection of that control, in run order,
\* duplicates kept.
MergedReviewCoversRuns ==
  merged # None =>
    \E a1, a3 \in OtherResults :
      LET runs == <<a1, ar, a3>>
          cs   == FlattenSeq([n \in 1..3 |-> FlattenSeq(runs[n].reviewed_controls)])
          ids  == ControlOrder(cs)
          sel  == merged.reviewed_controls[1]
      IN  /\ merged.observations = a1.observations \o ar.observations \o a3.observations
          /\ Len(merged.reviewed_controls) = 1
          /\ Len(sel) = Len(ids)
          /\ \A n \in DOMAIN ids :
               /\ sel[n].control_id = ids[n]
               /\ sel[n].statement_ids =
                    FlattenSeq([m \in DOMAIN SelectSeq(cs, LAMBDA c : c.control_id = ids[n]) |->
                                  SelectSeq(cs, LAMBDA c : c.control_id = ids[n])[m].statement_ids])

====
