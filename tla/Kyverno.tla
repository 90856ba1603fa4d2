------------------------------- MODULE Kyverno -------------------------------
(***************************************************************************)
(* PluginKyverno (src/plugins_public/plugins/kyverno.py).                  *)
(*                                                                         *)
(* generate_pvp_result: the results of the PolicyReports, then of the      *)
(* ClusterPolicyReports, are grouped by policy name; the names are a       *)
(* Python set, iterated in an order the model leaves free.  One atomic     *)
(* step: the function is a pure transform that either returns or raises.   *)
(*                                                                         *)
(* generate_pvp_policy: the deliverable directory is created (or rejected  *)
(* when it is a file); for each rule set its template directory is copied  *)
(* over the deliverable's subdirectory (copytree, dirs_exist_ok) and every *)
(* path the glob yields is read and, unless it is a Kyverno policy         *)
(* document, rendered with the parameters.  One step per phase, per rule   *)
(* set and per path, so that a raise leaves the filesystem as the code     *)
(* leaves it.  The plugin may be called again on the same directory.       *)
(***************************************************************************)
EXTENDS Naturals, Sequences, SequencesExt

CONSTANTS
  RawData,     \* candidate values of raw_result.data
  Policies,    \* candidate Policy arguments: [rules : Seq(rule id), params : Seq(param)]
  Templates,   \* policy_template_dir: rule id -> (path -> file record or Dir)
  NowEpoch,    \* get_datetime(), in seconds since the epoch
  MaxCalls,    \* bound on the calls of generate_pvp_policy
  None, Missing, Error, Absent, NotDir, Dir

VARIABLES
  raw,       \* raw_result.data
  result,    \* the returned observations, Error if it raised, None before
  deliv,     \* deliverable_policy_dir: Absent, NotDir, or rule dir -> tree
  pol,       \* the Policy of the current call
  k,         \* index of the current rule set
  todo,      \* paths of the glob not processed yet
  ppc,       \* "idle", "rule", "render", "done" or "error"
  calls      \* calls of generate_pvp_policy so far

vars == <<raw, result, deliv, pol, k, todo, ppc, calls>>

-----------------------------------------------------------------------------
(* generate_pvp_result *)

\* status_dictionary, looked up with a default of ResultEnum.Error
StatusDictionary == [pass |-> "pass", fail |-> "failure", warn |-> "failure",
                     skip |-> "error", error |-> "error"]

\* mutant: an unmapped status defaults to pass
ToResultOptimistic(s) == IF s \in DOMAIN StatusDictionary THEN StatusDictionary[s] ELSE "pass"

ToResult(s) == IF s \in DOMAIN StatusDictionary THEN StatusDictionary[s] ELSE "error"

ReportsOf(data, kind) == SelectSeq(data, LAMBDA x : x.kind = kind)

\* mutant: the ClusterPolicyReports' results before the PolicyReports'
ResultsClusterFirst(data) ==
  FlattenSeq([n \in 1..Len(ReportsOf(data, "ClusterPolicyReport")) |->
                ReportsOf(data, "ClusterPolicyReport")[n].results])
  \o FlattenSeq([n \in 1..Len(ReportsOf(data, "PolicyReport")) |->
                ReportsOf(data, "PolicyReport")[n].results])

\* polrs and cpolrs (apiVersion wgpolicyk8s.io/v1alpha2), results of the
\* PolicyReports first
Results(data) ==
  FlattenSeq([n \in 1..Len(ReportsOf(data, "PolicyReport")) |->
                ReportsOf(data, "PolicyReport")[n].results])
  \o FlattenSeq([n \in 1..Len(ReportsOf(data, "ClusterPolicyReport")) |->
                ReportsOf(data, "ClusterPolicyReport")[n].results])

PolicyNames(data) == {Results(data)[n].policy : n \in 1..Len(Results(data))}

\* get_dict_safely(rpp, ['timestamp', 'seconds'], get_datetime().second),
\* passed to datetime.fromtimestamp(..., tz=timezone.utc)
EvaluatedOn(rpp) == [epoch |-> IF rpp.seconds = Missing THEN NowEpoch % 60 ELSE rpp.seconds]

\* to_subject(resource): namespace defaults to "(ClusterScope)" in the
\* title; the title's other parts are left out
ToSubject(rpp, res) ==
  [title        |-> IF res.namespace = Missing THEN "(ClusterScope)" ELSE res.namespace,
   resource_id  |-> res.uid,
   result       |-> ToResult(rpp.result),
   evaluated_on |-> EvaluatedOn(rpp),
   reason       |-> rpp.message]

\* subjects + list(map(to_subject, resources)) over results_per_policy
SubjectsOf(data, name) ==
  LET rpps == SelectSeq(Results(data), LAMBDA x : x.policy = name)
  IN  FlattenSeq([n \in 1..Len(rpps) |->
                    [m \in 1..Len(rpps[n].resources) |-> ToSubject(rpps[n], rpps[n].resources[m])]])

\* mutant: a resource without a uid is not rejected
RaisesNoUidCheck(data) ==
  \E n \in 1..Len(Results(data)) :
    Results(data)[n].message = Missing \/ Results(data)[n].resources = Missing

\* rpp['message'] raises KeyError; map over resources None raises
\* TypeError; Subject(resource_id=None) raises ValidationError
Raises(data) ==
  \E n \in 1..Len(Results(data)) :
    LET rpp == Results(data)[n] IN
    \/ rpp.message = Missing
    \/ rpp.resources = Missing
    \/ \E m \in 1..Len(rpp.resources) : rpp.resources[m].uid = Missing

BuildResult(data, order) ==
  [n \in 1..Len(order) |-> [check_id  |-> order[n],
                            collected |-> [epoch |-> NowEpoch],
                            subjects  |-> SubjectsOf(data, order[n])]]

-----------------------------------------------------------------------------
(* generate_pvp_policy *)

\* mutant: a document is taken for a policy on its kind alone
IsPolicyFileKindOnly(docs) ==
  \E n \in 1..Len(docs) : docs[n].kind \in {"ClusterPolicy", "Policy"}

\* __is_policy_file: some document is a kyverno.io/v1 ClusterPolicy or Policy
IsPolicyFile(docs) ==
  \E n \in 1..Len(docs) : docs[n].kind \in {"ClusterPolicy", "Policy"}
                          /\ docs[n].apiVersion = "kyverno.io/v1"

\* kv = dict(map(lambda x: (x.id, x.value), parameters)): a later
\* parameter with the same id wins
KV(params) == FoldLeft(LAMBDA f, p : (p.id :> p.value) @@ f, <<>>, params)

\* Template(source=tp_str).render(kv): a body is a sequence of tokens, text
\* or a {{ id }} placeholder; a placeholder becomes its value as text, an
\* undefined one the empty string
Render(body, kv) ==
  FoldLeft(LAMBDA acc, t :
             IF ~t.ph THEN Append(acc, t)
             ELSE IF t.v \in DOMAIN kv THEN Append(acc, [ph |-> FALSE, v |-> kv[t.v]])
             ELSE acc,
           <<>>, body)

\* shutil.copytree(src, dst, dirs_exist_ok=True): the template's paths
\* overwrite the directory's, its other paths stay
CopyTree(src, dst) == src @@ dst

\* the subdirectory of rule id r, empty when it does not exist yet
RuleDir(d, r) == IF r \in DOMAIN d THEN d[r] ELSE <<>>

Init ==
  /\ raw \in RawData /\ result = None
  /\ deliv \in {Absent, NotDir}
  /\ pol = None /\ k = 0 /\ todo = <<>> /\ ppc = "idle" /\ calls = 0

\* generate_pvp_result, from the filters to the return, or its raise
GeneratePvpResult ==
  /\ result = None
  /\ IF Raises(raw) THEN result' = Error
     ELSE \E order \in SetToSeqs(PolicyNames(raw)) : result' = BuildResult(raw, order)
  /\ UNCHANGED <<raw, deliv, pol, k, todo, ppc, calls>>

\* a call: the deliverable is created when missing, C2PError when it is
\* a file
StartPolicy(p) ==
  /\ ppc \in {"idle", "done", "error"} /\ calls < MaxCalls
  /\ pol' = p /\ calls' = calls + 1 /\ k' = 1 /\ todo' = <<>>
  /\ IF deliv = NotDir
     THEN ppc' = "error" /\ UNCHANGED deliv
     ELSE /\ ppc' = "rule"
          /\ deliv' = IF deliv = Absent THEN <<>> ELSE deliv
  /\ UNCHANGED <<raw, result>>

\* copytree of rule set k's template (FileNotFoundError when the template
\* directory is missing), then the glob of the copied directory, in an
\* order the model leaves free
CopyRule ==
  /\ ppc = "rule" /\ k <= Len(pol.rules)
  /\ LET r == pol.rules[k] IN
     IF r \notin DOMAIN Templates
     THEN ppc' = "error" /\ UNCHANGED <<deliv, todo>>
     ELSE LET tree == CopyTree(Templates[r], RuleDir(deliv, r)) IN
          /\ deliv' = (r :> tree) @@ deliv
          /\ \E order \in SetToSeqs(DOMAIN tree) : todo' = order
          /\ ppc' = "render"
  /\ UNCHANGED <<raw, result, pol, k, calls>>

\* one path of the glob: a directory raises IsADirectoryError at open; a
\* file that is not a policy document is rendered and written back
RenderPath ==
  /\ ppc = "render" /\ todo # <<>>
  /\ LET r == pol.rules[k]
         f == deliv[r][Head(todo)]
     IN  IF f = Dir
         THEN ppc' = "error" /\ UNCHANGED <<deliv, todo>>
         ELSE /\ deliv' = [deliv EXCEPT ![r][Head(todo)] =
                             IF IsPolicyFile(f.docs) THEN f
                             ELSE [f EXCEPT !.body = Render(f.body, KV(pol.params))]]
              /\ todo' = Tail(todo) /\ UNCHANGED ppc
  /\ UNCHANGED <<raw, result, pol, k, calls>>

\* the glob is done: next rule set
NextRule ==
  /\ ppc = "render" /\ todo = <<>>
  /\ k' = k + 1 /\ ppc' = "rule"
  /\ UNCHANGED <<raw, result, deliv, pol, todo, calls>>

\* the loop over rule_sets ends and the call returns
EndPolicy ==
  /\ ppc = "rule" /\ k > Len(pol.rules)
  /\ ppc' = "done"
  /\ UNCHANGED <<raw, result, deliv, pol, k, todo, calls>>

Next ==
  \/ GeneratePvpResult
  \/ \E p \in Policies : StartPolicy(p)
  \/ CopyRule
  \/ RenderPath
  \/ NextRule
  \/ EndPolicy

Spec == Init /\ [][Next]_vars

-----------------------------------------------------------------------------
(* Types *)

Time == [epoch : Nat]
IsToken(t) == t \in [ph : BOOLEAN, v : STRING]
IsFile(f) == f = Dir \/ (DOMAIN f = {"docs", "body"} /\ \A n \in 1..Len(f.body) : IsToken(f.body[n]))
IsTree(d) == \A r \in DOMAIN d : \A q \in DOMAIN d[r] : IsFile(d[r][q])
Subject == [title : STRING, resource_id : STRING, result : {"pass", "failure", "error"},
            evaluated_on : Time, reason : STRING]

TypeOK ==
  /\ result \in {None, Error}
     \/ \A n \in 1..Len(result) :
          /\ result[n].collected = [epoch |-> NowEpoch]
          /\ \A m \in 1..Len(result[n].subjects) : result[n].subjects[m] \in Subject
  /\ deliv \in {Absent, NotDir} \/ IsTree(deliv)
  /\ ppc \in {"idle", "rule", "render", "done", "error"}
  /\ calls \in 0..MaxCalls
  /\ ppc = "render" => \A n \in 1..Len(todo) : todo[n] \in DOMAIN deliv[pol.rules[k]]

-----------------------------------------------------------------------------
(* What the plugin promises (spec 4.3), written from the spec.            *)

\* the native status vocabulary onto pass/failure/error, failing closed
ExpectedResult(s) ==
  CASE s = "pass"            -> "pass"
    [] s \in {"fail", "warn"} -> "failure"
    [] OTHER                 -> "error"

\* every (result, resource) pair the reports list for policy name, the
\* namespaced reports before the cluster-scoped ones
Evaluated(data, name) ==
  LET rs(kind) == FlattenSeq([n \in 1..Len(SelectSeq(data, LAMBDA x : x.kind = kind)) |->
                               SelectSeq(data, LAMBDA x : x.kind = kind)[n].results])
      own      == SelectSeq(rs("PolicyReport") \o rs("ClusterPolicyReport"),
                            LAMBDA x : x.policy = name)
  IN  FlattenSeq([n \in 1..Len(own) |->
                    [m \in 1..Len(own[n].resources) |-> <<own[n], own[n].resources[m]>>]])

\* When generate_pvp_result returns, it has one observation per distinct
\* policy name of the PolicyReports and ClusterPolicyReports, and the
\* subjects of each are its policy's evaluated resources, in the reports'
\* order, each with the resource's uid and the status mapped fail-closed.
ObservationsMirrorReports ==
  result \notin {None, Error} =>
    /\ IsInjective([n \in 1..Len(result) |-> result[n].check_id])
    /\ {result[n].check_id : n \in 1..Len(result)} =
         UNION {{raw[n].results[m].policy : m \in 1..Len(raw[n].results)} :
                  n \in {q \in 1..Len(raw) : raw[q].kind # "Other"}}
    /\ \A n \in 1..Len(result) :
         LET ev == Evaluated(raw, result[n].check_id) IN
         /\ Len(result[n].subjects) = Len(ev)
         /\ \A m \in 1..Len(ev) :
              /\ result[n].subjects[m].resource_id = ev[m][2].uid
              /\ result[n].subjects[m].result = ExpectedResult(ev[m][1].result)

\* Spec 4.3 (3): a subject's evaluated_on is the tool's timestamp when the
\* result has one, else the current time (get_datetime()).
EvaluatedOnFromTimestampOrNow ==
  result \notin {None, Error} =>
    \A n \in 1..Len(result) : \A m \in 1..Len(result[n].subjects) :
      LET ev == Evaluated(raw, result[n].check_id)[m][1] IN
      result[n].subjects[m].evaluated_on.epoch = IF ev.seconds = Missing THEN NowEpoch ELSE ev.seconds

\* generate_pvp_policy as the abstract specification of a template
\* deliverable sees it: a call between its start and its return or raise
\* is running
Deliverable == INSTANCE TemplateDeliverable
                 WITH status <- IF ppc \in {"rule", "render"} THEN "running" ELSE ppc

\* the plugin with its calls running to their end: the steps of a started
\* call are statements of one Python function that nothing blocks
FairSpec == Spec /\ WF_vars(CopyRule \/ RenderPath \/ NextRule \/ EndPolicy)

\* Spec 4.3 (b): generate_pvp_policy implements TemplateDeliverable.  A call
\* changes only the subdirectories of its policy's rule ids, each file to
\* the template's copy or its rendering (Kyverno policy documents verbatim,
\* every other placeholder replaced by the last value given for it, or
\* removed); it returns only when every template file of every rule id is
\* rendered, also over an earlier call's output; a raise leaves no other
\* change; and a started call ends.
DeliverableRefinement == Deliverable!Spec

====
