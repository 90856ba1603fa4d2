------------------------------ MODULE OcmPolicy ------------------------------
(***************************************************************************)
(* PluginOCM.generate_pvp_policy (src/plugins_public/plugins/ocm.py),      *)
(* composed with generate_pvp_result (module OcmResult) into the plugin.   *)
(*                                                                         *)
(* The deliverable directory is created (or rejected when it is a file).   *)
(* For each rule set, the rule's template directory is copied over the     *)
(* deliverable's subdirectory, its policy-generator.yaml gets the hub      *)
(* namespace, empty standards/controls/categories and the placement, and   *)
(* the first policy of the file becomes the rule's PolicyConfig (manifest  *)
(* paths moved under "./<rule id>/"), kept in policy_config_map by rule    *)
(* id.  At the end the top-level policy-generator.yaml (one policy set     *)
(* listing the map's keys), parameters.yaml and kustomization.yaml are     *)
(* written.  One step per phase and per rule set, so that a raise leaves   *)
(* the directory as the code leaves it.                                    *)
(*                                                                         *)
(* A rule's policy-generator.yaml is a record of its policyDefaults and    *)
(* policies; the other template files are copied and never read, and are   *)
(* left out.  kustomization.yaml does not depend on the input.             *)
(***************************************************************************)
EXTENDS OcmResult, FiniteSets

CONSTANTS
  OcmPolicies,   \* candidate Policy arguments: [rules : Seq(rule id), params : Seq(param)]
  OcmTemplates,  \* policy_template_dir: rule id -> its policy-generator.yaml
  Namespace,     \* config.namespace
  Selectors,     \* config.cluster_selectors
  MaxCalls,      \* bound on the calls of generate_pvp_policy
  Absent, NotDir

VARIABLES
  deliv,      \* deliverable_policy_dir: Absent, NotDir or [rules, top]
  pol,        \* the Policy of the current call
  k,          \* index of the current rule set
  configMap,  \* policy_config_map, as a sequence of [id, config] in insertion order
  ppc,        \* "idle", "rule", "done" or "error"
  calls       \* calls of generate_pvp_policy so far

policyVars == <<deliv, pol, k, configMap, ppc, calls>>

\* str.replace(old, new): every non-overlapping occurrence, left to right
RECURSIVE StrReplace(_, _, _)
StrReplace(s, old, new) ==
  IF Len(s) < Len(old) THEN s
  ELSE IF SubSeq(s, 1, Len(old)) = old
       THEN new \o StrReplace(SubSeq(s, Len(old) + 1, Len(s)), old, new)
       ELSE SubSeq(s, 1, 1) \o StrReplace(SubSeq(s, 2, Len(s)), old, new)

\* the policyDefaults the code writes into a rule's policy-generator.yaml
RuleDefaults == [namespace |-> Namespace, standards |-> <<>>, controls |-> <<>>,
                 categories |-> <<>>, placement |-> Selectors]

\* PolicyConfig.parse_obj(policies[0]) with each manifest path's "./"
\* replaced by "./<rule id>/"
Relocate(pg, id) ==
  [pg EXCEPT !.manifests = [m \in DOMAIN @ |-> StrReplace(@[m], "./", "./" \o id \o "/")]]

\* mutant: the manifest paths of an already mapped rule are moved again
ConfigOfReprefix(map, id, pg) ==
  IF \E n \in DOMAIN map : map[n].id = id
  THEN Relocate((CHOOSE e \in Range(map) : e.id = id).config, id)
  ELSE Relocate(pg, id)

\* the rule's PolicyConfig: the one already in policy_config_map, else the
\* first policy of its generator, relocated
ConfigOf(map, id, pg) ==
  IF \E n \in DOMAIN map : map[n].id = id
  THEN (CHOOSE e \in Range(map) : e.id = id).config
  ELSE Relocate(pg, id)

\* __merge_uniquely(targets, []): list(set(targets)), [] for None; the
\* values list is always empty, so its loop never runs.  The lists of a
\* PolicyConfig are only ever read through set(), so they are sets here and
\* the order list(set(...)) gives them is left out.
MergeUniquely(targets) == IF targets = None THEN {} ELSE targets

\* the three merges in the code's order: categories from controls, then
\* controls from the new categories
MergeConfig(c) ==
  [c EXCEPT !.standards = MergeUniquely(@), !.categories = MergeUniquely(c.controls),
            !.controls = MergeUniquely(MergeUniquely(c.controls))]

\* policy_config_map[policy_id] = policy_config: a new key goes last, an
\* existing one keeps its place
MapPut(map, id, c) ==
  IF \E n \in DOMAIN map : map[n].id = id
  THEN [n \in DOMAIN map |-> IF map[n].id = id THEN [id |-> id, config |-> c] ELSE map[n]]
  ELSE Append(map, [id |-> id, config |-> c])

\* kv = dict(map(lambda x: (x.id, x.value), parameters)): a later
\* parameter with the same id wins
ParamData(params) == FoldLeft(LAMBDA f, p : (p.id :> p.value) @@ f, <<>>, params)

PolicyInit ==
  /\ deliv \in {Absent, NotDir, [rules |-> <<>>, top |-> None]}
  /\ pol = None /\ k = 0 /\ configMap = <<>> /\ ppc = "idle" /\ calls = 0

\* a call: the deliverable is created when missing, C2PError when it is a
\* file; policy_config_map starts empty
StartPolicy(p) ==
  /\ ppc \in {"idle", "done", "error"} /\ calls < MaxCalls
  /\ pol' = p /\ calls' = calls + 1 /\ k' = 1 /\ configMap' = <<>>
  /\ IF deliv = NotDir
     THEN ppc' = "error" /\ UNCHANGED deliv
     ELSE /\ ppc' = "rule"
          /\ deliv' = IF deliv = Absent THEN [rules |-> <<>>, top |-> None] ELSE deliv

\* one rule set: copytree (FileNotFoundError without a template); the
\* generator's policyDefaults rewritten (KeyError without one) and dumped;
\* policies[0] (IndexError on none); the mapped PolicyConfig, or the one
\* parsed with its paths moved (TypeError on manifests None, AttributeError
\* on a manifest without a path); merged and mapped
PolicyRule ==
  /\ ppc = "rule" /\ k <= Len(pol.rules)
  /\ LET id == pol.rules[k] IN
     IF id \notin DOMAIN OcmTemplates
     THEN ppc' = "error" /\ UNCHANGED <<deliv, k, configMap>>
     ELSE LET t   == OcmTemplates[id]
              put(g) == [deliv EXCEPT !.rules = (id :> g) @@ @]
          IN
          IF t.defaults = None
          THEN ppc' = "error" /\ deliv' = put(t) /\ UNCHANGED <<k, configMap>>
          ELSE LET g == [t EXCEPT !.defaults = RuleDefaults] IN
               /\ deliv' = put(g)
               /\ IF \/ t.policies = <<>>
                     \/ /\ ~\E n \in DOMAIN configMap : configMap[n].id = id
                        /\ \/ t.policies[1].manifests = None
                           \/ None \in Range(t.policies[1].manifests)
                  THEN ppc' = "error" /\ UNCHANGED <<k, configMap>>
                  ELSE /\ configMap' = MapPut(configMap, id,
                                              MergeConfig(ConfigOf(configMap, id, t.policies[1])))
                       /\ k' = k + 1 /\ UNCHANGED ppc
  /\ UNCHANGED <<pol, calls>>

\* the loop ends: the policy-set generator lists the map's configs and
\* keys; parameters.yaml holds the parameters
EndPolicy ==
  /\ ppc = "rule" /\ k > Len(pol.rules)
  /\ deliv' = [deliv EXCEPT !.top =
                 [policies  |-> [n \in DOMAIN configMap |-> configMap[n].config],
                  policySet |-> [n \in DOMAIN configMap |-> configMap[n].id],
                  namespace |-> Namespace,
                  data      |-> ParamData(pol.params)]]
  /\ ppc' = "done"
  /\ UNCHANGED <<pol, k, configMap, calls>>

PolicyNext ==
  \/ \E p \in OcmPolicies : StartPolicy(p)
  \/ PolicyRule
  \/ EndPolicy

\* the plugin: either method may be called; each leaves the other's state
OcmInit == Init /\ PolicyInit
OcmNext == (Next /\ UNCHANGED policyVars) \/ (PolicyNext /\ UNCHANGED vars)
OcmSpec == OcmInit /\ [][OcmNext]_<<vars, policyVars>>

-----------------------------------------------------------------------------
(* Types and properties.                                                   *)

Path == STRING \cup {None}
PolicyConfig == [manifests : Seq(Path) \cup {None},
                 standards : SUBSET STRING \cup {None}, controls : SUBSET STRING \cup {None},
                 categories : SUBSET STRING \cup {None}]
Generator == [defaults : {None, RuleDefaults} \cup [namespace : STRING], policies : Seq(PolicyConfig)]
IsStringMap(f, S) == DOMAIN f \subseteq STRING /\ \A x \in DOMAIN f : f[x] \in S
IsTop(t) == /\ DOMAIN t = {"policies", "policySet", "namespace", "data"}
            /\ t.policies \in Seq(PolicyConfig) /\ t.policySet \in Seq(STRING)
            /\ t.namespace = Namespace /\ IsStringMap(t.data, STRING)

PolicyTypeOK ==
  /\ TypeOK
  /\ \/ deliv \in {Absent, NotDir}
     \/ /\ DOMAIN deliv = {"rules", "top"}
        /\ IsStringMap(deliv.rules, Generator)
        /\ deliv.top = None \/ IsTop(deliv.top)
  /\ ppc \in {"idle", "rule", "done", "error"}
  /\ calls \in 0..MaxCalls
  /\ configMap \in Seq([id : STRING, config : PolicyConfig])

\* generate_pvp_policy as the abstract specification of a policy-set
\* deliverable sees it: a call between its start and its return or raise
\* is running
Deliverable == INSTANCE PolicySetDeliverable
                 WITH status <- IF ppc = "rule" THEN "running" ELSE ppc

\* the plugin with its calls running to their end: the steps of a started
\* call are statements of one Python function that nothing blocks
OcmFairSpec == OcmSpec /\ WF_policyVars(PolicyRule \/ EndPolicy)

\* Spec 4.3 (b) and 6: generate_pvp_policy implements PolicySetDeliverable.
\* A call writes only the subdirectories of its policy's rule ids, each
\* holding the template's generator as copied or configured for the hub;
\* it returns only with every rule configured, writing the policy set
\* that lists each rule id once in order of first occurrence beside the
\* configuration of its template's first policy with every manifest path
\* moved into the rule's directory exactly once (also for a repeated rule)
\* and categories and controls both the template's controls, and the last
\* value of each parameter; a raise changes nothing more and leaves the
\* earlier call's top-level files; and a started call ends.
DeliverableRefinement == Deliverable!Spec

====
