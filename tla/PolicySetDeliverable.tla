------------------------- MODULE PolicySetDeliverable -------------------------
(***************************************************************************)
(* What generate_pvp_policy of the multi-cluster governance adapter        *)
(* promises (spec 4.3 (b) and the deliverable layout of spec 6), as seen   *)
(* by whoever looks at the deliverable directory: one subdirectory per     *)
(* rule id holding the rule's policy generator, configured for the hub,    *)
(* and a top-level policy generator with one policy set listing the rule   *)
(* ids once each, beside the configuration of each rule's policy with its  *)
(* manifests moved into the rule's subdirectory, and the parameters.       *)
(*                                                                         *)
(* A call begins (creating the directory, or raising when the path is a    *)
(* file), then writes rule subdirectories of its policy, each holding the  *)
(* template's generator as copied or as configured for the hub.  It       *)
(* returns by writing the top-level files, which requires every rule id to *)
(* be configured; it may raise at any point, leaving what was written and  *)
(* the top-level files of an earlier call.  A running call ends.           *)
(***************************************************************************)
EXTENDS Sequences, SequencesExt

CONSTANTS
  OcmPolicies,   \* Policy arguments: [rules : Seq(rule id), params : Seq(param)]
  OcmTemplates,  \* rule id -> [defaults, policies] of its policy generator
  Namespace,     \* the hub namespace
  Selectors,     \* the cluster placement
  MaxCalls,      \* bound on the calls
  None, Absent, NotDir

VARIABLES
  deliv,         \* Absent, NotDir, or [rules : rule id -> generator, top]
  status,        \* "idle", "running", "done" or "error"
  pol,           \* the Policy of the current call
  calls          \* calls so far

avars == <<deliv, status, pol, calls>>

\* the policyDefaults of a generator configured for the hub
HubDefaults == [namespace |-> Namespace, standards |-> <<>>, controls |-> <<>>,
                categories |-> <<>>, placement |-> Selectors]

\* what a running call may leave in the subdirectory of rule r
MayHold(r) == {OcmTemplates[r], [OcmTemplates[r] EXCEPT !.defaults = HubDefaults]}

\* a rule template whose generator has a first policy with a path for
\* each manifest
WellFormed(r) ==
  LET ps == OcmTemplates[r].policies IN
  ps # <<>> /\ ps[1].manifests # None /\ None \notin Range(ps[1].manifests)

\* the rule ids in order of first occurrence
FirstSeen(s) == FoldLeft(LAMBDA acc, x : IF x \in Range(acc) THEN acc ELSE Append(acc, x), <<>>, s)

\* a template path "./<p>" as it reads inside the deliverable
InRuleDir(id, path) == "./" \o id \o "/" \o SubSeq(path, 3, Len(path))

AsSet(l) == IF l = None THEN {} ELSE l

\* the configuration of rule r's policy in the policy set: the template's
\* first policy, manifests moved into the rule's subdirectory, categories
\* and controls both the template's controls
PolicyOf(r) ==
  LET src == OcmTemplates[r].policies[1] IN
  [manifests  |-> [m \in DOMAIN src.manifests |-> InRuleDir(r, src.manifests[m])],
   standards  |-> AsSet(src.standards),
   controls   |-> AsSet(src.controls),
   categories |-> AsSet(src.controls)]

\* the value of parameter id x: that of its last occurrence
LastParam(ps, x) ==
  ps[CHOOSE n \in DOMAIN ps : ps[n].id = x /\ \A m \in n+1..Len(ps) : ps[m].id # x].value

\* the top-level files for policy p
PolicySet(p) ==
  LET ids == FirstSeen(p.rules) IN
  [policies  |-> [n \in DOMAIN ids |-> PolicyOf(ids[n])],
   policySet |-> ids,
   namespace |-> Namespace,
   data      |-> [x \in {q.id : q \in Range(p.params)} |-> LastParam(p.params, x)]]

Init ==
  /\ deliv \in {Absent, NotDir, [rules |-> <<>>, top |-> None]}
  /\ status = "idle" /\ pol = None /\ calls = 0

Begin(p) ==
  /\ status # "running" /\ calls < MaxCalls
  /\ pol' = p /\ calls' = calls + 1
  /\ IF deliv = NotDir
     THEN status' = "error" /\ UNCHANGED deliv
     ELSE /\ status' = "running"
          /\ deliv' = IF deliv = Absent THEN [rules |-> <<>>, top |-> None] ELSE deliv

\* the subdirectory of one rule id of the policy is written; nothing else
\* changes
Written ==
  \E r \in Range(pol.rules) \cap DOMAIN OcmTemplates :
    \E g \in MayHold(r) : deliv' = [deliv EXCEPT !.rules = (r :> g) @@ @]

Write ==
  /\ status = "running" /\ Written
  /\ UNCHANGED <<status, pol, calls>>

Return ==
  /\ status = "running"
  /\ \A n \in DOMAIN pol.rules :
       /\ pol.rules[n] \in DOMAIN deliv.rules /\ WellFormed(pol.rules[n])
       /\ deliv.rules[pol.rules[n]] = [OcmTemplates[pol.rules[n]] EXCEPT !.defaults = HubDefaults]
  /\ status' = "done"
  /\ deliv' = [deliv EXCEPT !.top = PolicySet(pol)]
  /\ UNCHANGED <<pol, calls>>

\* a raise, possibly right after a last write
Raise ==
  /\ status = "running" /\ status' = "error"
  /\ UNCHANGED deliv \/ Written
  /\ UNCHANGED <<pol, calls>>

Next ==
  \/ \E p \in OcmPolicies : Begin(p)
  \/ Write
  \/ Return
  \/ Raise

\* a running call ends, by returning or raising
Spec == Init /\ [][Next]_avars /\ WF_avars(Return \/ Raise)

====
