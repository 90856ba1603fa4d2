------------------------------ MODULE OcmResult ------------------------------
(***************************************************************************)
(* PluginOCM.generate_pvp_result (src/plugins_public/plugins/ocm.py).      *)
(* Of the Policy resources in raw_result.data, those without a cluster-    *)
(* name label are root policies on the hub and become one observation      *)
(* each; those with the label are per-cluster copies, and each copy named  *)
(* "<root namespace>.<root name>" becomes a subject of that observation.   *)
(* One step per root policy started, per copy scanned, per observation     *)
(* closed, and the return.                                                 *)
(*                                                                         *)
(* event_name, last_timestamp and message are locals of the whole          *)
(* function: assigned only from a copy with a non-empty details list with  *)
(* a non-empty history, they keep their values from one copy (and one root *)
(* policy) to the next; before the first assignment they are unbound and   *)
(* reading them raises UnboundLocalError.                                  *)
(***************************************************************************)
EXTENDS Naturals, Sequences, SequencesExt

CONSTANTS
  RawData,   \* candidate values of raw_result.data
  None,      \* Python None
  Unbound,   \* a local variable not assigned yet
  Now        \* get_datetime(), the time of the run

VARIABLES
  data,           \* raw_result.data
  i,              \* index of the current root policy
  j,              \* index of the per-cluster policy being scanned
  subjects,       \* subjects of the current observation
  observations,   \* observations built so far
  eventName,      \* local event_name
  lastTimestamp,  \* local last_timestamp
  message,        \* local message
  pc              \* "root", "scan", "done" (returned) or "error" (raised)

vars == <<data, i, j, subjects, observations, eventName, lastTimestamp, message, pc>>

\* filter on apiVersion policy.open-cluster-management.io/v1 and kind Policy
Policies == SelectSeq(data, LAMBDA x : x.kind = "Policy")

\* root policies have no cluster-name label; each_policies have one
RootPolicies == SelectSeq(Policies, LAMBDA x : x.clusterLabel = None)
EachPolicies == SelectSeq(Policies, LAMBDA x : x.clusterLabel # None)

\* mutant: copies matched on the bare policy name
ReplicaNameBare(root) == root.name

\* f'{root_namespace}.{policy_name}': the name of a root policy's copies
ReplicaName(root) == root.namespace \o <<".">> \o root.name

\* mutant: an unmapped status defaults to pass
ToResultOptimistic(compliant) ==
  IF compliant = "NonCompliant" THEN "failure" ELSE "pass"

\* ocm.status_dictionary, looked up with a default of ResultEnum.Error
StatusDictionary == [Compliant |-> "pass", NonCompliant |-> "failure"]
ToResult(compliant) ==
  IF compliant \in DOMAIN StatusDictionary THEN StatusDictionary[compliant] ELSE "error"

\* mutant: the offset suffix kept as written, without the replace
ParseTimestampRaw(ts) == [at |-> ts.at, offset |-> ts.suffix]

\* datetime.fromisoformat(last_timestamp.replace('Z', '+00:00')): an instant
\* with its UTC offset, "Z" read as "+00:00"
ParseTimestamp(ts) == [at |-> ts.at, offset |-> IF ts.suffix = "Z" THEN "+00:00" ELSE ts.suffix]

\* mutant: only the first detail is looked at
HistoryLocalsFirstDetail(details, locals) ==
  IF details = None \/ details = <<>> \/ details[1].history = <<>> THEN locals
  ELSE [eventName     |-> details[1].history[1].eventName,
        lastTimestamp |-> details[1].history[1].lastTimestamp,
        message       |-> details[1].history[1].message]

\* the loop over status.details: each detail with a non-empty history sets
\* the three locals from history[0]; when details is not a non-empty list
\* they keep their values (only a warning is logged)
HistoryLocals(details, locals) ==
  IF details = None \/ details = <<>> THEN locals
  ELSE FoldLeft(LAMBDA acc, d :
                  IF d.history = <<>> THEN acc
                  ELSE [eventName     |-> d.history[1].eventName,
                        lastTimestamp |-> d.history[1].lastTimestamp,
                        message       |-> d.history[1].message],
                locals, details)

-----------------------------------------------------------------------------

Init ==
  /\ data \in RawData
  /\ i = 1 /\ j = 1
  /\ subjects = <<>> /\ observations = <<>>
  /\ eventName = Unbound /\ lastTimestamp = Unbound /\ message = Unbound
  /\ pc = "root"

\* for policy_name, root_namespace in policy_namespace_names: a new
\* observation, its subject list empty
BeginObservation ==
  /\ pc = "root" /\ i <= Len(RootPolicies)
  /\ pc' = "scan" /\ j' = 1 /\ subjects' = <<>>
  /\ UNCHANGED <<data, i, observations, eventName, lastTimestamp, message>>

\* results_per_policy leaves out a copy of another root policy
SkipClusterPolicy ==
  /\ pc = "scan" /\ j <= Len(EachPolicies)
  /\ EachPolicies[j].name # ReplicaName(RootPolicies[i])
  /\ j' = j + 1
  /\ UNCHANGED <<data, i, subjects, observations, eventName, lastTimestamp, message, pc>>

\* for rpp in results_per_policy: the details loop sets the locals, then
\* evaluated_on, event_name, message and reason are computed from them
\* (raising UnboundLocalError at the read of last_timestamp if unbound)
AddSubject ==
  /\ pc = "scan" /\ j <= Len(EachPolicies)
  /\ EachPolicies[j].name = ReplicaName(RootPolicies[i])
  /\ LET rpp == EachPolicies[j]
         loc == HistoryLocals(rpp.details, [eventName |-> eventName,
                                            lastTimestamp |-> lastTimestamp,
                                            message |-> message])
         ev  == IF loc.eventName = None THEN <<>> ELSE loc.eventName
         msg == IF loc.message = None THEN <<>> ELSE loc.message
     IN  IF loc.lastTimestamp = Unbound
         THEN /\ pc' = "error"
              /\ UNCHANGED <<data, i, j, subjects, observations,
                             eventName, lastTimestamp, message>>
         ELSE /\ eventName' = ev
              /\ message' = msg
              /\ lastTimestamp' = loc.lastTimestamp
              /\ subjects' = Append(subjects,
                   [resource_id  |-> rpp.namespace,
                    result       |-> ToResult(rpp.compliant),
                    evaluated_on |-> IF loc.lastTimestamp = None THEN Now
                                     ELSE ParseTimestamp(loc.lastTimestamp),
                    reason       |-> IF ev # <<>> /\ msg # <<>>
                                     THEN <<"[">> \o ev \o <<"]", " ">> \o msg
                                     ELSE None])
              /\ j' = j + 1
              /\ UNCHANGED <<data, i, observations, pc>>

\* observation.subjects = subjects; observations.append(observation)
EndObservation ==
  /\ pc = "scan" /\ j > Len(EachPolicies)
  /\ observations' = Append(observations, [check_id  |-> RootPolicies[i].name,
                                           collected |-> Now,
                                           subjects  |-> subjects])
  /\ i' = i + 1 /\ pc' = "root"
  /\ UNCHANGED <<data, j, subjects, eventName, lastTimestamp, message>>

\* pvp_result.observations_by_check = observations; return pvp_result
Return ==
  /\ pc = "root" /\ i > Len(RootPolicies)
  /\ pc' = "done"
  /\ UNCHANGED <<data, i, j, subjects, observations, eventName, lastTimestamp, message>>

Next ==
  \/ BeginObservation
  \/ SkipClusterPolicy
  \/ AddSubject
  \/ EndObservation
  \/ Return

Spec == Init /\ [][Next]_vars

-----------------------------------------------------------------------------
(* Types *)

Text == Seq({"n", "p", "q", ".", "e", "m", "[", "]", " "})
Timestamp == [at : {"t1", "t2"}, suffix : {"Z", "+00:00"}]
Instant == [at : {"t1", "t2"}, offset : {"+00:00"}] \cup {Now}
Subject == [resource_id : STRING, result : {"pass", "failure", "error"},
            evaluated_on : Instant, reason : Text \cup {None}]
Observation == [check_id : Text, collected : {Now}, subjects : Seq(Subject)]

TypeOK ==
  /\ i \in 1..Len(RootPolicies) + 1
  /\ j \in 1..Len(EachPolicies) + 1
  /\ subjects \in Seq(Subject)
  /\ observations \in Seq(Observation)
  /\ eventName \in Text \cup {Unbound}
  /\ message \in Text \cup {Unbound}
  /\ lastTimestamp \in Timestamp \cup {None, Unbound}
  /\ pc \in {"root", "scan", "done", "error"}

-----------------------------------------------------------------------------
(* What a returned PVPResult says about its raw data (spec 4.3).  The      *)
(* definitions below are written from the spec, apart from the code.       *)

\* the per-cluster copies of root policy r, in input order
CopiesOf(r) == SelectSeq(EachPolicies, LAMBDA x : x.name = r.namespace \o <<".">> \o r.name)

\* spec 4.3 (2): the status table is total and fails closed
ExpectedResult(c) ==
  CASE c = "Compliant"    -> "pass"
    [] c = "NonCompliant" -> "failure"
    [] OTHER              -> "error"

\* the latest history entry of the last detail that has one, if any
OwnHistory(x) ==
  IF x.details = None THEN <<>>
  ELSE LET hs == SelectSeq(x.details, LAMBDA d : d.history # <<>>)
       IN  IF hs = <<>> THEN <<>> ELSE <<hs[Len(hs)].history[1]>>

\* a returned result pairs each subject of observation k with the k-th
\* root policy's s-th copy
Returned(P(_, _)) ==
  pc = "done" =>
    \A k \in 1..Len(observations) : \A s \in 1..Len(observations[k].subjects) :
      P(observations[k].subjects[s], CopiesOf(RootPolicies[k])[s])

\* When generate_pvp_result returns, there is one observation per root
\* policy, in order, with the policy name as check id, and its subjects are
\* exactly the policy's per-cluster copies named "<namespace>.<name>", in
\* order, each with its cluster as resource id and a result that is "pass"
\* only for "Compliant", "failure" for "NonCompliant", "error" otherwise.
ObservationsMirrorClusterPolicies ==
  pc = "done" =>
    /\ Len(observations) = Len(RootPolicies)
    /\ \A k \in 1..Len(observations) :
         /\ observations[k].check_id = RootPolicies[k].name
         /\ Len(observations[k].subjects) = Len(CopiesOf(RootPolicies[k]))
    /\ Returned(LAMBDA sub, x : /\ sub.resource_id = x.namespace
                                /\ sub.result = ExpectedResult(x.compliant))

\* A subject whose own copy carries a history gets its time and its reason
\* from that history: the latest entry of the last detail with one (the
\* details loop in generate_pvp_result overwrites the locals per detail).
SubjectTimeFromOwnHistory ==
  Returned(LAMBDA sub, x :
    OwnHistory(x) # <<>> =>
      LET h == OwnHistory(x)[1] IN
      /\ sub.evaluated_on = IF h.lastTimestamp = None THEN Now
                            ELSE [at |-> h.lastTimestamp.at, offset |-> "+00:00"]
      /\ (sub.reason # None) <=> (h.eventName \notin {None, <<>>} /\ h.message \notin {None, <<>>}))

\* Spec 4.3 (3): evaluated_on comes from the tool's timestamp when present,
\* else the current time, and the reason from the tool's diagnostics.  A
\* copy without any history therefore gets the current time and no reason.
SubjectDiagnosticsFromOwnRecord ==
  Returned(LAMBDA sub, x : OwnHistory(x) = <<>> => sub.evaluated_on = Now /\ sub.reason = None)

\* Spec 4.3: generate_pvp_result is a pure transform of the raw data, one
\* subject per evaluated copy; it does not raise on a copy that has no
\* details.
NoUnboundLocal == pc # "error"


=============================================================================
