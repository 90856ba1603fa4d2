------------------------- MODULE TemplateDeliverable -------------------------
(***************************************************************************)
(* What generate_pvp_policy of a template-directory adapter promises       *)
(* (spec 4.3 (b)), as seen by whoever looks at the deliverable directory:  *)
(* one subdirectory per rule id, holding the rule's template files with    *)
(* their placeholders replaced by the parameters' values, the adapter's    *)
(* own policy documents left verbatim.                                     *)
(*                                                                         *)
(* A call begins (creating the directory, or raising when the path is a    *)
(* file), then writes: only the subdirectories of the policy's rule ids    *)
(* change, and a file in one of them becomes either the template's copy or *)
(* its rendering.  The call returns only once every template file of every *)
(* rule id is rendered; it may raise at any point, leaving what was        *)
(* written.  A running call ends.  Nothing else touches the directory.     *)
(***************************************************************************)
EXTENDS Sequences, SequencesExt

CONSTANTS
  Policies,    \* Policy arguments: [rules : Seq(rule id), params : Seq(param)]
  Templates,   \* rule id -> (path -> file record or Dir)
  MaxCalls,    \* bound on the calls
  None, Absent, NotDir, Dir

VARIABLES
  deliv,       \* Absent, NotDir, or rule id -> (path -> file)
  status,      \* "idle", "running", "done" or "error"
  pol,         \* the Policy of the current call
  calls        \* calls so far

avars == <<deliv, status, pol, calls>>

\* the value a placeholder id gets: that of the last parameter with the id
LastValue(ps, id) ==
  ps[CHOOSE q \in 1..Len(ps) : ps[q].id = id /\ \A o \in q+1..Len(ps) : ps[o].id # id].value

IsNativePolicy(doc) ==
  doc \in {[kind |-> "ClusterPolicy", apiVersion |-> "kyverno.io/v1"],
           [kind |-> "Policy", apiVersion |-> "kyverno.io/v1"]}

\* a template file as the deliverable must hold it: verbatim when one of
\* its documents is a native policy, else every placeholder replaced by its
\* value as text, or dropped when no parameter has its id
Rendered(f, ps) ==
  IF f = Dir \/ \E n \in 1..Len(f.docs) : IsNativePolicy(f.docs[n]) THEN f
  ELSE LET kept == SelectSeq(f.body, LAMBDA t : ~t.ph \/ \E q \in 1..Len(ps) : ps[q].id = t.v)
       IN  [f EXCEPT !.body = [n \in 1..Len(kept) |->
                                IF kept[n].ph THEN [ph |-> FALSE, v |-> LastValue(ps, kept[n].v)]
                                ELSE kept[n]]]

\* the subdirectory of rule id r, empty when it does not exist
Sub(d, r) == IF r \in DOMAIN d THEN d[r] ELSE <<>>

\* what a running call may leave at path q of rule r: what was there, the
\* template's copy, or its rendering
MayHold(r, q) ==
  (IF q \in DOMAIN Sub(deliv, r) THEN {deliv[r][q]} ELSE {})
  \cup (IF r \in DOMAIN Templates /\ q \in DOMAIN Templates[r]
        THEN {Templates[r][q], Rendered(Templates[r][q], pol.params)} ELSE {})

Init ==
  /\ deliv \in {Absent, NotDir}
  /\ status = "idle" /\ pol = None /\ calls = 0

Begin(p) ==
  /\ status # "running" /\ calls < MaxCalls
  /\ pol' = p /\ calls' = calls + 1
  /\ IF deliv = NotDir
     THEN status' = "error" /\ UNCHANGED deliv
     ELSE status' = "running" /\ deliv' = IF deliv = Absent THEN <<>> ELSE deliv

\* the subdirectories of the policy's rule ids gain template paths and
\* their files take template copies or renderings; no other changes
Write ==
  /\ status = "running"
  /\ DOMAIN deliv \subseteq DOMAIN deliv'
  /\ \A r \in DOMAIN deliv' :
       \/ r \in DOMAIN deliv /\ deliv'[r] = deliv[r]
       \/ /\ r \in Range(pol.rules) \cap DOMAIN Templates
          /\ DOMAIN deliv'[r] \subseteq DOMAIN Sub(deliv, r) \cup DOMAIN Templates[r]
          /\ \A q \in DOMAIN deliv'[r] : deliv'[r][q] \in MayHold(r, q)
  /\ UNCHANGED <<status, pol, calls>>

Return ==
  /\ status = "running"
  /\ \A n \in 1..Len(pol.rules) :
       LET r == pol.rules[n] IN
       /\ r \in DOMAIN Templates /\ r \in DOMAIN deliv
       /\ \A q \in DOMAIN Templates[r] :
            q \in DOMAIN deliv[r] /\ deliv[r][q] = Rendered(Templates[r][q], pol.params)
  /\ status' = "done"
  /\ UNCHANGED <<deliv, pol, calls>>

Raise ==
  /\ status = "running" /\ status' = "error"
  /\ UNCHANGED <<deliv, pol, calls>>

Next ==
  \/ \E p \in Policies : Begin(p)
  \/ Write
  \/ Return
  \/ Raise

\* a running call ends, by returning or raising
Spec == Init /\ [][Next]_avars /\ WF_avars(Return \/ Raise)

====
