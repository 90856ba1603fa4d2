---------------------------- MODULE MC_OcmResult ----------------------------
(***************************************************************************)
(* Model-checking instance of OcmResult: raw data with one or two root      *)
(* policies in namespace "n" (and a non-Policy resource), followed by up   *)
(* to two per-cluster copies drawn from a pool that varies the copy's      *)
(* name, cluster, compliance and details.  For generate_pvp_policy: rule  *)
(* templates that are valid, lack policyDefaults, have no policy, a        *)
(* manifest without a path or manifests None, and one rule without a       *)
(* template; policies that repeat a rule and a parameter id.               *)
(***************************************************************************)
EXTENDS OcmPolicy

Root(name) == [kind |-> "Policy", name |-> name, namespace |-> <<"n">>,
               clusterLabel |-> None, compliant |-> None, details |-> None]
\* a PlacementBinding in the same namespace: not a Policy
Binding == [kind |-> "PlacementBinding", name |-> <<"p">>, namespace |-> <<"n">>,
            clusterLabel |-> None, compliant |-> None, details |-> None]

\* history entries: with a "Z" time, event and message; with no time and
\* no event
H1 == [eventName |-> <<"e">>, lastTimestamp |-> [at |-> "t1", suffix |-> "Z"], message |-> <<"m">>]
H2 == [eventName |-> None, lastTimestamp |-> None, message |-> <<"m">>]
H3 == [eventName |-> <<"e">>, lastTimestamp |-> [at |-> "t2", suffix |-> "+00:00"], message |-> <<"m">>]

\* status.details: absent, empty, a detail with an empty history, one with
\* a history, a history only in the second detail, two histories
Details == { None, <<>>, <<[history |-> <<>>]>>, <<[history |-> <<H1>>]>>,
             <<[history |-> <<H2, H1>>]>>,
             <<[history |-> <<H3>>], [history |-> <<>>]>>,
             <<[history |-> <<>>], [history |-> <<H3>>]>>,
             <<[history |-> <<H1>>], [history |-> <<H3>>]>> }

Copy(name, cluster, compliant, details) ==
  [kind |-> "Policy", name |-> name, namespace |-> cluster,
   clusterLabel |-> cluster, compliant |-> compliant, details |-> details]

CopyPool ==
  { Copy(<<"n", ".", "p">>, c, s, d) :
      c \in {"k1", "k2"}, s \in {"Compliant", "NonCompliant", "Pending"}, d \in Details }
  \cup { Copy(<<"n", ".", "q">>, "k1", "Compliant", <<[history |-> <<H1>>]>>),
         Copy(<<"p">>, "k1", "Compliant", <<[history |-> <<H1>>]>>) }

MCRawData ==
  { h \o t : h \in { <<Root(<<"p">>)>>, <<Binding, Root(<<"p">>), Root(<<"q">>)>> },
             t \in BoundedSeq(CopyPool, 2) }
  \cup { <<Copy(<<"n", ".", "p">>, "k1", "Compliant", <<[history |-> <<H1>>]>>), Root(<<"p">>)>> }

\* the policyDefaults of a template, and the policy-generator.yaml of each
\* rule's template
TemplateDefaults == [namespace |-> "tmpl"]
PConf(ms, controls) == [manifests |-> ms, standards |-> None, controls |-> controls, categories |-> {"k"}]
MCTemplates ==
  ("r1" :> [defaults |-> TemplateDefaults, policies |-> <<PConf(<<"./a.yaml">>, {"c1"})>>])
  @@ ("r7" :> [defaults |-> TemplateDefaults,
               policies |-> <<PConf(<<"./x.yaml", "./y/z.yaml">>, None), PConf(<<>>, None)>>])
  @@ ("r2" :> [defaults |-> TemplateDefaults, policies |-> <<>>])
  @@ ("r3" :> [defaults |-> None, policies |-> <<PConf(<<"./a.yaml">>, None)>>])
  @@ ("r5" :> [defaults |-> TemplateDefaults, policies |-> <<PConf(<<None>>, None)>>])
  @@ ("r6" :> [defaults |-> TemplateDefaults, policies |-> <<PConf(None, None)>>])

Param(id, v) == [id |-> id, value |-> v]

MCPolicies ==
  {[rules |-> rs, params |-> ps] :
     rs \in {<<"r1", "r7", "r1">>, <<"r7">>, <<"r1", "r2">>, <<"r3">>, <<"r4">>, <<"r5">>,
             <<"r6">>, <<>>},
     ps \in {<<>>, <<Param("a", "v1"), Param("b", "v1"), Param("a", "v2")>>}}

NoPolicies == {}

MCSelectors == "sel"

\* the result side may also be called on empty data
RunRawData == MCRawData \cup {<<>>}

\* one operation is explored at a time: the result side on its data, the
\* policy side after it returned on empty data
OneOperationAtATime == data = <<>> \/ calls = 0

=============================================================================
