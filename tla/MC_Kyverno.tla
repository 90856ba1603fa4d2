----------------------------- MODULE MC_Kyverno -----------------------------
(***************************************************************************)
(* Kyverno instantiated for TLC: reports with one result each, over two    *)
(* policy names, three statuses (one not in the table) and resources with  *)
(* and without a namespace or a uid; four template directories (a plain    *)
(* file and a Kyverno policy, an OCM Policy document, a subdirectory, and  *)
(* one missing) and policies over them, with repeated parameter ids.       *)
(***************************************************************************)
EXTENDS Kyverno, Utils

R1 == [namespace |-> "ns", uid |-> "u1"]
R2 == [namespace |-> Missing, uid |-> "u2"]
R3 == [namespace |-> "ns", uid |-> Missing]

Rpp(p, s, sec, msg, res) ==
  [policy |-> p, result |-> s, seconds |-> sec, message |-> msg, resources |-> res]

\* results that return
GoodRpps == {Rpp(p, s, sec, "m", res) : p \in {"p1", "p2"}, s \in {"pass", "skip", "bogus"},
                                        sec \in {Missing, 30}, res \in {<<R1>>, <<R2, R1>>}}

\* results that make the plugin raise
BadRpps == {Rpp("p1", "fail", 30, Missing, <<R1>>), Rpp("p1", "fail", 30, "m", Missing),
            Rpp("p2", "warn", 30, "m", <<R3>>)}

Report(kind, rpp) == [kind |-> kind, results |-> <<rpp>>]

ResultData ==
  {<<Report("PolicyReport", a), Report("ClusterPolicyReport", b)>> : a, b \in GoodRpps}
  \cup {<<Report("ClusterPolicyReport", a), Report("Other", b), Report("PolicyReport", a)>> :
          a \in BadRpps, b \in GoodRpps}
  \cup {<<Report("Other", a), Report("PolicyReport", b)>> : a \in BadRpps, b \in GoodRpps}

\* the fallback case: results without a timestamp
UntimedData == {<<Report("PolicyReport", Rpp(p, "pass", Missing, "m", <<R1>>))>> : p \in {"p1"}}

Doc(kind, api) == [kind |-> kind, apiVersion |-> api]
Txt(v) == [ph |-> FALSE, v |-> v]
Ph(id) == [ph |-> TRUE, v |-> id]

ConfigMap(body) == [docs |-> <<Doc("ConfigMap", "v1")>>, body |-> body]

MCTemplates ==
  ("r1" :> (("cm" :> ConfigMap(<<Txt("x"), Ph("a")>>)) @@
            ("pol" :> [docs |-> <<Doc("ConfigMap", "v1"), Doc("ClusterPolicy", "kyverno.io/v1")>>,
                       body |-> <<Ph("a")>>])))
  @@ ("r2" :> ("ocm" :> [docs |-> <<Doc("Policy", "policy.open-cluster-management.io/v1")>>,
                         body |-> <<Ph("b"), Txt("x")>>]))
  @@ ("r3" :> (("sub" :> Dir) @@ ("cm" :> ConfigMap(<<Ph("a")>>))))

Param(id, v) == [id |-> id, value |-> v]

MCPolicies ==
  {[rules |-> rs, params |-> ps] :
     rs \in {<<"r1", "r2">>, <<"r2">>, <<"r3", "r1">>, <<"r4", "r1">>},
     ps \in {<<>>, <<Param("a", "v1")>>, <<Param("a", "v1"), Param("a", "v2")>>,
             <<Param("b", "v2"), Param("a", "v1")>>}}

NoPolicies == {}

RunRawData == ResultData \cup {<<>>}

\* one operation is explored at a time: the result side on its data, the
\* policy side with no raw data
OneOperationAtATime == raw = <<>> \/ calls = 0

\* ---- inputs of the helpers of c2p.common.utils ----
MCControlCatalog == <<"ac-1", "ac-2", "ac-2.1", "ac-2.10", "ac-10", "at-3", "au-1">>

PyStr(v) == [t |-> "str", kv |-> [v |-> v]]
PyDict(f) == [t |-> "dict", kv |-> f]
Leaves == {PyNone, PyStr("x")}
\* dicts over keys a and b: flat ones, and ones nesting a flat one
Flat == {PyDict(f) : f \in UNION {[D -> Leaves] : D \in SUBSET {"a", "b"}}}
MCPyDicts == Flat \cup {PyDict(("a" :> v) @@ ("b" :> PyStr("y"))) : v \in Flat}
MCPyPaths == {<<>>, <<"a">>, <<"b">>, <<"a", "b">>, <<"b", "a">>, <<"a", "a", "b">>}
MCPyDefaults == {PyNone, PyStr("d"), [t |-> "list", kv |-> <<>>], PyDict(<<>>)}

\* get_dict_safely returns the value at the end of the key path, and the
\* default as soon as a step is missing or not a dict, for every default
\* the callers pass; checked in every state the plugin that calls it
\* reaches.
GetDictSafelyFollowsPath == calls \in Nat => GetDictSafelyFollowsPathOnInputs

\* get_control_ids lists the distinct control ids in catalog order whatever
\* the set's iteration order; checked in every state of the run.
ControlIdsInCatalogOrder == calls \in Nat => ControlIdsInCatalogOrderOnInputs

\* ---- inputs of the policy checker (go/hack/policy-checker) ----
ChCMx   == <<"C", "M", " ", "x">>         \* a category 'CM x'
ChCMd   == <<"C", "M", "-", "x">>         \* a category the pattern does not match
ChCM2   == <<"C", "M", "-", "2">>         \* a control 'CM-2'
ChCM2x  == <<"C", "M", "-", "2", " ", "x">>
Chcm    == <<"c", "m">>
Chcm2   == <<" ", "c", "m", "-", "2">>
ChNist2 == <<"x", ",", " ">> \o <<"N", "I", "S", "T", " ", "S", "P", " ", "8", "0", "0", "-", "5", "3">>

Ann(std, cat, ctl) == [standards |-> std, categories |-> cat, controls |-> ctl]
Obj(kind, name) == [kind |-> kind, name |-> name]
CfgPol(objs) == [kind |-> "ConfigurationPolicy", name |-> <<"q">>, objects |-> objs]
CertPol == [kind |-> "CertificatePolicy", name |-> <<"z">>, objects |-> <<>>]
PolicyDoc(name, ann, tpls) ==
  [kind |-> "Policy", metadata |-> [name |-> name, annotations |-> ann], spec |-> tpls]

NistText == <<"N", "I", "S", "T", " ", "S", "P", " ", "8", "0", "0", "-", "5", "3">>
\* collection documents: a with two Roles, b without a ConfigurationPolicy,
\* c without the standard, e without annotations, and one whose category
\* makes compare_category raise
DocA == PolicyDoc("a", Ann(NistText, ChCMx, ChCM2), <<CfgPol(<<Obj("Role", "r"), Obj("Role", "s")>>)>>)
DocB == PolicyDoc("b", Ann(ChNist2, ChCMx, ChCM2x), <<CertPol>>)
DocC == PolicyDoc("c", Ann(<<"x">>, ChCMx, ChCM2), <<CfgPol(<<Obj("Role", Missing)>>)>>)
DocE == PolicyDoc("e", Missing, <<>>)
DocX == PolicyDoc("b", Ann(NistText, ChCMd, ChCM2), <<>>)
\* an unmatched category after the matching one, and after another one
DocY == PolicyDoc("a", Ann(NistText, ChCMx \o <<",">> \o ChCMd, ChCM2), <<>>)
DocZ == PolicyDoc("a", Ann(NistText, <<"P", " ", "x", ",">> \o ChCMd, ChCM2), <<>>)
\* a Policy without metadata, which parse indexes
NoMeta == [kind |-> "Policy", metadata |-> Missing, spec |-> Missing]
Unkinded == [kind |-> Missing, metadata |-> Missing, spec |-> Missing]
CfgMap == [kind |-> "ConfigMap", metadata |-> Missing, spec |-> Missing]
\* regenerated documents: a holding r, a holding s, b
RegA1 == PolicyDoc("a", Ann(NistText, Chcm, Chcm2), <<CfgPol(<<Obj("Role", "r")>>)>>)
RegA2 == PolicyDoc("a", Ann(NistText, Chcm, Chcm2), <<CfgPol(<<Obj("Role", "s")>>)>>)
RegB  == PolicyDoc("b", Ann(NistText, Chcm, Chcm2), <<CertPol>>)

MCCollections ==
  {<<f>> : f \in {<<DocA, None>>, <<DocB, DocA>>, <<DocC, Unkinded, CfgMap, DocE>>, <<DocX, DocA>>, <<DocY>>, <<DocZ>>, <<DocA, NoMeta>>}}
  \cup {<<<<DocA, None>>, <<DocB>>>>, <<<<DocC>>, <<DocB>>, <<DocA>>>>}
MCRegenerateds ==
  {<<>>, <<<<RegA1, RegB>>>>, <<<<RegA2>>, <<RegB>>>>, <<<<RegA1, RegA2, RegB>>>>, <<<<RegA2, RegA1>>>>}

PC == INSTANCE PolicyChecker WITH Collections <- MCCollections, Regenerateds <- MCRegenerateds

\* the policy checker reports a collection Policy as consistent only when
\* its regenerated namesake holds one of its resources; checked in every
\* state of the run.
CheckerResourceClaim == PC!ConsistentImpliesSomeResourceFoundOnInputs
ConsistentImpliesSomeResourceFound == calls \in Nat => CheckerResourceClaim

\* the policy checker aborts exactly on a malformed Policy document or on
\* a category of a compared Policy that compare_category cannot match
\* before it finds the regenerated category; checked in every state of
\* the run.
CheckerFailureClaim == PC!CheckerFailsOnlyOnMalformedInputOnInputs
CheckerFailsOnlyOnMalformedInput == calls \in Nat => CheckerFailureClaim

\* ---- inputs of the 'tools' commands ----
\* D1 an existing directory, D2 a missing one; FA, FB assessment results,
\* FC a component-definition, FX a file of another kind, FS a csv file, FK
\* a task configuration, FO the report file
CmdDirs  == {<<"D1">>, <<"D2">>}
CmdFiles == {<<"FA">>, <<"FB">>, <<"FC">>, <<"FX">>, <<"FS">>, <<"FK">>, <<"FO">>}
MCPaths  == CmdDirs \cup CmdFiles \cup
            {<<d, n>> : d \in CmdDirs, n \in {"csv-to-oscal-cd.config", "component-definition.json"}}
ArA   == [kind |-> "ar", id |-> "a"]
ArB   == [kind |-> "ar", id |-> "b"]
CdefC == [kind |-> "cdef", title |-> "c", csv |-> Absent]
CsvS  == [kind |-> "csv", id |-> "s"]
Cfg(sec, out) == [kind |-> "config", section |-> sec, title |-> "k", csv |-> <<"FS">>, outdir |-> out]
OldReport == [kind |-> "report", ar |-> ArA, cdef |-> CdefC]
BaseFs == [p \in MCPaths |-> CASE p = <<"D1">> -> Dir [] p = <<"FA">> -> ArA [] p = <<"FB">> -> ArB
                              [] p = <<"FC">> -> CdefC [] p = <<"FX">> -> [kind |-> "text"]
                              [] p = <<"FS">> -> CsvS [] OTHER -> Absent]
MCFileSystems ==
  {[BaseFs EXCEPT ![<<"FO">>] = o, ![<<"FK">>] = kc, ![<<<<"D1">>, "component-definition.json">>] = oc] :
     o \in {Absent, Dir, OldReport}, kc \in {Cfg(TRUE, <<"D1">>), Cfg(FALSE, <<"D1">>), Cfg(TRUE, <<"D2">>)},
     oc \in {Absent, CdefC}}
MCViewerArgs ==
  [ar : {<<"FA">>, <<"FB">>, <<"FX">>}, cdef : {<<"FC">>, <<<<"D1">>, "component-definition.json">>},
   out : {None, <<"FO">>, <<<<"D2">>, "component-definition.json">>}]
MCCsvArgs ==
  [config : {None, <<"FK">>, <<"FX">>}, title : {None, "t"}, csv : {None, <<"FS">>, <<"FX">>}, out : {None, <<"D1">>, <<"D2">>}]

CM == INSTANCE Commands WITH Paths <- MCPaths, RenderRaises <- {<<ArB, CdefC>>},
        FileSystems <- MCFileSystems, ViewerArgs <- MCViewerArgs, CsvArgs <- MCCsvArgs

\* tools viewer changes the report file only after it rendered the
\* report, and then to that report or a truncation of it; checked in
\* every state of the run.
ViewerOutClaim == CM!ReportFileChangedOnlyAfterRenderOnInputs
ReportFileChangedOnlyAfterRender == calls \in Nat => ViewerOutClaim

\* tools csv-to-oscal-cd exits with success after running a task only
\* when it wrote the configuration's component-definition, and never
\* reports an error after writing one; checked in every state of the run.
CsvExitClaim == CM!SuccessMeansComponentDefinitionOnInputs
SuccessMeansComponentDefinition == calls \in Nat => CsvExitClaim

====
