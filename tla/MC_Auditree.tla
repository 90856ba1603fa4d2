---------------------------- MODULE MC_Auditree ----------------------------
(***************************************************************************)
(* Model-checking instance of Auditree.  ResultData varies the check       *)
(* methods (plain, parametrized, nested parametrized, and named like a     *)
(* normalized id) and the statuses; PolicyParams varies parameter ids      *)
(* (leaf, dict, missing, beyond a leaf) and values over one template.      *)
(***************************************************************************)
EXTENDS Auditree

\* method names: plain, two expansions of t, one of u, an expansion of
\* t_1_a, and a name the pattern does not match
M1 == <<"t">>
M2 == <<"t", "_", "1", "_", "a">>
M3 == <<"t", "_", "0", "_", "a">>
M4 == <<"u", "_", "1", "_", "a">>
M5 == <<"t", "_", "1", "_", "a", "_", "0", "_", "a">>
M6 == <<"t", "_", "1", "_">>
Methods == {M1, M2, M3, M4, M5, M6}

Cmr(m, st, ts) ==
  [method |-> m, status |-> st, timestamp |-> ts,
   successes |-> ("s" :> 1), warnings |-> Missing, failures |-> ("f" :> 1), exception |-> Missing]
Class(name, cmrs) == [name |-> name, checks |-> cmrs]
Checked(ms, st) == [k \in DOMAIN ms |-> Cmr(ms[k], st, k)]

Statuses == {"pass", "fail", "warn", "error", "skip", None, Missing}

ResultData ==
  { <<Class(<<"c">>, Checked(ms, "fail"))>> : ms \in {s \in BoundedSeq(Methods, 3) : IsInjective(s)} }
  \cup { <<Class(<<"c">>, Checked(<<M2, M4>>, "pass")), Class(<<"d">>, Checked(ms, "fail"))>> :
           ms \in {<<M3>>, <<M2, M1>>} }
  \cup { <<Class(<<"c">>, <<Cmr(M2, s1, 1), Cmr(M1, s2, 2)>>)>> : s1, s2 \in Statuses }

\* ---- the auditree.json template ----
Dict(f) == [t |-> "dict", v |-> f]
Template ==
  Dict((<<"o">> :> Dict((<<"g">> :> JList(<<<<"x">>>>)) @@ (<<"n">> :> JInt(1))))
       @@ (<<"f">> :> JFloat(<<1, <<>>>>))
       @@ (<<"s">> :> JStr(<<"x">>)))
\* the same with a boolean flag
BoolTemplate == [Template EXCEPT !.v = @ @@ (<<"b">> :> [t |-> "bool", v |-> TRUE])]

ParamIds == { <<"o", ".", "g">>, <<"o", ".", "n">>, <<"f">>, <<"s">>,
              <<"o">>, <<"o", ".", "t">>, <<"s", ".", "x">> }
ParamValues == { <<"1">>, <<"1", "0">>, <<"1", ",", "x">>, <<"x">>, <<"1", ".">>, <<".">>, <<>> }
Param(i, v) == [id |-> i, value |-> v]
\* every single parameter, and pairs of a few: the same id twice, a
\* failing conversion after a good one, two different leaves
PairPool == { Param(<<"o", ".", "n">>, <<"1">>), Param(<<"o", ".", "n">>, <<"1", "0">>),
              Param(<<"f">>, <<".">>), Param(<<"o", ".", "g">>, <<"1", ",", "x">>),
              Param(<<"s">>, <<"x">>) }
PolicyParams ==
  {<<Param(i, v)>> : i \in ParamIds, v \in ParamValues} \cup (PairPool \X PairPool)
BoolParams ==
  {<<[id |-> <<"b">>, value |-> v]>> : v \in {<<"1">>, <<"x">>}}

\* generate_pvp_result and generate_pvp_policy share no state, so the run
\* explores policy calls only from the state with empty raw data; the
\* states one policy call reaches from the others are still checked
RunRawData == ResultData \cup {<<>>}
OneOperationAtATime == raw = <<>> \/ output = None

\* the constant sets the cfgs substitute
NoRawData == {<<>>}
NoParams == {<<>>}
OneTemplate == {Template}
BoolTemplates == {BoolTemplate}

=============================================================================
