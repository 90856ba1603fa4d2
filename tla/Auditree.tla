------------------------------ MODULE Auditree ------------------------------
(***************************************************************************)
(* PluginAuditree (src/plugins_public/plugins/auditree.py).                *)
(*                                                                         *)
(* generate_pvp_result turns the check results of an Auditree run into one *)
(* observation per check method, then merges the observations whose method *)
(* name came from parametrized expansion ("<method>_<digits>_<variant>")   *)
(* into one observation per normalized id.  The normalized ids are walked  *)
(* in the iteration order of a Python set of strings, which depends on the *)
(* interpreter's hash seed: the model lets it be any order.                *)
(*                                                                         *)
(* generate_pvp_policy reads the auditree.json template, substitutes each  *)
(* parameter at the dotted key path of its id, converting the value to the *)
(* type found in the template, and writes the output file; a conversion    *)
(* that fails raises before anything is written.                           *)
(*                                                                         *)
(* Texts whose content the code inspects (check ids, parameter ids and     *)
(* values) are sequences of characters.                                    *)
(***************************************************************************)
EXTENDS Naturals, Sequences, SequencesExt

CONSTANTS
  RawData,     \* candidate raw_result.data: a sequence of check classes
  Templates,   \* candidate contents of the auditree.json template
  ParamLists,  \* candidate policy.parameters
  None,        \* Python None
  Missing,     \* a key absent from a dict
  Error        \* an exception raised by the call

VARIABLES
  raw,         \* raw_result.data
  result,      \* observations_by_check of the last generate_pvp_result
  template,    \* the template file
  params,      \* policy.parameters of the last generate_pvp_policy
  output,      \* the output file (None while it does not exist)
  raised       \* whether the last generate_pvp_policy raised

vars == <<raw, result, template, params, output, raised>>

Digits == {"0", "1"}

\* status_dictionary
StatusDictionary == [pass |-> "pass", fail |-> "failure", warn |-> "failure", error |-> "error"]

\* fault model: a status missing from the table counts as passed
ToResultOptimistic(status) ==
  IF status \in DOMAIN StatusDictionary THEN StatusDictionary[status] ELSE "pass"

\* the lookup in status_dictionary with a default of ResultEnum.Error
ToResult(status) ==
  IF status \in DOMAIN StatusDictionary THEN StatusDictionary[status] ELSE "error"

\* get_dict_safely(check_method_result, 'status', 'not_found'), and a null
\* status replaced by ResultEnum.Error (a str enum equal to 'error')
EffectiveStatus(cmr) ==
  CASE cmr.status = Missing -> "not_found"
    [] cmr.status = None    -> "error"
    [] OTHER                -> cmr.status

\* generate_reason: the dict of the status' kind, or for any other status
\* successes updated with warnings, failures and {'exception': exception}.
\* The reason is f'{res}', the text of this dict; the model keeps the dict.
Field(cmr, f) == IF cmr[f] = Missing THEN <<>> ELSE cmr[f]
GenerateReason(cmr, status) ==
  CASE status = "pass"  -> Field(cmr, "successes")
    [] status = "warn"  -> Field(cmr, "warnings")
    [] status = "fail"  -> Field(cmr, "failures")
    [] status = "error" -> Field(cmr, "exception")
    [] OTHER -> ("exception" :> Field(cmr, "exception"))
                  @@ Field(cmr, "failures") @@ Field(cmr, "warnings") @@ Field(cmr, "successes")

\* fault model: datetime.fromtimestamp(timestamp) without tz, a naive time
FromTimestampNaive(ts) == [epoch |-> ts, tz |-> None]

\* datetime.fromtimestamp(timestamp, tz=timezone.utc)
FromTimestamp(ts) == [epoch |-> ts, tz |-> "UTC"]

\* one observation with its single subject for check method cmr of class
\* cls; the evidence links the code computes are never attached to it
CheckObservation(cls, cmr) ==
  LET id == cls \o <<".">> \o cmr.method
      dt == FromTimestamp(cmr.timestamp)
      st == EffectiveStatus(cmr)
  IN  [check_id  |-> id,
       collected |-> dt,
       subjects  |-> <<[resource_id  |-> id,
                        result       |-> ToResult(st),
                        evaluated_on |-> dt,
                        reason       |-> GenerateReason(cmr, st)]>>]

\* the two nested loops over raw_result.data and each class' checks
Observations(data) ==
  FlattenSeq([c \in 1..Len(data) |->
                [k \in 1..Len(data[c].checks) |-> CheckObservation(data[c].name, data[c].checks[k])]])

\* fault model: a lazy (.*?) first group, the first "_<digits>_" splits
ParamSplitLazy(m) ==
  LET ks == {k1 \in 1..Len(m) : m[k1] = "_" /\ \E k2 \in k1 + 2..Len(m) - 1 :
                m[k2] = "_" /\ \A x \in k1 + 1..k2 - 1 : m[x] \in Digits}
  IN  IF ks = {} THEN 0 ELSE CHOOSE k \in ks : \A k1 \in ks : k <= k1

\* re.search('(.*)_([0-9]+)_(.+)$', m): the position of the "_" that ends
\* the greedy first group (0 when there is no match)
ParamSplit(m) ==
  LET ks == {k1 \in 1..Len(m) : m[k1] = "_" /\ \E k2 \in k1 + 2..Len(m) - 1 :
                m[k2] = "_" /\ \A x \in k1 + 1..k2 - 1 : m[x] \in Digits}
  IN  IF ks = {} THEN 0 ELSE CHOOSE k \in ks : \A k1 \in ks : k >= k1

\* *classname, parametrized_method = check_id.split('.'); the normalized id
\* '.'.join(classname + [method]), or None when the method does not match
NormalizedId(id) ==
  LET d  == CHOOSE k \in 1..Len(id) : id[k] = "." /\ \A k2 \in k + 1..Len(id) : id[k2] # "."
      pm == SubSeq(id, d + 1, Len(id))
      k  == ParamSplit(pm)
  IN  IF k = 0 THEN None ELSE SubSeq(id, 1, d) \o SubSeq(pm, 1, k - 1)

\* fault model: the merged observation takes the last member's time
MergeGroupLast(n, group) ==
  [check_id  |-> n,
   collected |-> group[Len(group)].collected,
   subjects  |-> FlattenSeq([g \in 1..Len(group) |-> group[g].subjects])]

\* the observation for normalized id n: all members' subjects, in order,
\* and the first member's collected time
MergeGroup(n, group) ==
  [check_id  |-> n,
   collected |-> group[1].collected,
   subjects  |-> FlattenSeq([g \in 1..Len(group) |-> group[g].subjects])]

\* merged_observations: the unmatched observations, then one merged
\* observation per normalized id, the ids taken in the order given
Merge(obs, order) ==
  SelectSeq(obs, LAMBDA o : NormalizedId(o.check_id) = None)
  \o [n \in 1..Len(order) |->
        MergeGroup(order[n], SelectSeq(obs, LAMBDA o : NormalizedId(o.check_id) = order[n]))]

\* the normalized ids of a list of observations
NormalizedIds(obs) ==
  {NormalizedId(obs[k].check_id) : k \in DOMAIN obs} \ {None}

\* str.split(sep) on a text: the texts between the separators
SplitOn(s, sep) ==
  FoldLeft(LAMBDA acc, ch : IF ch = sep THEN Append(acc, <<>>)
                            ELSE [acc EXCEPT ![Len(acc)] = Append(@, ch)],
           <<<<>>>>, s)

\* int(s) on the texts of the model: one or more digits
IsInt(s) == s # <<>> /\ \A k \in DOMAIN s : s[k] \in Digits
DigitsValue(s) == FoldLeft(LAMBDA acc, ch : 10 * acc + (IF ch = "1" THEN 1 ELSE 0), 0, s)
\* float(s): digits with at most one ".", and at least one digit
IsFloat(s) ==
  LET parts == SplitOn(s, ".") IN
  /\ Len(parts) <= 2
  /\ \A k \in DOMAIN parts : \A x \in DOMAIN parts[k] : parts[k][x] \in Digits
  /\ \E k \in DOMAIN parts : parts[k] # <<>>

\* the value of float(s): the integer part and the fraction's digits
\* without trailing zeros ("1", "1." and "1.0" are the same float)
FloatValue(s) ==
  LET parts == SplitOn(s, ".")
      frac  == IF Len(parts) = 2 THEN parts[2] ELSE <<>>
      last  == {k \in 0..Len(frac) : \A x \in k + 1..Len(frac) : frac[x] = "0"}
  IN  <<DigitsValue(parts[1]), SubSeq(frac, 1, CHOOSE k \in last : \A k2 \in last : k <= k2)>>

\* JSON values of the template: a type tag and a value
JList(v) == [t |-> "list", v |-> v]
JStr(v)  == [t |-> "str", v |-> v]
JInt(v)  == [t |-> "int", v |-> v]
JFloat(v) == [t |-> "float", v |-> v]

\* fault model: int and float values written as the parameter's text
ConvertParamKeepText(tv, s) ==
  CASE tv.t = "list"                     -> JList(SplitOn(s, ","))
    [] tv.t \in {"str", "int", "float"} -> [t |-> tv.t, v |-> s]
    [] OTHER                             -> Error

\* the conversion of parameter value s to the type of template value tv:
\* isinstance(tv, list) / str / int (a bool is an int) / float, else raise
ConvertParam(tv, s) ==
  CASE tv.t = "list"             -> JList(SplitOn(s, ","))
    [] tv.t = "str"              -> JStr(s)
    [] tv.t \in {"int", "bool"}  -> IF IsInt(s) THEN JInt(DigitsValue(s)) ELSE Error
    [] tv.t = "float"            -> IF IsFloat(s) THEN JFloat(FloatValue(s)) ELSE Error
    [] OTHER                     -> Error

\* get_dict_safely(d, path): None once a step is not a key of a dict
RECURSIVE GetPath(_, _)
GetPath(d, path) ==
  IF path = <<>> THEN d
  ELSE IF d # None /\ d.t = "dict" /\ Head(path) \in DOMAIN d.v
       THEN GetPath(d.v[Head(path)], Tail(path))
       ELSE None

\* fault model: a shallow dict update, replacing the whole top-level entry
UpdatePathShallow(d, path, value) == [d EXCEPT !.v[Head(path)] = value]

\* update_dict(d, path, value): deep_update with the nested one-key dict,
\* along a path that exists in d
RECURSIVE UpdatePath(_, _, _)
UpdatePath(d, path, value) ==
  IF path = <<>> THEN value
  ELSE [d EXCEPT !.v[Head(path)] = UpdatePath(@, Tail(path), value)]

\* the loop over policy.parameters: a parameter whose path is absent (or
\* null) in the current json is skipped; a failing conversion raises
SubstituteStep(json, p) ==
  IF json = Error THEN Error
  ELSE LET path == SplitOn(p.id, ".")
           tv   == GetPath(json, path)
       IN  IF tv = None THEN json
           ELSE LET new == ConvertParam(tv, p.value)
                IN  IF new = Error THEN Error ELSE UpdatePath(json, path, new)
Substitute(json, ps) == FoldLeft(SubstituteStep, json, ps)

-----------------------------------------------------------------------------

Init ==
  /\ raw \in RawData
  /\ result = None
  /\ template \in Templates
  /\ params = <<>>
  /\ output = None
  /\ raised = FALSE

\* generate_pvp_result(raw_result); set(...) is iterated in any order
GeneratePvpResult ==
  LET obs == Observations(raw) IN
  /\ \E order \in SetToSeqs(NormalizedIds(obs)) : result' = Merge(obs, order)
  /\ UNCHANGED <<raw, template, params, output, raised>>

\* generate_pvp_policy(policy): read the template, substitute, write the
\* output (json.dump), or raise before writing anything
GeneratePvpPolicy(ps) ==
  LET new == Substitute(template, ps) IN
  /\ params' = ps
  /\ output' = IF new = Error THEN output ELSE new
  /\ raised' = (new = Error)
  /\ UNCHANGED <<raw, result, template>>

Next ==
  \/ GeneratePvpResult
  \/ \E ps \in ParamLists : GeneratePvpPolicy(ps)

Spec == Init /\ [][Next]_vars

-----------------------------------------------------------------------------
(* Types *)

Text == Seq({"c", "d", "t", "u", "a", "_", "0", "1", ".", ",", "x", "o", "g", "n", "f", "s", "b"})
Time == [epoch : Nat, tz : {"UTC"}]
\* a reason dict: counts under the keys of successes, warnings and
\* failures, and under "exception" a dict itself
IsReason(r) ==
  /\ DOMAIN r \subseteq {"s", "w", "f", "exception"}
  /\ \A k \in DOMAIN r : IF k = "exception" THEN DOMAIN r[k] \subseteq {"s", "w", "f"}
                                           ELSE r[k] \in Nat
Subject == [resource_id : Text, result : {"pass", "failure", "error"},
            evaluated_on : Time, reason : STRING]

\* the key paths of the leaves (non-dict values) of a JSON value
RECURSIVE LeafPaths(_)
LeafPaths(d) ==
  IF d.t # "dict" THEN {<<>>}
  ELSE UNION {{<<k>> \o q : q \in LeafPaths(d.v[k])} : k \in DOMAIN d.v}

\* a leaf of a JSON value holds a value of its type tag
IsJValue(x) ==
  CASE x.t = "list"  -> x.v \in Seq(Text)
    [] x.t = "str"   -> x.v \in Text
    [] x.t = "int"   -> x.v \in Nat
    [] x.t = "float" -> x.v \in Nat \X Text
    [] x.t = "bool"  -> x.v \in BOOLEAN
    [] OTHER         -> FALSE

TypeOK ==
  /\ result = None \/
     \A k \in DOMAIN result :
       /\ result[k].check_id \in Text /\ result[k].collected \in Time
       /\ \A s \in Range(result[k].subjects) :
            [s EXCEPT !.reason = "r"] \in Subject /\ IsReason(s.reason)
  /\ params \in Seq([id : Text, value : Text])
  /\ output = None \/ \A q \in LeafPaths(output) : IsJValue(GetPath(output, q))
  /\ raised \in BOOLEAN

-----------------------------------------------------------------------------
(* What generate_pvp_result promises (spec 4.3, 8.5), written from the    *)
(* spec apart from the code's merge.                                       *)

\* the check results of raw_result.data, with their check ids
Checks == UNION {{[id  |-> raw[c].name \o <<".">> \o raw[c].checks[k].method,
                   cmr |-> raw[c].checks[k]] : k \in DOMAIN raw[c].checks} : c \in DOMAIN raw}

\* Spec 4.3 and 8.5: the observations not from parametrized expansion come
\* first, unchanged and in order; then exactly one observation per
\* normalized id, whose subjects are those of all its members in order of
\* appearance and whose collected time is the first member's.
MergeMatchesSpec ==
  result # None =>
    LET obs   == Observations(raw)
        plain == SelectSeq(obs, LAMBDA o : NormalizedId(o.check_id) = None)
        ids   == NormalizedIds(obs)
    IN  /\ Len(result) = Len(plain) + Cardinality(ids)
        /\ SubSeq(result, 1, Len(plain)) = plain
        /\ \A n \in ids :
             LET members == SelectSeq(obs, LAMBDA o : NormalizedId(o.check_id) = n) IN
             \E k \in Len(plain) + 1..Len(result) :
               /\ result[k].check_id = n
               /\ result[k].collected = members[1].collected
               /\ result[k].subjects = FlattenSeq([m \in DOMAIN members |-> members[m].subjects])

\* Spec 4.3 (2): the status table is total and fails closed: a subject is
\* "pass" only for status "pass", "failure" for "fail" and "warn", and
\* "error" for anything else, a missing or null status included.
SubjectsFailClosed ==
  result # None =>
    \A o \in Range(result) : \A s \in Range(o.subjects) : \A c \in Checks :
      c.id = s.resource_id =>
        s.result = CASE c.cmr.status = "pass"            -> "pass"
                     [] c.cmr.status \in {"fail", "warn"} -> "failure"
                     [] OTHER                             -> "error"

\* test_auditree compares the result, in order, with a stored one: the
\* merged observations come in a fixed order, that of first appearance.
MergedInFirstSeenOrder ==
  result # None =>
    LET obs   == Observations(raw)
        first(n) == CHOOSE k \in DOMAIN obs : NormalizedId(obs[k].check_id) = n
                      /\ \A k2 \in 1..k - 1 : NormalizedId(obs[k2].check_id) # n
        plain == SelectSeq(obs, LAMBDA o : NormalizedId(o.check_id) = None)
        ids   == SubSeq(result, Len(plain) + 1, Len(result))
    IN  \A a, b \in DOMAIN ids : a < b => first(ids[a].check_id) < first(ids[b].check_id)

-----------------------------------------------------------------------------
(* What generate_pvp_policy promises (spec 4.3, 7).                        *)

\* the value a parameter value s stands for at a template leaf tv
ExpectedValue(tv, s) ==
  CASE tv.t = "list"  -> JList(SplitOn(s, ","))
    [] tv.t = "str"   -> JStr(s)
    [] tv.t = "int"   -> JInt(DigitsValue(s))
    [] tv.t = "float" -> JFloat(FloatValue(s))

\* After a generate_pvp_policy that did not raise, the output has the
\* template's leaves; a leaf named by a parameter id holds the last such
\* parameter's value converted to the leaf's type, every other leaf is the
\* template's.
ParametersApplied ==
  output # None /\ ~raised =>
    /\ LeafPaths(output) = LeafPaths(template)
    /\ \A q \in LeafPaths(template) :
         LET named == SelectSeq(params, LAMBDA p : SplitOn(p.id, ".") = q) IN
         GetPath(output, q) = IF named = <<>> THEN GetPath(template, q)
                              ELSE ExpectedValue(GetPath(template, q), named[Len(named)].value)

\* Spec 7: a template value that is neither list, string, int nor float is
\* an unsupported type and aborts generation; a written output therefore
\* keeps the JSON type of every template leaf.
SubstitutionKeepsTypes ==
  output # None /\ ~raised =>
    \A q \in LeafPaths(template) : GetPath(output, q).t = GetPath(template, q).t

=============================================================================
