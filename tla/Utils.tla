-------------------------------- MODULE Utils --------------------------------
(***************************************************************************)
(* The helpers of src/c2p/common/utils.py that hold an algorithm:          *)
(* get_dict_safely, the nested lookup the plugins and the C2P object read  *)
(* raw data and grouped rows with, and ControlList.get_control_ids, the     *)
(* natural sort of the control ids get_control_list collects.  Both are    *)
(* pure, so they are operators, checked against reference definitions      *)
(* over bounded inputs.                                                    *)
(*                                                                         *)
(* A Python value is a tagged record: [t |-> "dict", kv |-> a function of  *)
(* its keys], [t |-> "str", kv |-> [v |-> the string]] or [t |-> "none",   *)
(* kv |-> <<>>], so that isinstance(d, dict) is a test of the tag.          *)
(***************************************************************************)
EXTENDS Naturals, Sequences, SequencesExt

CONSTANTS
  ControlCatalog,  \* control ids in the order of their catalog
  PyDicts,         \* nested dicts get_dict_safely is called on
  PyPaths,         \* key lists
  PyDefaults       \* defaults the callers pass

PyNone == [t |-> "none", kv |-> <<>>]
IsDict(d) == d.t = "dict"

\* get_dict_safely with a str key: d[key] when d is a dict holding key,
\* default otherwise
GetKeySafely(d, key, default) ==
  IF IsDict(d) /\ key \in DOMAIN d.kv THEN d.kv[key] ELSE default

\* mutant: a missing key gives None rather than the default
GetDictSafelyNoDefault(d, keys, default) ==
  FoldLeft(LAMBDA v, k : GetKeySafely(v, k, PyNone), d, keys)

\* get_dict_safely with a list of keys: the first key popped and looked up
\* with the default, and the rest looked up in the result; d itself for
\* the empty list
RECURSIVE GetDictSafely(_, _, _)
GetDictSafely(d, keys, default) ==
  IF Len(keys) > 0
  THEN GetDictSafely(GetKeySafely(d, Head(keys), default), Tail(keys), default)
  ELSE d

\* ---- natural sort ----

Digits == "0123456789"
\* characters in code point order
Alphabet == "-.0123456789ABCDEFGHIJKLMNOPQRSTUVWXYZ_abcdefghijklmnopqrstuvwxyz"
Char(s, i) == SubSeq(s, i, i)
Ord(c) == CHOOSE i \in 1..Len(Alphabet) : Char(Alphabet, i) = c
DigitValue(c) == CHOOSE d \in 0..9 : Char(Digits, d + 1) = c
IsDigit(c) == \E d \in 1..10 : Char(Digits, d) = c

\* mutant: the key is the whole string, digits compared as characters
CustomSortRaw(key) == <<[num |-> FALSE, s |-> key, n |-> 0]>>

\* custom_sort: re.split('(\d+)', key) with each digit run as an int; the
\* tokens alternate str and int, starting and ending with a (possibly
\* empty) str
CustomSort(key) ==
  LET step(acc, i) ==
        LET c == Char(key, i)
            last == acc[Len(acc)]
        IN  CASE IsDigit(c) /\ last.num ->
                   [acc EXCEPT ![Len(acc)].n = 10 * @ + DigitValue(c)]
              [] IsDigit(c) -> Append(acc, [num |-> TRUE, s |-> "", n |-> DigitValue(c)])
              [] last.num -> Append(acc, [num |-> FALSE, s |-> c, n |-> 0])
              [] OTHER -> [acc EXCEPT ![Len(acc)].s = @ \o c]
      toks == FoldLeft(step, <<[num |-> FALSE, s |-> "", n |-> 0]>>,
                       [i \in 1..Len(key) |-> i])
  IN  IF toks[Len(toks)].num THEN Append(toks, [num |-> FALSE, s |-> "", n |-> 0]) ELSE toks

\* Python's < on two str: code points, a proper prefix first
RECURSIVE StrLess(_, _)
StrLess(x, y) ==
  IF Len(y) = 0 THEN FALSE
  ELSE IF Len(x) = 0 THEN TRUE
  ELSE IF Ord(Char(x, 1)) # Ord(Char(y, 1)) THEN Ord(Char(x, 1)) < Ord(Char(y, 1))
  ELSE StrLess(SubSeq(x, 2, Len(x)), SubSeq(y, 2, Len(y)))

\* Python's < on two token lists: the first differing token decides
RECURSIVE KeyLess(_, _)
KeyLess(a, b) ==
  IF b = <<>> THEN FALSE
  ELSE IF a = <<>> THEN TRUE
  ELSE IF Head(a) # Head(b)
       THEN IF Head(a).num THEN Head(a).n < Head(b).n ELSE StrLess(Head(a).s, Head(b).s)
       ELSE KeyLess(Tail(a), Tail(b))

\* sorted(ids, key=custom_sort): stable, so an id goes after every id whose
\* key is not greater
SortedByKey(ids) ==
  FoldLeft(LAMBDA acc, x :
             LET after == {i \in DOMAIN acc : KeyLess(CustomSort(x), CustomSort(acc[i]))}
                 p     == IF after = {} THEN Len(acc) + 1 ELSE Min(after)
             IN  SubSeq(acc, 1, p - 1) \o <<x>> \o SubSeq(acc, p, Len(acc)),
           <<>>, ids)

\* get_control_list: the control id of every implemented requirement of
\* every control implementation of every component
GetControlList(comps) ==
  FlattenSeq([i \in DOMAIN comps |-> [n \in DOMAIN comps[i] |-> comps[i][n]]])

\* get_control_ids: sorted(list(set(ids))); the list's order is the set's
\* iteration order, any order of the distinct ids
GetControlIds(items) == {SortedByKey(o) : o \in SetToSeqs(Range(items))}

-----------------------------------------------------------------------------
(* Properties.  They hold of the constants alone; a run checks them       *)
(* through the state-level forms of the MC module that extends this one.  *)

\* the value at the end of the path when every step is a dict holding the
\* next key, the default when a step is missing or not a dict
PathLookup(d, path, default) ==
  LET walk == FoldLeft(LAMBDA w, k :
                         IF w.found /\ IsDict(w.v) /\ k \in DOMAIN w.v.kv
                         THEN [found |-> TRUE, v |-> w.v.kv[k]]
                         ELSE [found |-> FALSE, v |-> w.v],
                       [found |-> TRUE, v |-> d], path)
  IN  IF walk.found THEN walk.v ELSE default

\* get_dict_safely returns the value at the end of the key path, and the
\* caller's default as soon as a step is missing or not a dict, for every
\* default the callers pass (None, a str, an empty list or dict): the
\* default handed down to the later steps never reads as a value.
GetDictSafelyFollowsPathOnInputs ==
  \A d \in PyDicts, path \in PyPaths, dflt \in PyDefaults :
    GetDictSafely(d, path, dflt) = PathLookup(d, path, dflt)

\* the ids of a set in catalog order
InCatalogOrder(S) == SelectSeq(ControlCatalog, LAMBDA c : c \in S)

\* get_control_ids lists the distinct control ids of the component
\* definition in catalog order (ac-2 before ac-2.1 before ac-10, families
\* alphabetical), whatever order the set gives them and however they are
\* spread over components and repeated.
ControlIdsInCatalogOrderOnInputs ==
  \A S \in {T \in SUBSET Range(ControlCatalog) : Cardinality(T) <= 4} :
    LET items == GetControlList(<<SetToSeq(S), SetToSeq(S)>>)
    IN  GetControlIds(items) = {InCatalogOrder(S)}

====
