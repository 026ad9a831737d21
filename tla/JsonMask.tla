------------------------------- MODULE JsonMask -------------------------------
(* mask/json.rs: the policies of a JSON column along the paths of a        *)
(* document, and what an extract by SQL makes of them.  A document is a    *)
(* function from the paths of its scalars to the scalars; a path is a      *)
(* sequence of segments [value, by] where by says what syntax, or the      *)
(* document itself, tells of the parent: key, index or either.             *)
EXTENDS Masks

MatchesSegment(pattern, segment) ==
    pattern = segment.value \/ (pattern = "*" /\ segment.by = "index")

\* The trie, walked: the rules whose pointer can reach this path.
Matches(pattern, path) ==
    Len(pattern) = Len(path) /\ \A i \in DOMAIN path : MatchesSegment(pattern[i], path[i])

StatesAt(spec, path) == {i \in DOMAIN spec.json : Matches(spec.json[i].at, path)}

Goes(pattern, path) == Len(pattern) > Len(path) /\ Matches(SubSeq(pattern, 1, Len(path)), path)

\* policy_at: of the pointers that match, the one with the fewest wildcards.
PolicyAt(spec, path) ==
    LET states == StatesAt(spec, path)
        Wild(i) == WildcardCount(spec.json[i].at)
    IN  IF states = {}
        THEN Null
        ELSE spec.json[CHOOSE i \in states : \A j \in states :
                            Wild(i) < Wild(j) \/ (Wild(i) = Wild(j) /\ i <= j)].spec

HasDescendantsAt(spec, path) == \E i \in DOMAIN spec.json : Goes(spec.json[i].at, path)

HasAmbiguousWildcard(spec, path) ==
    \E n \in DOMAIN path : \E i \in DOMAIN spec.json :
        /\ path[n].by = "either"
        /\ Goes(spec.json[i].at, SubSeq(path, 1, n - 1))
        /\ spec.json[i].at[n] = "*"

KeyPolicyAt(spec, segment) ==
    LET keys == {i \in DOMAIN spec.json_keys : spec.json_keys[i].at = segment.value}
    IN  IF segment.by = "index" \/ keys = {} THEN Null ELSE spec.json_keys[Max(keys)].spec

\* The policy of one node of its own: its pointer, or else its key.
OwnPolicy(spec, path) ==
    IF PolicyAt(spec, path) # Null THEN PolicyAt(spec, path) ELSE KeyPolicyAt(spec, path[Len(path)])

\* policy_along: the own policy of the longest prefix that has one.
PolicyAlong(spec, path) ==
    LET own == {n \in DOMAIN path : OwnPolicy(spec, SubSeq(path, 1, n)) # Null}
    IN  IF own = {} THEN Null ELSE OwnPolicy(spec, SubSeq(path, 1, Max(own)))

-----------------------------------------------------------------------------
(* Walking a document.                                                     *)

ScalarType == [string |-> "text", number |-> "numeric", bool |-> "bool"]

Scalar(t, v) == [t |-> t, v |-> v]

JsonNull == Scalar("null", Null)

EmptyOf(scalar) ==
    CASE scalar.t = "null" -> JsonNull
      [] scalar.t = "string" -> Scalar("string", << >>)
      [] scalar.t = "number" -> Scalar("number", 0)
      [] scalar.t = "bool" -> Scalar("bool", FALSE)

\* The masked text as a scalar of the same type, if JSON can write it.
Rewritten(type, masked) ==
    IF masked = Refused \/ (type = "number" /\ masked = Infinity) THEN Refused
    ELSE Scalar(type, masked)

\* mask_json_value: Refused, or the scalar that replaces this one.
MaskJsonValue(key, policy, scalar) ==
    IF scalar.t = "null" \/ policy.kind = "null" THEN JsonNull
    ELSE IF policy.kind = "json" THEN Refused
    ELSE Rewritten(scalar.t, ApplyScalar(key, policy, Null, ScalarType[scalar.t], "text", scalar.v))

\* A scalar under the policy that reaches it, or under json_unlisted.
MaskUnder(policy, key, unlisted, scalar) ==
    CASE policy # Null -> MaskJsonValue(key, policy, scalar)
      [] policy = Null /\ unlisted = "shape_only" -> EmptyOf(scalar)
      [] policy = Null /\ unlisted = "pass_through" -> scalar
      [] policy = Null /\ unlisted = "null" -> JsonNull

\* The scalar at a path of the stored document.
MaskJsonLeaf(key, spec, path, scalar) ==
    MaskUnder(PolicyAlong(spec, path), key, spec.json_unlisted, scalar)

Depth(document) == Max({Len(path) : path \in DOMAIN document})

\* mask_json: the document under `at`, walked with the policies of the whole.
MaskJson(key, spec, at, document) ==
    IF Cardinality(DOMAIN document) > spec.json_max_bytes \/ Depth(document) > spec.json_max_depth
    THEN Refused
    ELSE WholeOrRefused([path \in DOMAIN document |->
                            MaskJsonLeaf(key, spec, at \o path, document[path])])

-----------------------------------------------------------------------------
(* Extracts.                                                               *)

\* json_document_projection: whether col -> path can be walked.
DocumentProjectable(spec, path) ==
    spec.kind = "json" /\ path # << >> /\ ~ HasAmbiguousWildcard(spec, path)

MayRevealSerializedChildren(spec) ==
    \/ spec.kind \in {"none", "partial", "inner", "outer", "range", "scrub"}
    \/ spec.kind = "pseudonym" /\ spec.keep_domain

\* Mutant: the pointers below the extracted node are not looked at.
JsonTextExtractSpecShallow(spec, path) ==
    IF PolicyAlong(spec, path) = Null THEN NewSpec("null") ELSE PolicyAlong(spec, path)

\* json_text_extract_spec: Refused, or the mask of col ->> path.
JsonTextExtractSpec(spec, path) ==
    LET policy == PolicyAlong(spec, path)
        keyed == spec.json_keys # << >>
    IN  IF \/ spec.kind # "json" \/ path = << >>
           \/ HasAmbiguousWildcard(spec, path)
           \/ HasDescendantsAt(spec, path)
           \/ policy # Null /\ policy.kind = "json"
           \/ policy # Null /\ keyed /\ MayRevealSerializedChildren(policy)
           \/ policy = Null /\ keyed /\ spec.json_unlisted = "pass_through"
        THEN Refused
        ELSE IF policy # Null THEN policy
             ELSE NewSpec(IF spec.json_unlisted = "pass_through" THEN "none" ELSE "null")

-----------------------------------------------------------------------------

\* apply_planned.  A projection is the path of an extract, or the root.
ApplyPlanned(key, spec, primed, projection, type, format, value) ==
    IF spec.kind = "json" /\ Supports("json", type, format) /\ value # Null
    THEN MaskJson(key, spec, projection, value)
    ELSE ApplyScalar(key, spec, primed, type, format, value)
=============================================================================
