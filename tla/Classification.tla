--------------------------- MODULE Classification ---------------------------
(* What a column rule means: the mask kinds, a rule folded with its        *)
(* semantic type, the specifications a catalog refuses, and the mask a     *)
(* principal's roles select.  Parameters that a file leaves out are absent *)
(* from the domain of a params function.                                   *)
EXTENDS Integers, Sequences, FiniteSets, SequencesExt

CONSTANTS
    RoleOrder,      \* the role names, in lexicographic order
    MaxJsonDepth,   \* MAX_JSON_MAX_DEPTH
    Refused         \* in place of a classification, an output or a plan

ASSUME RoleOrderAssumption == IsInjective(RoleOrder)
ASSUME MaxJsonDepthAssumption == MaxJsonDepth \in Nat \ {0}

\* A collection of results, unless one of them is a refusal.
WholeOrRefused(results) == IF Refused \in Range(results) THEN Refused ELSE results

NoDomain == "no domain"

Restrictiveness ==
    [none |-> 0, scrub |-> 1, json |-> 1, partial |-> 2, inner |-> 2, outer |-> 2, range |-> 2,
     date_month |-> 3, ip_prefix |-> 3, numeric_bucket |-> 3, date_year |-> 4, pseudonym |-> 5,
     hash |-> 6, redact |-> 7, null |-> 8]

Mask == DOMAIN Restrictiveness

JsonParams == {"json_unlisted", "json_max_bytes", "json_max_depth", "json", "json_keys"}

\* MaskSpec::new: the defaults of every parameter.
NewSpec(kind) ==
    [kind |-> kind, keep |-> 4, start |-> 0, end |-> 0, bucket |-> 1, keep_domain |-> FALSE,
     domain |-> NoDomain, json |-> << >>, json_keys |-> << >>, json_unlisted |-> "null",
     json_max_bytes |-> 1048576, json_max_depth |-> 64]

JsonMisplaced(params, kind) == kind # "json" /\ DOMAIN params \cap JsonParams # {}

\* The rules of a JSON table, each with the spec its own parameters give.
Compiled(rules) ==
    [i \in DOMAIN rules |->
        [at |-> rules[i].at,
         spec |-> rules[i].params @@ NewSpec(rules[i].mask)]]

\* MaskParams::apply_to on a spec that is not refused.  A table that the
\* parameters do not give stays as the semantic type compiled it.
Overridden(spec, params) ==
    [f \in DOMAIN params |->
        IF f \in {"json", "json_keys"} THEN Compiled(params[f]) ELSE params[f]] @@ spec

ApplyRefused(params, kind) ==
    \/ JsonMisplaced(params, kind)
    \/ \E f \in DOMAIN params \cap {"json", "json_keys"} : \E i \in DOMAIN params[f] :
            JsonMisplaced(params[f][i].params, params[f][i].mask)

-----------------------------------------------------------------------------
(* JSON pointers: sequences of segments, with * for every array element.   *)

WildcardCount(segments) == Cardinality({i \in DOMAIN segments : segments[i] = "*"})

PatternsOverlap(left, right) ==
    /\ Len(left) = Len(right)
    /\ \A i \in DOMAIN left : left[i] = right[i] \/ left[i] = "*" \/ right[i] = "*"

\* Mutant: only pointers spelled alike are refused, and the order of the
\* file decides between /a/* and */b.
OverlapsOnlyItself(left, right) == left = right

EquallySpecificOverlap(left, right) ==
    PatternsOverlap(left, right) /\ WildcardCount(left) = WildcardCount(right)

-----------------------------------------------------------------------------
(* validate_spec and validate_json_spec.                                   *)

\* Mutant: an empty range is accepted.
SoundScalarLoosely(spec) ==
    /\ spec.kind = "numeric_bucket" => spec.bucket >= 1
    /\ spec.kind = "range" => spec.end >= spec.start

SoundScalar(spec) ==
    /\ spec.kind = "numeric_bucket" => spec.bucket >= 2
    /\ spec.kind = "range" => spec.end > spec.start
    /\ spec.kind = "outer" => spec.keep # 0

SoundTable(rules, Clash(_, _)) ==
    /\ \A i \in DOMAIN rules : rules[i].spec.kind # "json" /\ SoundScalar(rules[i].spec)
    /\ \A i, j \in DOMAIN rules : i < j => ~ Clash(rules[i].at, rules[j].at)

SameKey(left, right) == left = right

SoundJson(spec) ==
    /\ spec.json_max_bytes # 0
    /\ spec.json_max_depth \in 1 .. MaxJsonDepth
    /\ SoundTable(spec.json, EquallySpecificOverlap)
    /\ SoundTable(spec.json_keys, SameKey)

ValidSpec(spec) == SoundScalar(spec) /\ (spec.kind = "json" => SoundJson(spec))

-----------------------------------------------------------------------------
(* classify: a rule and its semantic type, folded.                         *)

\* What the type, then the rule, make of one mask kind.
Built(rule, types, kind) ==
    IF rule.type = NoDomain
    THEN Overridden(NewSpec(kind), rule.params)
    ELSE LET semantic == types[rule.type]
             named == [NewSpec(kind) EXCEPT !.domain = rule.type]
         IN  Overridden(Overridden(named, semantic.params), rule.params)

BuildRefused(rule, types, kind) ==
    \/ rule.type # NoDomain /\ ApplyRefused(types[rule.type].params, kind)
    \/ ApplyRefused(rule.params, kind)

RoleKinds(rule, types) ==
    rule.by_role @@ IF rule.type = NoDomain THEN << >> ELSE types[rule.type].by_role

BaseKind(rule, types) == IF rule.mask # NoDomain THEN rule.mask ELSE types[rule.type].mask

Classify(rule, types) ==
    IF \/ rule.type # NoDomain /\ rule.type \notin DOMAIN types
       \/ rule.mask = NoDomain /\ rule.type = NoDomain
    THEN Refused
    ELSE LET roles == RoleKinds(rule, types)
             base == BaseKind(rule, types)
             built == [role \in DOMAIN roles |-> Built(rule, types, roles[role])]
             default == Built(rule, types, base)
         IN  IF \/ \E kind \in {base} \cup Range(roles) : BuildRefused(rule, types, kind)
                \/ \E spec \in {default} \cup Range(built) : ~ ValidSpec(spec)
             THEN Refused
             ELSE [default |-> default, by_role |-> built]

-----------------------------------------------------------------------------
(* Classification::for_roles.                                              *)

Rank(spec) == Restrictiveness[spec.kind]

Before(role, other) == \E i, j \in DOMAIN RoleOrder : i < j /\ RoleOrder[i] = role /\ RoleOrder[j] = other

\* Mutant: the first matching role in the order of the names.
FirstRole(by_role, roles) == CHOOSE role \in roles : \A other \in roles \ {role} : Before(role, other)

\* The most restrictive of the matching roles, the first of them on a tie.
Strictest(by_role, roles) ==
    CHOOSE role \in roles : \A other \in roles \ {role} :
        \/ Rank(by_role[other]) < Rank(by_role[role])
        \/ Rank(by_role[other]) = Rank(by_role[role]) /\ Before(role, other)

ForRoles(class, roles) ==
    LET matching == roles \cap DOMAIN class.by_role
    IN  IF matching = {} THEN class.default ELSE class.by_role[Strictest(class.by_role, matching)]

IsPassthrough(spec) == spec.kind = "none"
=============================================================================
