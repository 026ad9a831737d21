------------------------------ MODULE Planning ------------------------------
(* policy.rs: the plan of a described result set, one mask per field, and  *)
(* what handle_data_row makes of a row under it.  A field is               *)
(* [column, type, format, width], its column the key the backend reported, *)
(* or Null for an expression.  What the analysis of the statement says of  *)
(* a field is [safe, lineage, expression]: whether the shape carries no    *)
(* value, lineage's verdict, and the policy of a summary or an extract.    *)
EXTENDS JsonMask, CatalogSnapshot

HasProvenance(field) == field.column # Null

Display(name) == name[1].schema \o "." \o name[1].name \o "." \o name[2]

NameOfColumn(snapshot, column) ==
    CASE column \in DOMAIN snapshot.all_columns -> Display(snapshot.all_columns[column])
      [] column \in DOMAIN snapshot.names \ DOMAIN snapshot.all_columns ->
            Display(snapshot.names[column])
      [] OTHER -> NoDomain

-----------------------------------------------------------------------------
(* The policy of an expression with one attributed source column.          *)

NotApplicable == [is |-> "NotApplicable"]
Released == [is |-> "Released"]
Opaque == [is |-> "Opaque"]
Masked(spec, projection) == [is |-> "Masked", spec |-> spec, projection |-> projection]

\* The mask of the owner's column: of a summary the column's own, of an
\* extract what its pointers say of the path.
SummaryOf(class, roles) ==
    CASE class = Refused -> Opaque
      [] class # Refused /\ IsPassthrough(ForRoles(class, roles)) -> Released
      [] class # Refused /\ ~ IsPassthrough(ForRoles(class, roles)) ->
            Masked(ForRoles(class, roles), << >>)

\* resolve_json_extract_source once the owner is known.
ExtractOf(class, roles, path, as_text) ==
    IF class = Refused THEN Opaque
    ELSE LET spec == ForRoles(class, roles)
             text == JsonTextExtractSpec(spec, path)
         IN  CASE IsPassthrough(spec) -> Released
               [] ~ IsPassthrough(spec) /\ as_text ->
                    IF text = Refused THEN Opaque ELSE Masked(text, << >>)
               [] ~ IsPassthrough(spec) /\ ~ as_text ->
                    IF DocumentProjectable(spec, path) THEN Masked(spec, path) ELSE Opaque

-----------------------------------------------------------------------------
(* plan_for_with.                                                          *)

PlanOpaqueField(live) == IF live.opaque = "mask" THEN NewSpec("null") ELSE Refused

\* A field the backend's OIDs do not vouch for.
IsRescued(said) == said.safe \/ said.lineage = "Release" \/ said.expression = Released
IsAttributed(said) == ~ IsRescued(said) /\ said.expression.is = "Masked"

ExpressionSpec(live, said) ==
    CASE IsRescued(said) -> NewSpec("none")
      [] IsAttributed(said) -> said.expression.spec
      [] OTHER -> PlanOpaqueField(live)

FallsBack(live) == live.unclassified = "mask" /\ live.unclassified_mask = "type_aware"

UnclassifiedSpec(live, snapshot, field) ==
    CASE FallsBack(live) ->
            ForUnclassified(field.type, field.format, field.width,
                            NameOfColumn(snapshot, field.column))
      [] live.unclassified = "mask" /\ live.unclassified_mask = "null" -> NewSpec("null")
      [] live.unclassified = "allow" -> NewSpec("none")

FieldPlan(spec, projection, field, lenient, primed) ==
    [spec |-> spec, projection |-> projection, type |-> field.type, format |-> field.format,
     lenient |-> lenient, primed |-> primed]

\* Mutant: every fallback may withhold a value it cannot transform.
LenientAlways(fallback, not_null) == fallback

Lenient(fallback, not_null) == fallback /\ ~ not_null

PlanField(live, snapshot, roles, key, field, said, trusted) ==
    LET stored == HasProvenance(field) /\ trusted
        known == stored /\ field.column \in DOMAIN snapshot.by_column
        fallback == stored /\ ~ known /\ FallsBack(live)
        not_null == field.column \in snapshot.not_null
        spec == CASE ~ stored -> ExpressionSpec(live, said)
                  [] known -> ForRoles(snapshot.by_column[field.column], roles)
                  [] stored /\ ~ known -> UnclassifiedSpec(live, snapshot, field)
        projection == IF ~ stored /\ IsAttributed(said)
                      THEN said.expression.projection ELSE << >>
    IN  IF \/ spec = Refused
           \/ fallback /\ not_null /\ spec.kind = "null"
           \/ ~ Supports(spec.kind, field.type, field.format)
        THEN Refused
        ELSE FieldPlan(spec, projection, field, Lenient(fallback, not_null), Prime(key, spec))

PlanForWith(live, snapshot, roles, key, fields, said, trusted) ==
    WholeOrRefused([i \in DOMAIN fields |->
                        PlanField(live, snapshot, roles, key, fields[i], said[i], trusted)])

-----------------------------------------------------------------------------
(* handle_data_row: the fields of one row under a plan and the key of now. *)

Forgiven(plan, masked) == IF masked = Refused /\ plan.lenient THEN Null ELSE masked

MaskField(plan, key, value) ==
    Forgiven(plan, ApplyPlanned(key, plan.spec, plan.primed, plan.projection, plan.type,
                                plan.format, value))

\* Mutant: a field that cannot be masked goes out with the others.
MaskRowInPart(plan, key, values) == [i \in DOMAIN plan |-> MaskField(plan[i], key, values[i])]

MaskRow(plan, key, values) ==
    IF Len(values) # Len(plan) THEN Refused
    ELSE WholeOrRefused([i \in DOMAIN plan |-> MaskField(plan[i], key, values[i])])
=============================================================================
