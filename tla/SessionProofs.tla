--------------------------- MODULE SessionProofs ---------------------------
(***************************************************************************)
(* What holds of a session for any menu, any habits and any backend that   *)
(* answers in order: its types, the order of its queues and the freshness  *)
(* of every binding; and, for a client that sends its queries alone, the   *)
(* truth of the ReadyForQuery the proxy makes up.  First, what the         *)
(* operations of PlanState preserve, for any names, texts and queues; then *)
(* the backend and the handlers.                                           *)
(***************************************************************************)
EXTENDS Session, FiniteSetTheorems, WellFoundedInduction, TLAPS

-----------------------------------------------------------------------------
(* retain.                                                                 *)

\* Ranks number the kept positions from 1, in order.
LEMMA RankFacts ==
  ASSUME NEW n \in Nat, NEW kept \in SUBSET (1 .. n)
  PROVE  /\ IsFiniteSet(kept) /\ Cardinality(kept) \in Nat /\ Cardinality(kept) <= n
         /\ \A k \in kept : Rank(kept, k) \in 1 .. Cardinality(kept)
         /\ \A j, k \in kept : j < k => Rank(kept, j) < Rank(kept, k)
         /\ \A i \in 1 .. Cardinality(kept) : \E k \in kept : Rank(kept, k) = i
  <1>1. IsFiniteSet(1 .. n) /\ Cardinality(1 .. n) = n
    BY FS_Interval
  <1>2. IsFiniteSet(kept) /\ Cardinality(kept) \in Nat /\ Cardinality(kept) <= n
    BY <1>1, FS_Subset, FS_CardinalityType
  <1> DEFINE upTo(k) == {j \in kept : j <= k}
             c == Cardinality(kept)
  <1>3. \A k \in kept : IsFiniteSet(upTo(k)) /\ Cardinality(upTo(k)) \in Nat
                          /\ Cardinality(upTo(k)) <= c
    BY <1>2, FS_Subset, FS_CardinalityType
  <1>4. ASSUME NEW k \in kept PROVE Rank(kept, k) \in 1 .. c
    <2>1. upTo(k) # {}
      OBVIOUS
    <2>2. Cardinality(upTo(k)) # 0
      BY <1>3, <2>1, FS_EmptySet
    <2> QED
      BY <1>2, <1>3, <2>2 DEF Rank
  <1>5. ASSUME NEW j \in kept, NEW k \in kept, j < k PROVE Rank(kept, j) < Rank(kept, k)
    <2>1. \A x \in kept : x \in Nat
      OBVIOUS
    <2>2. upTo(j) \subseteq upTo(k)
      <3> SUFFICES ASSUME NEW x \in upTo(j) PROVE x <= k
        OBVIOUS
      <3>1. x \in kept /\ x <= j
        OBVIOUS
      <3> QED
        BY <1>5, <2>1, <3>1
    <2>3. k \in upTo(k) /\ k \notin upTo(j)
      BY <1>5, <2>1
    <2>4. Cardinality(upTo(j)) < Cardinality(upTo(k))
      BY <1>3, <2>2, <2>3, FS_Subset
    <2> QED
      BY <2>4 DEF Rank
  <1>6. ASSUME NEW i \in 1 .. c PROVE \E k \in kept : Rank(kept, k) = i
    <2> DEFINE rank == [k \in kept |-> Rank(kept, k)]
    <2>1. rank \in Injection(kept, 1 .. c)
      <3>1. rank \in [kept -> 1 .. c]
        BY <1>4
      <3>2. ASSUME NEW j \in kept, NEW k \in kept, Rank(kept, j) = Rank(kept, k) PROVE j = k
        <4>1. j \in Nat /\ k \in Nat /\ Rank(kept, j) \in Nat
          BY <1>2, <1>4
        <4>2. ~(j < k) /\ ~(k < j)
          BY <1>5, <3>2, <4>1
        <4> QED
          BY <4>1, <4>2
      <3> QED
        BY <3>1, <3>2 DEF Injection, IsInjective
    <2>2. IsFiniteSet(1 .. c) /\ Cardinality(1 .. c) = c
      BY <1>2, FS_Interval
    <2>3. rank \in Surjection(kept, 1 .. c)
      BY <1>2, <2>1, <2>2, FS_Injection, FS_Surjection
    <2> QED
      BY <2>3 DEF Surjection
  <1> QED
    BY <1>2, <1>4, <1>5, <1>6

\* retain gives a queue of the same entries, in the same order.
LEMMA RetainFacts ==
  ASSUME NEW T, NEW queue \in Seq(T), NEW kept \in SUBSET DOMAIN queue
  PROVE  /\ Retain(queue, kept) \in Seq(T)
         /\ Len(Retain(queue, kept)) <= Len(queue)
         /\ \E at \in [DOMAIN Retain(queue, kept) -> kept] :
                /\ \A i \in DOMAIN at : Retain(queue, kept)[i] = queue[at[i]]
                /\ \A i, j \in DOMAIN at : i < j => at[i] < at[j]
  <1> DEFINE n == Len(queue)
             c == Cardinality(kept)
             at == [i \in 1 .. c |-> CHOOSE k \in kept : Rank(kept, k) = i]
  <1>1. n \in Nat /\ DOMAIN queue = 1 .. n /\ kept \in SUBSET (1 .. n)
    OBVIOUS
  <1>2. /\ c \in Nat /\ c <= n
        /\ \A k \in kept : Rank(kept, k) \in 1 .. c
        /\ \A j, k \in kept : j < k => Rank(kept, j) < Rank(kept, k)
        /\ \A i \in 1 .. c : \E k \in kept : Rank(kept, k) = i
    BY <1>1, RankFacts
  <1>3. \A i \in 1 .. c : at[i] \in kept /\ Rank(kept, at[i]) = i
    BY <1>2
  <1>4. \A i, j \in 1 .. c : i < j => at[i] < at[j]
    <2> SUFFICES ASSUME NEW i \in 1 .. c, NEW j \in 1 .. c, i < j PROVE at[i] < at[j]
      OBVIOUS
    <2>1. at[i] \in kept /\ at[j] \in kept /\ Rank(kept, at[i]) = i /\ Rank(kept, at[j]) = j
      BY <1>3
    <2> HIDE DEF at
    <2>2. at[i] \in Nat /\ at[j] \in Nat
      BY <1>1, <2>1
    <2>3. ~(at[j] < at[i]) /\ at[i] # at[j]
      BY <1>2, <2>1
    <2> QED
      BY <2>2, <2>3
  <1>5. Retain(queue, kept) = [i \in 1 .. c |-> queue[at[i]]]
    BY DEF Retain
  <1>6. \A i \in 1 .. c : queue[at[i]] \in T
    BY <1>1, <1>3
  <1> HIDE DEF at
  <1>7. Retain(queue, kept) \in [1 .. c -> T]
    BY <1>5, <1>6
  <1>8. Retain(queue, kept) \in Seq(T) /\ Len(Retain(queue, kept)) = c
          /\ DOMAIN Retain(queue, kept) = 1 .. c
    BY <1>2, <1>7
  <1>9. at \in [1 .. c -> kept]
    BY <1>3 DEF at
  <1> QED
    BY <1>2, <1>4, <1>5, <1>8, <1>9

\* An order of the entries that holds along the queue holds along what is
\* kept of it.
LEMMA RetainInOrder ==
  ASSUME NEW T, NEW queue \in Seq(T), NEW kept \in SUBSET DOMAIN queue, NEW latest,
         InEpochOrder(queue, latest)
  PROVE  InEpochOrder(Retain(queue, kept), latest)
  <1> DEFINE r == Retain(queue, kept)
  <1>1. r \in Seq(T)
    BY RetainFacts
  <1>2. PICK at \in [DOMAIN r -> kept] :
            /\ \A i \in DOMAIN at : r[i] = queue[at[i]]
            /\ \A i, j \in DOMAIN at : i < j => at[i] < at[j]
    BY RetainFacts
  <1> HIDE DEF r
  <1> SUFFICES ASSUME NEW i \in DOMAIN r, NEW j \in DOMAIN r, i <= j
               PROVE  r[i].epoch <= r[j].epoch /\ r[j].epoch <= latest
    BY DEF InEpochOrder, r
  <1>3. DOMAIN r \subseteq Nat /\ DOMAIN queue \subseteq Nat
    BY <1>1
  <1>4. at[i] \in DOMAIN queue /\ at[j] \in DOMAIN queue /\ at[i] <= at[j]
    BY <1>2, <1>3
  <1> QED
    BY <1>2, <1>4 DEF InEpochOrder

\* Filtering a queue keeps its results in the order of their ids.
LEMMA RetainInResultOrder ==
  ASSUME NEW T, NEW queue \in Seq(T), NEW kept \in SUBSET DOMAIN queue, NEW next,
         InResultOrder(queue, next)
  PROVE  InResultOrder(Retain(queue, kept), next)
  <1> DEFINE r == Retain(queue, kept)
  <1>1. PICK at \in [DOMAIN r -> kept] :
            /\ \A i \in DOMAIN at : r[i] = queue[at[i]]
            /\ \A i, j \in DOMAIN at : i < j => at[i] < at[j]
    BY RetainFacts
  <1> HIDE DEF r
  <1> SUFFICES ASSUME NEW i \in DOMAIN r, NEW j \in DOMAIN r
               PROVE  r[i].order < next /\ (i < j => r[i].order < r[j].order)
    BY DEF InResultOrder, r
  <1>2. at[i] \in DOMAIN queue /\ at[j] \in DOMAIN queue /\ (i < j => at[i] < at[j])
    BY <1>1
  <1> QED
    BY <1>1, <1>2 DEF InResultOrder

-----------------------------------------------------------------------------
(* Generations of a binding.                                               *)

\* A nonempty set of naturals has a least member.
LEMMA LeastNat ==
  ASSUME NEW S \in SUBSET Nat, S # {}
  PROVE  \E n \in S : \A m \in S : n <= m
  <1>1. IsWellFoundedOn(OpToRel(<, Nat), Nat)
    BY NatLessThanWellFounded
  <1>2. PICK n \in S : \A m \in S : ~ (<< m, n >> \in OpToRel(<, Nat))
    BY <1>1, WFMin
  <1>3. \A m \in S : ~ (m < n)
    BY <1>2 DEF OpToRel
  <1> QED
    BY <1>3

\* What the intervals that bump_bind_generation searches contain.
LEMMA IntervalFacts ==
  ASSUME NEW n \in Nat, NEW a \in Nat
  PROVE  /\ IsFiniteSet(1 .. n) /\ Cardinality(1 .. n) = n
         /\ IsFiniteSet(a .. a + n) /\ Cardinality(a .. a + n) = n + 1
  <1>1. a \in Int /\ a + n \in Int /\ n \in Int /\ ~(a > a + n)
    OBVIOUS
  <1>2. IsFiniteSet(a .. a + n) /\ Cardinality(a .. a + n) = a + n - a + 1
    BY <1>1, FS_Interval
  <1>3. IsFiniteSet(1 .. n) /\ Cardinality(1 .. n) = n
    BY FS_Interval
  <1> QED
    BY <1>2, <1>3

\* The generation a Bind takes is larger than the last one of the name and
\* held by no unfinished Execute of it, although parse may have reset the
\* counter under those: there are fewer Executes than candidates.
LEMMA BumpIsFresh ==
  ASSUME NEW ps, NEW portal \in Portals,
         ps.pending_executes \in Seq(PendingExecute),
         ps.portal_bind_generations \in [Portals -> Nat]
  PROVE  /\ BumpedGeneration(ps, portal) \in Nat
         /\ BumpedGeneration(ps, portal) > ps.portal_bind_generations[portal]
         /\ BumpedGeneration(ps, portal) \notin HeldGenerations(ps, portal)
  <1> DEFINE queue == ps.pending_executes
             n == Len(queue)
             first == ps.portal_bind_generations[portal] + 1
             candidates == first .. first + n
             held == HeldGenerations(ps, portal)
             holders == {j \in DOMAIN queue : queue[j].name = portal}
             generationOf == [j \in holders |-> queue[j].bind_generation]
             free == candidates \ held
  <1>1. n \in Nat /\ first \in Nat /\ DOMAIN queue = 1 .. n
    OBVIOUS
  <1>2. /\ IsFiniteSet(candidates) /\ Cardinality(candidates) = n + 1
        /\ IsFiniteSet(1 .. n) /\ Cardinality(1 .. n) = n
    <2> HIDE DEF n, first
    <2> QED
      BY <1>1, IntervalFacts
  <1>3. IsFiniteSet(holders) /\ Cardinality(holders) <= n
    <2>1. holders \in SUBSET (1 .. n)
      BY <1>1
    <2> HIDE DEF holders
    <2> QED
      BY <1>2, <2>1, FS_Subset
  <1>4. generationOf \in Surjection(holders, held)
    <2>1. held = {queue[j].bind_generation : j \in holders}
      BY DEF HeldGenerations
    <2> HIDE DEF holders, held
    <2>2. generationOf \in [holders -> held]
      BY <2>1
    <2>3. \A g \in held : \E j \in holders : generationOf[j] = g
      BY <2>1
    <2> QED
      BY <2>2, <2>3 DEF Surjection
  <1>5. IsFiniteSet(held) /\ Cardinality(held) <= Cardinality(holders)
    BY <1>3, <1>4, FS_Surjection
  <1>6. free # {}
    <2> SUFFICES ASSUME candidates \subseteq held PROVE FALSE
      OBVIOUS
    <2>1. Cardinality(candidates) <= Cardinality(held)
      BY <1>5, FS_Subset
    <2>2. Cardinality(held) \in Nat /\ Cardinality(holders) \in Nat
      BY <1>3, <1>5, FS_CardinalityType
    <2> QED
      BY <1>1, <1>2, <1>3, <1>5, <2>1, <2>2
  <1>7. free \in SUBSET Nat
    BY <1>1
  <1>8. \E m \in free : \A k \in free : m <= k
    BY <1>6, <1>7, LeastNat
  <1>9. BumpedGeneration(ps, portal) \in free
    BY <1>8 DEF BumpedGeneration
  <1> HIDE DEF held
  <1> QED
    BY <1>1, <1>9 DEF held

-----------------------------------------------------------------------------
(* Types.  A state is updated one field at a time.                         *)

\* The types of the fields of a plan state, one by one.
LEMMA FieldsTyped ==
  ASSUME NEW ps \in State
  PROVE  /\ ps.statement_plans \in [Statements -> Option(Plan)]
         /\ ps.statement_sql \in [Statements -> Option(Sqls)]
         /\ ps.portal_statement \in [Portals -> Option(Statements)]
         /\ ps.portal_plans \in [Portals -> Option(Plan)]
         /\ ps.portal_formats \in [Portals -> Option(Formats)]
         /\ ps.portal_bind_generations \in [Portals -> Nat]
         /\ ps.active_plan \in Option(Plan)
         /\ ps.active_portal \in Option(Portals)
         /\ ps.active_epoch \in Option(Nat)
         /\ ps.pending_descriptions \in Seq(PendingDescribe \cup PendingSimple)
         /\ ps.pending_parses \in Seq(PendingParse)
         /\ ps.pending_binds \in Seq(PendingBind)
         /\ ps.pending_executes \in Seq(PendingExecute)
         /\ ps.suspended \in BOOLEAN
         /\ ps.streaming_simple_result \in BOOLEAN
         /\ ps.sync_epoch \in Nat
         /\ ps.next_result_order \in Nat
         /\ ps.generation \in Nat
  BY DEF State

\* Replacing one entry of a map keeps its type.
LEMMA UpdateTyped ==
  ASSUME NEW ps \in State
  PROVE  /\ \A v \in [Statements -> Option(Plan)] : [ps EXCEPT !.statement_plans = v] \in State
         /\ \A v \in [Statements -> Option(Sqls)] : [ps EXCEPT !.statement_sql = v] \in State
         /\ \A v \in [Portals -> Option(Statements)] : [ps EXCEPT !.portal_statement = v] \in State
         /\ \A v \in [Portals -> Option(Plan)] : [ps EXCEPT !.portal_plans = v] \in State
         /\ \A v \in [Portals -> Option(Formats)] : [ps EXCEPT !.portal_formats = v] \in State
         /\ \A v \in [Portals -> Nat] : [ps EXCEPT !.portal_bind_generations = v] \in State
         /\ \A v \in Option(Plan) : [ps EXCEPT !.active_plan = v] \in State
         /\ \A v \in Option(Portals) : [ps EXCEPT !.active_portal = v] \in State
         /\ \A v \in Option(Nat) : [ps EXCEPT !.active_epoch = v] \in State
         /\ \A v \in Seq(PendingDescribe \cup PendingSimple) : [ps EXCEPT !.pending_descriptions = v] \in State
         /\ \A v \in Seq(PendingParse) : [ps EXCEPT !.pending_parses = v] \in State
         /\ \A v \in Seq(PendingBind) : [ps EXCEPT !.pending_binds = v] \in State
         /\ \A v \in Seq(PendingExecute) : [ps EXCEPT !.pending_executes = v] \in State
         /\ \A v \in BOOLEAN : [ps EXCEPT !.suspended = v] \in State
         /\ \A v \in BOOLEAN : [ps EXCEPT !.streaming_simple_result = v] \in State
         /\ \A v \in Nat : [ps EXCEPT !.sync_epoch = v] \in State
         /\ \A v \in Nat : [ps EXCEPT !.next_result_order = v] \in State
         /\ \A v \in Nat : [ps EXCEPT !.generation = v] \in State
  <1>1. ASSUME NEW v \in [Statements -> Option(Plan)] PROVE [ps EXCEPT !.statement_plans = v] \in State
    BY DEF State
  <1>2. ASSUME NEW v \in [Statements -> Option(Sqls)] PROVE [ps EXCEPT !.statement_sql = v] \in State
    BY DEF State
  <1>3. ASSUME NEW v \in [Portals -> Option(Statements)] PROVE [ps EXCEPT !.portal_statement = v] \in State
    BY DEF State
  <1>4. ASSUME NEW v \in [Portals -> Option(Plan)] PROVE [ps EXCEPT !.portal_plans = v] \in State
    BY DEF State
  <1>5. ASSUME NEW v \in [Portals -> Option(Formats)] PROVE [ps EXCEPT !.portal_formats = v] \in State
    BY DEF State
  <1>6. ASSUME NEW v \in [Portals -> Nat] PROVE [ps EXCEPT !.portal_bind_generations = v] \in State
    BY DEF State
  <1>7. ASSUME NEW v \in Option(Plan) PROVE [ps EXCEPT !.active_plan = v] \in State
    BY DEF State
  <1>8. ASSUME NEW v \in Option(Portals) PROVE [ps EXCEPT !.active_portal = v] \in State
    BY DEF State
  <1>9. ASSUME NEW v \in Option(Nat) PROVE [ps EXCEPT !.active_epoch = v] \in State
    BY DEF State
  <1>10. ASSUME NEW v \in Seq(PendingDescribe \cup PendingSimple) PROVE [ps EXCEPT !.pending_descriptions = v] \in State
    BY DEF State
  <1>11. ASSUME NEW v \in Seq(PendingParse) PROVE [ps EXCEPT !.pending_parses = v] \in State
    BY DEF State
  <1>12. ASSUME NEW v \in Seq(PendingBind) PROVE [ps EXCEPT !.pending_binds = v] \in State
    BY DEF State
  <1>13. ASSUME NEW v \in Seq(PendingExecute) PROVE [ps EXCEPT !.pending_executes = v] \in State
    BY DEF State
  <1>14. ASSUME NEW v \in BOOLEAN PROVE [ps EXCEPT !.suspended = v] \in State
    BY DEF State
  <1>15. ASSUME NEW v \in BOOLEAN PROVE [ps EXCEPT !.streaming_simple_result = v] \in State
    BY DEF State
  <1>16. ASSUME NEW v \in Nat PROVE [ps EXCEPT !.sync_epoch = v] \in State
    BY DEF State
  <1>17. ASSUME NEW v \in Nat PROVE [ps EXCEPT !.next_result_order = v] \in State
    BY DEF State
  <1>18. ASSUME NEW v \in Nat PROVE [ps EXCEPT !.generation = v] \in State
    BY DEF State
  <1> QED
    BY <1>1, <1>2, <1>3, <1>4, <1>5, <1>6, <1>7, <1>8, <1>9, <1>10, <1>11, <1>12, <1>13, <1>14, <1>15, <1>16, <1>17, <1>18

\* pop_front keeps the type of a queue, and of an empty one.
LEMMA PopFrontTyped ==
  ASSUME NEW T, NEW queue \in Seq(T)
  PROVE  PopFront(queue) \in Seq(T)
  BY DEF PopFront

\* Dropping the entries of one epoch keeps the type of a queue.
LEMMA OtherEpochsTyped ==
  ASSUME NEW T, NEW queue \in Seq(T), NEW epoch
  PROVE  OtherEpochs(queue, epoch) \in Seq(T)
  BY RetainFacts DEF OtherEpochs

\* Stamping the bound format on a plan gives a plan.
LEMMA StampTyped ==
  ASSUME NEW plan \in Plan, NEW formats \in Option(Formats)
  PROVE  Stamp(plan, formats) \in Plan
  BY DEF Stamp, Plan, Option

\* sql_for_portal gives a text or nothing.
LEMMA SqlForPortalTyped ==
  ASSUME NEW ps \in State, NEW portal \in Portals
  PROVE  SqlForPortal(ps, portal) \in Option(Sqls)
  BY FieldsTyped DEF SqlForPortal, Option

\* described_sql gives a text or nothing.
LEMMA DescribedSqlTyped ==
  ASSUME NEW ps \in State
  PROVE  DescribedSql(ps) \in Option(Sqls)
  BY FieldsTyped DEF DescribedSql, Option, PendingDescribe, PendingSimple

\* The empty plan state of a new session is well typed.
LEMMA DefaultTyped == Default \in State
  BY DEF Default, State, Option

\* invalidate_if_stale keeps the plan state well typed.
LEMMA InvalidateIfStaleTyped ==
  ASSUME NEW ps \in State, NEW current \in Nat
  PROVE  InvalidateIfStale(ps, current) \in State
  BY DEF State, InvalidateIfStale, Option

\* clear_active keeps the plan state well typed.
LEMMA ClearActiveTyped ==
  ASSUME NEW ps \in State
  PROVE  ClearActive(ps) \in State
  BY DEF State, ClearActive, Option

\* begin_simple_query keeps the plan state well typed.
LEMMA BeginSimpleQueryTyped ==
  ASSUME NEW ps \in State, NEW sql \in Option(Sqls)
  PROVE  BeginSimpleQuery(ps, sql) \in State
  <1> DEFINE s0 == ClearActive(ps)
             slot == [kind |-> "simple", sql |-> sql,
                      epoch |-> ps.sync_epoch, order |-> ps.next_result_order]
  <1>a. slot \in PendingSimple
    BY FieldsTyped DEF PendingSimple
  <1>b. s0 \in State
    BY ClearActiveTyped
  <1> HIDE DEF s0, slot
  <1> DEFINE s1 == [s0 EXCEPT !.next_result_order = @ + 1]
  <1>1. s0.next_result_order + 1 \in Nat
    BY <1>b, FieldsTyped
  <1>2. s1 \in State
    BY <1>b, <1>1, UpdateTyped
  <1> HIDE DEF s1
  <1> DEFINE s2 == [s1 EXCEPT !.pending_descriptions = Append(@, slot)]
  <1>3. Append(s1.pending_descriptions, slot) \in Seq(PendingDescribe \cup PendingSimple)
    BY <1>2, <1>a, FieldsTyped
  <1>4. s2 \in State
    BY <1>2, <1>3, UpdateTyped
  <1> HIDE DEF s2
  <1> QED
    BY <1>4 DEF BeginSimpleQuery, s1, s2, s0, slot

\* parse keeps the plan state well typed.
LEMMA ParseStatementTyped ==
  ASSUME NEW ps \in State, NEW name \in Statements, NEW sql \in Sqls
  PROVE  ParseStatement(ps, name, sql) \in State
  <1> DEFINE slot == [name |-> name, epoch |-> ps.sync_epoch]
             stale == IF ps.statement_sql[name] = sql THEN {} ELSE BoundTo(ps, name)
  <1>a. slot \in PendingParse
    BY FieldsTyped DEF PendingParse
  <1> HIDE DEF slot, stale
  <1> DEFINE s1 == [ps EXCEPT !.statement_plans[name] = 
                        IF ps.statement_sql[name] = sql THEN @ ELSE None]
  <1>1. s1 \in State
    BY FieldsTyped, UpdateTyped DEF Option
  <1> HIDE DEF s1
  <1> DEFINE s2 == [s1 EXCEPT !.portal_plans = 
                        [p \in Portals |-> IF p \in stale THEN None ELSE @[p]]]
  <1>2. s2 \in State
    BY <1>1, FieldsTyped, UpdateTyped DEF Option
  <1> HIDE DEF s2
  <1> DEFINE s3 == [s2 EXCEPT !.portal_formats = 
                        [p \in Portals |-> IF p \in stale THEN None ELSE @[p]]]
  <1>3. s3 \in State
    BY <1>2, FieldsTyped, UpdateTyped DEF Option
  <1> HIDE DEF s3
  <1> DEFINE s4 == [s3 EXCEPT !.portal_bind_generations = 
                        [p \in Portals |-> IF p \in stale THEN 0 ELSE @[p]]]
  <1>4. s4 \in State
    BY <1>3, FieldsTyped, UpdateTyped
  <1> HIDE DEF s4
  <1> DEFINE s5 == [s4 EXCEPT !.statement_sql[name] = sql]
  <1>5. s5 \in State
    BY <1>4, FieldsTyped, UpdateTyped DEF Option
  <1> HIDE DEF s5
  <1> DEFINE s6 == [s5 EXCEPT !.pending_parses = Append(@, slot)]
  <1>6. Append(s5.pending_parses, slot) \in Seq(PendingParse)
    BY <1>5, <1>a, FieldsTyped
  <1>7. s6 \in State
    BY <1>5, <1>6, UpdateTyped
  <1> HIDE DEF s6
  <1> QED
    BY <1>7 DEF ParseStatement, s1, s2, s3, s4, s5, s6, slot, stale

\* A plan only reaches Executes of the binding it is for.
LEMMA InstallPortalPlansTyped ==
  ASSUME NEW ps \in State, NEW portals \in SUBSET Portals, NEW planOf,
         \A p \in portals : planOf[p] \in Plan
  PROVE  InstallPortalPlans(ps, portals, planOf) \in State
  <1> DEFINE Filled(e) ==
                IF /\ e.name \in portals
                   /\ e.bind_generation = ps.portal_bind_generations[e.name]
                   /\ e.plan = None
                THEN [e EXCEPT !.plan = planOf[e.name]]
                ELSE e
             queue == [i \in DOMAIN ps.pending_executes |-> Filled(ps.pending_executes[i])]
             map == [p \in Portals |-> IF p \in portals THEN planOf[p] ELSE ps.portal_plans[p]]
  <1>1. \A e \in PendingExecute : Filled(e) \in PendingExecute
    BY DEF PendingExecute, Option
  <1>2. queue \in Seq(PendingExecute)
    <2> HIDE DEF Filled
    <2>1. Len(ps.pending_executes) \in Nat
            /\ DOMAIN ps.pending_executes = 1 .. Len(ps.pending_executes)
            /\ \A i \in DOMAIN ps.pending_executes : ps.pending_executes[i] \in PendingExecute
      BY FieldsTyped
    <2>2. queue \in [1 .. Len(ps.pending_executes) -> PendingExecute]
      BY <1>1, <2>1
    <2> QED
      BY <2>1, <2>2
  <1>3. map \in [Portals -> Option(Plan)]
    BY FieldsTyped DEF Option
  <1> HIDE DEF queue, map
  <1> DEFINE s1 == [ps EXCEPT !.pending_executes = queue]
             s2 == [s1 EXCEPT !.portal_plans = map]
  <1>4. s1 \in State
    BY <1>2, UpdateTyped
  <1>5. s1.portal_plans = ps.portal_plans
    BY DEF State
  <1> HIDE DEF s1
  <1>6. s2 \in State
    BY <1>3, <1>4, UpdateTyped
  <1> QED
    BY <1>5, <1>6 DEF InstallPortalPlans, s1, s2, queue, map

\* bind keeps the plan state well typed.
LEMMA BindTyped ==
  ASSUME NEW ps \in State, NEW portal \in Portals, NEW statement \in Statements,
         NEW formats \in Formats
  PROVE  Bind(ps, portal, statement, formats) \in State
  <1> DEFINE slot == [name |-> portal, epoch |-> ps.sync_epoch]
             fresh == BumpedGeneration(ps, portal)
             s1 == [ps EXCEPT !.portal_statement[portal] = statement]
             s2 == [s1 EXCEPT !.pending_binds = Append(@, slot)]
             s3 == [s2 EXCEPT !.portal_formats[portal] = formats]
             s4 == [s3 EXCEPT !.portal_bind_generations[portal] = fresh]
             plan == ps.statement_plans[statement]
  <1>1. slot \in PendingBind /\ formats \in Option(Formats)
    BY FieldsTyped DEF PendingBind, Option
  <1>2. fresh \in Nat
    BY FieldsTyped, BumpIsFresh
  <1>3. plan \in Option(Plan)
    BY FieldsTyped
  <1> HIDE DEF slot, fresh, plan
  <1>4. s1 \in State
    BY FieldsTyped, UpdateTyped DEF Option
  <1> HIDE DEF s1
  <1>5. Append(s1.pending_binds, slot) \in Seq(PendingBind)
    BY <1>1, <1>4, FieldsTyped
  <1>6. s2 \in State
    BY <1>4, <1>5, UpdateTyped
  <1> HIDE DEF s2
  <1>7. s3 \in State
    BY <1>1, <1>6, FieldsTyped, UpdateTyped
  <1> HIDE DEF s3
  <1>8. s4 \in State
    BY <1>2, <1>7, FieldsTyped, UpdateTyped
  <1> HIDE DEF s4
  <1>9. CASE plan = None
    <2>1. [s4 EXCEPT !.portal_plans[portal] = None] \in State
      BY <1>8, FieldsTyped, UpdateTyped DEF Option
    <2> QED
      BY <1>9, <2>1 DEF Bind, s1, s2, s3, s4, slot, fresh, plan
  <1>10. CASE plan # None
    <2>1. Stamp(plan, formats) \in Plan
      BY <1>1, <1>3, <1>10, StampTyped DEF Option
    <2>2. InstallPortalPlans(s4, {portal}, [p \in {portal} |-> Stamp(plan, formats)]) \in State
      BY <1>8, <2>1, InstallPortalPlansTyped
    <2> QED
      BY <1>10, <2>2 DEF Bind, s1, s2, s3, s4, slot, fresh, plan
  <1> QED
    BY <1>9, <1>10

\* describe keeps the plan state well typed.
LEMMA DescribeTyped ==
  ASSUME NEW ps \in State, NEW target \in Target
  PROVE  Describe(ps, target) \in State
  <1> DEFINE sql == IF target.kind = "statement"
                    THEN ps.statement_sql[target.name]
                    ELSE SqlForPortal(ps, target.name)
             slot == [kind |-> "describe", target |-> target,
                      sql |-> sql, epoch |-> ps.sync_epoch]
  <1>a. sql \in Option(Sqls)
    BY FieldsTyped, SqlForPortalTyped DEF Target
  <1> HIDE DEF sql
  <1>b. slot \in PendingDescribe
    BY <1>a, FieldsTyped DEF PendingDescribe
  <1> HIDE DEF sql, slot
  <1> DEFINE s1 == [ps EXCEPT !.pending_descriptions = Append(@, slot)]
  <1>1. Append(ps.pending_descriptions, slot) \in Seq(PendingDescribe \cup PendingSimple)
    BY <1>b, FieldsTyped
  <1>2. s1 \in State
    BY <1>1, UpdateTyped
  <1> HIDE DEF s1
  <1> QED
    BY <1>2 DEF Describe, s1, sql, slot

\* queue_execute keeps the plan state well typed.
LEMMA QueueExecuteTyped ==
  ASSUME NEW ps \in State, NEW portal \in Portals
  PROVE  QueueExecute(ps, portal) \in State
  <1> DEFINE slot == [name |-> portal, epoch |-> ps.sync_epoch,
                      order |-> ps.next_result_order, plan |-> ps.portal_plans[portal],
                      bind_generation |-> ps.portal_bind_generations[portal]]
  <1>a. slot \in PendingExecute
    BY FieldsTyped DEF PendingExecute
  <1> HIDE DEF slot
  <1> DEFINE s1 == [ps EXCEPT !.next_result_order = @ + 1]
  <1>1. ps.next_result_order + 1 \in Nat
    BY FieldsTyped
  <1>2. s1 \in State
    BY <1>1, UpdateTyped
  <1> HIDE DEF s1
  <1> DEFINE s2 == [s1 EXCEPT !.pending_executes = Append(@, slot)]
  <1>3. Append(s1.pending_executes, slot) \in Seq(PendingExecute)
    BY <1>2, <1>a, FieldsTyped
  <1>4. s2 \in State
    BY <1>2, <1>3, UpdateTyped
  <1> HIDE DEF s2
  <1> QED
    BY <1>4 DEF QueueExecute, s1, s2, slot

\* The state Execute starts from, whichever way it goes on.
Activated(ps, portal) ==
    [ps EXCEPT !.active_plan = ps.portal_plans[portal], !.active_epoch = ps.sync_epoch,
               !.active_portal = portal, !.suspended = FALSE]

\* Arming the plan of an Execute that names its owner keeps the types.
LEMMA ActivatedTyped ==
  ASSUME NEW ps \in State, NEW portal \in Portals
  PROVE  Activated(ps, portal) \in State
  <1> DEFINE s1 == [ps EXCEPT !.active_plan = ps.portal_plans[portal]]
             s2 == [s1 EXCEPT !.active_epoch = ps.sync_epoch]
             s3 == [s2 EXCEPT !.active_portal = portal]
             s4 == [s3 EXCEPT !.suspended = FALSE]
  <1>1. s1 \in State
    BY FieldsTyped, UpdateTyped
  <1> HIDE DEF s1
  <1>2. s2 \in State
    BY <1>1, FieldsTyped, UpdateTyped DEF Option
  <1> HIDE DEF s2
  <1>3. s3 \in State
    BY <1>2, UpdateTyped DEF Option
  <1> HIDE DEF s3
  <1>4. s4 \in State
    BY <1>3, UpdateTyped
  <1> QED
    BY <1>4 DEF Activated, s1, s2, s3, s4

\* execute keeps the plan state well typed.
LEMMA ExecuteTyped ==
  ASSUME NEW ps \in State, NEW portal \in Portals
  PROVE  Execute(ps, portal) \in State
  <1> DEFINE active == Activated(ps, portal)
             popped == [active EXCEPT !.pending_executes = PopFront(@)]
             resumed == [active EXCEPT !.pending_executes[1].epoch = ps.sync_epoch]
  <1>1. active \in State
    BY ActivatedTyped
  <1>2. active.pending_executes = ps.pending_executes
    BY DEF Activated, State
  <1> HIDE DEF active
  <1>3. popped \in State
    BY <1>1, FieldsTyped, UpdateTyped, PopFrontTyped
  <1> HIDE DEF popped
  <1>4. QueueExecute(active, portal) \in State /\ QueueExecute(popped, portal) \in State
    BY <1>1, <1>3, QueueExecuteTyped
  <1>5. IsResume(ps, portal) => resumed \in State
    <2> SUFFICES ASSUME ps.pending_executes # << >> PROVE resumed \in State
      BY DEF IsResume
    <2> DEFINE queue == active.pending_executes
               head == [queue[1] EXCEPT !.epoch = ps.sync_epoch]
    <2>1. queue \in Seq(PendingExecute) /\ queue # << >>
      BY <1>1, <1>2, FieldsTyped
    <2>2. queue[1] \in PendingExecute
      BY <2>1
    <2>3. head \in PendingExecute
      BY <2>2, FieldsTyped DEF PendingExecute
    <2> HIDE DEF head
    <2>4. [queue EXCEPT ![1] = head] \in Seq(PendingExecute)
      BY <2>1, <2>3
    <2>5. resumed = [active EXCEPT !.pending_executes = [queue EXCEPT ![1] = head]]
      BY DEF head
    <2> QED
      BY <1>1, <2>4, <2>5, UpdateTyped
  <1> QED
    BY <1>1, <1>4, <1>5 DEF Execute, Activated, active, popped, resumed

\* close keeps the plan state well typed.
LEMMA CloseTyped ==
  ASSUME NEW ps \in State, NEW target \in Target
  PROVE  Close(ps, target) \in State
  <1> DEFINE closed == IF target.kind = "portal" THEN {target.name} ELSE BoundTo(ps, target.name)
             Without(map) == [p \in Portals |-> IF p \in closed THEN None ELSE map[p]]
             Forget(map) == [s \in Statements |->
                 IF target.kind = "statement" /\ s = target.name THEN None ELSE map[s]]
  <1> HIDE DEF closed, Without, Forget
  <1> DEFINE s1 == [ps EXCEPT !.statement_sql = Forget(@)]
  <1>1. s1 \in State
    BY FieldsTyped, UpdateTyped DEF Forget, Option
  <1> HIDE DEF s1
  <1> DEFINE s2 == [s1 EXCEPT !.statement_plans = Forget(@)]
  <1>2. s2 \in State
    BY <1>1, FieldsTyped, UpdateTyped DEF Forget, Option
  <1> HIDE DEF s2
  <1> DEFINE s3 == [s2 EXCEPT !.portal_statement = Without(@)]
  <1>3. s3 \in State
    BY <1>2, FieldsTyped, UpdateTyped DEF Without, Option
  <1> HIDE DEF s3
  <1> DEFINE s4 == [s3 EXCEPT !.portal_plans = Without(@)]
  <1>4. s4 \in State
    BY <1>3, FieldsTyped, UpdateTyped DEF Without, Option
  <1> HIDE DEF s4
  <1> DEFINE s5 == [s4 EXCEPT !.portal_formats = Without(@)]
  <1>5. s5 \in State
    BY <1>4, FieldsTyped, UpdateTyped DEF Without, Option
  <1> HIDE DEF s5
  <1> QED
    BY <1>5 DEF Close, s1, s2, s3, s4, s5, closed, Without, Forget

\* sync keeps the plan state well typed.
LEMMA SyncTyped ==
  ASSUME NEW ps \in State
  PROVE  Sync(ps) \in State
  <1> DEFINE s1 == [ps EXCEPT !.sync_epoch = @ + 1]
  <1>1. ps.sync_epoch + 1 \in Nat
    BY FieldsTyped
  <1>2. s1 \in State
    BY <1>1, UpdateTyped
  <1> HIDE DEF s1
  <1> QED
    BY <1>2 DEF Sync, s1

\* finish_parse keeps the plan state well typed.
LEMMA FinishParseTyped ==
  ASSUME NEW ps \in State
  PROVE  FinishParse(ps) \in State
  <1> DEFINE s1 == [ps EXCEPT !.pending_parses = PopFront(@)]
  <1>1. PopFront(ps.pending_parses) \in Seq(PendingParse)
    BY PopFrontTyped, FieldsTyped
  <1>2. s1 \in State
    BY <1>1, UpdateTyped
  <1> HIDE DEF s1
  <1> QED
    BY <1>2 DEF FinishParse, s1

\* discard_description keeps the plan state well typed.
LEMMA DiscardDescriptionTyped ==
  ASSUME NEW ps \in State
  PROVE  DiscardDescription(ps) \in State
  <1> DEFINE s1 == [ps EXCEPT !.pending_descriptions = PopFront(@)]
  <1>1. PopFront(ps.pending_descriptions) \in Seq(PendingDescribe \cup PendingSimple)
    BY PopFrontTyped, FieldsTyped
  <1>2. s1 \in State
    BY <1>1, UpdateTyped
  <1> HIDE DEF s1
  <1> QED
    BY <1>2 DEF DiscardDescription, s1

\* finish_bind keeps the plan state well typed.
LEMMA FinishBindTyped ==
  ASSUME NEW ps \in State
  PROVE  FinishBind(ps) \in State
  <1> SUFFICES ASSUME ps.pending_binds # << >> PROVE FinishBind(ps) \in State
    BY DEF FinishBind
  <1> DEFINE portal == Head(ps.pending_binds).name
             statement == ps.portal_statement[portal]
             described == IF statement = None THEN None ELSE ps.statement_plans[statement]
             plan == IF ps.portal_plans[portal] # None
                     THEN ps.portal_plans[portal]
                     ELSE IF described = None
                     THEN None
                     ELSE Stamp(described, ps.portal_formats[portal])
             popped == [ps EXCEPT !.pending_binds = Tail(@)]
             installed == InstallPortalPlans(popped, {portal}, [p \in {portal} |-> plan])
             active == IF ps.active_portal = portal THEN plan ELSE installed.active_plan
  <1>1. portal \in Portals
    <2>1. Head(ps.pending_binds) \in PendingBind
      BY FieldsTyped
    <2> QED
      BY <2>1 DEF PendingBind
  <1> HIDE DEF portal
  <1>2. described \in Option(Plan)
    BY <1>1, FieldsTyped DEF Option
  <1> HIDE DEF described
  <1>3. plan \in Option(Plan)
    BY <1>1, <1>2, FieldsTyped, StampTyped DEF Option
  <1> HIDE DEF plan
  <1>4. Tail(ps.pending_binds) \in Seq(PendingBind)
    BY FieldsTyped
  <1>5. popped \in State
    BY <1>4, UpdateTyped
  <1> HIDE DEF popped
  <1>6. CASE plan = None
    BY <1>5, <1>6 DEF FinishBind, portal, described, plan, popped
  <1>7. CASE plan # None
    <2>1. installed \in State
      BY <1>1, <1>3, <1>5, <1>7, InstallPortalPlansTyped DEF Option
    <2> HIDE DEF installed
    <2>2. active \in Option(Plan)
      BY <1>3, <2>1, FieldsTyped
    <2> HIDE DEF active
    <2>3. [installed EXCEPT !.active_plan = active] \in State
      BY <2>1, <2>2, UpdateTyped
    <2> QED
      BY <1>7, <2>3 DEF FinishBind, portal, described, plan, popped, installed, active
  <1> QED
    BY <1>6, <1>7

\* suspend_result keeps the plan state well typed.
LEMMA SuspendResultTyped ==
  ASSUME NEW ps \in State
  PROVE  SuspendResult(ps) \in State
  <1> DEFINE s1 == [ps EXCEPT !.pending_executes = Tail(@)]
  <1>1. [ps EXCEPT !.suspended = TRUE] \in State
    BY UpdateTyped
  <1>2. ASSUME Len(ps.pending_executes) > 1 PROVE [s1 EXCEPT !.suspended = FALSE] \in State
    <2>1. Tail(ps.pending_executes) \in Seq(PendingExecute)
      BY <1>2, FieldsTyped
    <2>2. s1 \in State
      BY <2>1, UpdateTyped
    <2> HIDE DEF s1
    <2> QED
      BY <2>2, UpdateTyped
  <1> QED
    BY <1>1, <1>2 DEF SuspendResult

\* ready_for_query keeps the plan state well typed.
LEMMA ReadyForQueryTyped ==
  ASSUME NEW ps \in State, NEW status
  PROVE  ReadyForQuery(ps, status) \in State
  <1> DEFINE s1 == [ps EXCEPT !.pending_executes = << >>]
  <1>1. << >> \in Seq(PendingExecute)
    BY FieldsTyped
  <1>2. s1 \in State
    BY <1>1, UpdateTyped
  <1> HIDE DEF s1
  <1> DEFINE s2 == [s1 EXCEPT !.suspended = FALSE]
  <1>3. s2 \in State
    BY <1>2, FieldsTyped, UpdateTyped
  <1> HIDE DEF s2
  <1> DEFINE s3 == [s2 EXCEPT !.active_plan = None]
  <1>4. s3 \in State
    BY <1>3, FieldsTyped, UpdateTyped DEF Option
  <1> HIDE DEF s3
  <1> DEFINE s4 == [s3 EXCEPT !.active_portal = None]
  <1>5. s4 \in State
    BY <1>4, FieldsTyped, UpdateTyped DEF Option
  <1> HIDE DEF s4
  <1> DEFINE s5 == [s4 EXCEPT !.active_epoch = None]
  <1>6. s5 \in State
    BY <1>5, FieldsTyped, UpdateTyped DEF Option
  <1> HIDE DEF s5
  <1> QED
    BY <1>6 DEF ReadyForQuery, s1, s2, s3, s4, s5

\* finish_result_set keeps the plan state well typed.
LEMMA FinishResultSetTyped ==
  ASSUME NEW ps \in State
  PROVE  FinishResultSet(ps) \in State
  <1> DEFINE s1 == [ps EXCEPT !.suspended = FALSE]
             s2 == [s1 EXCEPT !.pending_executes = PopFront(@)]
             s3 == [s1 EXCEPT !.pending_descriptions = Tail(@)]
  <1>1. [ps EXCEPT !.streaming_simple_result = FALSE] \in State
    BY UpdateTyped
  <1>2. s1 \in State
    BY UpdateTyped
  <1>3. s1.pending_descriptions = ps.pending_descriptions
    BY DEF State
  <1> HIDE DEF s1
  <1>4. PopFront(s1.pending_executes) \in Seq(PendingExecute)
    BY <1>2, FieldsTyped, PopFrontTyped
  <1>5. s2 \in State
    BY <1>2, <1>4, UpdateTyped
  <1>6. SimpleIsNext(ps) => s3 \in State
    <2>1. SimpleIsNext(ps) => Tail(s1.pending_descriptions) \in Seq(PendingDescribe \cup PendingSimple)
      BY <1>2, <1>3, FieldsTyped DEF SimpleIsNext
    <2> QED
      BY <1>2, <2>1, UpdateTyped
  <1> QED
    BY <1>1, <1>5, <1>6 DEF FinishResultSet, s1, s2, s3

\* finish_suppressed_epoch keeps the plan state well typed.
LEMMA FinishSuppressedEpochTyped ==
  ASSUME NEW ps \in State, NEW epoch
  PROVE  FinishSuppressedEpoch(ps, epoch) \in State
  <1> DEFINE s1 == [ps EXCEPT !.pending_descriptions = OtherEpochs(@, epoch)]
  <1>1. OtherEpochs(ps.pending_descriptions, epoch) \in Seq(PendingDescribe \cup PendingSimple)
    BY OtherEpochsTyped, FieldsTyped
  <1>2. s1 \in State
    BY <1>1, UpdateTyped
  <1> HIDE DEF s1
  <1> DEFINE s2 == [s1 EXCEPT !.pending_parses = OtherEpochs(@, epoch)]
  <1>3. OtherEpochs(s1.pending_parses, epoch) \in Seq(PendingParse)
    BY <1>2, OtherEpochsTyped, FieldsTyped
  <1>4. s2 \in State
    BY <1>2, <1>3, UpdateTyped
  <1> HIDE DEF s2
  <1> DEFINE s3 == [s2 EXCEPT !.pending_binds = OtherEpochs(@, epoch)]
  <1>5. OtherEpochs(s2.pending_binds, epoch) \in Seq(PendingBind)
    BY <1>4, OtherEpochsTyped, FieldsTyped
  <1>6. s3 \in State
    BY <1>4, <1>5, UpdateTyped
  <1> HIDE DEF s3
  <1> DEFINE s4 == [s3 EXCEPT !.pending_executes = OtherEpochs(@, epoch)]
  <1>7. OtherEpochs(s3.pending_executes, epoch) \in Seq(PendingExecute)
    BY <1>6, OtherEpochsTyped, FieldsTyped
  <1>8. s4 \in State
    BY <1>6, <1>7, UpdateTyped
  <1> HIDE DEF s4
  <1> DEFINE s5 == [s4 EXCEPT !.streaming_simple_result = FALSE]
  <1>9. s5 \in State
    BY <1>8, FieldsTyped, UpdateTyped
  <1> HIDE DEF s5
  <1> DEFINE s6 == [s5 EXCEPT !.suspended = FALSE]
  <1>10. s6 \in State
    BY <1>9, FieldsTyped, UpdateTyped
  <1> HIDE DEF s6
  <1> QED
    BY <1>10 DEF FinishSuppressedEpoch, s1, s2, s3, s4, s5, s6

\* rejection_epoch names an epoch.
LEMMA RejectionEpochTyped ==
  ASSUME NEW ps \in State
  PROVE  RejectionEpoch(ps) \in Nat
  BY FieldsTyped DEF RejectionEpoch, Option, PendingDescribe, PendingSimple

\* streaming_plan gives a plan or nothing.
LEMMA StreamingPlanTyped ==
  ASSUME NEW ps \in State
  PROVE  StreamingPlan(ps) \in Option(Plan)
  <1>1. ps.pending_executes # << >> => Head(ps.pending_executes) \in PendingExecute
    BY FieldsTyped
  <1>2. ps.pending_executes # << >> =>
           /\ Head(ps.pending_executes).plan \in Option(Plan)
           /\ ps.portal_plans[Head(ps.pending_executes).name] \in Option(Plan)
    BY <1>1, FieldsTyped DEF PendingExecute
  <1> QED
    BY <1>2, FieldsTyped DEF StreamingPlan, Option

\* What an ErrorResponse clears whatever exchange it ends.
Cleared(ps) ==
    [ps EXCEPT !.streaming_simple_result = FALSE, !.suspended = FALSE, !.active_plan = None,
               !.active_portal = None, !.active_epoch = None]

\* The first half of discard_failed_epoch, which forgets the dead names,
\* keeps the types.
LEMMA ClearedTyped ==
  ASSUME NEW ps \in State
  PROVE  Cleared(ps) \in State
  <1> DEFINE s1 == [ps EXCEPT !.streaming_simple_result = FALSE]
  <1>1. s1 \in State
    BY FieldsTyped, UpdateTyped
  <1> HIDE DEF s1
  <1> DEFINE s2 == [s1 EXCEPT !.suspended = FALSE]
  <1>2. s2 \in State
    BY <1>1, FieldsTyped, UpdateTyped
  <1> HIDE DEF s2
  <1> DEFINE s3 == [s2 EXCEPT !.active_plan = None]
  <1>3. s3 \in State
    BY <1>2, FieldsTyped, UpdateTyped DEF Option
  <1> HIDE DEF s3
  <1> DEFINE s4 == [s3 EXCEPT !.active_portal = None]
  <1>4. s4 \in State
    BY <1>3, FieldsTyped, UpdateTyped DEF Option
  <1> HIDE DEF s4
  <1> DEFINE s5 == [s4 EXCEPT !.active_epoch = None]
  <1>5. s5 \in State
    BY <1>4, FieldsTyped, UpdateTyped DEF Option
  <1> HIDE DEF s5
  <1> QED
    BY <1>5 DEF Cleared, s1, s2, s3, s4, s5

\* What it discards of the failed exchange.
Discarded(ps, failed, statements, portals, outliving) ==
    [Cleared(ps) EXCEPT
        !.statement_sql = [s \in Statements |-> IF s \in statements THEN None ELSE @[s]],
        !.statement_plans = [s \in Statements |-> IF s \in statements THEN None ELSE @[s]],
        !.portal_statement = [p \in Portals |-> IF p \in portals THEN None ELSE @[p]],
        !.portal_plans = [p \in Portals |-> IF p \in portals THEN None ELSE @[p]],
        !.pending_descriptions = OtherEpochs(@, failed),
        !.pending_parses = OtherEpochs(@, failed),
        !.pending_binds = OtherEpochs(@, failed),
        !.pending_executes = Retain(@, outliving)]

\* The second half of discard_failed_epoch, which drops the dead slots, keeps
\* the types.
LEMMA DiscardedTyped ==
  ASSUME NEW ps \in State, NEW failed, NEW statements, NEW portals, 
         NEW outliving \in SUBSET DOMAIN ps.pending_executes
  PROVE  Discarded(ps, failed, statements, portals, outliving) \in State
  <1> DEFINE s0 == Cleared(ps)
  <1>a. s0 \in State
    BY ClearedTyped
  <1>a0. s0.pending_executes = ps.pending_executes
    BY DEF Cleared, State
  <1> HIDE DEF s0
  <1> DEFINE s1 == [s0 EXCEPT !.statement_sql = [s \in Statements |-> IF s \in statements THEN None ELSE @[s]]]
  <1>1. s1 \in State
    BY <1>a, FieldsTyped, UpdateTyped DEF Option
  <1>e1. s1.pending_executes = ps.pending_executes
    BY <1>a, <1>a0 DEF State
  <1> HIDE DEF s1
  <1> DEFINE s2 == [s1 EXCEPT !.statement_plans = [s \in Statements |-> IF s \in statements THEN None ELSE @[s]]]
  <1>2. s2 \in State
    BY <1>1, FieldsTyped, UpdateTyped DEF Option
  <1>e2. s2.pending_executes = ps.pending_executes
    BY <1>1, <1>e1 DEF State
  <1> HIDE DEF s2
  <1> DEFINE s3 == [s2 EXCEPT !.portal_statement = [p \in Portals |-> IF p \in portals THEN None ELSE @[p]]]
  <1>3. s3 \in State
    BY <1>2, FieldsTyped, UpdateTyped DEF Option
  <1>e3. s3.pending_executes = ps.pending_executes
    BY <1>2, <1>e2 DEF State
  <1> HIDE DEF s3
  <1> DEFINE s4 == [s3 EXCEPT !.portal_plans = [p \in Portals |-> IF p \in portals THEN None ELSE @[p]]]
  <1>4. s4 \in State
    BY <1>3, FieldsTyped, UpdateTyped DEF Option
  <1>e4. s4.pending_executes = ps.pending_executes
    BY <1>3, <1>e3 DEF State
  <1> HIDE DEF s4
  <1> DEFINE s5 == [s4 EXCEPT !.pending_descriptions = OtherEpochs(@, failed)]
  <1>5. OtherEpochs(s4.pending_descriptions, failed) \in Seq(PendingDescribe \cup PendingSimple)
    BY <1>4, OtherEpochsTyped, FieldsTyped
  <1>6. s5 \in State
    BY <1>4, <1>5, UpdateTyped
  <1>e5. s5.pending_executes = ps.pending_executes
    BY <1>4, <1>e4 DEF State
  <1> HIDE DEF s5
  <1> DEFINE s6 == [s5 EXCEPT !.pending_parses = OtherEpochs(@, failed)]
  <1>7. OtherEpochs(s5.pending_parses, failed) \in Seq(PendingParse)
    BY <1>6, OtherEpochsTyped, FieldsTyped
  <1>8. s6 \in State
    BY <1>6, <1>7, UpdateTyped
  <1>e6. s6.pending_executes = ps.pending_executes
    BY <1>6, <1>e5 DEF State
  <1> HIDE DEF s6
  <1> DEFINE s7 == [s6 EXCEPT !.pending_binds = OtherEpochs(@, failed)]
  <1>9. OtherEpochs(s6.pending_binds, failed) \in Seq(PendingBind)
    BY <1>8, OtherEpochsTyped, FieldsTyped
  <1>10. s7 \in State
    BY <1>8, <1>9, UpdateTyped
  <1>e7. s7.pending_executes = ps.pending_executes
    BY <1>8, <1>e6 DEF State
  <1> HIDE DEF s7
  <1> DEFINE s8 == [s7 EXCEPT !.pending_executes = Retain(@, outliving)]
  <1>11. Retain(s7.pending_executes, outliving) \in Seq(PendingExecute)
    BY <1>10, <1>e7, RetainFacts, FieldsTyped
  <1>12. s8 \in State
    BY <1>10, <1>11, UpdateTyped
  <1> HIDE DEF s8
  <1> QED
    BY <1>12 DEF Discarded, s1, s2, s3, s4, s5, s6, s7, s8, s0

\* discard_failed_epoch keeps the plan state well typed.
LEMMA DiscardFailedEpochTyped ==
  ASSUME NEW ps \in State
  PROVE  DiscardFailedEpoch(ps) \in State
  <1> DEFINE failed == CHOOSE e \in FailedEpochs(ps) : \A f \in FailedEpochs(ps) : e <= f
             statements == DiedWith(ps.pending_parses, failed)
             portals == DiedWith(ps.pending_binds, failed)
             outliving == {i \in DOMAIN ps.pending_executes :
                             /\ ps.pending_executes[i].epoch # failed
                             /\ ~(ps.suspended /\ ps.pending_executes[i].epoch < failed)}
  <1>1. Cleared(ps) \in State
    BY ClearedTyped
  <1>2. outliving \in SUBSET DOMAIN ps.pending_executes
    OBVIOUS
  <1>3. Discarded(ps, failed, statements, portals, outliving) \in State
    <2> HIDE DEF failed, statements, portals, outliving
    <2> QED
      BY <1>2, DiscardedTyped
  <1> QED
    BY <1>1, <1>3 DEF DiscardFailedEpoch, Discarded, Cleared

\* finish_no_data keeps the plan state well typed.
LEMMA FinishNoDataTyped ==
  ASSUME NEW ps \in State, HeadIs(ps, "describe")
  PROVE  FinishNoData(ps) \in State
  <1>1. Tail(ps.pending_descriptions) \in Seq(PendingDescribe \cup PendingSimple)
    BY FieldsTyped DEF HeadIs
  <1> QED
    BY <1>1, UpdateTyped DEF FinishNoData

\* finish_empty_query keeps the plan state well typed.
LEMMA FinishEmptyQueryTyped ==
  ASSUME NEW ps \in State, HeadIs(ps, "simple")
  PROVE  FinishEmptyQuery(ps) \in State
  <1> DEFINE s1 == [ps EXCEPT !.pending_descriptions = Tail(@)]
  <1>1. Tail(ps.pending_descriptions) \in Seq(PendingDescribe \cup PendingSimple)
    BY FieldsTyped DEF HeadIs
  <1>2. s1 \in State
    BY <1>1, UpdateTyped
  <1> HIDE DEF s1
  <1>3. [s1 EXCEPT !.streaming_simple_result = FALSE] \in State
    BY <1>2, UpdateTyped
  <1> QED
    BY <1>3 DEF FinishEmptyQuery, s1

\* finish_description keeps the plan state well typed.
LEMMA FinishDescriptionTyped ==
  ASSUME NEW ps \in State, ps.pending_descriptions # << >>, NEW plan \in Plan
  PROVE  FinishDescription(ps, plan) \in State
  <1> DEFINE pending == Head(ps.pending_descriptions)
             s1 == [ps EXCEPT !.pending_descriptions = Tail(@)]
             s2 == [s1 EXCEPT !.streaming_simple_result = (pending.kind = "simple")]
             s3 == [s2 EXCEPT !.active_plan = plan]
             popped == [s3 EXCEPT !.active_epoch = pending.epoch]
             name == pending.target.name
             waiting == BoundTo(ps, name)
             s5 == [popped EXCEPT !.statement_plans[name] = plan]
  <1>1. pending \in PendingDescribe \cup PendingSimple
    BY FieldsTyped
  <1>2. Tail(ps.pending_descriptions) \in Seq(PendingDescribe \cup PendingSimple)
    BY FieldsTyped
  <1>3. pending.epoch \in Option(Nat)
    BY <1>1 DEF PendingDescribe, PendingSimple, Option
  <1> HIDE DEF pending
  <1>4. s1 \in State
    BY <1>2, UpdateTyped
  <1> HIDE DEF s1
  <1>5. s2 \in State
    BY <1>4, UpdateTyped
  <1> HIDE DEF s2
  <1>6. s3 \in State
    BY <1>5, UpdateTyped DEF Option
  <1> HIDE DEF s3
  <1>7. popped \in State
    BY <1>3, <1>6, UpdateTyped
  <1> HIDE DEF popped
  <1>8. CASE pending.kind = "simple"
    BY <1>7, <1>8 DEF FinishDescription, pending, s1, s2, s3, popped
  <1>9. CASE pending.kind # "simple" /\ pending.target.kind = "portal"
    <2>1. name \in Portals
      BY <1>1, <1>9 DEF PendingDescribe, PendingSimple, Target
    <2>2. InstallPortalPlans(popped, {name}, [p \in {name} |-> plan]) \in State
      BY <1>7, <2>1, InstallPortalPlansTyped
    <2> QED
      BY <1>9, <2>2 DEF FinishDescription, pending, s1, s2, s3, popped
  <1>10. CASE pending.kind # "simple" /\ pending.target.kind # "portal"
    <2>1. name \in Statements
      BY <1>1, <1>10 DEF PendingDescribe, PendingSimple, Target
    <2> HIDE DEF name
    <2>2. s5 \in State
      BY <1>7, <2>1, FieldsTyped, UpdateTyped DEF Option
    <2> HIDE DEF s5
    <2>3. waiting \subseteq Portals /\ \A p \in waiting : Stamp(plan, ps.portal_formats[p]) \in Plan
      BY FieldsTyped, StampTyped DEF BoundTo
    <2> HIDE DEF waiting
    <2>4. InstallPortalPlans(s5, waiting, [p \in waiting |-> Stamp(plan, ps.portal_formats[p])])
            \in State
      BY <2>2, <2>3, InstallPortalPlansTyped
    <2> QED
      BY <1>10, <2>4 DEF FinishDescription, pending, s1, s2, s3, popped, s5, name, waiting
  <1> QED
    BY <1>8, <1>9, <1>10

-----------------------------------------------------------------------------
(* The order of the queues.                                                *)

\* The entries of each queue, and the fields Ordered is about, have numbers
\* for their epochs and orders.
LEMMA EpochsTyped ==
  ASSUME NEW ps \in State
  PROVE  /\ \A i \in DOMAIN ps.pending_descriptions : ps.pending_descriptions[i].epoch \in Nat
         /\ \A i \in DOMAIN ps.pending_parses : ps.pending_parses[i].epoch \in Nat
         /\ \A i \in DOMAIN ps.pending_binds : ps.pending_binds[i].epoch \in Nat
         /\ \A i \in DOMAIN ps.pending_executes :
                ps.pending_executes[i].epoch \in Nat /\ ps.pending_executes[i].order \in Nat
  <1>1. \A i \in DOMAIN ps.pending_descriptions :
            ps.pending_descriptions[i] \in PendingDescribe \cup PendingSimple
    BY FieldsTyped
  <1>2. \A i \in DOMAIN ps.pending_parses : ps.pending_parses[i] \in PendingParse
    BY FieldsTyped
  <1>3. \A i \in DOMAIN ps.pending_binds : ps.pending_binds[i] \in PendingBind
    BY FieldsTyped
  <1>4. \A i \in DOMAIN ps.pending_executes : ps.pending_executes[i] \in PendingExecute
    BY FieldsTyped
  <1> QED
    BY <1>1, <1>2, <1>3, <1>4
    DEF PendingDescribe, PendingSimple, PendingParse, PendingBind, PendingExecute

\* A slot of the current epoch at the back of a queue keeps its order.
LEMMA AppendInOrder ==
  ASSUME NEW T, NEW queue \in Seq(T), NEW latest \in Nat, NEW e, e.epoch = latest,
         InEpochOrder(queue, latest)
  PROVE  InEpochOrder(Append(queue, e), latest)
  <1> DEFINE n == Len(queue)
             q == Append(queue, e)
  <1>1. n \in Nat /\ DOMAIN queue = 1 .. n /\ DOMAIN q = 1 .. (n + 1)
    OBVIOUS
  <1>2. q[n + 1] = e /\ \A i \in 1 .. n : q[i] = queue[i]
    OBVIOUS
  <1> HIDE DEF n, q
  <1>3. \A i \in 1 .. n : queue[i].epoch <= latest
    BY <1>1 DEF InEpochOrder
  <1> SUFFICES ASSUME NEW i \in DOMAIN q, NEW j \in DOMAIN q, i <= j
               PROVE  q[i].epoch <= q[j].epoch /\ q[j].epoch <= latest
    BY DEF InEpochOrder, q
  <1>4. CASE j = n + 1
    <2>1. i = n + 1 \/ i \in 1 .. n
      BY <1>1
    <2> QED
      BY <1>2, <1>3, <1>4, <2>1
  <1>5. CASE j # n + 1
    <2>1. i \in 1 .. n /\ j \in 1 .. n
      BY <1>1, <1>5
    <2> QED
      BY <1>1, <1>2, <2>1 DEF InEpochOrder
  <1> QED
    BY <1>4, <1>5

\* An Execute with a fresh id at the back of the queue keeps the order of
\* ids.
LEMMA AppendInResultOrder ==
  ASSUME NEW T, NEW queue \in Seq(T), NEW next \in Nat, NEW e, e.order = next,
         \A i \in DOMAIN queue : queue[i].order \in Nat,
         InResultOrder(queue, next)
  PROVE  InResultOrder(Append(queue, e), next + 1)
  <1> DEFINE n == Len(queue)
             q == Append(queue, e)
  <1>1. n \in Nat /\ DOMAIN queue = 1 .. n /\ DOMAIN q = 1 .. (n + 1)
    OBVIOUS
  <1>2. q[n + 1] = e /\ \A i \in 1 .. n : q[i] = queue[i]
    OBVIOUS
  <1> HIDE DEF n, q
  <1>3. \A i \in 1 .. n : queue[i].order < next /\ queue[i].order \in Nat
    BY <1>1 DEF InResultOrder
  <1> SUFFICES ASSUME NEW i \in DOMAIN q, NEW j \in DOMAIN q
               PROVE  q[i].order < next + 1 /\ (i < j => q[i].order < q[j].order)
    BY DEF InResultOrder, q
  <1>4. (i = n + 1 \/ i \in 1 .. n) /\ (j = n + 1 \/ j \in 1 .. n)
    BY <1>1
  <1>5. q[i].order < next + 1
    BY <1>2, <1>3, <1>4
  <1>6. ASSUME i < j PROVE q[i].order < q[j].order
    <2>1. i \in 1 .. n
      BY <1>1, <1>4, <1>6
    <2>2. CASE j = n + 1
      BY <1>2, <1>3, <2>1, <2>2
    <2>3. CASE j \in 1 .. n
      BY <1>1, <1>2, <1>6, <2>1, <2>3 DEF InResultOrder
    <2> QED
      BY <1>4, <2>2, <2>3
  <1> QED
    BY <1>5, <1>6

\* A queue without its front is in order.
LEMMA TailInOrder ==
  ASSUME NEW T, NEW queue \in Seq(T), queue # << >>, NEW latest, NEW next
  PROVE  /\ InEpochOrder(queue, latest) => InEpochOrder(Tail(queue), latest)
         /\ InResultOrder(queue, next) => InResultOrder(Tail(queue), next)
         /\ Tail(queue) \in Seq(T) /\ Len(Tail(queue)) < Len(queue)
  <1> DEFINE n == Len(queue)
             q == Tail(queue)
  <1>1. n \in Nat /\ n > 0 /\ DOMAIN queue = 1 .. n /\ DOMAIN q = 1 .. (n - 1)
          /\ q \in Seq(T) /\ Len(q) = n - 1
    OBVIOUS
  <1>2. \A i \in 1 .. (n - 1) : q[i] = queue[i + 1]
    OBVIOUS
  <1> HIDE DEF n, q
  <1>3. \A i \in DOMAIN q : i \in Nat /\ i + 1 \in DOMAIN queue /\ q[i] = queue[i + 1]
    BY <1>1, <1>2
  <1>4. ASSUME InEpochOrder(queue, latest) PROVE InEpochOrder(q, latest)
    <2> SUFFICES ASSUME NEW i \in DOMAIN q, NEW j \in DOMAIN q, i <= j
                 PROVE  q[i].epoch <= q[j].epoch /\ q[j].epoch <= latest
      BY DEF InEpochOrder
    <2>1. i + 1 <= j + 1
      BY <1>3
    <2> QED
      BY <1>3, <1>4, <2>1 DEF InEpochOrder
  <1>5. ASSUME InResultOrder(queue, next) PROVE InResultOrder(q, next)
    <2> SUFFICES ASSUME NEW i \in DOMAIN q, NEW j \in DOMAIN q
                 PROVE  q[i].order < next /\ (i < j => q[i].order < q[j].order)
      BY DEF InResultOrder
    <2>1. i < j => i + 1 < j + 1
      BY <1>3
    <2> QED
      BY <1>3, <1>5, <2>1 DEF InResultOrder
  <1> QED
    BY <1>1, <1>4, <1>5 DEF n, q

\* pop_front keeps the order of a queue, empty or not.
LEMMA PopFrontInOrder ==
  ASSUME NEW T, NEW queue \in Seq(T), NEW latest, NEW next
  PROVE  /\ InEpochOrder(queue, latest) => InEpochOrder(PopFront(queue), latest)
         /\ InResultOrder(queue, next) => InResultOrder(PopFront(queue), next)
  BY TailInOrder DEF PopFront

\* Dropping the entries of one epoch keeps the order of a queue.
LEMMA OtherEpochsInOrder ==
  ASSUME NEW T, NEW queue \in Seq(T), NEW epoch, NEW latest, NEW next
  PROVE  /\ InEpochOrder(queue, latest) => InEpochOrder(OtherEpochs(queue, epoch), latest)
         /\ InResultOrder(queue, next) => InResultOrder(OtherEpochs(queue, epoch), next)
  BY RetainInOrder, RetainInResultOrder DEF OtherEpochs

\* The empty queue is in order.
LEMMA EmptyInOrder ==
  ASSUME NEW latest, NEW next
  PROVE  InEpochOrder(<< >>, latest) /\ InResultOrder(<< >>, next)
  BY DEF InEpochOrder, InResultOrder

\* Ordered is about seven of the fields.
LEMMA OrderedFields ==
  ASSUME NEW ps, NEW qs, Ordered(ps),
         qs.pending_descriptions = ps.pending_descriptions,
         qs.pending_parses = ps.pending_parses,
         qs.pending_binds = ps.pending_binds,
         qs.pending_executes = ps.pending_executes,
         qs.sync_epoch = ps.sync_epoch,
         qs.next_result_order = ps.next_result_order,
         qs.suspended = ps.suspended \/ qs.suspended = FALSE
  PROVE  Ordered(qs)
  BY DEF Ordered

\* The empty plan state of a new session is in order.
LEMMA DefaultOrdered == Ordered(Default)
  BY EmptyInOrder DEF Ordered, Default

\* invalidate_if_stale keeps every queue in the order of its requests.
LEMMA InvalidateIfStaleOrdered ==
  ASSUME NEW ps \in State, Ordered(ps), NEW current
  PROVE  Ordered(InvalidateIfStale(ps, current))
  BY OrderedFields DEF State, InvalidateIfStale

\* clear_active keeps every queue in the order of its requests.
LEMMA ClearActiveOrdered ==
  ASSUME NEW ps \in State, Ordered(ps)
  PROVE  Ordered(ClearActive(ps))
  BY OrderedFields DEF State, ClearActive

\* begin_simple_query keeps every queue in the order of its requests.
LEMMA BeginSimpleQueryOrdered ==
  ASSUME NEW ps \in State, Ordered(ps), NEW sql \in Option(Sqls)
  PROVE  Ordered(BeginSimpleQuery(ps, sql))
  <1> DEFINE qs == BeginSimpleQuery(ps, sql)
  <1>a. InResultOrder(ps.pending_executes, ps.next_result_order + 1)
    BY FieldsTyped, EpochsTyped DEF Ordered, InResultOrder
  <1>1. /\ qs.pending_descriptions = Append(ps.pending_descriptions,
               [kind |-> "simple", sql |-> sql,
                epoch |-> ps.sync_epoch, order |-> ps.next_result_order])
        /\ qs.pending_parses = ps.pending_parses
        /\ qs.pending_binds = ps.pending_binds
        /\ qs.pending_executes = ps.pending_executes
        /\ qs.sync_epoch = ps.sync_epoch
        /\ qs.next_result_order = ps.next_result_order + 1
        /\ qs.suspended = ps.suspended
    BY DEF BeginSimpleQuery, State, ClearActive
  <1> HIDE DEF qs
  <1>2. Ordered(qs)
    BY <1>1, FieldsTyped, EpochsTyped, AppendInOrder, <1>a DEF Ordered
  <1> QED
    BY <1>2 DEF qs

\* parse keeps every queue in the order of its requests.
LEMMA ParseStatementOrdered ==
  ASSUME NEW ps \in State, Ordered(ps), NEW name \in Statements, NEW sql \in Sqls
  PROVE  Ordered(ParseStatement(ps, name, sql))
  <1> DEFINE qs == ParseStatement(ps, name, sql)
  <1>1. /\ qs.pending_descriptions = ps.pending_descriptions
        /\ qs.pending_parses = Append(ps.pending_parses, [name |-> name, epoch |-> ps.sync_epoch])
        /\ qs.pending_binds = ps.pending_binds
        /\ qs.pending_executes = ps.pending_executes
        /\ qs.sync_epoch = ps.sync_epoch
        /\ qs.next_result_order = ps.next_result_order
        /\ qs.suspended = ps.suspended
    BY DEF ParseStatement, State
  <1> HIDE DEF qs
  <1>2. Ordered(qs)
    BY <1>1, FieldsTyped, EpochsTyped, AppendInOrder DEF Ordered
  <1> QED
    BY <1>2 DEF qs

\* The Executes a plan is installed in keep their place, epoch and order.
LEMMA InstallPortalPlansOrdered ==
  ASSUME NEW ps \in State, Ordered(ps), NEW portals \in SUBSET Portals, NEW planOf
  PROVE  Ordered(InstallPortalPlans(ps, portals, planOf))
  <1> DEFINE Filled(e) ==
                IF /\ e.name \in portals
                   /\ e.bind_generation = ps.portal_bind_generations[e.name]
                   /\ e.plan = None
                THEN [e EXCEPT !.plan = planOf[e.name]]
                ELSE e
             old == ps.pending_executes
             queue == [i \in DOMAIN old |-> Filled(old[i])]
             qs == InstallPortalPlans(ps, portals, planOf)
  <1>1. \A e \in PendingExecute : Filled(e).epoch = e.epoch /\ Filled(e).order = e.order
    BY DEF PendingExecute
  <1>2. /\ Len(old) \in Nat /\ DOMAIN old = 1 .. Len(old)
        /\ \A i \in DOMAIN old : old[i] \in PendingExecute
    BY FieldsTyped
  <1> HIDE DEF Filled
  <1>3. DOMAIN queue = DOMAIN old /\ Len(queue) = Len(old)
    BY <1>2
  <1>4. \A i \in DOMAIN old : queue[i].epoch = old[i].epoch /\ queue[i].order = old[i].order
    BY <1>1, <1>2
  <1>5. /\ qs.pending_descriptions = ps.pending_descriptions
        /\ qs.pending_parses = ps.pending_parses
        /\ qs.pending_binds = ps.pending_binds
        /\ qs.pending_executes = queue
        /\ qs.sync_epoch = ps.sync_epoch
        /\ qs.next_result_order = ps.next_result_order
        /\ qs.suspended = ps.suspended
    BY DEF InstallPortalPlans, State, Filled
  <1> HIDE DEF queue, qs
  <1>6. /\ InEpochOrder(queue, ps.sync_epoch)
        /\ InResultOrder(queue, ps.next_result_order)
    BY <1>3, <1>4 DEF Ordered, InEpochOrder, InResultOrder
  <1>7. Ordered(qs)
    BY <1>3, <1>5, <1>6 DEF Ordered
  <1> QED
    BY <1>7 DEF qs

\* bind keeps every queue in the order of its requests.
LEMMA BindOrdered ==
  ASSUME NEW ps \in State, Ordered(ps), NEW portal \in Portals, NEW statement \in Statements,
         NEW formats \in Formats
  PROVE  Ordered(Bind(ps, portal, statement, formats))
  <1> DEFINE slot == [name |-> portal, epoch |-> ps.sync_epoch]
             fresh == BumpedGeneration(ps, portal)
             bound == [ps EXCEPT
                         !.portal_statement[portal] = statement,
                         !.pending_binds = Append(@, slot),
                         !.portal_formats[portal] = formats,
                         !.portal_bind_generations[portal] = fresh]
             unplanned == [bound EXCEPT !.portal_plans[portal] = None]
             plan == ps.statement_plans[statement]
             planOf == [p \in {portal} |-> Stamp(plan, formats)]
  <1>1. bound \in State
    <2> DEFINE s1 == [ps EXCEPT !.portal_statement[portal] = statement]
               s2 == [s1 EXCEPT !.pending_binds = Append(@, slot)]
               s3 == [s2 EXCEPT !.portal_formats[portal] = formats]
               s4 == [s3 EXCEPT !.portal_bind_generations[portal] = fresh]
    <2>1. slot \in PendingBind /\ formats \in Option(Formats)
      BY FieldsTyped DEF PendingBind, Option
    <2>2. fresh \in Nat
      BY FieldsTyped, BumpIsFresh
    <2> HIDE DEF slot, fresh
    <2>3. s1 \in State
      BY FieldsTyped, UpdateTyped DEF Option
    <2> HIDE DEF s1
    <2>4. Append(s1.pending_binds, slot) \in Seq(PendingBind)
      BY <2>1, <2>3, FieldsTyped
    <2>5. s2 \in State
      BY <2>3, <2>4, UpdateTyped
    <2> HIDE DEF s2
    <2>6. s3 \in State
      BY <2>1, <2>5, FieldsTyped, UpdateTyped
    <2> HIDE DEF s3
    <2>7. s4 \in State
      BY <2>2, <2>6, FieldsTyped, UpdateTyped
    <2> QED
      BY <2>7 DEF s1, s2, s3, s4
  <1> HIDE DEF fresh
  <1>2. /\ bound.pending_descriptions = ps.pending_descriptions
        /\ bound.pending_parses = ps.pending_parses
        /\ bound.pending_binds = Append(ps.pending_binds, slot)
        /\ bound.pending_executes = ps.pending_executes
        /\ bound.sync_epoch = ps.sync_epoch
        /\ bound.next_result_order = ps.next_result_order
        /\ bound.suspended = ps.suspended
    BY DEF State
  <1> HIDE DEF bound
  <1>3. Ordered(bound)
    BY <1>2, FieldsTyped, EpochsTyped, AppendInOrder DEF Ordered
  <1>4. Ordered(unplanned)
    <2>1. /\ unplanned.pending_descriptions = bound.pending_descriptions
          /\ unplanned.pending_parses = bound.pending_parses
          /\ unplanned.pending_binds = bound.pending_binds
          /\ unplanned.pending_executes = bound.pending_executes
          /\ unplanned.sync_epoch = bound.sync_epoch
          /\ unplanned.next_result_order = bound.next_result_order
          /\ unplanned.suspended = bound.suspended
      BY <1>1 DEF State
    <2> HIDE DEF unplanned
    <2> QED
      BY <1>3, <2>1, OrderedFields
  <1>5. Ordered(InstallPortalPlans(bound, {portal}, planOf))
    <2> HIDE DEF planOf
    <2> QED
      BY <1>1, <1>3, InstallPortalPlansOrdered
  <1> QED
    BY <1>4, <1>5 DEF Bind, bound, fresh

\* describe keeps every queue in the order of its requests.
LEMMA DescribeOrdered ==
  ASSUME NEW ps \in State, Ordered(ps), NEW target \in Target
  PROVE  Ordered(Describe(ps, target))
  <1> DEFINE qs == Describe(ps, target)
  <1> DEFINE sql == IF target.kind = "statement"
                    THEN ps.statement_sql[target.name]
                    ELSE SqlForPortal(ps, target.name)
             slot == [kind |-> "describe", target |-> target,
                      sql |-> sql, epoch |-> ps.sync_epoch]
  <1>1. /\ qs.pending_descriptions = Append(ps.pending_descriptions, slot)
        /\ qs.pending_parses = ps.pending_parses
        /\ qs.pending_binds = ps.pending_binds
        /\ qs.pending_executes = ps.pending_executes
        /\ qs.sync_epoch = ps.sync_epoch
        /\ qs.next_result_order = ps.next_result_order
        /\ qs.suspended = ps.suspended
    BY DEF Describe, State
  <1> HIDE DEF qs
  <1>2. Ordered(qs)
    BY <1>1, FieldsTyped, EpochsTyped, AppendInOrder DEF Ordered
  <1> QED
    BY <1>2 DEF qs

\* queue_execute keeps every queue in the order of its requests.
LEMMA QueueExecuteOrdered ==
  ASSUME NEW ps \in State, Ordered(ps), NEW portal \in Portals, ps.suspended = FALSE
  PROVE  Ordered(QueueExecute(ps, portal))
  <1> DEFINE qs == QueueExecute(ps, portal)
  <1> DEFINE slot == [name |-> portal, epoch |-> ps.sync_epoch,
                      order |-> ps.next_result_order, plan |-> ps.portal_plans[portal],
                      bind_generation |-> ps.portal_bind_generations[portal]]
  <1>1. /\ qs.pending_descriptions = ps.pending_descriptions
        /\ qs.pending_parses = ps.pending_parses
        /\ qs.pending_binds = ps.pending_binds
        /\ qs.pending_executes = Append(ps.pending_executes, slot)
        /\ qs.sync_epoch = ps.sync_epoch
        /\ qs.next_result_order = ps.next_result_order + 1
        /\ qs.suspended = ps.suspended
    BY DEF QueueExecute, State
  <1> HIDE DEF qs
  <1>2. Ordered(qs)
    BY <1>1, FieldsTyped, EpochsTyped, AppendInOrder, AppendInResultOrder DEF Ordered
  <1> QED
    BY <1>2 DEF qs

\* A paused portal is alone when it is resumed, so the epoch it moves to is
\* behind nothing.
LEMMA ExecuteOrdered ==
  ASSUME NEW ps \in State, Ordered(ps), NEW portal \in Portals
  PROVE  Ordered(Execute(ps, portal))
  <1> DEFINE active == Activated(ps, portal)
             popped == [active EXCEPT !.pending_executes = PopFront(@)]
             resumed == [active EXCEPT !.pending_executes[1].epoch = ps.sync_epoch]
  <1>1. active \in State
    BY ActivatedTyped
  <1>2. /\ active.pending_descriptions = ps.pending_descriptions
        /\ active.pending_parses = ps.pending_parses
        /\ active.pending_binds = ps.pending_binds
        /\ active.pending_executes = ps.pending_executes
        /\ active.sync_epoch = ps.sync_epoch
        /\ active.next_result_order = ps.next_result_order
        /\ active.suspended = FALSE
    BY DEF Activated, State
  <1> HIDE DEF active
  <1>3. Ordered(active)
    BY <1>2, OrderedFields
  <1>4. popped \in State /\ Ordered(popped) /\ popped.suspended = FALSE
    <2>1. PopFront(active.pending_executes) \in Seq(PendingExecute)
      BY <1>1, FieldsTyped, PopFrontTyped
    <2>2. popped \in State
      BY <1>1, <2>1, UpdateTyped
    <2>3. /\ popped.pending_descriptions = active.pending_descriptions
          /\ popped.pending_parses = active.pending_parses
          /\ popped.pending_binds = active.pending_binds
          /\ popped.pending_executes = PopFront(active.pending_executes)
          /\ popped.sync_epoch = active.sync_epoch
          /\ popped.next_result_order = active.next_result_order
          /\ popped.suspended = active.suspended
      BY <1>1 DEF State
    <2> HIDE DEF popped
    <2> QED
      BY <1>1, <1>2, <1>3, <2>2, <2>3, FieldsTyped, PopFrontInOrder DEF Ordered
  <1>5. ASSUME IsResume(ps, portal), ps.suspended PROVE Ordered(resumed)
    <2> DEFINE queue == ps.pending_executes
               moved == [queue EXCEPT ![1].epoch = ps.sync_epoch]
    <2>1. queue \in Seq(PendingExecute) /\ Len(queue) = 1 /\ DOMAIN queue = {1}
      <3>1. queue \in Seq(PendingExecute) /\ queue # << >> /\ Len(queue) <= 1
        BY <1>5, FieldsTyped DEF Ordered, IsResume
      <3>2. Len(queue) \in Nat /\ Len(queue) # 0 /\ DOMAIN queue = 1 .. Len(queue)
        BY <3>1
      <3>3. Len(queue) = 1
        <4> DEFINE n == Len(queue)
        <4>1. n \in Nat /\ n # 0 /\ n <= 1
          BY <3>1, <3>2
        <4> HIDE DEF n
        <4>2. n = 1
          BY <4>1
        <4> QED
          BY <4>2 DEF n
      <3>4. 1 .. 1 = {1}
        OBVIOUS
      <3> QED
        BY <3>1, <3>2, <3>3, <3>4
    <2>2. queue[1] \in PendingExecute
      BY <2>1
    <2>3. /\ DOMAIN moved = {1} /\ Len(moved) = 1
          /\ moved[1].epoch = ps.sync_epoch /\ moved[1].order = queue[1].order
      BY <2>1, <2>2 DEF PendingExecute
    <2>4. /\ resumed.pending_descriptions = active.pending_descriptions
          /\ resumed.pending_parses = active.pending_parses
          /\ resumed.pending_binds = active.pending_binds
          /\ resumed.pending_executes = moved
          /\ resumed.sync_epoch = active.sync_epoch
          /\ resumed.next_result_order = active.next_result_order
          /\ resumed.suspended = active.suspended
      BY <1>1, <1>2 DEF State
    <2> HIDE DEF moved, resumed
    <2>5. InEpochOrder(moved, ps.sync_epoch)
      BY <2>3, FieldsTyped DEF InEpochOrder
    <2>6. InResultOrder(moved, ps.next_result_order)
      BY <2>1, <2>3 DEF InResultOrder, Ordered
    <2> QED
      BY <1>2, <1>3, <2>3, <2>4, <2>5, <2>6 DEF Ordered
  <1>6. Ordered(QueueExecute(active, portal)) /\ Ordered(QueueExecute(popped, portal))
    <2> HIDE DEF popped
    <2> QED
      BY <1>1, <1>2, <1>3, <1>4, QueueExecuteOrdered
  <1> QED
    BY <1>3, <1>5, <1>6 DEF Execute, Activated, active, popped, resumed

\* close keeps every queue in the order of its requests.
LEMMA CloseOrdered ==
  ASSUME NEW ps \in State, Ordered(ps), NEW target \in Target
  PROVE  Ordered(Close(ps, target))
  <1> DEFINE qs == Close(ps, target)
  <1>1. /\ qs.pending_descriptions = ps.pending_descriptions
        /\ qs.pending_parses = ps.pending_parses
        /\ qs.pending_binds = ps.pending_binds
        /\ qs.pending_executes = ps.pending_executes
        /\ qs.sync_epoch = ps.sync_epoch
        /\ qs.next_result_order = ps.next_result_order
        /\ qs.suspended = ps.suspended
    BY DEF Close, State
  <1> HIDE DEF qs
  <1>2. Ordered(qs)
    BY <1>1, FieldsTyped, EpochsTyped DEF Ordered
  <1> QED
    BY <1>2 DEF qs

\* sync keeps every queue in the order of its requests.
LEMMA SyncOrdered ==
  ASSUME NEW ps \in State, Ordered(ps)
  PROVE  Ordered(Sync(ps))
  <1> DEFINE qs == Sync(ps)
  <1>a. \A queue : /\ InEpochOrder(queue, ps.sync_epoch)
                   /\ \A i \in DOMAIN queue : queue[i].epoch \in Nat
                   => InEpochOrder(queue, ps.sync_epoch + 1)
    BY FieldsTyped DEF InEpochOrder
  <1>1. /\ qs.pending_descriptions = ps.pending_descriptions
        /\ qs.pending_parses = ps.pending_parses
        /\ qs.pending_binds = ps.pending_binds
        /\ qs.pending_executes = ps.pending_executes
        /\ qs.sync_epoch = ps.sync_epoch + 1
        /\ qs.next_result_order = ps.next_result_order
        /\ qs.suspended = ps.suspended
    BY DEF Sync, State
  <1> HIDE DEF qs
  <1>2. Ordered(qs)
    BY <1>1, FieldsTyped, EpochsTyped, <1>a DEF Ordered
  <1> QED
    BY <1>2 DEF qs

\* finish_parse keeps every queue in the order of its requests.
LEMMA FinishParseOrdered ==
  ASSUME NEW ps \in State, Ordered(ps)
  PROVE  Ordered(FinishParse(ps))
  <1> DEFINE qs == FinishParse(ps)
  <1>1. /\ qs.pending_descriptions = ps.pending_descriptions
        /\ qs.pending_parses = PopFront(ps.pending_parses)
        /\ qs.pending_binds = ps.pending_binds
        /\ qs.pending_executes = ps.pending_executes
        /\ qs.sync_epoch = ps.sync_epoch
        /\ qs.next_result_order = ps.next_result_order
        /\ qs.suspended = ps.suspended
    BY DEF FinishParse, State
  <1> HIDE DEF qs
  <1>2. Ordered(qs)
    BY <1>1, FieldsTyped, EpochsTyped, PopFrontInOrder DEF Ordered
  <1> QED
    BY <1>2 DEF qs

\* discard_description keeps every queue in the order of its requests.
LEMMA DiscardDescriptionOrdered ==
  ASSUME NEW ps \in State, Ordered(ps)
  PROVE  Ordered(DiscardDescription(ps))
  <1> DEFINE qs == DiscardDescription(ps)
  <1>a. InEpochOrder(PopFront(ps.pending_descriptions), ps.sync_epoch)
    <2>1. ps.pending_descriptions \in Seq(PendingDescribe \cup PendingSimple)
      BY FieldsTyped
    <2>2. InEpochOrder(ps.pending_descriptions, ps.sync_epoch)
      BY DEF Ordered
    <2> QED
      BY <2>1, <2>2, PopFrontInOrder
  <1>1. /\ qs.pending_descriptions = PopFront(ps.pending_descriptions)
        /\ qs.pending_parses = ps.pending_parses
        /\ qs.pending_binds = ps.pending_binds
        /\ qs.pending_executes = ps.pending_executes
        /\ qs.sync_epoch = ps.sync_epoch
        /\ qs.next_result_order = ps.next_result_order
        /\ qs.suspended = ps.suspended
    BY DEF DiscardDescription, State
  <1> HIDE DEF qs
  <1>2. Ordered(qs)
    BY <1>1, FieldsTyped, EpochsTyped, <1>a DEF Ordered
  <1> QED
    BY <1>2 DEF qs

\* finish_no_data keeps every queue in the order of its requests.
LEMMA FinishNoDataOrdered ==
  ASSUME NEW ps \in State, Ordered(ps), HeadIs(ps, "describe")
  PROVE  Ordered(FinishNoData(ps))
  <1> DEFINE qs == FinishNoData(ps)
  <1>1. /\ qs.pending_descriptions = Tail(ps.pending_descriptions)
        /\ qs.pending_parses = ps.pending_parses
        /\ qs.pending_binds = ps.pending_binds
        /\ qs.pending_executes = ps.pending_executes
        /\ qs.sync_epoch = ps.sync_epoch
        /\ qs.next_result_order = ps.next_result_order
        /\ qs.suspended = ps.suspended
    BY DEF FinishNoData, State
  <1> HIDE DEF qs
  <1>2. Ordered(qs)
    BY <1>1, FieldsTyped, EpochsTyped, TailInOrder DEF Ordered, HeadIs
  <1> QED
    BY <1>2 DEF qs

\* finish_empty_query keeps every queue in the order of its requests.
LEMMA FinishEmptyQueryOrdered ==
  ASSUME NEW ps \in State, Ordered(ps), HeadIs(ps, "simple")
  PROVE  Ordered(FinishEmptyQuery(ps))
  <1> DEFINE qs == FinishEmptyQuery(ps)
  <1>1. /\ qs.pending_descriptions = Tail(ps.pending_descriptions)
        /\ qs.pending_parses = ps.pending_parses
        /\ qs.pending_binds = ps.pending_binds
        /\ qs.pending_executes = ps.pending_executes
        /\ qs.sync_epoch = ps.sync_epoch
        /\ qs.next_result_order = ps.next_result_order
        /\ qs.suspended = ps.suspended
    BY DEF FinishEmptyQuery, State
  <1> HIDE DEF qs
  <1>2. Ordered(qs)
    BY <1>1, FieldsTyped, EpochsTyped, TailInOrder DEF Ordered, HeadIs
  <1> QED
    BY <1>2 DEF qs

\* finish_suppressed_epoch keeps every queue in the order of its requests.
LEMMA FinishSuppressedEpochOrdered ==
  ASSUME NEW ps \in State, Ordered(ps), NEW epoch
  PROVE  Ordered(FinishSuppressedEpoch(ps, epoch))
  <1> DEFINE qs == FinishSuppressedEpoch(ps, epoch)
  <1>1. /\ qs.pending_descriptions = OtherEpochs(ps.pending_descriptions, epoch)
        /\ qs.pending_parses = OtherEpochs(ps.pending_parses, epoch)
        /\ qs.pending_binds = OtherEpochs(ps.pending_binds, epoch)
        /\ qs.pending_executes = OtherEpochs(ps.pending_executes, epoch)
        /\ qs.sync_epoch = ps.sync_epoch
        /\ qs.next_result_order = ps.next_result_order
        /\ qs.suspended = FALSE
    BY DEF FinishSuppressedEpoch, State
  <1> HIDE DEF qs
  <1>2. Ordered(qs)
    BY <1>1, FieldsTyped, EpochsTyped, OtherEpochsInOrder DEF Ordered
  <1> QED
    BY <1>2 DEF qs

\* finish_bind keeps every queue in the order of its requests.
LEMMA FinishBindOrdered ==
  ASSUME NEW ps \in State, Ordered(ps)
  PROVE  Ordered(FinishBind(ps))
  <1> SUFFICES ASSUME ps.pending_binds # << >> PROVE Ordered(FinishBind(ps))
    BY DEF FinishBind
  <1> DEFINE portal == Head(ps.pending_binds).name
             statement == ps.portal_statement[portal]
             described == IF statement = None THEN None ELSE ps.statement_plans[statement]
             plan == IF ps.portal_plans[portal] # None
                     THEN ps.portal_plans[portal]
                     ELSE IF described = None
                     THEN None
                     ELSE Stamp(described, ps.portal_formats[portal])
             popped == [ps EXCEPT !.pending_binds = Tail(@)]
             planOf == [p \in {portal} |-> plan]
             installed == InstallPortalPlans(popped, {portal}, planOf)
             active == IF ps.active_portal = portal THEN plan ELSE installed.active_plan
             final == [installed EXCEPT !.active_plan = active]
  <1>1. portal \in Portals
    <2>1. Head(ps.pending_binds) \in PendingBind
      BY FieldsTyped
    <2> QED
      BY <2>1 DEF PendingBind
  <1>2. Tail(ps.pending_binds) \in Seq(PendingBind)
    BY FieldsTyped
  <1>3. popped \in State
    BY <1>2, UpdateTyped
  <1>4. Ordered(popped)
    <2>1. /\ popped.pending_descriptions = ps.pending_descriptions
          /\ popped.pending_parses = ps.pending_parses
          /\ popped.pending_binds = Tail(ps.pending_binds)
          /\ popped.pending_executes = ps.pending_executes
          /\ popped.sync_epoch = ps.sync_epoch
          /\ popped.next_result_order = ps.next_result_order
          /\ popped.suspended = ps.suspended
      BY DEF State
    <2> HIDE DEF popped
    <2> QED
      BY <2>1, FieldsTyped, TailInOrder DEF Ordered
  <1> HIDE DEF portal, plan, popped, planOf
  <1>5. Ordered(installed)
    BY <1>1, <1>3, <1>4, InstallPortalPlansOrdered
  <1>6. Ordered(final)
    <2>1. DOMAIN installed = DOMAIN popped
      BY DEF InstallPortalPlans
    <2> HIDE DEF installed, active
    <2>2. /\ final.pending_descriptions = installed.pending_descriptions
          /\ final.pending_parses = installed.pending_parses
          /\ final.pending_binds = installed.pending_binds
          /\ final.pending_executes = installed.pending_executes
          /\ final.sync_epoch = installed.sync_epoch
          /\ final.next_result_order = installed.next_result_order
          /\ final.suspended = installed.suspended
      BY <1>3, <2>1 DEF State
    <2> HIDE DEF final
    <2> QED
      BY <1>5, <2>2, OrderedFields
  <1> QED
    BY <1>4, <1>6 DEF FinishBind, portal, plan, popped, planOf

\* Only a lone Execute is left paused.
LEMMA SuspendResultOrdered ==
  ASSUME NEW ps \in State, Ordered(ps)
  PROVE  Ordered(SuspendResult(ps))
  <1> DEFINE more == [ps EXCEPT !.pending_executes = Tail(@), !.suspended = FALSE]
             lone == [ps EXCEPT !.suspended = TRUE]
  <1>1. ASSUME Len(ps.pending_executes) > 1 PROVE Ordered(more)
    <2>1. /\ more.pending_descriptions = ps.pending_descriptions
          /\ more.pending_parses = ps.pending_parses
          /\ more.pending_binds = ps.pending_binds
          /\ more.pending_executes = Tail(ps.pending_executes)
          /\ more.sync_epoch = ps.sync_epoch
          /\ more.next_result_order = ps.next_result_order
          /\ more.suspended = FALSE
      BY DEF State
    <2>2. ps.pending_executes # << >>
      BY <1>1
    <2> HIDE DEF more
    <2> QED
      BY <2>1, <2>2, FieldsTyped, TailInOrder DEF Ordered
  <1>2. ASSUME ~(Len(ps.pending_executes) > 1) PROVE Ordered(lone)
    <2>1. /\ lone.pending_descriptions = ps.pending_descriptions
          /\ lone.pending_parses = ps.pending_parses
          /\ lone.pending_binds = ps.pending_binds
          /\ lone.pending_executes = ps.pending_executes
          /\ lone.sync_epoch = ps.sync_epoch
          /\ lone.next_result_order = ps.next_result_order
      BY DEF State
    <2>2. Len(ps.pending_executes) <= 1
      BY <1>2, FieldsTyped
    <2> HIDE DEF lone
    <2> QED
      BY <2>1, <2>2 DEF Ordered
  <1> QED
    BY <1>1, <1>2 DEF SuspendResult

\* ready_for_query keeps every queue in the order of its requests.
LEMMA ReadyForQueryOrdered ==
  ASSUME NEW ps \in State, Ordered(ps), NEW status
  PROVE  Ordered(ReadyForQuery(ps, status))
  <1> DEFINE qs == ReadyForQuery(ps, status)
  <1>1. /\ qs.pending_descriptions = ps.pending_descriptions
        /\ qs.pending_parses = ps.pending_parses
        /\ qs.pending_binds = ps.pending_binds
        /\ qs.pending_executes \in {ps.pending_executes, << >>}
        /\ qs.sync_epoch = ps.sync_epoch
        /\ qs.next_result_order = ps.next_result_order
        /\ qs.suspended = ps.suspended \/ qs.suspended = FALSE
        /\ qs.pending_executes = << >> => qs.suspended = FALSE \/ qs = ps
    BY DEF ReadyForQuery, State
  <1> HIDE DEF qs
  <1>2. Ordered(qs)
    BY <1>1, EmptyInOrder DEF Ordered
  <1> QED
    BY <1>2 DEF qs

\* finish_result_set keeps every queue in the order of its requests.
LEMMA FinishResultSetOrdered ==
  ASSUME NEW ps \in State, Ordered(ps)
  PROVE  Ordered(FinishResultSet(ps))
  <1> DEFINE qs == FinishResultSet(ps)
  <1>1. CASE ps.streaming_simple_result
    BY <1>1, OrderedFields DEF FinishResultSet, State
  <1>2. CASE ~ps.streaming_simple_result /\ SimpleIsNext(ps)
    <2>1. /\ qs.pending_descriptions = Tail(ps.pending_descriptions)
          /\ qs.pending_parses = ps.pending_parses
          /\ qs.pending_binds = ps.pending_binds
          /\ qs.pending_executes = ps.pending_executes
          /\ qs.sync_epoch = ps.sync_epoch
          /\ qs.next_result_order = ps.next_result_order
          /\ qs.suspended = FALSE
      BY <1>2 DEF FinishResultSet, State
    <2>2. ps.pending_descriptions # << >>
      BY <1>2 DEF SimpleIsNext
    <2> HIDE DEF qs
    <2>3. Ordered(qs)
      BY <2>1, <2>2, FieldsTyped, TailInOrder DEF Ordered
    <2> QED
      BY <2>3 DEF qs
  <1>3. CASE ~ps.streaming_simple_result /\ ~SimpleIsNext(ps)
    <2>1. /\ qs.pending_descriptions = ps.pending_descriptions
          /\ qs.pending_parses = ps.pending_parses
          /\ qs.pending_binds = ps.pending_binds
          /\ qs.pending_executes = PopFront(ps.pending_executes)
          /\ qs.sync_epoch = ps.sync_epoch
          /\ qs.next_result_order = ps.next_result_order
          /\ qs.suspended = FALSE
      BY <1>3 DEF FinishResultSet, State
    <2> HIDE DEF qs
    <2>2. Ordered(qs)
      BY <2>1, FieldsTyped, PopFrontInOrder DEF Ordered
    <2> QED
      BY <2>2 DEF qs
  <1> QED
    BY <1>1, <1>2, <1>3

\* discard_failed_epoch keeps every queue in the order of its requests.
LEMMA DiscardFailedEpochOrdered ==
  ASSUME NEW ps \in State, Ordered(ps)
  PROVE  Ordered(DiscardFailedEpoch(ps))
  <1> DEFINE failed == CHOOSE e \in FailedEpochs(ps) : \A f \in FailedEpochs(ps) : e <= f
             statements == DiedWith(ps.pending_parses, failed)
             portals == DiedWith(ps.pending_binds, failed)
             outliving == {i \in DOMAIN ps.pending_executes :
                             /\ ps.pending_executes[i].epoch # failed
                             /\ ~(ps.suspended /\ ps.pending_executes[i].epoch < failed)}
             qs == Discarded(ps, failed, statements, portals, outliving)
  <1>1. Ordered(Cleared(ps))
    BY OrderedFields DEF Cleared, State
  <1>2. outliving \in SUBSET DOMAIN ps.pending_executes
    OBVIOUS
  <1> HIDE DEF failed, statements, portals, outliving
  <1>3. /\ qs.pending_descriptions = OtherEpochs(ps.pending_descriptions, failed)
        /\ qs.pending_parses = OtherEpochs(ps.pending_parses, failed)
        /\ qs.pending_binds = OtherEpochs(ps.pending_binds, failed)
        /\ qs.pending_executes = Retain(ps.pending_executes, outliving)
        /\ qs.sync_epoch = ps.sync_epoch
        /\ qs.next_result_order = ps.next_result_order
        /\ qs.suspended = FALSE
    BY DEF Discarded, Cleared, State
  <1> HIDE DEF qs
  <1>4. Ordered(qs)
    BY <1>2, <1>3, FieldsTyped, OtherEpochsInOrder, RetainInOrder, RetainInResultOrder DEF Ordered
  <1> QED
    BY <1>1, <1>4
    DEF DiscardFailedEpoch, Discarded, Cleared, failed, statements, portals, outliving, qs

\* finish_description keeps every queue in the order of its requests.
LEMMA FinishDescriptionOrdered ==
  ASSUME NEW ps \in State, Ordered(ps), ps.pending_descriptions # << >>, NEW plan \in Plan
  PROVE  Ordered(FinishDescription(ps, plan))
  <1> DEFINE pending == Head(ps.pending_descriptions)
             name == pending.target.name
             popped == [ps EXCEPT !.pending_descriptions = Tail(@),
                                  !.streaming_simple_result = (pending.kind = "simple"),
                                  !.active_plan = plan,
                                  !.active_epoch = pending.epoch]
             named == [popped EXCEPT !.statement_plans[name] = plan]
             waiting == BoundTo(ps, name)
  <1>1. pending \in PendingDescribe \cup PendingSimple
    BY FieldsTyped
  <1>2. popped \in State
    <2> DEFINE s1 == [ps EXCEPT !.pending_descriptions = Tail(@)]
               s2 == [s1 EXCEPT !.streaming_simple_result = (pending.kind = "simple")]
               s3 == [s2 EXCEPT !.active_plan = plan]
               s4 == [s3 EXCEPT !.active_epoch = pending.epoch]
    <2>1. Tail(ps.pending_descriptions) \in Seq(PendingDescribe \cup PendingSimple)
      BY FieldsTyped
    <2>2. pending.epoch \in Option(Nat)
      BY <1>1 DEF PendingDescribe, PendingSimple, Option
    <2> HIDE DEF pending
    <2>3. s1 \in State
      BY <2>1, UpdateTyped
    <2> HIDE DEF s1
    <2>4. s2 \in State
      BY <2>3, UpdateTyped
    <2> HIDE DEF s2
    <2>5. s3 \in State
      BY <2>4, UpdateTyped DEF Option
    <2> HIDE DEF s3
    <2>6. s4 \in State
      BY <2>2, <2>5, UpdateTyped
    <2> QED
      BY <2>6 DEF s1, s2, s3, s4
  <1>3. /\ popped.pending_descriptions = Tail(ps.pending_descriptions)
        /\ popped.pending_parses = ps.pending_parses
        /\ popped.pending_binds = ps.pending_binds
        /\ popped.pending_executes = ps.pending_executes
        /\ popped.sync_epoch = ps.sync_epoch
        /\ popped.next_result_order = ps.next_result_order
        /\ popped.suspended = ps.suspended
    BY DEF State
  <1> HIDE DEF pending, popped
  <1>4. Ordered(popped)
    BY <1>3, FieldsTyped, TailInOrder DEF Ordered
  <1>5. CASE pending.kind = "simple"
    BY <1>4, <1>5 DEF FinishDescription, pending, popped
  <1>6. CASE pending.kind # "simple" /\ pending.target.kind = "portal"
    <2>1. name \in Portals
      BY <1>1, <1>6 DEF PendingDescribe, PendingSimple, Target
    <2>2. Ordered(InstallPortalPlans(popped, {name}, [p \in {name} |-> plan]))
      BY <1>2, <1>4, <2>1, InstallPortalPlansOrdered
    <2> QED
      BY <1>6, <2>2 DEF FinishDescription, pending, popped
  <1>7. CASE pending.kind # "simple" /\ pending.target.kind # "portal"
    <2>1. name \in Statements
      BY <1>1, <1>7 DEF PendingDescribe, PendingSimple, Target
    <2> HIDE DEF name
    <2>2. named \in State
      BY <1>2, <2>1, FieldsTyped, UpdateTyped DEF Option
    <2>3. /\ named.pending_descriptions = popped.pending_descriptions
          /\ named.pending_parses = popped.pending_parses
          /\ named.pending_binds = popped.pending_binds
          /\ named.pending_executes = popped.pending_executes
          /\ named.sync_epoch = popped.sync_epoch
          /\ named.next_result_order = popped.next_result_order
          /\ named.suspended = popped.suspended
      BY <1>2 DEF State
    <2> HIDE DEF named
    <2>4. Ordered(named)
      BY <1>4, <2>3, OrderedFields
    <2>5. waiting \in SUBSET Portals
      BY DEF BoundTo
    <2> HIDE DEF waiting
    <2>6. Ordered(InstallPortalPlans(named, waiting,
                      [p \in waiting |-> Stamp(plan, ps.portal_formats[p])]))
      BY <2>2, <2>4, <2>5, InstallPortalPlansOrdered
    <2> QED
      BY <1>7, <2>6 DEF FinishDescription, pending, popped, named, name, waiting
  <1> QED
    BY <1>5, <1>6, <1>7

-----------------------------------------------------------------------------
(* The backend answers well-typed messages with well-typed replies.        *)

WellServed(answer) == answer.db \in BackendState /\ answer.replies \in Seq(Reply)

\* A reply without content is a Reply.
LEMMA PlainTyped ==
  ASSUME NEW tag \in PlainTags
  PROVE  Plain(tag) \in Reply /\ << Plain(tag) >> \in Seq(Reply)
  BY DEF Plain, Reply

\* A ReadyForQuery is a Reply.
LEMMA ReadyTyped ==
  ASSUME NEW status \in {"I", "T", "E"}
  PROVE  Ready(status) \in Reply /\ << Ready(status) >> \in Seq(Reply)
  BY DEF Ready, Reply

\* A description or a row is a Reply.
LEMMA ShapedTyped ==
  ASSUME NEW tag \in {"RowDescription", "DataRow"}, NEW fields \in Sqls, NEW text \in Sqls,
         NEW format \in Formats
  PROVE  /\ Shaped(tag, fields, text, format) \in Reply
         /\ << Shaped(tag, fields, text, format) >> \in Seq(Reply)
  BY DEF Shaped, Reply

\* The fields of a backend state.
LEMMA BackendTyped ==
  ASSUME NEW b \in BackendState
  PROVE  /\ b.statements \in [Statements -> Option(Sqls)]
         /\ b.portals \in [Portals -> Option(BackendPortal)]
         /\ b.skipping \in BOOLEAN
         /\ b.txn \in {"I", "T", "E"}
  BY DEF BackendState

\* A backend state is updated one field at a time.
LEMMA BackendUpdateTyped ==
  ASSUME NEW b \in BackendState
  PROVE  /\ \A v \in [Statements -> Option(Sqls)] : [b EXCEPT !.statements = v] \in BackendState
         /\ \A v \in [Portals -> Option(BackendPortal)] :
                [b EXCEPT !.portals = v] \in BackendState
         /\ \A v \in BOOLEAN : [b EXCEPT !.skipping = v] \in BackendState
         /\ \A v \in {"I", "T", "E"} : [b EXCEPT !.txn = v] \in BackendState
  BY DEF BackendState

\* An error of the extended protocol.
LEMMA ExtendedErrorTyped ==
  ASSUME NEW b \in BackendState
  PROVE  Fail(b) \in BackendState /\ WellServed(ExtendedError(b))
  <1>1. NoPortals \in [Portals -> Option(BackendPortal)]
    BY DEF NoPortals, Option
  <1>2. Fail(b) \in BackendState
    BY <1>1 DEF Fail, BackendState
  <1>3. [Fail(b) EXCEPT !.skipping = TRUE] \in BackendState
    BY <1>2, BackendUpdateTyped
  <1>4. << Plain("ErrorResponse") >> \in Seq(Reply)
    BY PlainTyped DEF PlainTags
  <1> QED
    BY <1>2, <1>3, <1>4 DEF ExtendedError, Answer, WellServed

\* The backend's answer to a Parse is well typed.
LEMMA ServeParseTyped ==
  ASSUME NEW b \in BackendState, NEW m \in Message, m.tag = "Parse"
  PROVE  WellServed(ServeParse(b, m))
  <1>1. m.name \in Statements /\ m.sql \in Sqls
    BY DEF Message
  <1>2. /\ [b EXCEPT !.statements[m.name] = None] \in BackendState
        /\ [b EXCEPT !.statements[m.name] = m.sql] \in BackendState
    BY <1>1, BackendTyped, BackendUpdateTyped DEF Option
  <1>3. << Plain("ParseComplete") >> \in Seq(Reply)
    BY PlainTyped DEF PlainTags
  <1> QED
    BY <1>2, <1>3, ExtendedErrorTyped DEF ServeParse, Answer, WellServed

\* The backend's answer to a Bind is well typed.
LEMMA ServeBindTyped ==
  ASSUME NEW b \in BackendState, NEW m \in Message, m.tag = "Bind"
  PROVE  WellServed(ServeBind(b, m))
  <1> DEFINE sql == b.statements[m.statement]
             portal == [sql |-> sql, from |-> m.statement, format |-> m.formats,
                        left |-> FetchesPerPortal]
  <1>1. m.portal \in Portals /\ m.statement \in Statements /\ m.formats \in Formats
    BY DEF Message
  <1>2. sql # None => portal \in BackendPortal
    BY <1>1, BackendTyped DEF BackendPortal, Option, FetchesPerPortal
  <1> HIDE DEF portal
  <1>3. sql # None => [b EXCEPT !.portals[m.portal] = portal] \in BackendState
    BY <1>1, <1>2, BackendTyped, BackendUpdateTyped DEF Option
  <1>4. << Plain("BindComplete") >> \in Seq(Reply)
    BY PlainTyped DEF PlainTags
  <1> QED
    BY <1>3, <1>4, ExtendedErrorTyped DEF ServeBind, Answer, WellServed, portal

\* The backend's answer to a Describe is well typed.
LEMMA ServeDescribeTyped ==
  ASSUME NEW b \in BackendState, NEW m \in Message, m.tag = "Describe"
  PROVE  WellServed(ServeDescribe(b, m))
  <1> DEFINE portal == m.target.kind = "portal"
             sql == IF ~portal
                    THEN b.statements[m.target.name]
                    ELSE IF b.portals[m.target.name] = None
                    THEN None
                    ELSE b.portals[m.target.name].sql
             format == IF portal THEN b.portals[m.target.name].format ELSE "text"
             reply == IF Results[sql] = << >>
                      THEN Plain("NoData")
                      ELSE Shaped("RowDescription", Head(Results[sql]), sql, format)
  <1>1. m.target \in Target
    BY DEF Message
  <1>2. ASSUME sql # None PROVE sql \in Sqls /\ format \in Formats
    <2>1. CASE portal
      <3>1. m.target.name \in Portals
        BY <1>1, <2>1 DEF Target
      <3>2. b.portals[m.target.name] \in BackendPortal
        BY <1>2, <2>1, <3>1, BackendTyped DEF Option
      <3> QED
        BY <1>2, <2>1, <3>2 DEF BackendPortal
    <2>2. CASE ~portal
      <3>1. m.target.name \in Statements
        BY <1>1, <2>2 DEF Target
      <3> QED
        BY <1>2, <2>2, <3>1, BackendTyped, PostgresAssumption DEF Option
    <2> QED
      BY <2>1, <2>2
  <1> HIDE DEF sql, format
  <1>3. ASSUME sql # None PROVE << reply >> \in Seq(Reply)
    <2>1. CASE Results[sql] = << >>
      BY <2>1, PlainTyped DEF PlainTags
    <2>2. CASE Results[sql] # << >>
      <3>1. Results[sql] \in Seq(Sqls)
        BY <1>2, <1>3, PostgresAssumption
      <3>2. Head(Results[sql]) \in Sqls
        BY <2>2, <3>1
      <3> QED
        BY <1>2, <1>3, <2>2, <3>2, ShapedTyped
    <2> QED
      BY <2>1, <2>2
  <1> QED
    BY <1>3, ExtendedErrorTyped DEF ServeDescribe, Answer, WellServed, sql, format

\* The backend's answer to an Execute is well typed.
LEMMA ServeExecuteTyped ==
  ASSUME NEW b \in BackendState, NEW m \in Message, m.tag = "Execute"
  PROVE  WellServed(ServeExecute(b, m))
  <1> DEFINE portal == b.portals[m.portal]
             row == Shaped("DataRow", Head(Results[portal.sql]), portal.sql, portal.format)
             Left(n) == [b EXCEPT !.portals[m.portal].left = n]
             done == << Plain("CommandComplete") >>
  <1>1. m.portal \in Portals
    BY DEF Message
  <1>2. portal # None => portal \in BackendPortal
    BY <1>1, BackendTyped DEF Option
  <1>3. done \in Seq(Reply) /\ << Plain("EmptyQueryResponse") >> \in Seq(Reply)
    BY PlainTyped DEF PlainTags
  <1>4. NoPortals \in [Portals -> Option(BackendPortal)]
    BY DEF NoPortals, Option
  <1>5. /\ [b EXCEPT !.txn = "T"] \in BackendState
        /\ [b EXCEPT !.txn = "I", !.portals = NoPortals] \in BackendState
    BY <1>4 DEF BackendState
  <1>6. ASSUME portal # None, Kind[portal.sql] = "rows"
        PROVE  << row, Plain("PortalSuspended") >> \in Seq(Reply) /\ << row >> \o done \in Seq(Reply)
    <2>1. portal.sql \in Sqls /\ portal.format \in Formats
      BY <1>2, <1>6 DEF BackendPortal
    <2>2. Results[portal.sql] \in Seq(Sqls) /\ Len(Results[portal.sql]) > 0
      BY <1>6, <2>1, PostgresAssumption
    <2>3. Head(Results[portal.sql]) \in Sqls
      BY <2>2
    <2>4. row \in Reply
      BY <2>1, <2>3, ShapedTyped
    <2>5. Plain("PortalSuspended") \in Reply
      BY PlainTyped DEF PlainTags
    <2> HIDE DEF row, done
    <2> QED
      BY <1>3, <2>4, <2>5
  <1>7. ASSUME portal # None, NEW n \in 0 .. FetchesPerPortal
        PROVE  Left(n) \in BackendState
    <2>1. [portal EXCEPT !.left = n] \in BackendPortal
      BY <1>2, <1>7 DEF BackendPortal
    <2>2. [b.portals EXCEPT ![m.portal] = [portal EXCEPT !.left = n]]
            \in [Portals -> Option(BackendPortal)]
      BY <1>1, <2>1, BackendTyped DEF Option
    <2>3. [b EXCEPT !.portals = [b.portals EXCEPT ![m.portal] = [portal EXCEPT !.left = n]]]
            \in BackendState
      BY <2>2, BackendUpdateTyped
    <2> QED
      BY <2>3
  <1>8. portal # None =>
            /\ portal.left \in 0 .. FetchesPerPortal
            /\ portal.left # 0 => portal.left - 1 \in 0 .. FetchesPerPortal
            /\ 0 \in 0 .. FetchesPerPortal
    BY <1>2 DEF BackendPortal, FetchesPerPortal
  <1>9. /\ portal # None => Left(0) \in BackendState
        /\ portal # None /\ portal.left # 0 => Left(portal.left - 1) \in BackendState
    BY <1>7, <1>8
  <1> HIDE DEF row, done, Left
  <1> QED
    BY <1>3, <1>5, <1>6, <1>9, ExtendedErrorTyped
    DEF ServeExecute, Answer, WellServed, row, done, Left

\* The backend's answer to a Close is well typed.
LEMMA ServeCloseTyped ==
  ASSUME NEW b \in BackendState, NEW m \in Message, m.tag = "Close"
  PROVE  WellServed(ServeClose(b, m))
  <1> DEFINE remaining == [p \in Portals |->
                IF b.portals[p] # None /\ b.portals[p].from = m.target.name
                THEN None ELSE b.portals[p]]
             s1 == [b EXCEPT !.statements[m.target.name] = None]
  <1>1. m.target \in Target
    BY DEF Message
  <1>2. << Plain("CloseComplete") >> \in Seq(Reply)
    BY PlainTyped DEF PlainTags
  <1>3. CASE m.target.kind = "portal"
    <2>1. m.target.name \in Portals
      BY <1>1, <1>3 DEF Target
    <2>2. [b EXCEPT !.portals[m.target.name] = None] \in BackendState
      BY <2>1, BackendTyped, BackendUpdateTyped DEF Option
    <2> QED
      BY <1>2, <1>3, <2>2 DEF ServeClose, Answer, WellServed
  <1>4. CASE m.target.kind # "portal"
    <2>1. m.target.name \in Statements
      BY <1>1, <1>4 DEF Target
    <2>2. s1 \in BackendState
      BY <2>1, BackendTyped, BackendUpdateTyped DEF Option
    <2>3. s1.portals = b.portals
      BY DEF BackendState
    <2> HIDE DEF s1
    <2>4. remaining \in [Portals -> Option(BackendPortal)]
      BY BackendTyped DEF Option
    <2> HIDE DEF remaining
    <2>5. [s1 EXCEPT !.portals = remaining] \in BackendState
      BY <2>2, <2>4, BackendUpdateTyped
    <2> QED
      BY <1>2, <1>4, <2>3, <2>5 DEF ServeClose, Answer, WellServed, s1, remaining
  <1> QED
    BY <1>3, <1>4

\* The backend's answer to a Sync is well typed.
LEMMA ServeSyncTyped ==
  ASSUME NEW b \in BackendState
  PROVE  WellServed(ServeSync(b))
  <1>1. NoPortals \in [Portals -> Option(BackendPortal)]
    BY DEF NoPortals, Option
  <1>2. [b EXCEPT !.skipping = FALSE,
                  !.portals = IF b.txn = "I" THEN NoPortals ELSE @] \in BackendState
    BY <1>1 DEF BackendState
  <1>3. << Ready(b.txn) >> \in Seq(Reply)
    BY BackendTyped, ReadyTyped
  <1> QED
    BY <1>2, <1>3 DEF ServeSync, Answer, WellServed

\* The backend's answer to a Query is well typed.
LEMMA ServeQueryTyped ==
  ASSUME NEW b \in BackendState, NEW m \in Message, m.tag = "Query"
  PROVE  WellServed(ServeQuery(b, m))
  <1> DEFINE kind == IF Blocked(b, m.sql) THEN "parse_error" ELSE Kind[m.sql]
             dropped == [b EXCEPT !.statements[UnnamedStatement] = None,
                                  !.portals[UnnamedPortal] = None]
             txn == IF kind = "begin" THEN "T" ELSE IF kind = "commit" THEN "I" ELSE b.txn
             kept == IF txn = "I" THEN NoPortals ELSE dropped.portals
             ended == [dropped EXCEPT !.txn = txn, !.portals = kept]
             failed == Fail(dropped)
             Shape(tag, fields) == Shaped(tag, fields, m.sql, "text")
             Result(fields) == << Shape("RowDescription", fields), Shape("DataRow", fields),
                                  Plain("CommandComplete") >>
             results == Results[m.sql]
             rows == IF Len(results) = 1
                     THEN Result(results[1])
                     ELSE Result(results[1]) \o Result(results[2])
  <1>1. m.sql \in Sqls
    BY DEF Message
  <1>2. kind \in Kinds
    BY <1>1, PostgresAssumption DEF Kinds
  <1>3. dropped \in BackendState
    <2> DEFINE s1 == [b EXCEPT !.statements[UnnamedStatement] = None]
    <2>1. s1 \in BackendState
      BY BackendTyped, BackendUpdateTyped, PostgresAssumption DEF Option
    <2> HIDE DEF s1
    <2>2. [s1 EXCEPT !.portals[UnnamedPortal] = None] \in BackendState
      BY <2>1, BackendTyped, BackendUpdateTyped, PostgresAssumption DEF Option
    <2> QED
      BY <2>2 DEF s1
  <1>4. txn \in {"I", "T", "E"}
    BY BackendTyped
  <1>5. NoPortals \in [Portals -> Option(BackendPortal)]
    BY DEF NoPortals, Option
  <1> HIDE DEF dropped, txn
  <1>6. ended \in BackendState
    <2> DEFINE s1 == [dropped EXCEPT !.txn = txn]
    <2>1. s1 \in BackendState
      BY <1>3, <1>4, BackendUpdateTyped
    <2>2. kept \in [Portals -> Option(BackendPortal)]
      BY <1>3, <1>5, BackendTyped
    <2> HIDE DEF s1, kept
    <2>3. [s1 EXCEPT !.portals = kept] \in BackendState
      BY <2>1, <2>2, BackendUpdateTyped
    <2> QED
      BY <2>3 DEF s1
  <1>7. failed \in BackendState /\ failed.txn \in {"I", "T", "E"}
    BY <1>3, ExtendedErrorTyped, BackendTyped
  <1> HIDE DEF failed, kind
  <1>8. /\ Plain("CommandComplete") \in Reply
        /\ Plain("EmptyQueryResponse") \in Reply
        /\ Plain("ErrorResponse") \in Reply
    BY PlainTyped DEF PlainTags
  <1>9. Ready(txn) \in Reply /\ Ready(failed.txn) \in Reply
    BY <1>4, <1>7, ReadyTyped
  <1>10. \A fields \in Sqls : /\ Shape("RowDescription", fields) \in Reply
                              /\ Shape("DataRow", fields) \in Reply
    BY <1>1, ShapedTyped, PostgresAssumption
  <1> HIDE DEF Shape
  <1>11. \A fields \in Sqls : Result(fields) \in Seq(Reply)
    BY <1>8, <1>10
  <1> HIDE DEF Result
  <1>12. ASSUME kind \in {"rows", "run_error"}
         PROVE  results[1] \in Sqls /\ (Len(results) # 1 => results[2] \in Sqls)
    <2>1. kind = Kind[m.sql]
      BY <1>12 DEF kind
    <2>2. results \in Seq(Sqls) /\ Len(results) > 0 /\ Len(results) <= 2
      BY <1>1, <1>12, <2>1, PostgresAssumption
    <2> HIDE DEF results
    <2>3. DOMAIN results = 1 .. Len(results) /\ Len(results) \in Nat
      BY <2>2
    <2>4. \A i \in DOMAIN results : results[i] \in Sqls
      BY <2>2
    <2> QED
      BY <2>2, <2>3, <2>4
  <1> HIDE DEF results
  <1>13. kind = "rows" => rows \o << Ready(txn) >> \in Seq(Reply)
    <2>1. kind = "rows" => rows \in Seq(Reply)
      BY <1>11, <1>12
    <2> HIDE DEF rows
    <2> QED
      BY <1>9, <2>1
  <1>14. kind = "run_error" => << Shape("RowDescription", results[1]), Plain("ErrorResponse"),
                                  Ready(failed.txn) >> \in Seq(Reply)
    BY <1>8, <1>9, <1>10, <1>12
  <1>15. /\ << Plain("EmptyQueryResponse"), Ready(txn) >> \in Seq(Reply)
         /\ << Plain("ErrorResponse"), Ready(failed.txn) >> \in Seq(Reply)
         /\ << Plain("CommandComplete"), Ready(txn) >> \in Seq(Reply)
    BY <1>8, <1>9
  <1> HIDE DEF ended, rows
  <1>16. ServeQuery(b, m) =
            CASE kind = "rows" -> Answer(ended, rows \o << Ready(txn) >>)
              [] kind = "empty" -> Answer(ended, << Plain("EmptyQueryResponse"), Ready(txn) >>)
              [] kind = "parse_error" ->
                    Answer(failed, << Plain("ErrorResponse"), Ready(failed.txn) >>)
              [] kind = "run_error" ->
                    Answer(failed, << Shape("RowDescription", results[1]), Plain("ErrorResponse"),
                                      Ready(failed.txn) >>)
              [] OTHER -> Answer(ended, << Plain("CommandComplete"), Ready(txn) >>)
    BY DEF ServeQuery, kind, dropped, txn, ended, failed, Shape, Result, results, rows
  <1> QED
    BY <1>6, <1>7, <1>13, <1>14, <1>15, <1>16 DEF Answer, WellServed

\* Whatever the client sends, the backend's state and replies are well typed.
LEMMA ServeTyped ==
  ASSUME NEW b \in BackendState, NEW m \in Message
  PROVE  WellServed(Serve(b, m))
  <1>1. m.tag \in {"Query", "Parse", "Bind", "Describe", "Close", "Execute", "Sync"}
    BY DEF Message
  <1>2. WellServed(Answer(b, << >>))
    BY DEF WellServed, Answer
  <1> QED
    BY <1>1, <1>2, ServeQueryTyped, ServeParseTyped, ServeBindTyped, ServeDescribeTyped,
       ServeExecuteTyped, ServeCloseTyped, ServeSyncTyped
    DEF Serve

-----------------------------------------------------------------------------
(* Every step keeps the types and the order of the queues.                 *)

IInv == TypeOK /\ QueuesInOrder

\* What IInv says of the session's plan state.
Good(ps) == ps \in State /\ Ordered(ps)

\* A new session satisfies the inductive invariant.
LEMMA InitGood == Init => IInv
  <1>1. Default \in State /\ Ordered(Default)
    BY DefaultTyped, DefaultOrdered
  <1>2. FreshBackend \in BackendState
    BY DEF FreshBackend, BackendState, Option
  <1> QED
    BY <1>1, <1>2 DEF Init, IInv, TypeOK, QueuesInOrder, Option

\* sync_policy leaves a well-typed plan state with its queues in order.
LEMMA SyncedGood ==
  ASSUME IInv
  PROVE  Good(Synced)
  BY InvalidateIfStaleTyped, InvalidateIfStaleOrdered
  DEF IInv, TypeOK, QueuesInOrder, Good, Synced

\* Dating the rows of an answer changes neither their number nor their type.
LEMMA ForwardGood ==
  ASSUME IInv, NEW m \in Message, NEW ps, Good(ps), Forward(m, ps)
  PROVE  /\ Good(plans') /\ db' \in BackendState /\ wire' \in Seq(Reply)
         /\ suppressing' \in Option(Nat) /\ txn_status' \in {"I", "T", "E"}
         /\ generation' \in Nat
  <1> DEFINE answer == Serve(db, m)
             Dated(r) == IF r.tag = "DataRow" THEN [r EXCEPT !.since = generation] ELSE r
             old == answer.replies
             dated == [i \in DOMAIN old |-> Dated(old[i])]
  <1>1. answer.db \in BackendState /\ old \in Seq(Reply)
    BY ServeTyped DEF WellServed, IInv, TypeOK
  <1>2. \A r \in Reply : Dated(r) \in Reply
    BY DEF Reply, IInv, TypeOK, PlainTags
  <1> HIDE DEF answer, Dated
  <1>3. dated \in Seq(Reply)
    <2>1. Len(old) \in Nat /\ DOMAIN old = 1 .. Len(old) /\ \A i \in DOMAIN old : old[i] \in Reply
      BY <1>1
    <2>2. dated \in [1 .. Len(old) -> Reply]
      BY <1>2, <2>1
    <2> QED
      BY <2>1, <2>2
  <1>4. plans' = ps /\ db' = answer.db /\ wire' = wire \o dated
          /\ UNCHANGED << suppressing, txn_status, generation >>
    BY DEF Forward, answer, Dated
  <1> HIDE DEF dated
  <1>5. wire' \in Seq(Reply)
    BY <1>3, <1>4 DEF IInv, TypeOK
  <1> QED
    BY <1>1, <1>4, <1>5 DEF IInv, TypeOK

\* What is left of IInv' once the bookkeeping of the client is done.
LEMMA SendsGood ==
  ASSUME IInv, NEW m, NEW ready \in {0, 1}, Sends(m, ready)
  PROVE  /\ sent' \in Nat /\ open' \in {"none", "exchange", "query"} /\ owed' \in Int
         /\ scenario' \in Scenarios
  BY DEF Sends, IInv, TypeOK

\* A refusal leaves the backend alone.
LEMMA RefuseGood ==
  ASSUME IInv, NEW m, Refuse(m)
  PROVE  /\ Good(plans') /\ db' \in BackendState /\ wire' \in Seq(Reply)
         /\ suppressing' \in Option(Nat) /\ txn_status' \in {"I", "T", "E"}
         /\ generation' \in Nat
  BY SyncedGood DEF Refuse, IInv, TypeOK

\* Each kind of frontend message, forwarded or refused.
LEMMA FrontendGood ==
  ASSUME IInv, HandleFrontend
  PROVE  IInv'
  <1> DEFINE Served == /\ Good(plans') /\ db' \in BackendState /\ wire' \in Seq(Reply)
                       /\ suppressing' \in Option(Nat) /\ txn_status' \in {"I", "T", "E"}
                       /\ generation' \in Nat
             Counted == /\ sent' \in Nat /\ open' \in {"none", "exchange", "query"}
                        /\ owed' \in Int /\ limited' \in Nat /\ scenario' \in Scenarios
  <1>1. PICK m \in Menu[scenario] : \/ FrontendQuery(m) \/ FrontendParse(m) \/ FrontendBind(m)
                          \/ FrontendDescribe(m) \/ FrontendClose(m) \/ FrontendExecute(m)
                          \/ FrontendSync(m)
    BY DEF HandleFrontend
  <1>2. m \in Message
    BY SessionAssumption DEF IInv, TypeOK
  <1>3. Good(Synced) /\ Synced \in State /\ Ordered(Synced) /\ limited \in Nat
    BY SyncedGood DEF Good, IInv, TypeOK
  <1>4. ASSUME Served, Counted PROVE IInv'
    BY <1>4 DEF IInv, TypeOK, QueuesInOrder, Good
  <1>5. Refuse(m) => Served
    BY RefuseGood
  <1>6. \A ps : Good(ps) /\ Forward(m, ps) => Served
    BY <1>2, ForwardGood
  <1>7. \A ready \in {0, 1} : Sends(m, ready) /\ limited' \in Nat => Counted
    BY SendsGood
  <1> HIDE DEF Served, Counted
  <1>8. CASE FrontendQuery(m)
    <2> DEFINE sql == IF m.sql \in Decodable THEN m.sql ELSE None
    <2>1. sql \in Option(Sqls)
      BY SessionAssumption DEF Option
    <2> HIDE DEF sql
    <2>2. Good(BeginSimpleQuery(Synced, sql))
      BY <1>3, <2>1, BeginSimpleQueryTyped, BeginSimpleQueryOrdered DEF Good
    <2>3. /\ Refuse(m) \/ Forward(m, BeginSimpleQuery(Synced, sql))
          /\ Sends(m, 0) \/ Sends(m, 1)
          /\ limited' = limited \/ limited' = limited + 1
      BY <1>8 DEF FrontendQuery, sql
    <2> QED
      BY <1>3, <1>4, <1>5, <1>6, <1>7, <2>2, <2>3
  <1>9. CASE FrontendParse(m)
    <2>1. m.tag = "Parse" /\ Sends(m, 0) /\ limited' = limited
      BY <1>9 DEF FrontendParse
    <2>2. m.name \in Statements /\ m.sql \in Sqls
      BY <1>2, <2>1 DEF Message
    <2>3. Good(ParseStatement(Synced, m.name, m.sql))
      BY <1>3, <2>2, ParseStatementTyped, ParseStatementOrdered DEF Good
    <2>4. Refuse(m) \/ Forward(m, ParseStatement(Synced, m.name, m.sql)) \/ Forward(m, Synced)
      BY <1>9 DEF FrontendParse
    <2> QED
      BY <1>3, <1>4, <1>5, <1>6, <1>7, <2>1, <2>3, <2>4
  <1>10. CASE FrontendBind(m)
    <2>1. m.tag = "Bind" /\ Sends(m, 0) /\ limited' = limited
            /\ Forward(m, Bind(Synced, m.portal, m.statement, m.formats))
      BY <1>10 DEF FrontendBind
    <2>2. m.portal \in Portals /\ m.statement \in Statements /\ m.formats \in Formats
      BY <1>2, <2>1 DEF Message
    <2>3. Good(Bind(Synced, m.portal, m.statement, m.formats))
      BY <1>3, <2>2, BindTyped, BindOrdered DEF Good
    <2> QED
      BY <1>3, <1>4, <1>6, <1>7, <2>1, <2>3
  <1>11. CASE FrontendDescribe(m)
    <2>1. m.tag = "Describe" /\ Sends(m, 0) /\ limited' = limited
            /\ Forward(m, Describe(Synced, m.target))
      BY <1>11 DEF FrontendDescribe
    <2>2. m.target \in Target
      BY <1>2, <2>1 DEF Message
    <2>3. Good(Describe(Synced, m.target))
      BY <1>3, <2>2, DescribeTyped, DescribeOrdered DEF Good
    <2> QED
      BY <1>3, <1>4, <1>6, <1>7, <2>1, <2>3
  <1>12. CASE FrontendClose(m)
    <2>1. m.tag = "Close" /\ Sends(m, 0) /\ limited' = limited
            /\ Forward(m, Close(Synced, m.target))
      BY <1>12 DEF FrontendClose
    <2>2. m.target \in Target
      BY <1>2, <2>1 DEF Message
    <2>3. Good(Close(Synced, m.target))
      BY <1>3, <2>2, CloseTyped, CloseOrdered DEF Good
    <2> QED
      BY <1>3, <1>4, <1>6, <1>7, <2>1, <2>3
  <1>13. CASE FrontendExecute(m)
    <2>1. m.tag = "Execute" /\ Sends(m, 0) /\ (limited' = limited \/ limited' = limited + 1)
            /\ (Refuse(m) \/ Forward(m, Execute(Synced, m.portal)))
      BY <1>13 DEF FrontendExecute
    <2>2. m.portal \in Portals
      BY <1>2, <2>1 DEF Message
    <2>3. Good(Execute(Synced, m.portal))
      BY <1>3, <2>2, ExecuteTyped, ExecuteOrdered DEF Good
    <2> QED
      BY <1>3, <1>4, <1>5, <1>6, <1>7, <2>1, <2>3
  <1>14. CASE FrontendSync(m)
    <2>1. Sends(m, 1) /\ limited' = limited /\ Forward(m, Sync(Synced))
      BY <1>14 DEF FrontendSync
    <2>2. Good(Sync(Synced))
      BY <1>3, SyncTyped, SyncOrdered DEF Good
    <2> QED
      BY <1>3, <1>4, <1>6, <1>7, <2>1, <2>2
  <1> QED
    BY <1>1, <1>8, <1>9, <1>10, <1>11, <1>12, <1>13, <1>14

\* reject keeps the state good and suppresses a real epoch.
LEMMA RejectGood ==
  ASSUME IInv, NEW ps, Good(ps), Reject(ps)
  PROVE  /\ Good(plans') /\ suppressing' \in Option(Nat)
         /\ UNCHANGED << txn_status, owed >>
  BY RejectionEpochTyped, ClearActiveTyped, ClearActiveOrdered DEF Reject, Good, Option

\* Each arm of handle_backend, forwarding, swallowing or rejecting.
LEMMA BackendGood ==
  ASSUME IInv, HandleBackend
  PROVE  IInv'
  <1> DEFINE Outcome == Good(plans') /\ suppressing' \in Option(Nat)
                          /\ UNCHANGED << txn_status, owed >>
             Read == wire' = Tail(wire) /\ wire # << >>
                       /\ UNCHANGED << scenario, generation, db, sent, open, limited >>
  <1>1. Good(plans) /\ plans \in State /\ Ordered(plans) /\ wire \in Seq(Reply)
          /\ suppressing \in Option(Nat)
    BY DEF Good, IInv, TypeOK, QueuesInOrder
  <1>2. wire # << >> => Tail(wire) \in Seq(Reply) /\ Head(wire) \in Reply
    BY <1>1
  <1>3. ASSUME Outcome, Read PROVE IInv'
    BY <1>2, <1>3 DEF IInv, TypeOK, QueuesInOrder, Good
  <1>4. \A tag : Reads(tag) => Read
    BY DEF Reads
  <1>5. \A ps : Good(ps) /\ Relays(ps) => Outcome
    BY <1>1 DEF Relays
  <1>6. \A ps : Good(ps) /\ Reject(ps) => Outcome
    BY RejectGood
  <1> HIDE DEF Outcome, Read
  <1>7. CASE Suppressed
    BY <1>1, <1>2, <1>7 DEF Suppressed, IInv, TypeOK, QueuesInOrder, Good
  <1>8. CASE BackendReady
    <2> DEFINE status == Head(wire).status
    <2>1. wire # << >> /\ Head(wire).tag = "ReadyForQuery"
      BY <1>8 DEF BackendReady
    <2>2. status \in {"I", "T", "E"}
      BY <1>2, <2>1 DEF Reply, PlainTags
    <2>3. Good(FinishSuppressedEpoch(plans, suppressing)) /\ Good(ReadyForQuery(plans, status))
      BY <1>1, FinishSuppressedEpochTyped, FinishSuppressedEpochOrdered,
         ReadyForQueryTyped, ReadyForQueryOrdered DEF Good
    <2>4. /\ plans' \in {FinishSuppressedEpoch(plans, suppressing), ReadyForQuery(plans, status)}
          /\ suppressing' = None /\ txn_status' = status /\ wire' = Tail(wire)
          /\ owed' = owed - 1 /\ open' \in {"none", open}
          /\ UNCHANGED << scenario, generation, db, sent, limited >>
      BY <1>8 DEF BackendReady
    <2>5. Good(plans')
      BY <2>3, <2>4
    <2> QED
      BY <1>2, <2>1, <2>2, <2>4, <2>5 DEF IInv, TypeOK, QueuesInOrder, Good, Option
  <1>9. CASE BackendRowDescription
    <2>1. Reads("RowDescription")
      BY <1>9 DEF BackendRowDescription
    <2>2. Head(wire) \in Reply /\ Head(wire).tag = "RowDescription"
      BY <1>2, <2>1 DEF Reads
    <2>3. Good(Synced) /\ Synced \in State /\ Ordered(Synced)
      BY SyncedGood DEF Good
    <2>4. Good(DiscardDescription(Synced))
      BY <2>3, DiscardDescriptionTyped, DiscardDescriptionOrdered DEF Good
    <2>5. PlanFor(Synced, Head(wire)) \in Plan
      <3>1. Head(wire).fields \in Sqls /\ Head(wire).format \in Formats
        BY <2>2 DEF Reply, PlainTags
      <3>2. DescribedSql(Synced) \in Option(Sqls) /\ generation \in Nat
        BY <2>3, DescribedSqlTyped DEF IInv, TypeOK
      <3> QED
        BY <3>1, <3>2 DEF PlanFor, Plan
    <2>6. Synced.pending_descriptions = plans.pending_descriptions
      BY <1>1 DEF Synced, InvalidateIfStale, State
    <2>7. plans.pending_descriptions # << >> =>
             Good(FinishDescription(Synced, PlanFor(Synced, Head(wire))))
      BY <2>3, <2>5, <2>6, FinishDescriptionTyped, FinishDescriptionOrdered DEF Good
    <2>8. \/ Reject(DiscardDescription(Synced)) \/ Reject(Synced)
          \/ /\ plans.pending_descriptions # << >>
             /\ Relays(FinishDescription(Synced, PlanFor(Synced, Head(wire))))
      BY <1>9 DEF BackendRowDescription
    <2> QED
      BY <1>3, <1>4, <1>5, <1>6, <2>1, <2>3, <2>4, <2>7, <2>8
  <1>10. CASE BackendDataRow
    <2>1. Reads("DataRow")
      BY <1>10 DEF BackendDataRow
    <2>2. Reject(plans) \/ UNCHANGED << plans, suppressing, txn_status, owed >>
      BY <1>10 DEF BackendDataRow
    <2>3. UNCHANGED << plans, suppressing, txn_status, owed >> => Outcome
      BY <1>1 DEF Outcome
    <2> QED
      BY <1>1, <1>3, <1>4, <1>6, <2>1, <2>2, <2>3
  <1>11. CASE BackendParseComplete
    <2>1. Good(FinishParse(plans))
      BY <1>1, FinishParseTyped, FinishParseOrdered DEF Good
    <2> QED
      BY <1>3, <1>4, <1>5, <1>11, <2>1 DEF BackendParseComplete
  <1>12. CASE BackendBindComplete
    <2>1. Good(FinishBind(plans))
      BY <1>1, FinishBindTyped, FinishBindOrdered DEF Good
    <2> QED
      BY <1>3, <1>4, <1>5, <1>12, <2>1 DEF BackendBindComplete
  <1>13. CASE BackendCloseComplete
    BY <1>1, <1>3, <1>4, <1>5, <1>13 DEF BackendCloseComplete
  <1>14. CASE BackendCommandComplete
    <2>1. Good(FinishResultSet(plans))
      BY <1>1, FinishResultSetTyped, FinishResultSetOrdered DEF Good
    <2> QED
      BY <1>3, <1>4, <1>5, <1>14, <2>1 DEF BackendCommandComplete
  <1>15. CASE BackendPortalSuspended
    <2>1. Good(SuspendResult(plans))
      BY <1>1, SuspendResultTyped, SuspendResultOrdered DEF Good
    <2> QED
      BY <1>3, <1>4, <1>5, <1>15, <2>1 DEF BackendPortalSuspended
  <1>16. CASE BackendErrorResponse
    <2>1. Good(DiscardFailedEpoch(plans))
      BY <1>1, DiscardFailedEpochTyped, DiscardFailedEpochOrdered DEF Good
    <2> QED
      BY <1>3, <1>4, <1>5, <1>16, <2>1 DEF BackendErrorResponse
  <1>17. CASE BackendNoData
    <2>1. HeadIs(plans, "describe") => Good(FinishNoData(plans))
      BY <1>1, FinishNoDataTyped, FinishNoDataOrdered DEF Good
    <2> QED
      BY <1>1, <1>3, <1>4, <1>5, <1>6, <1>17, <2>1 DEF BackendNoData
  <1>18. CASE BackendEmptyQueryResponse
    <2>1. HeadIs(plans, "simple") => Good(FinishEmptyQuery(plans))
      BY <1>1, FinishEmptyQueryTyped, FinishEmptyQueryOrdered DEF Good
    <2> QED
      BY <1>1, <1>3, <1>4, <1>5, <1>6, <1>18, <2>1 DEF BackendEmptyQueryResponse
  <1> QED
    BY <1>7, <1>8, <1>9, <1>10, <1>11, <1>12, <1>13, <1>14, <1>15, <1>16, <1>17, <1>18
    DEF HandleBackend

\* Every step of a session keeps the inductive invariant.
LEMMA NextGood ==
  ASSUME IInv, [Next]_vars
  PROVE  IInv'
  <1>1. CASE PolicyMoves
    BY <1>1 DEF PolicyMoves, IInv, TypeOK, QueuesInOrder
  <1>2. CASE UNCHANGED vars
    BY <1>2 DEF vars, IInv, TypeOK, QueuesInOrder
  <1> QED
    BY <1>1, <1>2, FrontendGood, BackendGood DEF Next

\* The inductive invariant holds in every reachable state.
LEMMA Invariance == Spec => []IInv
  <1>1. Init => IInv
    BY InitGood
  <1>2. IInv /\ [Next]_vars => IInv'
    BY NextGood
  <1> QED
    BY <1>1, <1>2, PTL DEF Spec

\* Whatever the client sends and whenever the backend's answers are read, the
\* session's plan state, the backend and the wire between them stay well typed.
THEOREM TypeCorrect == Spec => []TypeOK
  BY Invariance, PTL DEF IInv

\* A client with any habits, even one that pipelines after an error or leaves
\* portals paused, cannot get the queues of pending answers out of order.
THEOREM QueuesStayInOrder == Spec => []QueuesInOrder
  BY Invariance, PTL DEF IInv

-----------------------------------------------------------------------------
(* Generations of a binding.                                               *)

\* Calls that leave every binding's generation alone.
LEMMA GenerationsKept ==
  ASSUME NEW ps \in State
  PROVE  /\ \A current : InvalidateIfStale(ps, current).portal_bind_generations
                            = ps.portal_bind_generations
         /\ ClearActive(ps).portal_bind_generations = ps.portal_bind_generations
         /\ \A sql : BeginSimpleQuery(ps, sql).portal_bind_generations
                        = ps.portal_bind_generations
         /\ \A target : Describe(ps, target).portal_bind_generations = ps.portal_bind_generations
         /\ \A target : Close(ps, target).portal_bind_generations = ps.portal_bind_generations
         /\ \A portal : Execute(ps, portal).portal_bind_generations = ps.portal_bind_generations
         /\ Sync(ps).portal_bind_generations = ps.portal_bind_generations
         /\ FinishParse(ps).portal_bind_generations = ps.portal_bind_generations
         /\ FinishBind(ps).portal_bind_generations = ps.portal_bind_generations
         /\ SuspendResult(ps).portal_bind_generations = ps.portal_bind_generations
         /\ \A status : ReadyForQuery(ps, status).portal_bind_generations
                          = ps.portal_bind_generations
         /\ FinishResultSet(ps).portal_bind_generations = ps.portal_bind_generations
         /\ \A epoch : FinishSuppressedEpoch(ps, epoch).portal_bind_generations
                         = ps.portal_bind_generations
         /\ DiscardFailedEpoch(ps).portal_bind_generations = ps.portal_bind_generations
         /\ FinishNoData(ps).portal_bind_generations = ps.portal_bind_generations
         /\ FinishEmptyQuery(ps).portal_bind_generations = ps.portal_bind_generations
         /\ DiscardDescription(ps).portal_bind_generations = ps.portal_bind_generations
         /\ \A plan : FinishDescription(ps, plan).portal_bind_generations
                        = ps.portal_bind_generations
  <1>1. \A current : InvalidateIfStale(ps, current).portal_bind_generations = ps.portal_bind_generations
    BY DEF InvalidateIfStale, State
  <1>2. ClearActive(ps).portal_bind_generations = ps.portal_bind_generations
    BY DEF ClearActive, State
  <1>3. \A sql : BeginSimpleQuery(ps, sql).portal_bind_generations = ps.portal_bind_generations
    BY DEF BeginSimpleQuery, ClearActive, State
  <1>4. \A target : Describe(ps, target).portal_bind_generations = ps.portal_bind_generations
    BY DEF Describe, State
  <1>5. \A target : Close(ps, target).portal_bind_generations = ps.portal_bind_generations
    BY DEF Close, State
  <1>6. \A portal : Execute(ps, portal).portal_bind_generations = ps.portal_bind_generations
    BY DEF Execute, QueueExecute, State
  <1>7. Sync(ps).portal_bind_generations = ps.portal_bind_generations
    BY DEF Sync, State
  <1>8. FinishParse(ps).portal_bind_generations = ps.portal_bind_generations
    BY DEF FinishParse, State
  <1>9. FinishBind(ps).portal_bind_generations = ps.portal_bind_generations
    BY DEF FinishBind, InstallPortalPlans, State
  <1>10. SuspendResult(ps).portal_bind_generations = ps.portal_bind_generations
    BY DEF SuspendResult, State
  <1>11. \A status : ReadyForQuery(ps, status).portal_bind_generations = ps.portal_bind_generations
    BY DEF ReadyForQuery, State
  <1>12. FinishResultSet(ps).portal_bind_generations = ps.portal_bind_generations
    BY DEF FinishResultSet, State
  <1>13. \A epoch : FinishSuppressedEpoch(ps, epoch).portal_bind_generations = ps.portal_bind_generations
    BY DEF FinishSuppressedEpoch, State
  <1>14. DiscardFailedEpoch(ps).portal_bind_generations = ps.portal_bind_generations
    BY DEF DiscardFailedEpoch, State
  <1>15. FinishNoData(ps).portal_bind_generations = ps.portal_bind_generations
    BY DEF FinishNoData, State
  <1>16. FinishEmptyQuery(ps).portal_bind_generations = ps.portal_bind_generations
    BY DEF FinishEmptyQuery, State
  <1>17. DiscardDescription(ps).portal_bind_generations = ps.portal_bind_generations
    BY DEF DiscardDescription, State
  <1>18. \A plan : FinishDescription(ps, plan).portal_bind_generations = ps.portal_bind_generations
    BY DEF FinishDescription, InstallPortalPlans, State
  <1> QED
    BY <1>1, <1>2, <1>3, <1>4, <1>5, <1>6, <1>7, <1>8, <1>9, <1>10,
       <1>11, <1>12, <1>13, <1>14, <1>15, <1>16, <1>17, <1>18

\* Bind moves the generation of its portal only.
LEMMA BindGeneration ==
  ASSUME NEW ps \in State, NEW portal \in Portals, NEW statement, NEW formats,
         NEW p \in Portals
  PROVE  Bind(ps, portal, statement, formats).portal_bind_generations[p] =
            IF p = portal THEN BumpedGeneration(ps, portal) ELSE ps.portal_bind_generations[p]
  <1> DEFINE generationOf == BumpedGeneration(ps, portal)
  <1>1. ps.portal_bind_generations \in [Portals -> Nat]
    BY FieldsTyped
  <1> HIDE DEF generationOf
  <1>2. Bind(ps, portal, statement, formats).portal_bind_generations =
            [ps.portal_bind_generations EXCEPT ![portal] = generationOf]
    BY DEF Bind, InstallPortalPlans, State, generationOf
  <1> QED
    BY <1>1, <1>2 DEF generationOf

Fresh ==
    \A p \in Portals :
        plans'.portal_bind_generations[p] > plans.portal_bind_generations[p] =>
            plans'.portal_bind_generations[p] \notin HeldGenerations(plans, p)

\* Only Bind raises a generation, past every one that is held.
LEMMA StepFresh ==
  ASSUME IInv, [Next]_vars
  PROVE  [Fresh]_vars
  <1> DEFINE kept == plans.portal_bind_generations
  <1>1. plans \in State /\ Synced \in State
    BY SyncedGood DEF Good, IInv, TypeOK
  <1>2. kept \in [Portals -> Nat]
    BY <1>1, FieldsTyped
  <1>3. plans'.portal_bind_generations = kept => Fresh
    BY <1>2 DEF Fresh
  <1>4. /\ Synced.portal_bind_generations = kept
        /\ Synced.pending_executes = plans.pending_executes
    BY <1>1 DEF Synced, InvalidateIfStale, State
  <1>5. ASSUME HandleFrontend PROVE Fresh
    <2>1. PICK m \in Menu[scenario] : \/ FrontendQuery(m) \/ FrontendParse(m) \/ FrontendBind(m)
                            \/ FrontendDescribe(m) \/ FrontendClose(m) \/ FrontendExecute(m)
                            \/ FrontendSync(m)
      BY <1>5 DEF HandleFrontend
    <2>2. m \in Message
      BY SessionAssumption DEF IInv, TypeOK
    <2>3. Refuse(m) => plans' = Synced
      BY DEF Refuse
    <2>4. \A ps : Forward(m, ps) => plans' = ps
      BY DEF Forward
    <2>5. CASE FrontendQuery(m)
      <3>1. \/ Refuse(m)
            \/ \E sql : Forward(m, BeginSimpleQuery(Synced, sql))
        BY <2>5 DEF FrontendQuery
      <3> QED
        BY <1>1, <1>3, <1>4, <2>3, <2>4, <3>1, GenerationsKept
    <2>6. CASE FrontendParse(m)
      <3>1. m.tag = "Parse"
        BY <2>6 DEF FrontendParse
      <3>2. m.name \in Statements /\ m.sql \in Sqls
        BY <2>2, <3>1 DEF Message
      <3>3. plans' = Synced \/ plans' = ParseStatement(Synced, m.name, m.sql)
        BY <2>3, <2>4, <2>6 DEF FrontendParse
      <3>4. \A p \in Portals :
               ParseStatement(Synced, m.name, m.sql).portal_bind_generations[p] \in {0, kept[p]}
        BY <1>1, <1>4 DEF ParseStatement, State
      <3>5. CASE plans' = Synced
        BY <1>3, <1>4, <3>5
      <3>6. CASE plans' = ParseStatement(Synced, m.name, m.sql)
        <4>1. \A p \in Portals : ~(plans'.portal_bind_generations[p] > kept[p])
          BY <1>2, <3>4, <3>6
        <4> QED
          BY <4>1 DEF Fresh
      <3> QED
        BY <3>3, <3>5, <3>6
    <2>7. CASE FrontendBind(m)
      <3>1. m.tag = "Bind" /\ plans' = Bind(Synced, m.portal, m.statement, m.formats)
        BY <2>4, <2>7 DEF FrontendBind
      <3>2. m.portal \in Portals
        BY <2>2, <3>1 DEF Message
      <3>3. BumpedGeneration(Synced, m.portal) \notin HeldGenerations(Synced, m.portal)
        BY <1>1, <3>2, FieldsTyped, BumpIsFresh
      <3>4. HeldGenerations(Synced, m.portal) = HeldGenerations(plans, m.portal)
        BY <1>4 DEF HeldGenerations
      <3>5. \A p \in Portals : plans'.portal_bind_generations[p] =
                IF p = m.portal THEN BumpedGeneration(Synced, m.portal) ELSE kept[p]
        BY <1>1, <1>4, <3>1, <3>2, BindGeneration
      <3>6. \A p \in Portals : ~(kept[p] > kept[p])
        BY <1>2
      <3> QED
        BY <3>3, <3>4, <3>5, <3>6 DEF Fresh
    <2>8. CASE FrontendDescribe(m)
      BY <1>1, <1>3, <1>4, <2>4, <2>8, GenerationsKept DEF FrontendDescribe
    <2>9. CASE FrontendClose(m)
      BY <1>1, <1>3, <1>4, <2>4, <2>9, GenerationsKept DEF FrontendClose
    <2>10. CASE FrontendExecute(m)
      <3>1. Refuse(m) \/ Forward(m, Execute(Synced, m.portal))
        BY <2>10 DEF FrontendExecute
      <3> QED
        BY <1>1, <1>3, <1>4, <2>3, <2>4, <3>1, GenerationsKept
    <2>11. CASE FrontendSync(m)
      BY <1>1, <1>3, <1>4, <2>4, <2>11, GenerationsKept DEF FrontendSync
    <2> QED
      BY <2>1, <2>5, <2>6, <2>7, <2>8, <2>9, <2>10, <2>11
  <1>6. ASSUME HandleBackend PROVE Fresh
    <2>1. \A ps \in State : Reject(ps) => plans'.portal_bind_generations
                                            = ps.portal_bind_generations
      BY GenerationsKept DEF Reject
    <2>2. \A ps : Relays(ps) => plans' = ps
      BY DEF Relays
    <2>3. CASE Suppressed
      BY <1>3, <2>3 DEF Suppressed
    <2>4. CASE BackendReady
      <3>1. \/ plans' = FinishSuppressedEpoch(plans, suppressing)
            \/ plans' = ReadyForQuery(plans, Head(wire).status)
        BY <2>4 DEF BackendReady
      <3> QED
        BY <1>1, <1>3, <3>1, GenerationsKept
    <2>5. CASE BackendRowDescription
      <3>1. \/ Reject(DiscardDescription(Synced)) \/ Reject(Synced)
            \/ \E plan : Relays(FinishDescription(Synced, plan))
        BY <2>5 DEF BackendRowDescription
      <3>2. DiscardDescription(Synced) \in State
        BY <1>1, DiscardDescriptionTyped
      <3> QED
        BY <1>1, <1>3, <1>4, <2>1, <2>2, <3>1, <3>2, GenerationsKept
    <2>6. CASE BackendDataRow
      <3>1. Reject(plans) \/ plans' = plans
        BY <2>6 DEF BackendDataRow
      <3> QED
        BY <1>1, <1>3, <2>1, <3>1
    <2>7. CASE BackendParseComplete
      BY <1>1, <1>3, <2>2, <2>7, GenerationsKept DEF BackendParseComplete
    <2>8. CASE BackendBindComplete
      BY <1>1, <1>3, <2>2, <2>8, GenerationsKept DEF BackendBindComplete
    <2>9. CASE BackendCloseComplete
      BY <1>3, <2>2, <2>9 DEF BackendCloseComplete
    <2>10. CASE BackendCommandComplete
      BY <1>1, <1>3, <2>2, <2>10, GenerationsKept DEF BackendCommandComplete
    <2>11. CASE BackendPortalSuspended
      BY <1>1, <1>3, <2>2, <2>11, GenerationsKept DEF BackendPortalSuspended
    <2>12. CASE BackendErrorResponse
      BY <1>1, <1>3, <2>2, <2>12, GenerationsKept DEF BackendErrorResponse
    <2>13. CASE BackendNoData
      BY <1>1, <1>3, <2>1, <2>2, <2>13, GenerationsKept DEF BackendNoData
    <2>14. CASE BackendEmptyQueryResponse
      BY <1>1, <1>3, <2>1, <2>2, <2>14, GenerationsKept DEF BackendEmptyQueryResponse
    <2> QED
      BY <1>6, <2>3, <2>4, <2>5, <2>6, <2>7, <2>8, <2>9, <2>10, <2>11, <2>12, <2>13, <2>14
      DEF HandleBackend
  <1>7. PolicyMoves => Fresh
    BY <1>3 DEF PolicyMoves
  <1> QED
    BY <1>5, <1>6, <1>7 DEF Next

\* Whatever the client does with its names, no Bind takes a generation that an
\* unfinished Execute of an earlier binding of the portal still holds.
THEOREM BindingsAreFresh == Spec => RebindsAreFresh
  <1>1. IInv /\ [Next]_vars => [Fresh]_vars
    BY StepFresh
  <1>2. Spec => [][Fresh]_vars
    BY <1>1, Invariance, PTL DEF Spec
  <1> QED
    BY <1>2 DEF RebindsAreFresh, Fresh

-----------------------------------------------------------------------------
(* The ReadyForQuery the proxy answers a refused Query with.               *)

\* The places on the wire where an exchange ends.
Ends(replies) == {i \in DOMAIN replies : replies[i].tag = "ReadyForQuery"}

\* The status the client will have been told once the wire is read is the backend's.
Told(replies, before, b) ==
    IF Ends(replies) = {} THEN before = b.txn
    ELSE \A i \in Ends(replies) :
            (\A j \in Ends(replies) : j <= i) => replies[i].status = b.txn

\* Between exchanges, and while a lone query is answered, nothing is skipped and every
\* change of status is on its way in a ReadyForQuery.
ReadyInv ==
    /\ owed = Cardinality(Ends(wire))
    /\ open # "exchange" => ~db.skipping /\ Told(wire, txn_status, db)
    /\ SyntheticReadyIsTrue

\* The one end of these replies is their last and carries the backend's status.
EndsOnce(replies, b) ==
    /\ replies # << >>
    /\ Ends(replies) = {Len(replies)}
    /\ replies[Len(replies)].status = b.txn

\* The ends on a wire are numbered by positive numbers and finitely many.
LEMMA EndsFinite ==
  ASSUME NEW w \in Seq(Reply)
  PROVE  /\ Ends(w) \in SUBSET (1 .. Len(w)) /\ IsFiniteSet(Ends(w))
         /\ Cardinality(Ends(w)) \in Nat
         /\ Cardinality(Ends(w)) = 0 <=> Ends(w) = {}
  <1>1. Ends(w) \in SUBSET (1 .. Len(w)) /\ Len(w) \in Nat
    BY DEF Ends
  <1>2. IsFiniteSet(1 .. Len(w))
    BY <1>1, FS_Interval
  <1> QED
    BY <1>1, <1>2, FS_Subset, FS_CardinalityType, FS_EmptySet

\* Replies without an end change nothing.
LEMMA NoEndAppended ==
  ASSUME NEW w \in Seq(Reply), NEW d \in Seq(Reply), Ends(d) = {}
  PROVE  Ends(w \o d) = Ends(w) /\ \A i \in Ends(w) : (w \o d)[i] = w[i]
  <1>1. DOMAIN d = 1 .. Len(d) /\ DOMAIN w = 1 .. Len(w) /\ DOMAIN (w \o d) = 1 .. Len(w) + Len(d)
    OBVIOUS
  <1>2. \A i \in 1 .. Len(w) : (w \o d)[i] = w[i]
    OBVIOUS
  <1>3. \A i \in 1 .. Len(w) + Len(d) :
            i \notin 1 .. Len(w) => i - Len(w) \in 1 .. Len(d) /\ (w \o d)[i] = d[i - Len(w)]
    OBVIOUS
  <1> QED
    BY <1>1, <1>2, <1>3 DEF Ends

\* Replies that end once move the last end.
LEMMA OneEndAppended ==
  ASSUME NEW w \in Seq(Reply), NEW d \in Seq(Reply), NEW b, EndsOnce(d, b)
  PROVE  /\ Cardinality(Ends(w \o d)) = Cardinality(Ends(w)) + 1
         /\ \A before : Told(w \o d, before, b)
  <1> DEFINE last == Len(w) + Len(d)
  <1>1. DOMAIN d = 1 .. Len(d) /\ DOMAIN w = 1 .. Len(w) /\ DOMAIN (w \o d) = 1 .. last
    OBVIOUS
  <1>2. \A i \in 1 .. Len(w) : (w \o d)[i] = w[i]
    OBVIOUS
  <1>3. \A i \in 1 .. last :
            i \notin 1 .. Len(w) => i - Len(w) \in 1 .. Len(d) /\ (w \o d)[i] = d[i - Len(w)]
    OBVIOUS
  <1>4. Len(d) \in Nat /\ Len(d) > 0 /\ Len(w) \in Nat
    BY DEF EndsOnce
  <1>5. (w \o d)[last] = d[Len(d)] /\ last \notin 1 .. Len(w)
    BY <1>3, <1>4
  <1>6. ASSUME NEW i \in 1 .. last PROVE i \in Ends(w \o d) <=> i \in Ends(w) \cup {last}
    <2>1. CASE i \in 1 .. Len(w)
      BY <1>1, <1>2, <1>5, <2>1 DEF Ends
    <2>2. CASE i \notin 1 .. Len(w)
      <3>1. i - Len(w) \in DOMAIN d /\ (w \o d)[i] = d[i - Len(w)]
        BY <1>1, <1>3, <2>2
      <3>2. i \in Ends(w \o d) <=> i - Len(w) \in Ends(d)
        BY <1>1, <3>1 DEF Ends
      <3>3. i - Len(w) \in Ends(d) <=> i - Len(w) = Len(d)
        BY DEF EndsOnce
      <3> QED
        BY <1>1, <1>4, <2>2, <3>2, <3>3 DEF Ends
    <2> QED
      BY <2>1, <2>2
  <1>7. Ends(w \o d) = Ends(w) \cup {last}
    BY <1>1, <1>4, <1>6 DEF Ends
  <1>8. last \notin Ends(w) /\ \A i \in Ends(w) : i <= last
    BY <1>1, <1>4, <1>5 DEF Ends
  <1>9. Cardinality(Ends(w \o d)) = Cardinality(Ends(w)) + 1
    BY <1>7, <1>8, EndsFinite, FS_AddElement
  <1>10. ASSUME NEW i \in Ends(w \o d), \A j \in Ends(w \o d) : j <= i
         PROVE  i = last
    BY <1>1, <1>4, <1>7, <1>8, <1>10 DEF Ends
  <1>11. \A before : Told(w \o d, before, b)
    BY <1>5, <1>7, <1>10 DEF Told, EndsOnce
  <1> QED
    BY <1>9, <1>11

\* Reading a reply that is not an end shifts the ends; reading an end removes the first.
LEMMA EndsOfTail ==
  ASSUME NEW w \in Seq(Reply), w # << >>
  PROVE  /\ Cardinality(Ends(Tail(w))) = IF Head(w).tag = "ReadyForQuery"
                                         THEN Cardinality(Ends(w)) - 1
                                         ELSE Cardinality(Ends(w))
         /\ \A i \in Ends(Tail(w)) :
                /\ i \in Nat /\ i >= 1 /\ i + 1 \in Ends(w)
                /\ Tail(w)[i] = w[i + 1]
         /\ \A i \in Ends(w) : i \in Nat /\ (i = 1 \/ i - 1 \in Ends(Tail(w)))
         /\ Head(w).tag = "ReadyForQuery" <=> 1 \in Ends(w)
  <1> DEFINE later == Ends(w) \ {1}
             f == [i \in later |-> i - 1]
  <1>1. /\ Len(w) \in Nat /\ Len(w) > 0 /\ DOMAIN w = 1 .. Len(w)
        /\ DOMAIN Tail(w) = 1 .. Len(w) - 1 /\ Tail(w) \in Seq(Reply)
        /\ Head(w) = w[1]
    OBVIOUS
  <1>2. \A i \in 1 .. Len(w) - 1 : Tail(w)[i] = w[i + 1]
    BY <1>1
  <1>3. \A i \in 1 .. Len(w) - 1 : i \in Ends(Tail(w)) <=> i + 1 \in Ends(w)
    BY <1>1, <1>2 DEF Ends
  <1>4. Ends(Tail(w)) \in SUBSET (1 .. Len(w) - 1) /\ Ends(w) \in SUBSET (1 .. Len(w))
    BY <1>1 DEF Ends
  <1>5. Head(w).tag = "ReadyForQuery" <=> 1 \in Ends(w)
    BY <1>1 DEF Ends
  <1>6. f \in Bijection(later, Ends(Tail(w)))
    <2>1. \A i \in later : i - 1 \in Ends(Tail(w))
      BY <1>1, <1>3, <1>4
    <2>2. \A i \in Ends(Tail(w)) : i + 1 \in later /\ f[i + 1] = i
      BY <1>1, <1>3, <1>4
    <2>3. \A i, j \in later : i - 1 = j - 1 => i = j
      BY <1>1, <1>4
    <2> QED
      BY <2>1, <2>2, <2>3 DEF Bijection, Injection, Surjection, IsInjective
  <1>7. IsFiniteSet(later) /\ Cardinality(later) = IF 1 \in Ends(w) THEN Cardinality(Ends(w)) - 1
                                                   ELSE Cardinality(Ends(w))
    BY EndsFinite, FS_RemoveElement
  <1>8. Cardinality(Ends(Tail(w))) = Cardinality(later)
    BY <1>6, <1>7, FS_Bijection DEF ExistsBijection
  <1>9. ASSUME NEW i \in Ends(w) PROVE i \in Nat /\ (i = 1 \/ i - 1 \in Ends(Tail(w)))
    <2>1. i \in 1 .. Len(w) /\ i \in Nat
      BY <1>1, <1>4
    <2>2. ASSUME i # 1 PROVE i - 1 \in Ends(Tail(w))
      <3>1. i - 1 \in 1 .. Len(w) - 1 /\ (i - 1) + 1 = i
        BY <1>1, <2>1, <2>2
      <3> QED
        BY <1>3, <3>1
    <2> QED
      BY <2>1, <2>2
  <1>10. ASSUME NEW i \in Ends(Tail(w))
         PROVE  i \in Nat /\ i >= 1 /\ i + 1 \in Ends(w) /\ Tail(w)[i] = w[i + 1]
    BY <1>1, <1>2, <1>3, <1>4
  <1> QED
    BY <1>5, <1>7, <1>8, <1>9, <1>10

\* Until a Sync or a Query nothing the backend answers ends an exchange.
LEMMA ServeWithoutEnd ==
  ASSUME NEW b \in BackendState, NEW m \in Message, m.tag \notin {"Query", "Sync"}
  PROVE  Ends(Serve(b, m).replies) = {}
  <1>1. m.tag \in {"Parse", "Bind", "Describe", "Close", "Execute"}
    BY DEF Message
  <1>2. \A tag \in PlainTags : Ends(<< Plain(tag) >>) = {}
    BY DEF Ends, Plain, PlainTags
  <1>3. \A tag \in {"RowDescription", "DataRow"} : \A fields, text, format :
            /\ Ends(<< Shaped(tag, fields, text, format) >>) = {}
            /\ Ends(<< Shaped(tag, fields, text, format), Plain("PortalSuspended") >>) = {}
            /\ Ends(<< Shaped(tag, fields, text, format) >> \o << Plain("CommandComplete") >>) = {}
    BY DEF Ends, Plain, Shaped
  <1>4. Ends(<< >>) = {}
    BY DEF Ends
  <1>5. Ends(ExtendedError(b).replies) = {}
    BY <1>2 DEF ExtendedError, Answer, PlainTags
  <1>6. m.tag = "Parse" => Ends(ServeParse(b, m).replies) = {}
    BY <1>2, <1>5 DEF ServeParse, ExtendedError, Answer, PlainTags
  <1>7. m.tag = "Bind" => Ends(ServeBind(b, m).replies) = {}
    BY <1>2, <1>5 DEF ServeBind, ExtendedError, Answer, PlainTags
  <1>8. m.tag = "Describe" => Ends(ServeDescribe(b, m).replies) = {}
    BY <1>2, <1>3, <1>5 DEF ServeDescribe, ExtendedError, Answer, PlainTags
  <1>9. m.tag = "Close" => Ends(ServeClose(b, m).replies) = {}
    BY <1>2 DEF ServeClose, Answer, PlainTags
  <1>10. m.tag = "Execute" => Ends(ServeExecute(b, m).replies) = {}
    BY <1>2, <1>3, <1>5 DEF ServeExecute, ExtendedError, Answer, PlainTags
  <1> QED
    BY <1>1, <1>4, <1>6, <1>7, <1>8, <1>9, <1>10 DEF Serve, Answer

\* A Sync is answered by one ReadyForQuery and ends the skipping.
LEMMA ServeSyncEnds ==
  ASSUME NEW b \in BackendState, NEW m \in Message, m.tag = "Sync"
  PROVE  /\ EndsOnce(Serve(b, m).replies, Serve(b, m).db)
         /\ ~Serve(b, m).db.skipping
  <1> DEFINE db1 == [b EXCEPT !.skipping = FALSE,
                              !.portals = IF b.txn = "I" THEN NoPortals ELSE @]
  <1>1. Serve(b, m) = Answer(db1, << Ready(b.txn) >>)
    BY DEF Serve, ServeSync
  <1>2. db1.txn = b.txn /\ ~db1.skipping
    BY DEF BackendState
  <1>3. EndsOnce(<< Ready(b.txn) >>, db1)
    BY <1>2 DEF EndsOnce, Ends, Ready
  <1> HIDE DEF db1
  <1> QED
    BY <1>1, <1>2, <1>3 DEF Answer

\* A Query outside an exchange that failed is answered up to its own ReadyForQuery.
LEMMA ServeQueryEnds ==
  ASSUME NEW b \in BackendState, NEW m \in Message, m.tag = "Query", ~b.skipping
  PROVE  /\ EndsOnce(Serve(b, m).replies, Serve(b, m).db)
         /\ ~Serve(b, m).db.skipping
  <1> DEFINE kind == IF Blocked(b, m.sql) THEN "parse_error" ELSE Kind[m.sql]
             dropped == [b EXCEPT !.statements[UnnamedStatement] = None,
                                  !.portals[UnnamedPortal] = None]
             txn == IF kind = "begin" THEN "T" ELSE IF kind = "commit" THEN "I" ELSE b.txn
             ended == [dropped EXCEPT !.txn = txn,
                                      !.portals = IF txn = "I" THEN NoPortals ELSE @]
             failed == Fail(dropped)
             Shape(tag, fields) == Shaped(tag, fields, m.sql, "text")
             Result(fields) == << Shape("RowDescription", fields), Shape("DataRow", fields),
                                  Plain("CommandComplete") >>
             results == Results[m.sql]
             rows == IF Len(results) = 1
                     THEN Result(results[1])
                     ELSE Result(results[1]) \o Result(results[2])
  <1>1. ended.txn = txn /\ ~ended.skipping /\ ~failed.skipping
    BY DEF BackendState, Fail
  <1>2. ServeQuery(b, m) =
            CASE kind = "rows" -> Answer(ended, rows \o << Ready(txn) >>)
              [] kind = "empty" -> Answer(ended, << Plain("EmptyQueryResponse"), Ready(txn) >>)
              [] kind = "parse_error" ->
                    Answer(failed, << Plain("ErrorResponse"), Ready(failed.txn) >>)
              [] kind = "run_error" ->
                    Answer(failed, << Shape("RowDescription", results[1]),
                                      Plain("ErrorResponse"), Ready(failed.txn) >>)
              [] OTHER -> Answer(ended, << Plain("CommandComplete"), Ready(txn) >>)
    BY DEF ServeQuery
  <1> HIDE DEF kind, dropped, txn, ended, failed
  <1>3. /\ EndsOnce(<< Plain("EmptyQueryResponse"), Ready(txn) >>, ended)
        /\ EndsOnce(<< Plain("CommandComplete"), Ready(txn) >>, ended)
        /\ EndsOnce(<< Plain("ErrorResponse"), Ready(failed.txn) >>, failed)
    BY <1>1 DEF EndsOnce, Ends, Ready, Plain
  <1>4. EndsOnce(<< Shape("RowDescription", results[1]), Plain("ErrorResponse"),
                    Ready(failed.txn) >>, failed)
    BY DEF EndsOnce, Ends, Ready, Plain, Shaped
  <1>5. EndsOnce(rows \o << Ready(txn) >>, ended)
    <2>1. \A fields : EndsOnce(Result(fields) \o << Ready(txn) >>, ended)
      BY <1>1 DEF EndsOnce, Ends, Ready, Plain, Shaped
    <2>2. \A first, second :
              EndsOnce((Result(first) \o Result(second)) \o << Ready(txn) >>, ended)
      BY <1>1 DEF EndsOnce, Ends, Ready, Plain, Shaped
    <2> QED
      BY <2>1, <2>2
  <1> HIDE DEF rows, Shape
  <1>6. /\ EndsOnce(ServeQuery(b, m).replies, ServeQuery(b, m).db)
        /\ ~ServeQuery(b, m).db.skipping
    BY <1>1, <1>2, <1>3, <1>4, <1>5 DEF Answer
  <1> QED
    BY <1>6 DEF Serve

\* Dating the rows of an answer moves none of its ends.
LEMMA DatedEnds ==
  ASSUME NEW r \in Seq(Reply), NEW d \in Seq(Reply), DOMAIN d = DOMAIN r, Len(d) = Len(r),
         \A i \in DOMAIN r : d[i].tag = r[i].tag /\ (r[i].tag = "ReadyForQuery" => d[i] = r[i])
  PROVE  /\ Ends(d) = Ends(r)
         /\ \A b : EndsOnce(r, b) => EndsOnce(d, b)
  <1>1. Ends(d) = Ends(r)
    BY DEF Ends
  <1>2. ASSUME NEW b, EndsOnce(r, b) PROVE EndsOnce(d, b)
    <2>1. Len(r) \in Ends(r) /\ Len(r) # 0
      BY <1>2 DEF EndsOnce
    <2>2. d[Len(d)] = r[Len(r)] /\ d # << >>
      BY <2>1 DEF Ends
    <2> QED
      BY <1>1, <1>2, <2>2 DEF EndsOnce
  <1> QED
    BY <1>1, <1>2

\* d is the answer r with its rows dated.
DatedAnswer(d, r) ==
    /\ Len(d) = Len(r) /\ DOMAIN d = DOMAIN r
    /\ \A i \in DOMAIN d :
        /\ d[i].tag = r[i].tag
        /\ d[i].tag = "DataRow" => d[i].since = generation
        /\ d[i].tag \in {"RowDescription", "DataRow"} =>
               /\ d[i].fields = r[i].fields
               /\ d[i].text = r[i].text
               /\ d[i].format = r[i].format

\* What Forward appends to the wire.
LEMMA ForwardAppends ==
  ASSUME IInv, NEW m \in Message, NEW ps, Forward(m, ps)
  PROVE  \E d \in Seq(Reply) :
            /\ wire' = wire \o d
            /\ DatedAnswer(d, Serve(db, m).replies)
            /\ Ends(d) = Ends(Serve(db, m).replies)
            /\ \A b : EndsOnce(Serve(db, m).replies, b) => EndsOnce(d, b)
  <1> DEFINE r == Serve(db, m).replies
             Dated(x) == IF x.tag = "DataRow" THEN [x EXCEPT !.since = generation] ELSE x
             d == [i \in DOMAIN r |-> Dated(r[i])]
  <1>1. r \in Seq(Reply)
    BY ServeTyped DEF WellServed, IInv, TypeOK
  <1>2. \A x \in Reply : /\ Dated(x) \in Reply /\ Dated(x).tag = x.tag
                         /\ x.tag = "ReadyForQuery" => Dated(x) = x
                         /\ x.tag = "DataRow" => Dated(x).since = generation
                         /\ x.tag \in {"RowDescription", "DataRow"} =>
                                /\ Dated(x).fields = x.fields
                                /\ Dated(x).text = x.text
                                /\ Dated(x).format = x.format
    BY DEF Reply, IInv, TypeOK, PlainTags
  <1>3. wire' = wire \o d
    BY DEF Forward
  <1> HIDE DEF r, Dated
  <1>4. Len(r) \in Nat /\ DOMAIN r = 1 .. Len(r) /\ \A i \in DOMAIN r : r[i] \in Reply
    BY <1>1
  <1>5. d \in Seq(Reply) /\ DOMAIN d = DOMAIN r /\ Len(d) = Len(r)
    <2>1. d \in [1 .. Len(r) -> Reply]
      BY <1>2, <1>4
    <2> QED
      BY <1>4, <2>1
  <1>6. \A i \in DOMAIN r : d[i].tag = r[i].tag /\ (r[i].tag = "ReadyForQuery" => d[i] = r[i])
    BY <1>2, <1>4
  <1>7. DatedAnswer(d, r)
    BY <1>2, <1>4, <1>5 DEF DatedAnswer
  <1> HIDE DEF d
  <1>8. Ends(d) = Ends(r) /\ \A b : EndsOnce(r, b) => EndsOnce(d, b)
    BY <1>1, <1>5, <1>6, DatedEnds
  <1> QED
    BY <1>3, <1>5, <1>7, <1>8 DEF r

\* The habit of a client that sends a Query only when nothing is outstanding, and nothing
\* else until it is answered.
QueriesAlone == "query_alone" \in Manners[scenario]

\* A message of such a client.
LEMMA FrontendReady ==
  ASSUME IInv, ReadyInv, QueriesAlone, HandleFrontend
  PROVE  ReadyInv'
  <1>1. PICK m \in Menu[scenario] : \/ FrontendQuery(m) \/ FrontendParse(m) \/ FrontendBind(m)
                          \/ FrontendDescribe(m) \/ FrontendClose(m) \/ FrontendExecute(m)
                          \/ FrontendSync(m)
    BY DEF HandleFrontend
  <1>2. m \in Message
    BY SessionAssumption DEF IInv, TypeOK
  <1>3. wire \in Seq(Reply) /\ db \in BackendState
    BY DEF IInv, TypeOK
  <1>4. ClientMay(m) => open # "query" /\ (m.tag = "Query" => open = "none" /\ owed = 0)
    BY DEF ClientMay, QueriesAlone, Keeps
  <1>5. CASE /\ m.tag \notin {"Query", "Sync"} /\ Sends(m, 0)
             /\ Refuse(m) \/ \E ps : Forward(m, ps)
    <2>1. owed' = owed /\ open' = "exchange"
      BY <1>3, <1>5 DEF Sends, ReadyInv, IInv, TypeOK
    <2>2. delivered' = None
      BY <1>5 DEF Refuse, Forward
    <2>3. Cardinality(Ends(wire')) = Cardinality(Ends(wire))
      <3>1. CASE Refuse(m)
        BY <3>1 DEF Refuse
      <3>2. ASSUME NEW ps, Forward(m, ps)
            PROVE  Cardinality(Ends(wire')) = Cardinality(Ends(wire))
        <4>1. PICK d \in Seq(Reply) : wire' = wire \o d /\ Ends(d) = Ends(Serve(db, m).replies)
          BY <1>2, <3>2, ForwardAppends
        <4>2. Ends(d) = {}
          BY <1>2, <1>3, <1>5, <4>1, ServeWithoutEnd
        <4> QED
          BY <1>3, <4>1, <4>2, NoEndAppended
      <3> QED
        BY <1>5, <3>1, <3>2
    <2> QED
      BY <2>1, <2>2, <2>3 DEF ReadyInv, SyntheticReadyIsTrue
  <1>6. CASE FrontendSync(m)
    <2>1. m.tag = "Sync" /\ ClientMay(m) /\ Forward(m, Sync(Synced)) /\ Sends(m, 1)
      BY <1>6 DEF FrontendSync
    <2>2. owed' = owed + 1 /\ open' = "none" /\ delivered' = None /\ db' = Serve(db, m).db
      BY <2>1 DEF Sends, Forward
    <2>3. EndsOnce(Serve(db, m).replies, db') /\ ~db'.skipping
      BY <1>2, <1>3, <2>1, <2>2, ServeSyncEnds
    <2>4. /\ Cardinality(Ends(wire')) = Cardinality(Ends(wire)) + 1
          /\ Told(wire', txn_status', db')
      BY <1>2, <1>3, <2>1, <2>3, ForwardAppends, OneEndAppended
    <2> QED
      BY <2>2, <2>3, <2>4 DEF ReadyInv, SyntheticReadyIsTrue
  <1>7. CASE FrontendQuery(m)
    <2>1. /\ m.tag = "Query" /\ open = "none" /\ owed = 0
          /\ \/ Refuse(m) /\ Sends(m, 0)
             \/ \E ps : Forward(m, ps) /\ Sends(m, 1)
      BY <1>4, <1>7 DEF FrontendQuery
    <2>2. ~db.skipping /\ Told(wire, txn_status, db) /\ Ends(wire) = {}
      BY <1>3, <2>1, EndsFinite DEF ReadyInv
    <2>3. CASE Refuse(m) /\ Sends(m, 0)
      <3>1. owed' = owed /\ open' = "none" /\ UNCHANGED << wire, db, txn_status >>
        BY <2>1, <2>3 DEF Sends, Refuse, ReadyInv, IInv, TypeOK
      <3>2. delivered' = [synthesised |-> txn_status, actual |-> db.txn]
        BY <2>1, <2>3 DEF Refuse
      <3>3. txn_status = db.txn
        BY <2>2 DEF Told
      <3> QED
        BY <2>1, <2>2, <3>1, <3>2, <3>3 DEF ReadyInv, SyntheticReadyIsTrue
    <2>4. ASSUME NEW ps, Forward(m, ps), Sends(m, 1) PROVE ReadyInv'
      <3>1. owed' = owed + 1 /\ delivered' = None /\ db' = Serve(db, m).db
        BY <2>4 DEF Sends, Forward
      <3>2. EndsOnce(Serve(db, m).replies, db') /\ ~db'.skipping
        BY <1>2, <1>3, <2>1, <2>2, <3>1, ServeQueryEnds
      <3>3. /\ Cardinality(Ends(wire')) = Cardinality(Ends(wire)) + 1
            /\ Told(wire', txn_status', db')
        BY <1>2, <1>3, <2>4, <3>2, ForwardAppends, OneEndAppended
      <3> QED
        BY <3>1, <3>2, <3>3 DEF ReadyInv, SyntheticReadyIsTrue
    <2> QED
      BY <2>1, <2>3, <2>4
  <1> QED
    BY <1>1, <1>5, <1>6, <1>7
    DEF FrontendParse, FrontendBind, FrontendDescribe, FrontendClose, FrontendExecute

\* A reply is read.
LEMMA BackendReadyKept ==
  ASSUME IInv, ReadyInv, HandleBackend
  PROVE  ReadyInv'
  <1>1. wire \in Seq(Reply) /\ owed \in Int
    BY DEF IInv, TypeOK
  <1>2. CASE BackendReady
    <2>1. /\ wire # << >> /\ Head(wire).tag = "ReadyForQuery" /\ wire' = Tail(wire)
          /\ txn_status' = Head(wire).status /\ owed' = owed - 1 /\ delivered' = None
          /\ db' = db /\ open' \in {"none", open} /\ (open = "exchange" => open' = open)
      BY <1>2 DEF BackendReady
    <2>2. owed' = Cardinality(Ends(wire'))
      BY <1>1, <2>1, EndsOfTail DEF ReadyInv
    <2>3. ASSUME open # "exchange" PROVE Told(wire', txn_status', db)
      <3>1. Told(wire, txn_status, db) /\ 1 \in Ends(wire)
        BY <1>1, <2>1, <2>3, EndsOfTail DEF ReadyInv
      <3>2. /\ \A i \in Ends(wire') : i \in Nat /\ i >= 1 /\ i + 1 \in Ends(wire)
                                          /\ wire'[i] = wire[i + 1]
            /\ \A i \in Ends(wire) : i \in Nat /\ (i = 1 \/ i - 1 \in Ends(wire'))
        BY <1>1, <2>1, EndsOfTail
      <3>3. CASE Ends(wire') = {}
        <4>1. \A j \in Ends(wire) : j <= 1
          BY <3>2, <3>3
        <4>2. wire[1].status = db.txn
          BY <3>1, <4>1 DEF Told
        <4> QED
          BY <1>1, <2>1, <3>3, <4>2 DEF Told
      <3>4. ASSUME NEW i \in Ends(wire'), \A j \in Ends(wire') : j <= i
            PROVE  wire'[i].status = db.txn
        <4>1. i + 1 \in Ends(wire) /\ wire'[i] = wire[i + 1]
          BY <3>2
        <4>2. ASSUME NEW j \in Ends(wire) PROVE j <= i + 1
          <5>1. i \in Nat /\ i >= 1 /\ j \in Nat
            BY <3>2
          <5>2. j = 1 \/ j - 1 <= i
            BY <3>2, <3>4
          <5> QED
            BY <5>1, <5>2
        <4> QED
          BY <3>1, <4>1, <4>2 DEF Told
      <3> QED
        BY <3>3, <3>4 DEF Told
    <2> QED
      BY <2>1, <2>2, <2>3 DEF ReadyInv, SyntheticReadyIsTrue, IInv, TypeOK
  <1>3. CASE /\ wire # << >> /\ Head(wire).tag # "ReadyForQuery" /\ wire' = Tail(wire)
             /\ UNCHANGED << db, open, owed, txn_status >>
             /\ delivered' = None \/ "synthesised" \notin DOMAIN delivered'
    <2>1. owed' = Cardinality(Ends(wire'))
      BY <1>1, <1>3, EndsOfTail DEF ReadyInv
    <2>2. ASSUME Told(wire, txn_status, db) PROVE Told(wire', txn_status, db)
      <3>1. /\ \A i \in Ends(wire') : i \in Nat /\ i >= 1 /\ i + 1 \in Ends(wire)
                                          /\ wire'[i] = wire[i + 1]
            /\ \A i \in Ends(wire) : i \in Nat /\ (i = 1 \/ i - 1 \in Ends(wire'))
            /\ 1 \notin Ends(wire)
        BY <1>1, <1>3, EndsOfTail
      <3>2. Ends(wire') = {} => Ends(wire) = {}
        BY <3>1
      <3>3. ASSUME NEW i \in Ends(wire'), \A j \in Ends(wire') : j <= i
            PROVE  wire'[i].status = db.txn
        <4>1. i + 1 \in Ends(wire) /\ wire'[i] = wire[i + 1]
          BY <3>1
        <4>2. ASSUME NEW j \in Ends(wire) PROVE j <= i + 1
          <5>1. i \in Nat /\ j \in Nat /\ j - 1 <= i
            BY <3>1, <3>3
          <5> QED
            BY <5>1
        <4> QED
          BY <2>2, <4>1, <4>2 DEF Told
      <3> QED
        BY <2>2, <3>2, <3>3 DEF Told
    <2> QED
      BY <1>3, <2>1, <2>2 DEF ReadyInv, SyntheticReadyIsTrue
  <1>4. ASSUME NEW tag, tag # "ReadyForQuery", Reads(tag),
               \/ \E ps : Reject(ps) \/ Relays(ps)
               \/ /\ UNCHANGED << txn_status, owed >>
                  /\ \E r, p : delivered' = [row |-> r, plan |-> p]
        PROVE  ReadyInv'
    BY <1>3, <1>4 DEF Reads, Reject, Relays
  <1>5. CASE Suppressed
    BY <1>3, <1>5 DEF Suppressed
  <1>6. CASE BackendRowDescription
    BY <1>4, <1>6 DEF BackendRowDescription
  <1>7. CASE BackendDataRow
    <2>1. \/ Reject(plans)
          \/ /\ UNCHANGED << txn_status, owed >>
             /\ \E r, p : delivered' = [row |-> r, plan |-> p]
      BY <1>7 DEF BackendDataRow
    <2> QED
      BY <1>4, <1>7, <2>1 DEF BackendDataRow
  <1>8. CASE BackendParseComplete
    BY <1>4, <1>8 DEF BackendParseComplete
  <1>9. CASE BackendBindComplete
    BY <1>4, <1>9 DEF BackendBindComplete
  <1>10. CASE BackendCloseComplete
    BY <1>4, <1>10 DEF BackendCloseComplete
  <1>11. CASE BackendCommandComplete
    BY <1>4, <1>11 DEF BackendCommandComplete
  <1>12. CASE BackendPortalSuspended
    BY <1>4, <1>12 DEF BackendPortalSuspended
  <1>13. CASE BackendErrorResponse
    BY <1>4, <1>13 DEF BackendErrorResponse
  <1>14. CASE BackendNoData
    BY <1>4, <1>14 DEF BackendNoData
  <1>15. CASE BackendEmptyQueryResponse
    BY <1>4, <1>15 DEF BackendEmptyQueryResponse
  <1> QED
    BY <1>2, <1>5, <1>6, <1>7, <1>8, <1>9, <1>10, <1>11, <1>12, <1>13, <1>14, <1>15
    DEF HandleBackend

\* The ReadyForQuery synthesised for a refused Query is true for every client that sends
\* its queries alone, whatever else it pipelines, breaks or leaves paused.
THEOREM SyntheticReadyStaysTrue == Spec => [](QueriesAlone => SyntheticReadyIsTrue)
  <1> DEFINE Inv == QueriesAlone => ReadyInv
  <1>1. Init => Inv
    BY FS_EmptySet DEF Init, ReadyInv, Told, Ends, SyntheticReadyIsTrue, FreshBackend
  <1>2. IInv /\ Inv /\ [Next]_vars => Inv'
    <2> SUFFICES ASSUME IInv, Inv, [Next]_vars, QueriesAlone' PROVE ReadyInv'
      OBVIOUS
    <2>1. QueriesAlone
      BY DEF QueriesAlone, Next, HandleFrontend, FrontendQuery, FrontendParse, FrontendBind,
         FrontendDescribe, FrontendClose, FrontendExecute, FrontendSync, Sends, HandleBackend,
         Suppressed, BackendReady, BackendRowDescription, BackendDataRow, BackendParseComplete,
         BackendBindComplete, BackendCloseComplete, BackendCommandComplete,
         BackendPortalSuspended, BackendErrorResponse, BackendNoData,
         BackendEmptyQueryResponse, Reads, PolicyMoves, vars
    <2>2. CASE PolicyMoves
      BY <2>1, <2>2 DEF PolicyMoves, ReadyInv, SyntheticReadyIsTrue
    <2>3. CASE UNCHANGED vars
      BY <2>1, <2>3 DEF vars, ReadyInv, SyntheticReadyIsTrue
    <2> QED
      BY <2>1, <2>2, <2>3, FrontendReady, BackendReadyKept DEF Next
  <1>3. Inv => (QueriesAlone => SyntheticReadyIsTrue)
    BY DEF ReadyInv
  <1> HIDE DEF Inv
  <1> QED
    BY <1>1, <1>2, <1>3, Invariance, PTL DEF Spec
=============================================================================
