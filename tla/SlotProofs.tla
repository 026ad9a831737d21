----------------------------- MODULE SlotProofs -----------------------------
(***************************************************************************)
(* The slots of a session whose client waits its turn: what is on the wire *)
(* matches what is queued, so that every answer finds the slot of its own  *)
(* request at the head of its queue, and an exchange that was answered,    *)
(* failed or swallowed leaves no slot behind.                              *)
(***************************************************************************)
EXTENDS SessionProofs

-----------------------------------------------------------------------------
(* Counting the replies of a kind among the first n on the wire.           *)

Upto(w, tags, n) == Cardinality({i \in 1 .. n : w[i].tag \in tags})

Count(w, tags) == Upto(w, tags, Len(w))

Has(w, tags) == \E i \in DOMAIN w : w[i].tag \in tags

\* How the count grows along a wire.
LEMMA UptoGrows ==
  ASSUME NEW w, NEW tags, NEW n \in Nat
  PROVE  /\ Upto(w, tags, n) \in Nat
         /\ Upto(w, tags, 0) = 0
         /\ \A next : next = n + 1 =>
                Upto(w, tags, next) = Upto(w, tags, n) + (IF w[next].tag \in tags THEN 1 ELSE 0)
         /\ Upto(w, tags, n) = 0 <=> \A i \in 1 .. n : w[i].tag \notin tags
  <1> DEFINE At(m) == {i \in 1 .. m : w[i].tag \in tags}
             next == n + 1
  <1>1. \A m \in Nat : IsFiniteSet(At(m)) /\ Cardinality(At(m)) \in Nat
    BY RankFacts
  <1>2. next \in Nat /\ 1 .. next = (1 .. n) \cup {next} /\ next \notin 1 .. n
    OBVIOUS
  <1> HIDE DEF next
  <1>3. At(next) = IF w[next].tag \in tags THEN At(n) \cup {next} ELSE At(n)
    BY <1>2
  <1>4. next \notin At(n)
    BY <1>2
  <1>5. At(0) = {}
    OBVIOUS
  <1>6. At(n) = {} <=> \A i \in 1 .. n : w[i].tag \notin tags
    OBVIOUS
  <1> DEFINE S == At(n)
  <1>7. IsFiniteSet(S) /\ Cardinality(S) \in Nat
    BY <1>1
  <1> HIDE DEF At, S
  <1>9. Cardinality(S \cup {next}) = Cardinality(S) + 1
    <2>1. next \notin S
      BY <1>4 DEF S
    <2> QED
      BY <1>7, <2>1, FS_AddElement
  <1>10. Cardinality(At(next)) = Cardinality(At(n)) + (IF w[next].tag \in tags THEN 1 ELSE 0)
    BY <1>3, <1>7, <1>9 DEF S
  <1>8. Cardinality(At(0)) = 0 /\ (Cardinality(At(n)) = 0 <=> At(n) = {})
    BY <1>1, <1>5, FS_EmptySet
  <1> QED
    BY <1>1, <1>6, <1>10, <1>8 DEF Upto, At, next

\* Reading the first reply takes it out of every count.
LEMMA UptoOfTail ==
  ASSUME NEW T, NEW w \in Seq(T), w # << >>, NEW tags, NEW n \in 0 .. Len(w) - 1
  PROVE  Upto(w, tags, n + 1) = Upto(Tail(w), tags, n) + (IF Head(w).tag \in tags THEN 1 ELSE 0)
  <1> DEFINE next == n + 1
             S == {i \in 1 .. n : Tail(w)[i].tag \in tags}
             R == {i \in 1 .. next : w[i].tag \in tags}
             later == R \ {1}
             f == [i \in later |-> i - 1]
  <1>1. /\ n \in Nat /\ next \in Nat /\ Head(w) = w[1]
        /\ \A i \in 1 .. n : Tail(w)[i] = w[i + 1]
    OBVIOUS
  <1>2. f \in Bijection(later, S)
    <2>1. \A i \in later : i - 1 \in S
      BY <1>1
    <2>2. \A i \in S : i + 1 \in later /\ f[i + 1] = i
      BY <1>1
    <2>3. \A i, j \in later : i - 1 = j - 1 => i = j
      OBVIOUS
    <2> QED
      BY <2>1, <2>2, <2>3 DEF Bijection, Injection, Surjection, IsInjective
  <1>3. IsFiniteSet(R) /\ Cardinality(R) \in Nat
    BY <1>1, RankFacts
  <1>4. 1 \in R <=> Head(w).tag \in tags
    BY <1>1
  <1> HIDE DEF R, S, f
  <1>5. IsFiniteSet(later)
        /\ Cardinality(later) = IF 1 \in R THEN Cardinality(R) - 1 ELSE Cardinality(R)
    BY <1>3, FS_RemoveElement
  <1>6. Cardinality(S) = Cardinality(later)
    BY <1>2, <1>5, FS_Bijection DEF ExistsBijection
  <1>7. Cardinality(R) = Cardinality(S) + (IF Head(w).tag \in tags THEN 1 ELSE 0)
    BY <1>3, <1>4, <1>5, <1>6
  <1> QED
    BY <1>7 DEF Upto, R, S, next

\* What is appended changes no count of what was there.
LEMMA UptoOfAppended ==
  ASSUME NEW T, NEW w \in Seq(T), NEW d \in Seq(T), NEW tags
  PROVE  /\ \A n \in 0 .. Len(w) : Upto(w \o d, tags, n) = Upto(w, tags, n)
         /\ Count(w \o d, tags) = Count(w, tags) + Count(d, tags)
         /\ Has(w \o d, tags) <=> Has(w, tags) \/ Has(d, tags)
  <1> DEFINE a == Len(w)
             b == Len(d)
             wd == w \o d
             A == {i \in 1 .. a : w[i].tag \in tags}
             B == {i \in 1 .. b : d[i].tag \in tags}
             C == {i \in a + 1 .. a + b : wd[i].tag \in tags}
             f == [i \in B |-> i + a]
  <1>1. /\ a \in Nat /\ b \in Nat /\ Len(wd) = a + b
        /\ DOMAIN wd = 1 .. a + b /\ DOMAIN w = 1 .. a /\ DOMAIN d = 1 .. b
        /\ \A i \in 1 .. a : wd[i] = w[i]
        /\ \A i \in 1 .. b : wd[i + a] = d[i]
    OBVIOUS
  <1> HIDE DEF wd, a, b
  <1>2. \A n \in 0 .. a : Upto(wd, tags, n) = Upto(w, tags, n)
    <2> TAKE n \in 0 .. a
    <2>1. {i \in 1 .. n : wd[i].tag \in tags} = {i \in 1 .. n : w[i].tag \in tags}
      BY <1>1
    <2> QED
      BY <2>1 DEF Upto
  <1>3. f \in Bijection(B, C)
    <2>1. \A i \in B : i + a \in C
      BY <1>1
    <2>2. \A i \in C : i - a \in B /\ f[i - a] = i
      <3> TAKE i \in C
      <3>1. i - a \in 1 .. b /\ (i - a) + a = i
        BY <1>1
      <3> QED
        BY <1>1, <3>1
    <2>3. \A i, j \in B : i + a = j + a => i = j
      BY <1>1
    <2> QED
      BY <2>1, <2>2, <2>3 DEF Bijection, Injection, Surjection, IsInjective
  <1>4. IsFiniteSet(A) /\ IsFiniteSet(B) /\ Cardinality(A) \in Nat /\ Cardinality(B) \in Nat
    BY <1>1, RankFacts
  <1>5. {i \in 1 .. a + b : wd[i].tag \in tags} = A \cup C /\ A \cap C = {}
    BY <1>1
  <1> HIDE DEF A, B, C, f
  <1>6. IsFiniteSet(C) /\ Cardinality(C) = Cardinality(B)
    BY <1>3, <1>4, FS_Bijection DEF ExistsBijection
  <1>7. Cardinality(A \cup C) = Cardinality(A) + Cardinality(C)
    <2>1. Cardinality(A \cap C) = 0
      BY <1>5, FS_EmptySet
    <2>2. Cardinality(A \cup C) = Cardinality(A) + Cardinality(C) - Cardinality(A \cap C)
      BY <1>4, <1>6, FS_Union
    <2> QED
      BY <1>4, <1>6, <2>1, <2>2
  <1>8. Count(wd, tags) = Count(w, tags) + Count(d, tags)
    BY <1>1, <1>4, <1>5, <1>6, <1>7 DEF Count, Upto, A, B, a, b
  <1>9. Has(wd, tags) <=> Has(w, tags) \/ Has(d, tags)
    <2>1. ASSUME NEW i \in DOMAIN d, d[i].tag \in tags PROVE Has(wd, tags)
      <3>1. i + a \in DOMAIN wd /\ wd[i + a] = d[i]
        BY <1>1
      <3> QED
        BY <2>1, <3>1 DEF Has
    <2>2. ASSUME NEW i \in DOMAIN w, w[i].tag \in tags PROVE Has(wd, tags)
      <3>1. i \in DOMAIN wd /\ wd[i] = w[i]
        BY <1>1
      <3> QED
        BY <2>2, <3>1 DEF Has
    <2>3. ASSUME NEW i \in DOMAIN wd, wd[i].tag \in tags PROVE Has(w, tags) \/ Has(d, tags)
      <3>1. CASE i \in 1 .. a
        BY <1>1, <2>3, <3>1 DEF Has
      <3>2. CASE i \notin 1 .. a
        <4>1. i - a \in DOMAIN d /\ (i - a) + a = i
          BY <1>1, <3>2
        <4>2. d[i - a] = wd[i]
          BY <1>1, <4>1
        <4> QED
          BY <2>3, <4>1, <4>2 DEF Has
      <3> QED
        BY <3>1, <3>2
    <2> QED
      BY <2>1, <2>2, <2>3 DEF Has
  <1> QED
    BY <1>2, <1>8, <1>9 DEF wd, a

\* Nothing of a kind is on a wire exactly when its count is zero.
LEMMA CountIsZero ==
  ASSUME NEW T, NEW w \in Seq(T), NEW tags
  PROVE  Count(w, tags) \in Nat /\ (Count(w, tags) = 0 <=> ~Has(w, tags))
  <1> DEFINE n == Len(w)
  <1>1. n \in Nat /\ DOMAIN w = 1 .. n
    OBVIOUS
  <1> HIDE DEF n
  <1>2. Upto(w, tags, n) \in Nat
        /\ (Upto(w, tags, n) = 0 <=> \A i \in 1 .. n : w[i].tag \notin tags)
    BY <1>1, UptoGrows
  <1> QED
    BY <1>1, <1>2 DEF Count, Has, n

\* Reading the first reply, seen from the whole wire.
LEMMA CountOfTail ==
  ASSUME NEW T, NEW w \in Seq(T), w # << >>, NEW tags
  PROVE  /\ Count(w, tags) = Count(Tail(w), tags) + (IF Head(w).tag \in tags THEN 1 ELSE 0)
         /\ Has(w, tags) <=> Head(w).tag \in tags \/ Has(Tail(w), tags)
         /\ \A i \in DOMAIN Tail(w) : i + 1 \in DOMAIN w /\ Tail(w)[i] = w[i + 1]
         /\ DOMAIN w = 1 .. Len(w) /\ Len(w) \in Nat /\ 1 \in DOMAIN w /\ w[1] = Head(w)
         /\ Tail(w) \in Seq(T) /\ Len(Tail(w)) = Len(w) - 1
         /\ DOMAIN Tail(w) = 1 .. Len(Tail(w)) /\ Len(Tail(w)) \in Nat
  <1> DEFINE n == Len(w) - 1
             t == Tail(w)
  <1>1. /\ n \in 0 .. Len(w) - 1 /\ n + 1 = Len(w) /\ n = Len(t) /\ t \in Seq(T)
        /\ DOMAIN w = 1 .. Len(w) /\ DOMAIN t = 1 .. Len(t) /\ n \in Nat /\ Len(w) \in Nat
        /\ \A i \in DOMAIN t : i + 1 \in DOMAIN w /\ t[i] = w[i + 1]
        /\ 1 \in DOMAIN w /\ w[1] = Head(w)
    OBVIOUS
  <1>2. Upto(w, tags, n + 1) = Upto(t, tags, n) + (IF Head(w).tag \in tags THEN 1 ELSE 0)
    BY <1>1, UptoOfTail
  <1>3. Count(w, tags) = Count(t, tags) + (IF Head(w).tag \in tags THEN 1 ELSE 0)
    BY <1>1, <1>2 DEF Count
  <1>4. /\ Count(w, tags) \in Nat /\ (Count(w, tags) = 0 <=> ~Has(w, tags))
        /\ Count(t, tags) \in Nat /\ (Count(t, tags) = 0 <=> ~Has(t, tags))
    BY <1>1, CountIsZero
  <1> HIDE DEF t, n
  <1>5. Has(w, tags) <=> Head(w).tag \in tags \/ Has(t, tags)
    BY <1>3, <1>4
  <1> QED
    BY <1>1, <1>3, <1>5 DEF t

\* Answers of one or two replies.
LEMMA CountOfFew ==
  ASSUME NEW tags, NEW x, NEW y
  PROVE  /\ Count(<< >>, tags) = 0 /\ ~Has(<< >>, tags)
         /\ Count(<< x >>, tags) = (IF x.tag \in tags THEN 1 ELSE 0)
         /\ Has(<< x >>, tags) <=> x.tag \in tags
         /\ Count(<< x, y >>, tags) = (IF x.tag \in tags THEN 1 ELSE 0)
                                        + (IF y.tag \in tags THEN 1 ELSE 0)
         /\ Has(<< x, y >>, tags) <=> x.tag \in tags \/ y.tag \in tags
  <1>1. /\ Upto(<< >>, tags, 0) = 0 /\ Upto(<< x >>, tags, 0) = 0
        /\ Upto(<< x, y >>, tags, 0) = 0
    BY UptoGrows
  <1>2. Upto(<< x >>, tags, 1) = 0 + (IF << x >>[1].tag \in tags THEN 1 ELSE 0)
    BY <1>1, UptoGrows
  <1>3. Upto(<< x, y >>, tags, 1) = 0 + (IF << x, y >>[1].tag \in tags THEN 1 ELSE 0)
    BY <1>1, UptoGrows
  <1>4. Upto(<< x, y >>, tags, 2)
          = Upto(<< x, y >>, tags, 1) + (IF << x, y >>[2].tag \in tags THEN 1 ELSE 0)
    <2>1. 1 \in Nat /\ 2 = 1 + 1
      OBVIOUS
    <2> QED
      BY <2>1, UptoGrows
  <1>6. << x >>[1] = x /\ << x, y >>[1] = x /\ << x, y >>[2] = y
    OBVIOUS
  <1>7. Len(<< >>) = 0 /\ Len(<< x >>) = 1 /\ Len(<< x, y >>) = 2
    OBVIOUS
  <1>8. DOMAIN << >> = {} /\ DOMAIN << x >> = {1} /\ DOMAIN << x, y >> = {1, 2}
    OBVIOUS
  <1> QED
    BY <1>1, <1>2, <1>3, <1>4, <1>6, <1>7, <1>8 DEF Count, Has

-----------------------------------------------------------------------------
(* The four queues of slots, by the request that queues one.               *)

Requests == {"Parse", "Bind", "Describe", "Execute"}

\* The replies that answer a request.
Answering(t) ==
    CASE t = "Parse" -> {"ParseComplete"}
      [] t = "Bind" -> {"BindComplete"}
      [] t = "Describe" -> {"RowDescription", "NoData"}
      [] t = "Execute" -> {"CommandComplete", "EmptyQueryResponse"}

Slots(ps, t) ==
    CASE t = "Parse" -> ps.pending_parses
      [] t = "Bind" -> ps.pending_binds
      [] t = "Describe" -> ps.pending_descriptions
      [] t = "Execute" -> ps.pending_executes

NoSlots(ps) == \A t \in Requests : Slots(ps, t) = << >>

\* Every slot was queued by the exchange of one epoch.
OfEpoch(ps, e) ==
    /\ \A t \in Requests : \A i \in DOMAIN Slots(ps, t) : Slots(ps, t)[i].epoch = e
    /\ \A i \in DOMAIN ps.pending_descriptions : ps.pending_descriptions[i].kind = "describe"

\* Every plan that waits for an Execute is of the generation the session has seen.
OfGeneration(ps) ==
    /\ \A s \in Statements :
           ps.statement_plans[s] # None => ps.statement_plans[s].generation = ps.generation
    /\ \A p \in Portals :
           ps.portal_plans[p] # None => ps.portal_plans[p].generation = ps.generation

\* A slot's plan is kept or is of the generation the session has seen.
Renewed(old, new, generation_seen) ==
    new.plan = old.plan \/ new.plan = None \/ new.plan.generation = generation_seen

\* From ps to qs a message of this kind is given its slot; a Parse whose text does not
\* decode is given none.
Asks(ps, qs, tag) ==
    /\ \A t \in Requests :
           Len(Slots(qs, t)) - Len(Slots(ps, t)) \in
               IF t # tag THEN {0} ELSE IF t = "Parse" THEN {0, 1} ELSE {1}
    /\ OfEpoch(ps, ps.sync_epoch) => OfEpoch(qs, ps.sync_epoch)
    /\ OfGeneration(ps) =>
           /\ OfGeneration(qs)
           /\ \A k \in DOMAIN ps.pending_executes :
                  Renewed(ps.pending_executes[k], qs.pending_executes[k], ps.generation)
           /\ \A k \in DOMAIN qs.pending_executes : k \notin DOMAIN ps.pending_executes =>
                  LET plan == qs.pending_executes[k].plan
                  IN  plan = None \/ plan.generation = ps.generation
    /\ qs.active_epoch \in {ps.active_epoch, ps.sync_epoch}
    /\ tag = "Execute" => qs.active_epoch = ps.sync_epoch
    /\ qs.sync_epoch = ps.sync_epoch /\ qs.generation = ps.generation
    /\ qs.suspended = FALSE /\ qs.streaming_simple_result = ps.streaming_simple_result

\* A queue once an answer has taken the first slot of its own kind.
Popped(ps, tag, t) == IF t = tag THEN PopFront(Slots(ps, t)) ELSE Slots(ps, t)

\* From ps to qs an answer takes the first slot of its kind, if there is one.
Retires(ps, qs, tag) ==
    /\ \A t \in Requests : Len(Slots(qs, t)) = Len(Popped(ps, tag, t))
    /\ \A e : OfEpoch(ps, e) =>
           /\ OfEpoch(qs, e)
           /\ ps.active_epoch = e => qs.active_epoch = e
    /\ OfGeneration(ps) =>
           /\ OfGeneration(qs)
           /\ \A k \in DOMAIN Popped(ps, tag, "Execute") :
                  Renewed(Popped(ps, tag, "Execute")[k], qs.pending_executes[k], ps.generation)
    /\ qs.sync_epoch = ps.sync_epoch /\ qs.generation = ps.generation
    /\ qs.suspended = ps.suspended /\ qs.streaming_simple_result = FALSE

\* The four queues.
LEMMA SlotsAre ==
  ASSUME NEW ps
  PROVE  /\ Slots(ps, "Parse") = ps.pending_parses
         /\ Slots(ps, "Bind") = ps.pending_binds
         /\ Slots(ps, "Describe") = ps.pending_descriptions
         /\ Slots(ps, "Execute") = ps.pending_executes
  BY DEF Slots

\* A queue of a well-typed plan state is a sequence.
LEMMA SlotsTyped ==
  ASSUME NEW ps \in State, NEW t \in Requests
  PROVE  \E T : Slots(ps, t) \in Seq(T)
  BY SlotsAre, FieldsTyped DEF Requests

\* Adding and removing one slot.
LEMMA OneSlot ==
  ASSUME NEW T, NEW queue \in Seq(T), NEW slot
  PROVE  /\ Len(Append(queue, slot)) = Len(queue) + 1 /\ Len(queue) \in Nat
         /\ DOMAIN Append(queue, slot) = 1 .. Len(queue) + 1 /\ DOMAIN queue = 1 .. Len(queue)
         /\ \A i \in DOMAIN queue : Append(queue, slot)[i] = queue[i]
         /\ \A i \in DOMAIN Append(queue, slot) :
                i \notin DOMAIN queue => Append(queue, slot)[i] = slot
         /\ queue # << >> => /\ Tail(queue) \in Seq(T) /\ Len(Tail(queue)) = Len(queue) - 1
                             /\ Len(queue) > 0
                             /\ DOMAIN Tail(queue) = 1 .. Len(queue) - 1
                             /\ \A i \in DOMAIN Tail(queue) :
                                    i + 1 \in DOMAIN queue /\ Tail(queue)[i] = queue[i + 1]
                             /\ 1 \in DOMAIN queue /\ Head(queue) = queue[1]
  OBVIOUS

\* From ps to qs sync_policy has brought the session up to a generation.
Refreshes(ps, qs, current) ==
    /\ \A t : Slots(qs, t) = Slots(ps, t)
    /\ \A e : OfEpoch(qs, e) <=> OfEpoch(ps, e)
    /\ OfGeneration(ps) => OfGeneration(qs)
    /\ qs.generation = current /\ qs.sync_epoch = ps.sync_epoch
    /\ qs.active_epoch = ps.active_epoch /\ qs.active_plan = ps.active_plan
    /\ qs.suspended = ps.suspended
    /\ qs.streaming_simple_result = ps.streaming_simple_result
    /\ qs.pending_executes = ps.pending_executes
    /\ qs.pending_descriptions = ps.pending_descriptions
    /\ qs.portal_bind_generations = ps.portal_bind_generations

\* sync_policy changes no queue, and leaves only plans of the current generation.
LEMMA InvalidateRefreshes ==
  ASSUME NEW ps \in State, NEW current \in Nat
  PROVE  Refreshes(ps, InvalidateIfStale(ps, current), current)
  <1> DEFINE qs == InvalidateIfStale(ps, current)
  <1>1. /\ qs.pending_parses = ps.pending_parses /\ qs.pending_binds = ps.pending_binds
        /\ qs.pending_descriptions = ps.pending_descriptions
        /\ qs.pending_executes = ps.pending_executes
        /\ qs.generation = current /\ qs.sync_epoch = ps.sync_epoch
        /\ qs.active_epoch = ps.active_epoch /\ qs.active_plan = ps.active_plan
        /\ qs.suspended = ps.suspended
        /\ qs.streaming_simple_result = ps.streaming_simple_result
        /\ qs.portal_bind_generations = ps.portal_bind_generations
    BY DEF InvalidateIfStale, State
  <1>2. OfGeneration(ps) => OfGeneration(qs)
    BY DEF InvalidateIfStale, State, OfGeneration
  <1> HIDE DEF qs
  <1>3. \A t : Slots(qs, t) = Slots(ps, t)
    BY <1>1 DEF Slots
  <1>4. \A e : OfEpoch(qs, e) <=> OfEpoch(ps, e)
    BY <1>1, <1>3 DEF OfEpoch
  <1> QED
    BY <1>1, <1>2, <1>3, <1>4 DEF qs, Refreshes

\* From ps to qs some portals are given plans of generation g.
Replans(ps, qs, g) ==
    /\ \A t \in Requests : Len(Slots(qs, t)) = Len(Slots(ps, t))
    /\ \A e : OfEpoch(ps, e) => OfEpoch(qs, e)
    /\ \A k \in DOMAIN ps.pending_executes :
           Renewed(ps.pending_executes[k], qs.pending_executes[k], g)
    /\ DOMAIN qs.pending_executes = DOMAIN ps.pending_executes
    /\ qs.statement_plans = ps.statement_plans
    /\ \A p \in Portals : \/ qs.portal_plans[p] = ps.portal_plans[p]
                          \/ qs.portal_plans[p].generation = g
    /\ qs.sync_epoch = ps.sync_epoch /\ qs.generation = ps.generation
    /\ qs.active_epoch = ps.active_epoch /\ qs.active_plan = ps.active_plan
    /\ qs.suspended = ps.suspended
    /\ qs.streaming_simple_result = ps.streaming_simple_result
    /\ qs.pending_descriptions = ps.pending_descriptions

\* install_portal_plan touches nothing but the plans of a portal and of its Executes.
LEMMA Installed ==
  ASSUME NEW ps \in State, NEW portals \in SUBSET Portals, NEW planOf, NEW g,
         \A p \in portals : planOf[p] \in Plan /\ planOf[p].generation = g,
         NEW qs, qs = InstallPortalPlans(ps, portals, planOf)
  PROVE  Replans(ps, qs, g)
  <1> DEFINE Filled(e) ==
                IF /\ e.name \in portals
                   /\ e.bind_generation = ps.portal_bind_generations[e.name]
                   /\ e.plan = None
                THEN [e EXCEPT !.plan = planOf[e.name]]
                ELSE e
             old == ps.pending_executes
             queue == [i \in DOMAIN old |-> Filled(old[i])]
             map == [p \in Portals |-> IF p \in portals THEN planOf[p] ELSE ps.portal_plans[p]]
  <1>1. \A e \in PendingExecute :
            Filled(e).epoch = e.epoch /\ (Filled(e).plan = e.plan \/ Filled(e).plan.generation = g)
    BY DEF PendingExecute
  <1>2. old \in Seq(PendingExecute)
    BY FieldsTyped
  <1> HIDE DEF Filled, old
  <1>3. /\ DOMAIN queue = DOMAIN old /\ Len(queue) = Len(old)
        /\ \A k \in DOMAIN old : /\ queue[k] = Filled(old[k]) /\ old[k] \in PendingExecute
    BY <1>2
  <1>4. qs = [[ps EXCEPT !.pending_executes = queue] EXCEPT !.portal_plans = map]
    BY DEF InstallPortalPlans, Filled, old, State
  <1> HIDE DEF queue, map
  <1>5. /\ qs.pending_parses = ps.pending_parses /\ qs.pending_binds = ps.pending_binds
        /\ qs.pending_descriptions = ps.pending_descriptions
        /\ qs.pending_executes = queue /\ qs.portal_plans = map
        /\ qs.statement_plans = ps.statement_plans
        /\ qs.sync_epoch = ps.sync_epoch /\ qs.generation = ps.generation
        /\ qs.active_epoch = ps.active_epoch /\ qs.active_plan = ps.active_plan
        /\ qs.suspended = ps.suspended
        /\ qs.streaming_simple_result = ps.streaming_simple_result
    BY <1>4 DEF State
  <1>6. \A t \in Requests : Len(Slots(qs, t)) = Len(Slots(ps, t))
    BY <1>3, <1>5, SlotsAre DEF Requests, old
  <1>7. ASSUME NEW e, OfEpoch(ps, e) PROVE OfEpoch(qs, e)
    <2>1. \A k \in DOMAIN queue : queue[k].epoch = old[k].epoch
      BY <1>1, <1>3
    <2>2. \A k \in DOMAIN old : old[k].epoch = e
      BY <1>7, SlotsAre DEF OfEpoch, Requests, old
    <2>3. \A i \in DOMAIN Slots(qs, "Execute") : Slots(qs, "Execute")[i].epoch = e
      BY <1>3, <1>5, <2>1, <2>2, SlotsAre
    <2>4. \A t \in Requests \ {"Execute"} : Slots(qs, t) = Slots(ps, t)
      BY <1>5, SlotsAre DEF Requests
    <2> QED
      BY <1>5, <1>7, <2>3, <2>4 DEF OfEpoch
  <1>8. \A k \in DOMAIN old : Renewed(old[k], queue[k], g)
    BY <1>1, <1>3 DEF Renewed
  <1>9. \A p \in Portals : \/ map[p] = ps.portal_plans[p]
                           \/ map[p].generation = g
    BY DEF map
  <1> QED
    BY <1>3, <1>5, <1>6, <1>7, <1>8, <1>9 DEF old, Replans

\* A message that touches no queue.
LEMMA AsksNothing ==
  ASSUME NEW ps \in State, NEW qs \in State, NEW tag, tag \notin {"Bind", "Describe", "Execute"},
         \A t \in Requests : Slots(qs, t) = Slots(ps, t),
         qs.active_epoch = ps.active_epoch, qs.sync_epoch = ps.sync_epoch,
         qs.generation = ps.generation, ps.suspended = FALSE, qs.suspended = FALSE,
         qs.streaming_simple_result = ps.streaming_simple_result,
         OfGeneration(ps) => OfGeneration(qs)
  PROVE  Asks(ps, qs, tag)
  <1>1. qs.pending_executes = ps.pending_executes
        /\ qs.pending_descriptions = ps.pending_descriptions
    BY SlotsAre DEF Requests
  <1>2. \A t \in Requests : Len(Slots(ps, t)) \in Nat
    BY SlotsAre, FieldsTyped DEF Requests
  <1>3. \A t \in Requests : Len(Slots(qs, t)) - Len(Slots(ps, t)) = 0
    BY <1>2
  <1> QED
    BY <1>1, <1>3 DEF Asks, OfEpoch, Requests, Renewed

\* Which queue grows, and by what, when the others are left alone.
LEMMA AsksOne ==
  ASSUME NEW ps \in State, NEW qs \in State, NEW tag \in Requests \ {"Execute"}, NEW slot,
         Slots(qs, tag) = Append(Slots(ps, tag), slot), slot.epoch = ps.sync_epoch,
         tag = "Describe" => slot.kind = "describe",
         \A t \in Requests \ {tag} : Slots(qs, t) = Slots(ps, t),
         qs.active_epoch = ps.active_epoch, qs.sync_epoch = ps.sync_epoch,
         qs.generation = ps.generation, qs.suspended = FALSE,
         qs.streaming_simple_result = ps.streaming_simple_result,
         OfGeneration(ps) => OfGeneration(qs)
  PROVE  Asks(ps, qs, tag)
  <1>1. PICK T : Slots(ps, tag) \in Seq(T)
    BY SlotsTyped
  <1>2. /\ Len(Slots(qs, tag)) = Len(Slots(ps, tag)) + 1 /\ Len(Slots(ps, tag)) \in Nat
        /\ DOMAIN Slots(qs, tag) = 1 .. Len(Slots(ps, tag)) + 1
        /\ DOMAIN Slots(ps, tag) = 1 .. Len(Slots(ps, tag))
        /\ \A i \in DOMAIN Slots(ps, tag) : Slots(qs, tag)[i] = Slots(ps, tag)[i]
        /\ \A i \in DOMAIN Slots(qs, tag) : i \notin DOMAIN Slots(ps, tag) =>
               Slots(qs, tag)[i] = slot
    BY <1>1, OneSlot
  <1>3. \A t \in Requests : Len(Slots(ps, t)) \in Nat
    BY SlotsAre, FieldsTyped DEF Requests
  <1>4. \A t \in Requests : Len(Slots(qs, t)) - Len(Slots(ps, t)) = IF t = tag THEN 1 ELSE 0
    BY <1>2, <1>3
  <1>5. ASSUME OfEpoch(ps, ps.sync_epoch) PROVE OfEpoch(qs, ps.sync_epoch)
    <2>1. \A i \in DOMAIN Slots(qs, tag) : Slots(qs, tag)[i].epoch = ps.sync_epoch
      BY <1>2, <1>5 DEF OfEpoch
    <2>2. CASE tag = "Describe"
      <3>1. \A i \in DOMAIN Slots(qs, tag) : Slots(qs, tag)[i].kind = "describe"
        BY <1>2, <1>5, <2>2, SlotsAre DEF OfEpoch
      <3> QED
        BY <1>5, <2>1, <2>2, <3>1, SlotsAre DEF OfEpoch
    <2>3. CASE tag # "Describe"
      <3>1. qs.pending_descriptions = ps.pending_descriptions
        BY <2>3, SlotsAre DEF Requests
      <3> QED
        BY <1>5, <2>1, <3>1 DEF OfEpoch
    <2> QED
      BY <2>2, <2>3
  <1>6. qs.pending_executes = ps.pending_executes
    BY SlotsAre DEF Requests
  <1>7. \A t \in Requests :
           Len(Slots(qs, t)) - Len(Slots(ps, t)) \in
               IF t # tag THEN {0} ELSE IF t = "Parse" THEN {0, 1} ELSE {1}
    BY <1>4
  <1> QED
    BY <1>5, <1>6, <1>7 DEF Asks, Renewed

\* parse gives a Parse its slot and drops plans.
LEMMA ParseAsks ==
  ASSUME NEW ps \in State, NEW name \in Statements, NEW sql \in Sqls, ps.suspended = FALSE
  PROVE  Asks(ps, ParseStatement(ps, name, sql), "Parse")
  <1> DEFINE qs == ParseStatement(ps, name, sql)
             slot == [name |-> name, epoch |-> ps.sync_epoch]
  <1>1. qs \in State
    BY ParseStatementTyped
  <1>2. /\ qs.pending_parses = Append(ps.pending_parses, slot)
        /\ qs.pending_binds = ps.pending_binds
        /\ qs.pending_descriptions = ps.pending_descriptions
        /\ qs.pending_executes = ps.pending_executes
        /\ qs.sync_epoch = ps.sync_epoch /\ qs.generation = ps.generation
        /\ qs.active_epoch = ps.active_epoch /\ qs.suspended = FALSE
        /\ qs.streaming_simple_result = ps.streaming_simple_result
    BY DEF ParseStatement, State
  <1>3. /\ \A s \in Statements : qs.statement_plans[s] \in {ps.statement_plans[s], None}
        /\ \A p \in Portals : qs.portal_plans[p] \in {ps.portal_plans[p], None}
    BY FieldsTyped DEF ParseStatement, State
  <1> HIDE DEF qs
  <1>4. OfGeneration(ps) => OfGeneration(qs)
    BY <1>2, <1>3 DEF OfGeneration
  <1>5. /\ Slots(qs, "Parse") = Append(Slots(ps, "Parse"), slot) /\ slot.epoch = ps.sync_epoch
        /\ \A t \in Requests \ {"Parse"} : Slots(qs, t) = Slots(ps, t)
    BY <1>2, SlotsAre DEF Requests
  <1> HIDE DEF slot
  <1>6. Asks(ps, qs, "Parse")
    BY <1>1, <1>2, <1>4, <1>5, AsksOne DEF Requests
  <1> QED
    BY <1>6 DEF qs

\* describe gives a Describe its slot.
LEMMA DescribeAsks ==
  ASSUME NEW ps \in State, NEW target \in Target, ps.suspended = FALSE
  PROVE  Asks(ps, Describe(ps, target), "Describe")
  <1> DEFINE qs == Describe(ps, target)
             sql == IF target.kind = "statement"
                    THEN ps.statement_sql[target.name]
                    ELSE SqlForPortal(ps, target.name)
             slot == [kind |-> "describe", target |-> target, sql |-> sql,
                      epoch |-> ps.sync_epoch]
  <1>1. qs \in State
    BY DescribeTyped
  <1>2. /\ qs.pending_descriptions = Append(ps.pending_descriptions, slot)
        /\ qs.pending_binds = ps.pending_binds
        /\ qs.pending_parses = ps.pending_parses
        /\ qs.pending_executes = ps.pending_executes
        /\ qs.sync_epoch = ps.sync_epoch /\ qs.generation = ps.generation
        /\ qs.active_epoch = ps.active_epoch /\ qs.suspended = FALSE
        /\ qs.streaming_simple_result = ps.streaming_simple_result
        /\ qs.statement_plans = ps.statement_plans /\ qs.portal_plans = ps.portal_plans
    BY DEF Describe, State
  <1>3. slot.epoch = ps.sync_epoch /\ slot.kind = "describe"
    OBVIOUS
  <1> HIDE DEF qs, slot
  <1>4. OfGeneration(ps) => OfGeneration(qs)
    BY <1>2 DEF OfGeneration
  <1>5. /\ Slots(qs, "Describe") = Append(Slots(ps, "Describe"), slot)
        /\ \A t \in Requests \ {"Describe"} : Slots(qs, t) = Slots(ps, t)
    BY <1>2, SlotsAre DEF Requests
  <1>6. Asks(ps, qs, "Describe")
    BY <1>1, <1>2, <1>3, <1>4, <1>5, AsksOne DEF Requests
  <1> QED
    BY <1>6 DEF qs

\* close touches no queue.
LEMMA CloseAsks ==
  ASSUME NEW ps \in State, NEW target \in Target, ps.suspended = FALSE
  PROVE  Asks(ps, Close(ps, target), "Close")
  <1> DEFINE qs == Close(ps, target)
  <1>1. qs \in State
    BY CloseTyped
  <1>2. /\ qs.pending_parses = ps.pending_parses /\ qs.pending_binds = ps.pending_binds
        /\ qs.pending_descriptions = ps.pending_descriptions
        /\ qs.pending_executes = ps.pending_executes
        /\ qs.sync_epoch = ps.sync_epoch /\ qs.generation = ps.generation
        /\ qs.active_epoch = ps.active_epoch /\ qs.suspended = FALSE
        /\ qs.streaming_simple_result = ps.streaming_simple_result
    BY DEF Close, State
  <1>3. /\ \A s \in Statements : qs.statement_plans[s] \in {ps.statement_plans[s], None}
        /\ \A p \in Portals : qs.portal_plans[p] \in {ps.portal_plans[p], None}
    BY DEF Close, State
  <1> HIDE DEF qs
  <1>4. OfGeneration(ps) => OfGeneration(qs)
    BY <1>2, <1>3 DEF OfGeneration
  <1>5. \A t \in Requests : Slots(qs, t) = Slots(ps, t)
    BY <1>2, SlotsAre DEF Requests
  <1>6. Asks(ps, qs, "Close")
    BY <1>1, <1>2, <1>4, <1>5, AsksNothing
  <1> QED
    BY <1>6 DEF qs

\* Stamping the bound format on a plan does not date it anew.
LEMMA StampKeepsGeneration ==
  ASSUME NEW plan \in Plan, NEW formats
  PROVE  Stamp(plan, formats).generation = plan.generation
  BY DEF Stamp, Plan

\* bind gives a Bind its slot and its portal the plan of the statement.
LEMMA BindAsks ==
  ASSUME NEW ps \in State, NEW portal \in Portals, NEW statement \in Statements,
         NEW formats \in Formats, ps.suspended = FALSE
  PROVE  Asks(ps, Bind(ps, portal, statement, formats), "Bind")
  <1> DEFINE qs == Bind(ps, portal, statement, formats)
             slot == [name |-> portal, epoch |-> ps.sync_epoch]
             bumped == BumpedGeneration(ps, portal)
             bound == [ps EXCEPT
                !.portal_statement[portal] = statement,
                !.pending_binds = Append(@, slot),
                !.portal_formats[portal] = formats,
                !.portal_bind_generations[portal] = bumped]
             plan == ps.statement_plans[statement]
             planOf == [p \in {portal} |-> Stamp(plan, formats)]
  <1>1. qs \in State
    BY BindTyped
  <1>2. plan \in Option(Plan)
    BY FieldsTyped
  <1>3. slot \in PendingBind /\ formats \in Option(Formats) /\ statement \in Option(Statements)
        /\ slot.epoch = ps.sync_epoch
    BY FieldsTyped DEF PendingBind, Option
  <1>4. bumped \in Nat
    BY BumpIsFresh, FieldsTyped
  <1> HIDE DEF slot, bumped
  <1>5. bound \in State
    <2> DEFINE s1 == [ps EXCEPT !.portal_statement[portal] = statement]
               s2 == [s1 EXCEPT !.pending_binds = Append(@, slot)]
               s3 == [s2 EXCEPT !.portal_formats[portal] = formats]
               s4 == [s3 EXCEPT !.portal_bind_generations[portal] = bumped]
    <2>1. s1 \in State
      BY <1>3, FieldsTyped, UpdateTyped
    <2> HIDE DEF s1
    <2>2. s2 \in State
      <3>1. Append(s1.pending_binds, slot) \in Seq(PendingBind)
        BY <1>3, <2>1, FieldsTyped
      <3> QED
        BY <2>1, <3>1, UpdateTyped
    <2> HIDE DEF s2
    <2>3. s3 \in State
      BY <1>3, <2>2, FieldsTyped, UpdateTyped
    <2> HIDE DEF s3
    <2>4. s4 \in State
      BY <1>4, <2>3, FieldsTyped, UpdateTyped
    <2> QED
      BY <2>4 DEF s1, s2, s3
  <1>6. /\ bound.pending_binds = Append(ps.pending_binds, slot)
        /\ bound.pending_parses = ps.pending_parses
        /\ bound.pending_descriptions = ps.pending_descriptions
        /\ bound.pending_executes = ps.pending_executes
        /\ bound.sync_epoch = ps.sync_epoch /\ bound.generation = ps.generation
        /\ bound.active_epoch = ps.active_epoch /\ bound.suspended = FALSE
        /\ bound.streaming_simple_result = ps.streaming_simple_result
        /\ bound.statement_plans = ps.statement_plans /\ bound.portal_plans = ps.portal_plans
    BY DEF State
  <1>7. qs = IF plan = None
             THEN [bound EXCEPT !.portal_plans[portal] = None]
             ELSE InstallPortalPlans(bound, {portal}, planOf)
    BY DEF Bind, slot, bumped
  <1> HIDE DEF bound, qs
  <1>8. OfGeneration(ps) => OfGeneration(bound)
    BY <1>6 DEF OfGeneration
  <1>9. /\ Slots(bound, "Bind") = Append(Slots(ps, "Bind"), slot)
        /\ \A t \in Requests \ {"Bind"} : Slots(bound, t) = Slots(ps, t)
    BY <1>6, SlotsAre DEF Requests
  <1>10. Asks(ps, bound, "Bind")
    BY <1>3, <1>5, <1>6, <1>8, <1>9, AsksOne DEF Requests
  <1>11. ASSUME plan = None PROVE Asks(ps, qs, "Bind")
    <2>1. /\ \A t \in Requests : Slots(qs, t) = Slots(bound, t)
          /\ qs.pending_descriptions = bound.pending_descriptions
          /\ qs.pending_executes = bound.pending_executes
          /\ qs.active_epoch = bound.active_epoch /\ qs.suspended = FALSE
          /\ qs.sync_epoch = bound.sync_epoch /\ qs.generation = bound.generation
          /\ qs.streaming_simple_result = bound.streaming_simple_result
          /\ qs.statement_plans = bound.statement_plans
          /\ \A p \in Portals : qs.portal_plans[p] \in {bound.portal_plans[p], None}
      BY <1>5, <1>6, <1>7, <1>11 DEF State, Slots
    <2>2. OfGeneration(bound) => OfGeneration(qs)
      BY <2>1 DEF OfGeneration
    <2>3. \A e : OfEpoch(bound, e) => OfEpoch(qs, e)
      BY <2>1 DEF OfEpoch
    <2> QED
      BY <1>10, <2>1, <2>2, <2>3 DEF Asks
  <1>12. ASSUME plan # None PROVE Asks(ps, qs, "Bind")
    <2> DEFINE g == plan.generation
    <2>1. plan \in Plan
      BY <1>2, <1>12 DEF Option
    <2>2. \A p \in {portal} : planOf[p] \in Plan /\ planOf[p].generation = g
      BY <1>3, <2>1, StampTyped, StampKeepsGeneration
    <2>3. OfGeneration(ps) => g = ps.generation
      BY <1>12 DEF OfGeneration
    <2> DEFINE only == {portal}
    <2>8. /\ qs = InstallPortalPlans(bound, only, planOf) /\ only \in SUBSET Portals
          /\ \A p \in only : planOf[p] \in Plan /\ planOf[p].generation = g
      BY <1>7, <1>12, <2>2
    <2> HIDE DEF planOf, plan, g, only
    <2>9. Replans(bound, qs, g)
      BY <1>5, <2>8, Installed
    <2>4. /\ \A t \in Requests : Len(Slots(qs, t)) = Len(Slots(bound, t))
          /\ \A e : OfEpoch(bound, e) => OfEpoch(qs, e)
          /\ \A k \in DOMAIN bound.pending_executes :
                 Renewed(bound.pending_executes[k], qs.pending_executes[k], g)
          /\ DOMAIN qs.pending_executes = DOMAIN bound.pending_executes
          /\ qs.statement_plans = bound.statement_plans
          /\ \A p \in Portals : \/ qs.portal_plans[p] = bound.portal_plans[p]
                                \/ qs.portal_plans[p].generation = g
          /\ qs.sync_epoch = bound.sync_epoch /\ qs.generation = bound.generation
          /\ qs.active_epoch = bound.active_epoch
          /\ qs.suspended = bound.suspended
          /\ qs.streaming_simple_result = bound.streaming_simple_result
      BY <2>9 DEF Replans
    <2>5. ASSUME OfGeneration(ps) PROVE OfGeneration(qs)
      BY <1>6, <2>3, <2>4, <2>5 DEF OfGeneration
    <2>6. OfEpoch(ps, ps.sync_epoch) => OfEpoch(qs, ps.sync_epoch)
      BY <1>10, <2>4 DEF Asks
    <2>7. \A t \in Requests :
             Len(Slots(qs, t)) - Len(Slots(ps, t)) \in
                 IF t # "Bind" THEN {0} ELSE IF t = "Parse" THEN {0, 1} ELSE {1}
      BY <1>10, <2>4 DEF Asks
    <2> QED
      BY <1>6, <2>3, <2>4, <2>5, <2>6, <2>7 DEF Asks
  <1> QED
    BY <1>11, <1>12 DEF qs

\* queue_execute gives an Execute its slot, with the plan its portal has by then.
LEMMA QueueExecuteAsks ==
  ASSUME NEW ps \in State, NEW portal \in Portals, ps.suspended = FALSE,
         ps.active_epoch = ps.sync_epoch
  PROVE  Asks(ps, QueueExecute(ps, portal), "Execute")
  <1> DEFINE qs == QueueExecute(ps, portal)
             slot == [name |-> portal, epoch |-> ps.sync_epoch, order |-> ps.next_result_order,
                      plan |-> ps.portal_plans[portal],
                      bind_generation |-> ps.portal_bind_generations[portal]]
             old == ps.pending_executes
             new == qs.pending_executes
  <1>1. old \in Seq(PendingExecute)
    BY FieldsTyped
  <1>2. /\ new = Append(old, slot)
        /\ qs.pending_parses = ps.pending_parses /\ qs.pending_binds = ps.pending_binds
        /\ qs.pending_descriptions = ps.pending_descriptions
        /\ qs.sync_epoch = ps.sync_epoch /\ qs.generation = ps.generation
        /\ qs.active_epoch = ps.sync_epoch /\ qs.suspended = FALSE
        /\ qs.streaming_simple_result = ps.streaming_simple_result
        /\ qs.statement_plans = ps.statement_plans /\ qs.portal_plans = ps.portal_plans
    BY DEF QueueExecute, State
  <1>3. slot.epoch = ps.sync_epoch /\ slot.plan = ps.portal_plans[portal]
    OBVIOUS
  <1> HIDE DEF slot, qs
  <1>4. /\ Len(new) = Len(old) + 1 /\ Len(old) \in Nat
        /\ DOMAIN new = 1 .. Len(old) + 1 /\ DOMAIN old = 1 .. Len(old)
        /\ \A i \in DOMAIN old : new[i] = old[i]
        /\ \A i \in DOMAIN new : i \notin DOMAIN old => new[i] = slot
    BY <1>1, <1>2, OneSlot
  <1>5. /\ Slots(qs, "Execute") = new /\ Slots(ps, "Execute") = old
        /\ \A t \in Requests \ {"Execute"} :
               Slots(qs, t) = Slots(ps, t) /\ Len(Slots(ps, t)) \in Nat
    BY <1>2, SlotsAre, FieldsTyped DEF Requests
  <1>6. \A t \in Requests : Len(Slots(qs, t)) - Len(Slots(ps, t)) \in
               IF t # "Execute" THEN {0} ELSE IF t = "Parse" THEN {0, 1} ELSE {1}
    BY <1>4, <1>5
  <1>7. ASSUME OfEpoch(ps, ps.sync_epoch) PROVE OfEpoch(qs, ps.sync_epoch)
    <2>1. \A i \in DOMAIN old : old[i].epoch = ps.sync_epoch
      BY <1>5, <1>7 DEF OfEpoch, Requests
    <2>2. \A i \in DOMAIN new : new[i].epoch = ps.sync_epoch
      BY <1>3, <1>4, <2>1
    <2> HIDE DEF new, old
    <2> QED
      BY <1>2, <1>5, <1>7, <2>2 DEF OfEpoch
  <1>8. ASSUME OfGeneration(ps)
        PROVE  /\ OfGeneration(qs)
               /\ \A k \in DOMAIN old : Renewed(old[k], new[k], ps.generation)
               /\ \A k \in DOMAIN new : k \notin DOMAIN old =>
                      new[k].plan = None \/ new[k].plan.generation = ps.generation
    <2>1. OfGeneration(qs)
      BY <1>2, <1>8 DEF OfGeneration
    <2>2. slot.plan = None \/ slot.plan.generation = ps.generation
      BY <1>3, <1>8 DEF OfGeneration
    <2> QED
      BY <1>4, <2>1, <2>2 DEF Renewed
  <1> QED
    BY <1>2, <1>6, <1>7, <1>8 DEF Asks, qs

\* execute gives an Execute its slot, unless it resumes the Execute in front.
LEMMA ExecuteAsks ==
  ASSUME NEW ps \in State, NEW portal \in Portals, ps.suspended = FALSE,
         ~IsResume(ps, portal)
  PROVE  Asks(ps, Execute(ps, portal), "Execute")
  <1> DEFINE active == Activated(ps, portal)
             qs == QueueExecute(active, portal)
  <1>1. active \in State
    BY ActivatedTyped
  <1>2. Execute(ps, portal) = qs
    BY DEF Execute, Activated
  <1>3. /\ active.pending_parses = ps.pending_parses
        /\ active.pending_binds = ps.pending_binds
        /\ active.pending_descriptions = ps.pending_descriptions
        /\ active.pending_executes = ps.pending_executes
        /\ active.sync_epoch = ps.sync_epoch /\ active.generation = ps.generation
        /\ active.active_epoch = ps.sync_epoch /\ active.suspended = FALSE
        /\ active.streaming_simple_result = ps.streaming_simple_result
        /\ active.statement_plans = ps.statement_plans /\ active.portal_plans = ps.portal_plans
    BY DEF Activated, State
  <1> HIDE DEF active
  <1>4. Asks(active, qs, "Execute")
    BY <1>1, <1>3, QueueExecuteAsks
  <1> HIDE DEF qs
  <1>5. \A t : Slots(active, t) = Slots(ps, t)
    BY <1>3 DEF Slots
  <1>6. /\ \A e : OfEpoch(ps, e) => OfEpoch(active, e)
        /\ OfGeneration(ps) => OfGeneration(active)
    BY <1>3, <1>5 DEF OfEpoch, OfGeneration
  <1>7. Asks(ps, qs, "Execute")
    BY <1>3, <1>4, <1>5, <1>6 DEF Asks
  <1> QED
    BY <1>2, <1>7

\* Every entry of a queue that has lost its first was an entry before.
LEMMA PoppedFacts ==
  ASSUME NEW ps \in State, NEW tag, NEW t \in Requests
  PROVE  /\ \A i \in DOMAIN Popped(ps, tag, t) :
                \E j \in DOMAIN Slots(ps, t) : Popped(ps, tag, t)[i] = Slots(ps, t)[j]
         /\ DOMAIN Popped(ps, tag, t) = 1 .. Len(Popped(ps, tag, t))
         /\ Len(Popped(ps, tag, t)) \in Nat
  <1>1. PICK T : Slots(ps, t) \in Seq(T)
    BY SlotsTyped
  <1> DEFINE queue == Slots(ps, t)
             popped == Popped(ps, tag, t)
  <1>2. popped = queue \/ (queue # << >> /\ popped = Tail(queue))
    BY DEF Popped, PopFront
  <1>3. queue \in Seq(T)
    BY <1>1
  <1> HIDE DEF queue, popped
  <1>4. /\ DOMAIN queue = 1 .. Len(queue) /\ Len(queue) \in Nat
        /\ queue # << >> =>
               /\ Tail(queue) \in Seq(T) /\ Len(Tail(queue)) = Len(queue) - 1
               /\ Len(queue) > 0
               /\ DOMAIN Tail(queue) = 1 .. Len(queue) - 1
               /\ \A i \in DOMAIN Tail(queue) :
                      i + 1 \in DOMAIN queue /\ Tail(queue)[i] = queue[i + 1]
    BY <1>3, OneSlot
  <1>5. \A i \in DOMAIN popped : \E j \in DOMAIN queue : popped[i] = queue[j]
    BY <1>2, <1>4
  <1>6. DOMAIN popped = 1 .. Len(popped) /\ Len(popped) \in Nat
    BY <1>2, <1>4
  <1> QED
    BY <1>5, <1>6 DEF queue, popped

\* An answer that takes a slot and changes no plan.
LEMMA RetiresOne ==
  ASSUME NEW ps \in State, NEW qs \in State, NEW tag,
         \A t \in Requests : Slots(qs, t) = Popped(ps, tag, t),
         \A e : OfEpoch(ps, e) /\ ps.active_epoch = e => qs.active_epoch = e,
         qs.sync_epoch = ps.sync_epoch, qs.generation = ps.generation,
         qs.suspended = ps.suspended, qs.streaming_simple_result = FALSE,
         OfGeneration(ps) => OfGeneration(qs)
  PROVE  Retires(ps, qs, tag)
  <1>1. ASSUME NEW e, OfEpoch(ps, e) PROVE OfEpoch(qs, e)
    <2>1. ASSUME NEW t \in Requests, NEW i \in DOMAIN Slots(qs, t)
          PROVE  Slots(qs, t)[i].epoch = e
      <3>1. PICK j \in DOMAIN Slots(ps, t) : Slots(qs, t)[i] = Slots(ps, t)[j]
        BY PoppedFacts
      <3> QED
        BY <1>1, <3>1 DEF OfEpoch
    <2>2. ASSUME NEW i \in DOMAIN Slots(qs, "Describe")
          PROVE  Slots(qs, "Describe")[i].kind = "describe"
      <3>1. PICK j \in DOMAIN Slots(ps, "Describe") :
                Slots(qs, "Describe")[i] = Slots(ps, "Describe")[j]
        BY PoppedFacts DEF Requests
      <3> QED
        BY <1>1, <3>1, SlotsAre DEF OfEpoch
    <2> QED
      BY <2>1, <2>2, SlotsAre DEF OfEpoch
  <1>2. qs.pending_executes = Popped(ps, tag, "Execute")
    BY SlotsAre DEF Requests
  <1> QED
    BY <1>1, <1>2 DEF Retires, Renewed

\* An answer that takes a slot and brings plans.
LEMMA RetiresAndReplans ==
  ASSUME NEW ps \in State, NEW mid \in State, NEW qs, NEW tag, NEW g,
         Retires(ps, mid, tag), Replans(mid, qs, g), OfGeneration(ps) => g = ps.generation
  PROVE  Retires(ps, qs, tag)
  <1> DEFINE before == Popped(ps, tag, "Execute")
  <1>1. DOMAIN before = DOMAIN mid.pending_executes
    <2>1. DOMAIN before = 1 .. Len(before)
      BY PoppedFacts DEF Requests
    <2>2. DOMAIN mid.pending_executes = 1 .. Len(mid.pending_executes)
      BY FieldsTyped
    <2>3. Len(mid.pending_executes) = Len(before)
      BY SlotsAre DEF Retires, Requests
    <2> HIDE DEF before
    <2> QED
      BY <2>1, <2>2, <2>3
  <1>2. ASSUME OfGeneration(ps)
        PROVE  /\ OfGeneration(qs)
               /\ \A k \in DOMAIN before :
                      Renewed(before[k], qs.pending_executes[k], ps.generation)
    <2>1. /\ OfGeneration(mid) /\ g = ps.generation /\ mid.generation = ps.generation
          /\ \A k \in DOMAIN before :
                 Renewed(before[k], mid.pending_executes[k], ps.generation)
      BY <1>2 DEF Retires
    <2>2. \A k \in DOMAIN before :
              Renewed(mid.pending_executes[k], qs.pending_executes[k], ps.generation)
      BY <1>1, <2>1 DEF Replans
    <2>3. OfGeneration(qs)
      BY <2>1 DEF Replans, OfGeneration
    <2> HIDE DEF before
    <2> QED
      BY <2>1, <2>2, <2>3 DEF Renewed
  <1> HIDE DEF before
  <1> QED
    BY <1>2 DEF Retires, Replans, before

\* An answer that takes no slot.
LEMMA RetiresNothing ==
  ASSUME NEW ps \in State, NEW tag, tag \notin Requests, ps.streaming_simple_result = FALSE
  PROVE  Retires(ps, ps, tag)
  <1>1. \A t \in Requests : Slots(ps, t) = Popped(ps, tag, t)
    BY DEF Popped
  <1> QED
    BY <1>1, RetiresOne

\* finish_parse takes the slot of the Parse it answers.
LEMMA FinishParseRetires ==
  ASSUME NEW ps \in State, ps.streaming_simple_result = FALSE
  PROVE  Retires(ps, FinishParse(ps), "Parse")
  <1> DEFINE qs == FinishParse(ps)
  <1>1. qs \in State
    BY FinishParseTyped
  <1>2. /\ qs.pending_parses = PopFront(ps.pending_parses)
        /\ qs.pending_binds = ps.pending_binds
        /\ qs.pending_descriptions = ps.pending_descriptions
        /\ qs.pending_executes = ps.pending_executes
        /\ qs.sync_epoch = ps.sync_epoch /\ qs.generation = ps.generation
        /\ qs.active_epoch = ps.active_epoch /\ qs.suspended = ps.suspended
        /\ qs.streaming_simple_result = FALSE
        /\ qs.statement_plans = ps.statement_plans /\ qs.portal_plans = ps.portal_plans
    BY DEF FinishParse, State
  <1> HIDE DEF qs
  <1>3. \A t \in Requests : Slots(qs, t) = Popped(ps, "Parse", t)
    BY <1>2, SlotsAre DEF Popped, Requests
  <1>4. OfGeneration(ps) => OfGeneration(qs)
    BY <1>2 DEF OfGeneration
  <1>5. Retires(ps, qs, "Parse")
    BY <1>1, <1>2, <1>3, <1>4, RetiresOne
  <1> QED
    BY <1>5 DEF qs

\* finish_no_data takes the slot of the Describe it answers.
LEMMA FinishNoDataRetires ==
  ASSUME NEW ps \in State, HeadIs(ps, "describe"), ps.streaming_simple_result = FALSE
  PROVE  Retires(ps, FinishNoData(ps), "Describe")
  <1> DEFINE qs == FinishNoData(ps)
  <1>1. qs \in State
    BY FinishNoDataTyped
  <1>2. /\ qs.pending_descriptions = PopFront(ps.pending_descriptions)
        /\ qs.pending_binds = ps.pending_binds
        /\ qs.pending_parses = ps.pending_parses
        /\ qs.pending_executes = ps.pending_executes
        /\ qs.sync_epoch = ps.sync_epoch /\ qs.generation = ps.generation
        /\ qs.active_epoch = ps.active_epoch /\ qs.suspended = ps.suspended
        /\ qs.streaming_simple_result = FALSE
        /\ qs.statement_plans = ps.statement_plans /\ qs.portal_plans = ps.portal_plans
    BY DEF FinishNoData, State, HeadIs, PopFront
  <1> HIDE DEF qs
  <1>3. \A t \in Requests : Slots(qs, t) = Popped(ps, "Describe", t)
    BY <1>2, SlotsAre DEF Popped, Requests
  <1>4. OfGeneration(ps) => OfGeneration(qs)
    BY <1>2 DEF OfGeneration
  <1>5. Retires(ps, qs, "Describe")
    BY <1>1, <1>2, <1>3, <1>4, RetiresOne
  <1> QED
    BY <1>5 DEF qs

\* finish_result_set takes the slot of the Execute that is done, when no simple query runs.
LEMMA FinishResultSetRetires ==
  ASSUME NEW ps \in State, ps.streaming_simple_result = FALSE, ps.suspended = FALSE,
         ~SimpleIsNext(ps)
  PROVE  Retires(ps, FinishResultSet(ps), "Execute")
  <1> DEFINE qs == FinishResultSet(ps)
  <1>1. qs \in State
    BY FinishResultSetTyped
  <1>2. /\ qs.pending_executes = PopFront(ps.pending_executes)
        /\ qs.pending_binds = ps.pending_binds
        /\ qs.pending_parses = ps.pending_parses
        /\ qs.pending_descriptions = ps.pending_descriptions
        /\ qs.sync_epoch = ps.sync_epoch /\ qs.generation = ps.generation
        /\ qs.active_epoch = ps.active_epoch /\ qs.suspended = ps.suspended
        /\ qs.streaming_simple_result = FALSE
        /\ qs.statement_plans = ps.statement_plans /\ qs.portal_plans = ps.portal_plans
    BY DEF FinishResultSet, State
  <1> HIDE DEF qs
  <1>3. \A t \in Requests : Slots(qs, t) = Popped(ps, "Execute", t)
    BY <1>2, SlotsAre DEF Popped, Requests
  <1>4. OfGeneration(ps) => OfGeneration(qs)
    BY <1>2 DEF OfGeneration
  <1>5. Retires(ps, qs, "Execute")
    BY <1>1, <1>2, <1>3, <1>4, RetiresOne
  <1> QED
    BY <1>5 DEF qs

\* finish_bind takes the slot of the Bind it answers and gives its portal a plan.
LEMMA FinishBindRetires ==
  ASSUME NEW ps \in State, ps.streaming_simple_result = FALSE
  PROVE  Retires(ps, FinishBind(ps), "Bind")
  <1> DEFINE qs == FinishBind(ps)
             portal == Head(ps.pending_binds).name
             statement == ps.portal_statement[portal]
             described == IF statement = None THEN None ELSE ps.statement_plans[statement]
             plan == IF ps.portal_plans[portal] # None
                     THEN ps.portal_plans[portal]
                     ELSE IF described = None
                     THEN None
                     ELSE Stamp(described, ps.portal_formats[portal])
             popped == [ps EXCEPT !.pending_binds = PopFront(@)]
             planOf == [p \in {portal} |-> plan]
             only == {portal}
             installed == InstallPortalPlans(popped, only, planOf)
             active == IF ps.active_portal = portal THEN plan ELSE installed.active_plan
             g == plan.generation
  <1>1. popped \in State
    BY PopFrontTyped, FieldsTyped, UpdateTyped
  <1>2. /\ popped.pending_binds = PopFront(ps.pending_binds)
        /\ popped.pending_parses = ps.pending_parses
        /\ popped.pending_descriptions = ps.pending_descriptions
        /\ popped.pending_executes = ps.pending_executes
        /\ popped.sync_epoch = ps.sync_epoch /\ popped.generation = ps.generation
        /\ popped.active_epoch = ps.active_epoch /\ popped.suspended = ps.suspended
        /\ popped.streaming_simple_result = FALSE
        /\ popped.statement_plans = ps.statement_plans /\ popped.portal_plans = ps.portal_plans
    BY DEF State
  <1>3. Retires(ps, popped, "Bind")
    <2> HIDE DEF popped
    <2>1. \A t \in Requests : Slots(popped, t) = Popped(ps, "Bind", t)
      BY <1>2, SlotsAre DEF Popped, Requests
    <2>2. OfGeneration(ps) => OfGeneration(popped)
      BY <1>2 DEF OfGeneration
    <2> QED
      BY <1>1, <1>2, <2>1, <2>2, RetiresOne
  <1>4. ASSUME ps.pending_binds = << >> PROVE Retires(ps, qs, "Bind")
    <2>1. qs = ps
      BY <1>4 DEF FinishBind
    <2>2. popped = ps
      BY <1>4 DEF PopFront, State
    <2> QED
      BY <1>3, <2>1, <2>2
  <1>5. ASSUME ps.pending_binds # << >>, plan = None PROVE Retires(ps, qs, "Bind")
    <2>1. qs = popped
      BY <1>5 DEF FinishBind, PopFront
    <2> QED
      BY <1>3, <2>1
  <1>6. ASSUME ps.pending_binds # << >>, plan # None PROVE Retires(ps, qs, "Bind")
    <2>1. portal \in Portals
      <3>1. Head(ps.pending_binds) \in PendingBind
        BY <1>6, FieldsTyped
      <3> QED
        BY <3>1 DEF PendingBind
    <2> HIDE DEF portal
    <2>2. described \in Option(Plan) /\ (statement # None => statement \in Statements)
      BY <2>1, FieldsTyped DEF Option
    <2>3. plan \in Plan
      BY <1>6, <2>1, <2>2, FieldsTyped, StampTyped DEF Option
    <2>4. ASSUME OfGeneration(ps) PROVE g = ps.generation
      <3>1. ps.portal_plans[portal] # None => ps.portal_plans[portal].generation = ps.generation
        BY <2>1, <2>4 DEF OfGeneration
      <3>2. described # None => described \in Plan /\ described.generation = ps.generation
        BY <2>2, <2>4 DEF OfGeneration, Option
      <3> QED
        BY <1>6, <3>1, <3>2, StampKeepsGeneration
    <2>5. qs = [installed EXCEPT !.active_plan = active]
      BY <1>6 DEF FinishBind, PopFront, portal
    <2>6. only \in SUBSET Portals /\ \A p \in only : planOf[p] \in Plan /\ planOf[p].generation = g
      BY <2>1, <2>3
    <2> HIDE DEF qs, described, plan, popped, only, planOf, g, active
    <2>7. installed \in State
      BY <1>1, <2>6, InstallPortalPlansTyped
    <2>8. Replans(popped, installed, g)
      BY <1>1, <2>6, Installed
    <2>9. Retires(ps, installed, "Bind")
      BY <1>1, <1>3, <2>4, <2>8, RetiresAndReplans
    <2> HIDE DEF installed
    <2>10. /\ \A t \in Requests : Slots(qs, t) = Slots(installed, t)
           /\ qs.pending_descriptions = installed.pending_descriptions
           /\ qs.pending_executes = installed.pending_executes
           /\ qs.active_epoch = installed.active_epoch /\ qs.suspended = installed.suspended
           /\ qs.sync_epoch = installed.sync_epoch /\ qs.generation = installed.generation
           /\ qs.streaming_simple_result = installed.streaming_simple_result
           /\ qs.statement_plans = installed.statement_plans
           /\ qs.portal_plans = installed.portal_plans
      BY <2>5, <2>7 DEF State, Slots
    <2>11. /\ \A e : OfEpoch(installed, e) => OfEpoch(qs, e)
           /\ OfGeneration(installed) => OfGeneration(qs)
      BY <2>10 DEF OfEpoch, OfGeneration
    <2> QED
      BY <2>9, <2>10, <2>11 DEF Retires
  <1> HIDE DEF plan
  <1>7. Retires(ps, qs, "Bind")
    BY <1>4, <1>5, <1>6
  <1> QED
    BY <1>7

\* finish_description takes the slot of the Describe it answers and gives its target a plan.
LEMMA FinishDescriptionRetires ==
  ASSUME NEW ps \in State, HeadIs(ps, "describe"), NEW plan \in Plan,
         plan.generation = ps.generation
  PROVE  Retires(ps, FinishDescription(ps, plan), "Describe")
  <1> DEFINE qs == FinishDescription(ps, plan)
             pending == Head(ps.pending_descriptions)
             s1 == [ps EXCEPT !.pending_descriptions = Tail(@)]
             s2 == [s1 EXCEPT !.streaming_simple_result = (pending.kind = "simple")]
             s3 == [s2 EXCEPT !.active_plan = plan]
             popped == [s3 EXCEPT !.active_epoch = pending.epoch]
             name == pending.target.name
             waiting == BoundTo(ps, name)
             s5 == [popped EXCEPT !.statement_plans[name] = plan]
             g == plan.generation
  <1>1. pending \in PendingDescribe /\ pending.kind = "describe"
        /\ 1 \in DOMAIN ps.pending_descriptions /\ pending = ps.pending_descriptions[1]
    BY FieldsTyped DEF HeadIs, PendingDescribe, PendingSimple
  <1>2. Tail(ps.pending_descriptions) \in Seq(PendingDescribe \cup PendingSimple)
    BY FieldsTyped DEF HeadIs
  <1>3. pending.epoch \in Option(Nat) /\ pending.target \in Target
    BY <1>1 DEF PendingDescribe, Option
  <1>4. popped \in State
    <2> HIDE DEF pending
    <2>1. s1 \in State
      BY <1>2, UpdateTyped
    <2> HIDE DEF s1
    <2>2. s2 \in State
      BY <2>1, UpdateTyped
    <2> HIDE DEF s2
    <2>3. s3 \in State
      BY <2>2, UpdateTyped DEF Option
    <2> HIDE DEF s3
    <2> QED
      BY <1>3, <2>3, UpdateTyped
  <1>5. /\ popped.pending_descriptions = PopFront(ps.pending_descriptions)
        /\ popped.pending_binds = ps.pending_binds
        /\ popped.pending_parses = ps.pending_parses
        /\ popped.pending_executes = ps.pending_executes
        /\ popped.sync_epoch = ps.sync_epoch /\ popped.generation = ps.generation
        /\ popped.active_epoch = pending.epoch /\ popped.suspended = ps.suspended
        /\ popped.streaming_simple_result = FALSE
        /\ popped.statement_plans = ps.statement_plans /\ popped.portal_plans = ps.portal_plans
    BY <1>1 DEF State, PopFront, HeadIs
  <1>6. qs = IF pending.target.kind = "portal"
             THEN InstallPortalPlans(popped, {name}, [p \in {name} |-> plan])
             ELSE InstallPortalPlans(s5, waiting,
                                     [p \in waiting |-> Stamp(plan, ps.portal_formats[p])])
    BY <1>1 DEF FinishDescription
  <1>7. name \in IF pending.target.kind = "portal" THEN Portals ELSE Statements
    BY <1>3 DEF Target
  <1>8. \A e : OfEpoch(ps, e) => pending.epoch = e
    BY <1>1, SlotsAre DEF OfEpoch, Requests
  <1> HIDE DEF pending, popped, name, qs
  <1>9. Retires(ps, popped, "Describe")
    <2>1. \A t \in Requests : Slots(popped, t) = Popped(ps, "Describe", t)
      BY <1>5, SlotsAre DEF Popped, Requests
    <2>2. OfGeneration(ps) => OfGeneration(popped)
      BY <1>5 DEF OfGeneration
    <2> QED
      BY <1>4, <1>5, <1>8, <2>1, <2>2, RetiresOne
  <1>10. CASE pending.target.kind = "portal"
    <2> DEFINE only == {name}
               planOf == [p \in only |-> plan]
    <2>1. /\ qs = InstallPortalPlans(popped, only, planOf) /\ only \in SUBSET Portals
          /\ \A p \in only : planOf[p] \in Plan /\ planOf[p].generation = g
      BY <1>6, <1>7, <1>10
    <2> HIDE DEF only, planOf
    <2>2. Replans(popped, qs, g)
      BY <1>4, <2>1, Installed
    <2>3. Retires(ps, qs, "Describe")
      BY <1>4, <1>9, <2>2, RetiresAndReplans
    <2> QED
      BY <2>3 DEF qs
  <1>11. CASE pending.target.kind # "portal"
    <2> DEFINE planOf == [p \in waiting |-> Stamp(plan, ps.portal_formats[p])]
    <2>1. s5 \in State
      BY <1>4, <1>7, <1>11, FieldsTyped, UpdateTyped DEF Option
    <2>2. /\ \A t \in Requests : Slots(s5, t) = Slots(popped, t)
          /\ s5.pending_descriptions = popped.pending_descriptions
          /\ s5.pending_executes = popped.pending_executes
          /\ s5.active_epoch = popped.active_epoch /\ s5.suspended = popped.suspended
          /\ s5.sync_epoch = popped.sync_epoch /\ s5.generation = popped.generation
          /\ s5.streaming_simple_result = popped.streaming_simple_result
          /\ \A s \in Statements : s5.statement_plans[s] \in {popped.statement_plans[s], plan}
          /\ s5.portal_plans = popped.portal_plans
      BY <1>4 DEF State, Slots
    <2> HIDE DEF s5
    <2>3. OfGeneration(popped) /\ popped.generation = ps.generation => OfGeneration(s5)
      BY <2>2 DEF OfGeneration
    <2>4. \A e : OfEpoch(popped, e) => OfEpoch(s5, e)
      BY <2>2 DEF OfEpoch
    <2>5. Retires(ps, s5, "Describe")
      BY <1>9, <2>2, <2>3, <2>4 DEF Retires
    <2>6. /\ qs = InstallPortalPlans(s5, waiting, planOf) /\ waiting \in SUBSET Portals
          /\ \A p \in waiting : planOf[p] \in Plan /\ planOf[p].generation = g
      BY <1>6, <1>11, FieldsTyped, StampTyped, StampKeepsGeneration DEF BoundTo
    <2> HIDE DEF waiting, planOf
    <2>7. Replans(s5, qs, g)
      BY <2>1, <2>6, Installed
    <2>8. Retires(ps, qs, "Describe")
      BY <2>1, <2>5, <2>7, RetiresAndReplans
    <2> QED
      BY <2>8 DEF qs
  <1> QED
    BY <1>10, <1>11

-----------------------------------------------------------------------------
(* What an error and the end of a swallowed exchange leave.                *)

\* Every slot was queued in the same epoch, whatever queued it.
OneEpoch(ps, e) == \A t \in Requests : \A i \in DOMAIN Slots(ps, t) : Slots(ps, t)[i].epoch = e

\* Nothing is left of a queue of which no entry is kept.
LEMMA NothingKept ==
  ASSUME NEW T, NEW queue \in Seq(T)
  PROVE  /\ Retain(queue, {}) = << >>
         /\ \A e : (\A i \in DOMAIN queue : queue[i].epoch = e) => OtherEpochs(queue, e) = << >>
         /\ \A e : OtherEpochs(<< >>, e) = << >>
  <1>1. ASSUME NEW S \in Seq(T) PROVE Retain(S, {}) = << >>
    <2> DEFINE r == Retain(S, {})
               none == {}
    <2>1. none \in SUBSET DOMAIN S
      OBVIOUS
    <2> HIDE DEF none
    <2>2. /\ Retain(S, none) \in Seq(T)
          /\ \E at \in [DOMAIN Retain(S, none) -> none] :
                \A i \in DOMAIN at : Retain(S, none)[i] = S[at[i]]
      BY <2>1, RetainFacts
    <2>3. r \in Seq(T) /\ DOMAIN r = {}
      BY <2>2 DEF none
    <2> HIDE DEF r
    <2>4. r = << >>
      BY <2>3
    <2> QED
      BY <2>4 DEF r
  <1>2. ASSUME NEW e, \A i \in DOMAIN queue : queue[i].epoch = e
        PROVE  OtherEpochs(queue, e) = << >>
    <2>1. {i \in DOMAIN queue : queue[i].epoch # e} = {}
      BY <1>2
    <2> QED
      BY <1>1, <2>1 DEF OtherEpochs
  <1>3. ASSUME NEW e PROVE OtherEpochs(<< >>, e) = << >>
    <2>1. << >> \in Seq(T) /\ {i \in DOMAIN << >> : << >>[i].epoch # e} = {}
      OBVIOUS
    <2> QED
      BY <1>1, <2>1 DEF OtherEpochs
  <1> QED
    BY <1>1, <1>2, <1>3

\* What is left when an exchange is over for good.
Cleaned(ps, qs) ==
    /\ NoSlots(qs)
    /\ OfGeneration(ps) => OfGeneration(qs)
    /\ qs.sync_epoch = ps.sync_epoch /\ qs.generation = ps.generation
    /\ qs.suspended = FALSE /\ qs.streaming_simple_result = FALSE

\* finish_suppressed_epoch leaves no slot of the exchange it ends.
LEMMA FinishSuppressedCleans ==
  ASSUME NEW ps \in State, NEW e, OneEpoch(ps, e) \/ NoSlots(ps)
  PROVE  Cleaned(ps, FinishSuppressedEpoch(ps, e))
  <1> DEFINE qs == FinishSuppressedEpoch(ps, e)
  <1>1. /\ qs.pending_parses = OtherEpochs(ps.pending_parses, e)
        /\ qs.pending_binds = OtherEpochs(ps.pending_binds, e)
        /\ qs.pending_descriptions = OtherEpochs(ps.pending_descriptions, e)
        /\ qs.pending_executes = OtherEpochs(ps.pending_executes, e)
        /\ qs.sync_epoch = ps.sync_epoch /\ qs.generation = ps.generation
        /\ qs.suspended = FALSE /\ qs.streaming_simple_result = FALSE
        /\ qs.statement_plans = ps.statement_plans /\ qs.portal_plans = ps.portal_plans
    BY DEF FinishSuppressedEpoch, State
  <1> HIDE DEF qs
  <1>2. ASSUME NEW t \in Requests PROVE OtherEpochs(Slots(ps, t), e) = << >>
    <2>1. PICK T : Slots(ps, t) \in Seq(T)
      BY SlotsTyped
    <2>2. (\A i \in DOMAIN Slots(ps, t) : Slots(ps, t)[i].epoch = e) \/ Slots(ps, t) = << >>
      BY DEF OneEpoch, NoSlots
    <2> QED
      BY <2>1, <2>2, NothingKept
  <1>3. NoSlots(qs)
    BY <1>1, <1>2, SlotsAre DEF NoSlots, Requests
  <1>4. OfGeneration(ps) => OfGeneration(qs)
    BY <1>1 DEF OfGeneration
  <1>5. Cleaned(ps, qs)
    BY <1>1, <1>3, <1>4 DEF Cleaned
  <1> QED
    BY <1>5 DEF qs

\* discard_failed_epoch leaves no slot when only one exchange has any.
LEMMA DiscardFailedCleans ==
  ASSUME NEW ps \in State, NEW e \in Nat, OneEpoch(ps, e)
  PROVE  Cleaned(ps, DiscardFailedEpoch(ps))
  <1> DEFINE qs == DiscardFailedEpoch(ps)
             failed == CHOOSE f \in FailedEpochs(ps) : \A h \in FailedEpochs(ps) : f <= h
             statements == DiedWith(ps.pending_parses, failed)
             portals == DiedWith(ps.pending_binds, failed)
             outliving == {i \in DOMAIN ps.pending_executes :
                             /\ ps.pending_executes[i].epoch # failed
                             /\ ~(ps.suspended /\ ps.pending_executes[i].epoch < failed)}
             c == Cleared(ps)
             d == Discarded(ps, failed, statements, portals, outliving)
  <1>1. c \in State
    BY ClearedTyped
  <1>2. qs = IF FailedEpochs(ps) = {} THEN c ELSE d
    BY DEF DiscardFailedEpoch, Discarded, Cleared
  <1>3. \A t \in Requests : Slots(ps, t) # << >> => Head(Slots(ps, t)).epoch = e
    <2> TAKE t \in Requests
    <2>1. PICK T : Slots(ps, t) \in Seq(T)
      BY SlotsTyped
    <2>2. Slots(ps, t) # << >> =>
              1 \in DOMAIN Slots(ps, t) /\ Head(Slots(ps, t)) = Slots(ps, t)[1]
      BY <2>1, OneSlot
    <2> QED
      BY <2>2 DEF OneEpoch
  <1>4. FailedEpochs(ps) \in {{}, {e}} /\ (FailedEpochs(ps) = {} => NoSlots(ps))
    <2> DEFINE HeadEpoch(queue) == IF queue = << >> THEN {} ELSE {Head(queue).epoch}
    <2>1. \A t \in Requests :
              HeadEpoch(Slots(ps, t)) = IF Slots(ps, t) = << >> THEN {} ELSE {e}
      BY <1>3
    <2>2. FailedEpochs(ps) =
              LET provisional == HeadEpoch(Slots(ps, "Describe"))
                                   \cup HeadEpoch(Slots(ps, "Parse"))
                                   \cup HeadEpoch(Slots(ps, "Bind"))
              IN  IF provisional # {} THEN provisional ELSE HeadEpoch(Slots(ps, "Execute"))
      BY SlotsAre DEF FailedEpochs
    <2> HIDE DEF HeadEpoch
    <2> QED
      BY <2>1, <2>2 DEF NoSlots, Requests
  <1>5. /\ c.pending_parses = ps.pending_parses /\ c.pending_binds = ps.pending_binds
        /\ c.pending_descriptions = ps.pending_descriptions
        /\ c.pending_executes = ps.pending_executes
        /\ c.sync_epoch = ps.sync_epoch /\ c.generation = ps.generation
        /\ c.suspended = FALSE /\ c.streaming_simple_result = FALSE
        /\ c.statement_plans = ps.statement_plans /\ c.portal_plans = ps.portal_plans
    BY DEF Cleared, State
  <1>6. ASSUME FailedEpochs(ps) = {} PROVE Cleaned(ps, qs)
    <2>1. qs = c /\ NoSlots(ps)
      BY <1>2, <1>4, <1>6
    <2> HIDE DEF c, qs
    <2>2. NoSlots(c)
      BY <1>5, <2>1, SlotsAre DEF NoSlots, Requests
    <2>3. OfGeneration(ps) => OfGeneration(c)
      BY <1>5 DEF OfGeneration
    <2> QED
      BY <1>5, <2>1, <2>2, <2>3 DEF Cleaned
  <1>7. ASSUME FailedEpochs(ps) # {} PROVE Cleaned(ps, qs)
    <2>1. failed = e
      <3>1. FailedEpochs(ps) = {e}
        BY <1>4, <1>7
      <3>2. \A f \in FailedEpochs(ps) : f = e /\ e <= e
        BY <3>1
      <3>3. \E f \in FailedEpochs(ps) : \A h \in FailedEpochs(ps) : f <= h
        BY <3>1, <3>2
      <3> QED
        BY <3>2, <3>3
    <2> HIDE DEF failed
    <2>2. outliving = {}
      BY <2>1, SlotsAre DEF OneEpoch, Requests
    <2> HIDE DEF outliving, statements, portals, c
    <2>3. /\ d.pending_parses = OtherEpochs(ps.pending_parses, e)
          /\ d.pending_binds = OtherEpochs(ps.pending_binds, e)
          /\ d.pending_descriptions = OtherEpochs(ps.pending_descriptions, e)
          /\ d.pending_executes = Retain(ps.pending_executes, {})
          /\ d.sync_epoch = ps.sync_epoch /\ d.generation = ps.generation
          /\ d.suspended = FALSE /\ d.streaming_simple_result = FALSE
          /\ \A s \in Statements : d.statement_plans[s] \in {ps.statement_plans[s], None}
          /\ \A p \in Portals : d.portal_plans[p] \in {ps.portal_plans[p], None}
      <3>1. d = [c EXCEPT
        !.statement_sql = [s \in Statements |-> IF s \in statements THEN None ELSE @[s]],
        !.statement_plans = [s \in Statements |-> IF s \in statements THEN None ELSE @[s]],
        !.portal_statement = [p \in Portals |-> IF p \in portals THEN None ELSE @[p]],
        !.portal_plans = [p \in Portals |-> IF p \in portals THEN None ELSE @[p]],
        !.pending_descriptions = OtherEpochs(@, e),
        !.pending_parses = OtherEpochs(@, e),
        !.pending_binds = OtherEpochs(@, e),
        !.pending_executes = Retain(@, {})]
        BY <2>1, <2>2 DEF Discarded, c
      <3> HIDE DEF d
      <3> QED
        BY <1>1, <1>5, <3>1 DEF State
    <2> HIDE DEF d
    <2>4. ASSUME NEW t \in Requests PROVE OtherEpochs(Slots(ps, t), e) = << >>
      <3>1. PICK T : Slots(ps, t) \in Seq(T)
        BY SlotsTyped
      <3> QED
        BY <3>1, NothingKept DEF OneEpoch
    <2>5. Retain(ps.pending_executes, {}) = << >>
      BY NothingKept, FieldsTyped
    <2>6. NoSlots(d)
      BY <2>3, <2>4, <2>5, SlotsAre DEF NoSlots, Requests
    <2>7. OfGeneration(ps) => OfGeneration(d)
      BY <2>3 DEF OfGeneration
    <2>8. Cleaned(ps, d)
      BY <2>3, <2>6, <2>7 DEF Cleaned
    <2>9. qs = d
      BY <1>2, <1>7
    <2> QED
      BY <2>8, <2>9
  <1>8. Cleaned(ps, qs)
    BY <1>6, <1>7
  <1> QED
    BY <1>8

-----------------------------------------------------------------------------
(* What the backend answers.                                               *)

Fails(d) == Len(d) = 1 /\ d[1].tag = "ErrorResponse"

\* The one answer of a request; a row goes before that of an Execute.
Succeeds(d, tag) ==
    \/ Len(d) = 1 /\ d[1].tag \in IF tag \in Requests THEN Answering(tag) ELSE {"CloseComplete"}
    \/ tag = "Execute" /\ Len(d) = 2 /\ d[1].tag = "DataRow" /\ d[2].tag = "CommandComplete"

\* An extended message outside a failed exchange fails the exchange or is answered.
LEMMA ServeAnswers ==
  ASSUME NEW b \in BackendState, NEW m \in Message, m.tag \notin {"Query", "Sync"}, ~b.skipping,
         m.tag = "Execute" => ~m.limited
  PROVE  \/ Serve(b, m).db.skipping /\ Fails(Serve(b, m).replies)
         \/ ~Serve(b, m).db.skipping /\ Succeeds(Serve(b, m).replies, m.tag)
  <1> DEFINE Fine(answer) == \/ answer.db.skipping /\ Fails(answer.replies)
                             \/ ~answer.db.skipping /\ Succeeds(answer.replies, m.tag)
  <1>1. m.tag \in {"Parse", "Bind", "Describe", "Close", "Execute"}
    BY DEF Message
  <1>2. \A c \in BackendState : Fine(ExtendedError(c))
    BY ExtendedErrorTyped DEF ExtendedError, Answer, Fails, Plain, BackendState
  <1>3. \A c, tag : ~c.skipping /\ tag \in (IF m.tag \in Requests THEN Answering(m.tag)
                                            ELSE {"CloseComplete"}) =>
            \A x : x.tag = tag => Fine(Answer(c, << x >>))
    BY DEF Succeeds, Answer
  <1>4. /\ \A tag : Plain(tag).tag = tag
        /\ \A tag, fields, text, format : Shaped(tag, fields, text, format).tag = tag
    BY DEF Plain, Shaped
  <1>5. CASE m.tag = "Parse"
    <2> DEFINE dropped == IF m.name = UnnamedStatement
                          THEN [b EXCEPT !.statements[m.name] = None] ELSE b
               parsed == [b EXCEPT !.statements[m.name] = m.sql]
    <2>1. m.name \in Statements /\ dropped \in BackendState /\ ~parsed.skipping
      <3>1. m.name \in Statements
        BY <1>5 DEF Message
      <3> QED
        BY <3>1, BackendTyped, BackendUpdateTyped DEF Option, BackendState
    <2>2. Fine(Answer(parsed, << Plain("ParseComplete") >>))
      BY <1>3, <1>4, <1>5, <2>1 DEF Answering, Requests
    <2>3. ServeParse(b, m) \in {ExtendedError(dropped),
                                Answer(parsed, << Plain("ParseComplete") >>)}
      BY DEF ServeParse
    <2>4. Serve(b, m) = ServeParse(b, m)
      BY <1>5 DEF Serve
    <2> HIDE DEF Fine, dropped, parsed
    <2>5. Fine(Serve(b, m))
      BY <1>2, <2>1, <2>2, <2>3, <2>4
    <2> QED
      BY <2>5 DEF Fine
  <1>6. CASE m.tag = "Bind"
    <2> DEFINE sql == b.statements[m.statement]
               bound == [b EXCEPT !.portals[m.portal] =
                            [sql |-> sql, from |-> m.statement, format |-> m.formats,
                             left |-> FetchesPerPortal]]
    <2>1. ~bound.skipping
      BY DEF BackendState
    <2>2. Fine(Answer(bound, << Plain("BindComplete") >>))
      BY <1>3, <1>4, <1>6, <2>1 DEF Answering, Requests
    <2>3. ServeBind(b, m) \in {ExtendedError(b), Answer(bound, << Plain("BindComplete") >>)}
      BY DEF ServeBind
    <2>4. Serve(b, m) = ServeBind(b, m)
      BY <1>6 DEF Serve
    <2> HIDE DEF Fine, bound
    <2>5. Fine(Serve(b, m))
      BY <1>2, <2>2, <2>3, <2>4
    <2> QED
      BY <2>5 DEF Fine
  <1>7. CASE m.tag = "Describe"
    <2>1. \A x : x.tag \in {"NoData", "RowDescription"} => Fine(Answer(b, << x >>))
      BY <1>3, <1>7 DEF Answering, Requests
    <2> DEFINE portal == m.target.kind = "portal"
               sql == IF ~portal
                      THEN b.statements[m.target.name]
                      ELSE IF b.portals[m.target.name] = None
                      THEN None
                      ELSE b.portals[m.target.name].sql
               format == IF portal THEN b.portals[m.target.name].format ELSE "text"
               reply == IF Results[sql] = << >>
                        THEN Plain("NoData")
                        ELSE Shaped("RowDescription", Head(Results[sql]), sql, format)
    <2>2. ServeDescribe(b, m) \in {ExtendedError(b), Answer(b, << reply >>)}
      BY DEF ServeDescribe
    <2>3. Serve(b, m) = ServeDescribe(b, m)
      BY <1>7 DEF Serve
    <2>4. reply.tag \in {"NoData", "RowDescription"}
      BY <1>4
    <2> HIDE DEF Fine, reply
    <2>5. Fine(Answer(b, << reply >>))
      BY <2>1, <2>4
    <2>6. Fine(Serve(b, m))
      BY <1>2, <2>2, <2>3, <2>5
    <2> QED
      BY <2>6 DEF Fine
  <1>8. CASE m.tag = "Close"
    <2> DEFINE c == IF m.target.kind = "portal"
                    THEN [b EXCEPT !.portals[m.target.name] = None]
                    ELSE [b EXCEPT
                             !.statements[m.target.name] = None,
                             !.portals = [p \in Portals |->
                                IF @[p] # None /\ @[p].from = m.target.name THEN None ELSE @[p]]]
    <2>1. ServeClose(b, m) = Answer(c, << Plain("CloseComplete") >>) /\ ~c.skipping
      BY DEF ServeClose, BackendState
    <2> HIDE DEF c
    <2>2. Fine(Answer(c, << Plain("CloseComplete") >>))
      BY <1>3, <1>4, <1>8, <2>1 DEF Requests
    <2>3. Serve(b, m) = ServeClose(b, m)
      BY <1>8 DEF Serve
    <2> QED
      BY <2>1, <2>2, <2>3
  <1>9. CASE m.tag = "Execute"
    <2> DEFINE portal == b.portals[m.portal]
               row == Shaped("DataRow", Head(Results[portal.sql]), portal.sql, portal.format)
               done == Plain("CommandComplete")
    <2>1. \A c, x : ~c.skipping /\ x.tag \in {"CommandComplete", "EmptyQueryResponse"} =>
              Fine(Answer(c, << x >>))
      BY <1>3, <1>9 DEF Answering, Requests
    <2>2. \A c, x, y : ~c.skipping /\ x.tag = "DataRow" /\ y.tag = "CommandComplete" =>
              Fine(Answer(c, << x >> \o << y >>))
      BY <1>9 DEF Succeeds, Answer
    <2>3. \/ ServeExecute(b, m) = ExtendedError(b)
          \/ \E c : /\ ~c.skipping
                    /\ \/ ServeExecute(b, m) = Answer(c, << done >>)
                       \/ ServeExecute(b, m) = Answer(c, << Plain("EmptyQueryResponse") >>)
                       \/ ServeExecute(b, m) = Answer(c, << row >> \o << done >>)
      <3> HIDE DEF row, done
      <3>1. /\ ~[b EXCEPT !.txn = "T"].skipping
            /\ ~[b EXCEPT !.txn = "I", !.portals = NoPortals].skipping
            /\ ~[b EXCEPT !.portals[m.portal].left = 0].skipping
        BY DEF BackendState
      <3> QED
        BY <1>9, <3>1 DEF ServeExecute, row, done
    <2>4. Serve(b, m) = ServeExecute(b, m)
      BY <1>9 DEF Serve
    <2>5. row.tag = "DataRow" /\ done.tag = "CommandComplete"
          /\ Plain("EmptyQueryResponse").tag = "EmptyQueryResponse"
      BY <1>4
    <2> HIDE DEF Fine, row, done
    <2>6. Fine(Serve(b, m))
      BY <1>2, <2>1, <2>2, <2>3, <2>4, <2>5
    <2> QED
      BY <2>6 DEF Fine
  <1> QED
    BY <1>1, <1>5, <1>6, <1>7, <1>8, <1>9

\* A dated answer has the replies of the answer.
LEMMA DatedAnswers ==
  ASSUME NEW r \in Seq(Reply), NEW d \in Seq(Reply), DatedAnswer(d, r), NEW tag
  PROVE  (Fails(r) => Fails(d)) /\ (Succeeds(r, tag) => Succeeds(d, tag))
  <1>1. DOMAIN d = 1 .. Len(d) /\ Len(d) = Len(r) /\ \A i \in DOMAIN d : d[i].tag = r[i].tag
    BY DEF DatedAnswer
  <1>2. /\ Len(d) = 1 => d[1].tag = r[1].tag
        /\ Len(d) = 2 => d[1].tag = r[1].tag /\ d[2].tag = r[2].tag
    BY <1>1
  <1> QED
    BY <1>1, <1>2 DEF Fails, Succeeds

\* The replies a message of this kind can bring to the wire.
Brings(d, tag) ==
    /\ ~Has(d, {"ReadyForQuery"}) /\ ~Has(d, {"PortalSuspended"})
    /\ Has(d, {"ErrorResponse"}) => Len(d) = 1
    /\ \A t \in Requests :
           Count(d, Answering(t)) = IF t = tag /\ ~Has(d, {"ErrorResponse"}) THEN 1 ELSE 0
    /\ Has(d, {"DataRow", "EmptyQueryResponse"}) => tag = "Execute"
    /\ Has(d, {"RowDescription"}) => tag = "Describe" /\ Len(d) = 1
    /\ \A i \in DOMAIN d : d[i].tag = "DataRow" => i = 1 /\ ~Has(d, {"ErrorResponse"})

\* What the backend answers to an extended message.
LEMMA AnswersBring ==
  ASSUME NEW d \in Seq(Reply), NEW tag \in {"Parse", "Bind", "Describe", "Close", "Execute"},
         Fails(d) \/ Succeeds(d, tag)
  PROVE  Brings(d, tag) /\ (Fails(d) <=> Has(d, {"ErrorResponse"}))
  <1>1. /\ Len(d) = 1 => d = << d[1] >>
        /\ Len(d) = 2 => d = << d[1], d[2] >>
    OBVIOUS
  <1>2. \A t \in Requests : Answering(t) =
            IF t = "Parse" THEN {"ParseComplete"}
            ELSE IF t = "Bind" THEN {"BindComplete"}
            ELSE IF t = "Describe" THEN {"RowDescription", "NoData"}
            ELSE {"CommandComplete", "EmptyQueryResponse"}
    BY DEF Answering, Requests
  <1>3. CASE Fails(d)
    <2> DEFINE x == d[1]
    <2>1. d = << x >> /\ x.tag = "ErrorResponse" /\ Len(d) = 1
      BY <1>1, <1>3 DEF Fails
    <2> HIDE DEF x
    <2>2. \A tags : Count(d, tags) = (IF x.tag \in tags THEN 1 ELSE 0)
                      /\ (Has(d, tags) <=> x.tag \in tags)
      BY <2>1, CountOfFew
    <2>3. \A i \in DOMAIN d : d[i].tag # "DataRow"
      BY <2>1
    <2>4. \A t \in Requests : "ErrorResponse" \notin Answering(t)
      BY <1>2
    <2> QED
      BY <1>3, <2>1, <2>2, <2>3, <2>4 DEF Brings
  <1>4. CASE Len(d) = 1 /\ Succeeds(d, tag)
    <2> DEFINE x == d[1]
    <2>1. d = << x >> /\ x.tag \in (IF tag \in Requests THEN Answering(tag) ELSE {"CloseComplete"})
          /\ Len(d) = 1
      BY <1>1, <1>4 DEF Succeeds
    <2> HIDE DEF x
    <2>2. \A tags : Count(d, tags) = (IF x.tag \in tags THEN 1 ELSE 0)
                      /\ (Has(d, tags) <=> x.tag \in tags)
      BY <2>1, CountOfFew
    <2>3. \A i \in DOMAIN d : i = 1
      BY <2>1
    <2>4. /\ x.tag # "ErrorResponse" /\ x.tag # "ReadyForQuery" /\ x.tag # "PortalSuspended"
          /\ \A t \in Requests : x.tag \in Answering(t) <=> t = tag
          /\ x.tag = "EmptyQueryResponse" => tag = "Execute"
          /\ x.tag = "RowDescription" => tag = "Describe"
          /\ x.tag # "DataRow"
      BY <1>2, <2>1 DEF Requests
    <2>5. ~Fails(d)
      BY <2>1, <2>4 DEF Fails
    <2> QED
      BY <2>1, <2>2, <2>3, <2>4, <2>5 DEF Brings
  <1>5. CASE tag = "Execute" /\ Len(d) = 2 /\ d[1].tag = "DataRow" /\ d[2].tag = "CommandComplete"
    <2> DEFINE x == d[1]
               y == d[2]
    <2>1. d = << x, y >> /\ x.tag = "DataRow" /\ y.tag = "CommandComplete" /\ Len(d) = 2
      BY <1>1, <1>5
    <2> HIDE DEF x, y
    <2>2. \A tags : /\ Count(d, tags) = (IF x.tag \in tags THEN 1 ELSE 0)
                                          + (IF y.tag \in tags THEN 1 ELSE 0)
                    /\ Has(d, tags) <=> x.tag \in tags \/ y.tag \in tags
      BY <2>1, CountOfFew
    <2>3. \A i \in DOMAIN d : d[i].tag = "DataRow" => i = 1
      <3>1. DOMAIN d = {1, 2} /\ d[2] = y
        BY <2>1
      <3> QED
        BY <2>1, <3>1
    <2>4. \A t \in Requests : /\ "DataRow" \notin Answering(t)
                              /\ "CommandComplete" \in Answering(t) <=> t = tag
      BY <1>2, <1>5 DEF Requests
    <2>5. ~Fails(d)
      BY <2>1 DEF Fails
    <2>6. \A t \in Requests : Count(d, Answering(t)) = IF t = tag THEN 1 ELSE 0
      BY <2>1, <2>2, <2>4
    <2> QED
      BY <1>5, <2>1, <2>2, <2>3, <2>5, <2>6 DEF Brings
  <1> QED
    BY <1>3, <1>4, <1>5 DEF Succeeds

-----------------------------------------------------------------------------
(* An exchange in progress: what is on the wire against what is queued.    *)

Streamed == {"DataRow", "EmptyQueryResponse"}

\* Behind a reply of these kinds there is only the end of the exchange.
LastBeforeReady(w, tags) ==
    \A i, j \in DOMAIN w : i < j /\ w[i].tag \in tags => w[j].tag = "ReadyForQuery"

\* Every answer on the way has its slot; while the exchange has not failed, every slot has
\* its answer on the way.
Answered(ps, w, t) ==
    /\ t # "Parse" => Count(w, Answering(t)) <= Len(Slots(ps, t))
    /\ ~Has(w, {"ErrorResponse"}) => Len(Slots(ps, t)) <= Count(w, Answering(t))

\* The session is in the exchange of epoch e, or is owed its ReadyForQuery; s is the epoch
\* that is being swallowed and refusals what planning refuses.
Exchanging(ps, w, s, e, refusals) ==
    /\ OfEpoch(ps, e)
    /\ LastBeforeReady(w, {"ErrorResponse"})
    /\ refusals # {} => LastBeforeReady(w, {"RowDescription"})
    /\ s = None =>
        /\ \A t \in Requests : Answered(ps, w, t)
        /\ Has(w, Streamed) => ps.active_epoch = e /\ e # None
    /\ s # None => s = e \/ NoSlots(ps)

Recent(plan, since) == plan # None => plan.generation >= since

\* Every row on the way belongs to a queued Execute whose plan is as recent as the row.
Owned(ps, w) ==
    \A i \in DOMAIN w : w[i].tag = "DataRow" =>
        LET k == Upto(w, Answering("Execute"), i) + 1
        IN  /\ k <= Len(ps.pending_executes)
            /\ Recent(ps.pending_executes[k].plan, w[i].since)

\* No row on the way is of a request the session has not synced its policy for.
RowsSeen(ps, w) == \A i \in DOMAIN w : w[i].tag = "DataRow" => w[i].since <= ps.generation

\* The wire ends with the one ReadyForQuery the client waits for, if it waits for one.
OwedOnce(w, n) ==
    /\ n \in {0, 1}
    /\ n = 0 => ~Has(w, {"ReadyForQuery"})
    /\ n = 1 => w # << >> /\ \A i \in DOMAIN w : w[i].tag = "ReadyForQuery" <=> i = Len(w)

\* The lengths of the queues.
LEMMA SlotsCounted ==
  ASSUME NEW ps \in State, NEW t \in Requests
  PROVE  /\ Len(Slots(ps, t)) \in Nat /\ DOMAIN Slots(ps, t) = 1 .. Len(Slots(ps, t))
         /\ Slots(ps, t) = << >> <=> Len(Slots(ps, t)) = 0
         /\ Len(PopFront(Slots(ps, t))) = IF Len(Slots(ps, t)) = 0 THEN 0
                                          ELSE Len(Slots(ps, t)) - 1
  <1>1. PICK T : Slots(ps, t) \in Seq(T)
    BY SlotsTyped
  <1> QED
    BY <1>1 DEF PopFront

\* What is known of an exchange depends on the queues and the active epoch only.
LEMMA ExchangeSame ==
  ASSUME NEW ps, NEW qs, NEW w, NEW s, NEW e, NEW refusals, Exchanging(ps, w, s, e, refusals),
         \A t : Slots(qs, t) = Slots(ps, t), qs.pending_descriptions = ps.pending_descriptions,
         qs.active_epoch = ps.active_epoch \/ s # None
  PROVE  Exchanging(qs, w, s, e, refusals)
  BY DEF Exchanging, OfEpoch, Answered, NoSlots

\* A reply that arrives alone behind others is the last before the end.
LEMMA LastAppended ==
  ASSUME NEW w \in Seq(Reply), NEW d \in Seq(Reply), NEW tags, ~Has(w, tags),
         Has(d, tags) => Len(d) = 1
  PROVE  LastBeforeReady(w \o d, tags)
  <1> DEFINE wd == w \o d
             a == Len(w)
             b == Len(d)
  <1>1. /\ a \in Nat /\ b \in Nat /\ DOMAIN wd = 1 .. a + b
        /\ DOMAIN w = 1 .. a /\ DOMAIN d = 1 .. b
        /\ \A i \in 1 .. a : wd[i] = w[i]
        /\ \A i \in 1 .. a + b : i \notin 1 .. a => i - a \in 1 .. b /\ wd[i] = d[i - a]
    OBVIOUS
  <1> HIDE DEF wd, a, b
  <1>2. ASSUME NEW i \in DOMAIN wd, NEW j \in DOMAIN wd, i < j, wd[i].tag \in tags
        PROVE  FALSE
    <2>1. i \notin 1 .. a
      BY <1>1, <1>2 DEF Has
    <2>2. i - a \in 1 .. b /\ wd[i] = d[i - a]
      BY <1>1, <2>1
    <2>3. Has(d, tags)
      BY <1>1, <1>2, <2>2 DEF Has
    <2>4. b = 1
      BY <2>3 DEF b
    <2> QED
      BY <1>1, <1>2, <2>2, <2>4
  <1> QED
    BY <1>2 DEF LastBeforeReady, wd

\* A message of an exchange that has not failed joins it.
LEMMA ExchangeGrows ==
  ASSUME NEW ps \in State, NEW qs \in State, NEW w \in Seq(Reply), NEW d \in Seq(Reply),
         NEW w2, NEW tag, NEW refusals, Exchanging(ps, w, None, ps.sync_epoch, refusals),
         Asks(ps, qs, tag),
         Brings(d, tag), w2 = IF Has(w, {"ErrorResponse"}) THEN w ELSE w \o d,
         refusals # {} => ps.pending_descriptions = << >>
  PROVE  Exchanging(qs, w2, None, ps.sync_epoch, refusals)
  <1> DEFINE e == ps.sync_epoch
             failed == Has(w, {"ErrorResponse"})
  <1>1. OfEpoch(qs, e)
    BY DEF Exchanging, Asks
  <1>2. \A tags : /\ Count(w, tags) \in Nat /\ (Count(w, tags) = 0 <=> ~Has(w, tags))
                  /\ Count(w \o d, tags) = Count(w, tags) + Count(d, tags)
                  /\ Has(w \o d, tags) <=> Has(w, tags) \/ Has(d, tags)
    BY CountIsZero, UptoOfAppended
  <1>3. LastBeforeReady(w2, {"ErrorResponse"})
    <2>1. ~failed => LastBeforeReady(w \o d, {"ErrorResponse"})
      BY LastAppended DEF Brings
    <2> QED
      BY <2>1 DEF Exchanging
  <1>4. ASSUME refusals # {} PROVE LastBeforeReady(w2, {"RowDescription"})
    <2>1. LastBeforeReady(w, {"RowDescription"})
      BY <1>4 DEF Exchanging
    <2>2. Count(w, Answering("Describe")) <= Len(Slots(ps, "Describe"))
      BY DEF Exchanging, Answered, Requests
    <2>3. Slots(ps, "Describe") = << >>
      BY <1>4, SlotsAre
    <2>4. Count(w, Answering("Describe")) = 0
      BY <1>2, <2>2, <2>3
    <2>5. ~Has(w, Answering("Describe"))
      BY <1>2, <2>4
    <2>6. ~Has(w, {"RowDescription"})
      BY <2>5 DEF Has, Answering
    <2>7. LastBeforeReady(w \o d, {"RowDescription"})
      BY <2>6, LastAppended DEF Brings
    <2> QED
      BY <2>1, <2>7
  <1>5. ASSUME NEW t \in Requests PROVE Answered(qs, w2, t)
    <2> DEFINE n == Len(Slots(ps, t))
               m == Len(Slots(qs, t))
               c == Count(w, Answering(t))
               x == Count(d, Answering(t))
    <2>1. n \in Nat /\ m \in Nat /\ c \in Nat
      BY <1>2, SlotsCounted
    <2>2. m - n \in IF t # tag THEN {0} ELSE IF t = "Parse" THEN {0, 1} ELSE {1}
      BY DEF Asks
    <2>3. x = IF t = tag /\ ~Has(d, {"ErrorResponse"}) THEN 1 ELSE 0
      BY DEF Brings
    <2>4. (t # "Parse" => c <= n) /\ (~failed => n <= c)
      BY DEF Exchanging, Answered
    <2>5. /\ Count(w2, Answering(t)) = IF failed THEN c ELSE c + x
          /\ Has(w2, {"ErrorResponse"}) <=> failed \/ Has(d, {"ErrorResponse"})
      BY <1>2
    <2> HIDE DEF n, m, c, x, failed
    <2>6. t # "Parse" => Count(w2, Answering(t)) <= m
      BY <2>1, <2>2, <2>3, <2>4, <2>5
    <2>7. ~Has(w2, {"ErrorResponse"}) => m <= Count(w2, Answering(t))
      <3> SUFFICES ASSUME ~Has(w2, {"ErrorResponse"}) PROVE m <= Count(w2, Answering(t))
        OBVIOUS
      <3>1. ~failed /\ ~Has(d, {"ErrorResponse"})
        BY <2>5
      <3>2. n <= c /\ Count(w2, Answering(t)) = c + (IF t = tag THEN 1 ELSE 0)
        BY <2>3, <2>4, <2>5, <3>1
      <3>3. m <= n + (IF t = tag THEN 1 ELSE 0)
        <4>1. m - n = 0 \/ (t = tag /\ m - n = 1)
          BY <2>2
        <4> QED
          BY <2>1, <4>1
      <3> QED
        BY <2>1, <3>2, <3>3
    <2> QED
      BY <2>6, <2>7 DEF Answered, m
  <1>6. ASSUME Has(w2, Streamed) PROVE qs.active_epoch = e /\ e # None
    <2>1. Has(w, Streamed) \/ Has(d, Streamed)
      BY <1>2, <1>6
    <2>2. Has(w, Streamed) => ps.active_epoch = e
      BY DEF Exchanging
    <2>3. Has(d, Streamed) => tag = "Execute"
      BY DEF Brings, Streamed
    <2>4. e # None
      BY NoneAssumption, FieldsTyped
    <2> QED
      BY <2>1, <2>2, <2>3, <2>4 DEF Asks
  <1> QED
    BY <1>1, <1>3, <1>4, <1>5, <1>6 DEF Exchanging

\* The row of a new Execute finds the slot just queued for it.
LEMMA OwnedGrows ==
  ASSUME NEW ps \in State, NEW qs \in State, NEW w \in Seq(Reply), NEW d \in Seq(Reply),
         NEW w2, NEW tag, NEW refusals, Exchanging(ps, w, None, ps.sync_epoch, refusals),
         Asks(ps, qs, tag),
         Brings(d, tag), w2 = IF Has(w, {"ErrorResponse"}) THEN w ELSE w \o d,
         OfGeneration(ps), Owned(ps, w), RowsSeen(ps, w),
         \A i \in DOMAIN d : d[i].tag = "DataRow" => d[i].since = ps.generation
  PROVE  Owned(qs, w2) /\ RowsSeen(qs, w2)
  <1> DEFINE failed == Has(w, {"ErrorResponse"})
             ended == Answering("Execute")
             old == ps.pending_executes
             new == qs.pending_executes
             a == Len(w)
             wd == w \o d
  <1>1. /\ a \in Nat /\ DOMAIN w = 1 .. a
        /\ \A i \in DOMAIN w : wd[i] = w[i]
        /\ \A i \in DOMAIN wd : i \notin 1 .. a => /\ i - a \in DOMAIN d /\ wd[i] = d[i - a]
                                                  /\ i - a \in Nat /\ i = a + (i - a)
    OBVIOUS
  <1>2. \A n \in 0 .. a : Upto(wd, ended, n) = Upto(w, ended, n)
    BY UptoOfAppended
  <1>3. /\ Len(old) \in Nat /\ DOMAIN old = 1 .. Len(old)
        /\ Len(new) \in Nat /\ DOMAIN new = 1 .. Len(new)
    BY SlotsCounted, SlotsAre DEF Requests
  <1>4. /\ \A k \in DOMAIN old : Renewed(old[k], new[k], ps.generation)
        /\ \A k \in DOMAIN new : k \notin DOMAIN old =>
               new[k].plan = None \/ new[k].plan.generation = ps.generation
        /\ qs.generation = ps.generation
    BY DEF Asks
  <1>5. Len(new) - Len(old) \in {0, 1} /\ (tag = "Execute" => Len(new) = Len(old) + 1)
    <2>1. Len(Slots(qs, "Execute")) - Len(Slots(ps, "Execute"))
              \in IF "Execute" # tag THEN {0} ELSE IF "Execute" = "Parse" THEN {0, 1} ELSE {1}
      BY DEF Asks, Requests
    <2>2. Slots(qs, "Execute") = new /\ Slots(ps, "Execute") = old
      BY SlotsAre
    <2>3. Len(new) - Len(old) = 0 \/ Len(new) - Len(old) = 1
      BY <2>1, <2>2
    <2>4. tag = "Execute" => Len(new) - Len(old) = 1
      BY <2>1, <2>2
    <2> QED
      BY <1>3, <2>3, <2>4
  <1>6. ASSUME NEW i \in DOMAIN w, w[i].tag = "DataRow"
        PROVE  /\ Upto(w, ended, i) + 1 <= Len(new)
               /\ Recent(new[Upto(w, ended, i) + 1].plan, w[i].since)
               /\ w[i].since <= qs.generation
    <2> DEFINE k == Upto(w, ended, i) + 1
    <2>1. Upto(w, ended, i) \in Nat
      BY <1>1, UptoGrows
    <2>2. k <= Len(old) /\ Recent(old[k].plan, w[i].since)
      BY <1>6 DEF Owned
    <2>3. k \in DOMAIN old
      BY <1>3, <2>1, <2>2
    <2>4. w[i].since <= ps.generation
      BY <1>6 DEF RowsSeen
    <2> HIDE DEF k
    <2>5. Renewed(old[k], new[k], ps.generation)
      BY <1>4, <2>3
    <2>6. Recent(new[k].plan, w[i].since)
      BY <2>2, <2>4, <2>5 DEF Renewed, Recent
    <2>7. k <= Len(new)
      BY <1>3, <1>5, <2>2, <2>3
    <2> QED
      BY <1>4, <2>4, <2>6, <2>7 DEF k
  <1>7. ASSUME ~failed, NEW i \in DOMAIN wd, i \notin DOMAIN w, wd[i].tag = "DataRow"
        PROVE  /\ Upto(wd, ended, i) + 1 <= Len(new)
               /\ Recent(new[Upto(wd, ended, i) + 1].plan, wd[i].since)
               /\ wd[i].since <= qs.generation
    <2>1. i - a \in DOMAIN d /\ wd[i] = d[i - a] /\ i = a + (i - a)
      BY <1>1, <1>7
    <2>2. i - a = 1 /\ ~Has(d, {"ErrorResponse"})
      BY <1>7, <2>1 DEF Brings
    <2>3. tag = "Execute"
      BY <1>7, <2>1 DEF Brings, Has
    <2>4. i = a + 1
      BY <2>1, <2>2
    <2>5. Upto(wd, ended, i) = Upto(wd, ended, a) + (IF wd[i].tag \in ended THEN 1 ELSE 0)
      <3> HIDE DEF wd, ended, a
      <3> QED
        BY <1>1, <2>4, UptoGrows
    <2>6. wd[i].tag \notin ended
      BY <1>7 DEF Answering
    <2>7. Upto(wd, ended, a) = Count(w, ended) /\ Count(w, ended) \in Nat
      BY <1>1, <1>2, CountIsZero DEF Count
    <2>8. Count(w, ended) = Len(old)
      <3>1. Answered(ps, w, "Execute") /\ Slots(ps, "Execute") = old
        BY SlotsAre DEF Exchanging, Requests
      <3> QED
        BY <1>3, <1>7, <2>7, <3>1 DEF Answered
    <2>9. Upto(wd, ended, i) = Len(old)
      BY <2>5, <2>6, <2>7, <2>8
    <2> DEFINE k == Len(old) + 1
    <2>10. k \in DOMAIN new /\ k \notin DOMAIN old /\ k = Len(new)
      BY <1>3, <1>5, <2>3
    <2>11. wd[i].since = ps.generation
      BY <1>7, <2>1
    <2> HIDE DEF k
    <2>12. new[k].plan = None \/ new[k].plan.generation = ps.generation
      BY <1>4, <2>10
    <2>13. ps.generation \in Nat
      BY FieldsTyped
    <2>14. Recent(new[k].plan, wd[i].since) /\ wd[i].since <= qs.generation
      BY <1>4, <2>11, <2>12, <2>13 DEF Recent
    <2> QED
      BY <1>3, <2>9, <2>10, <2>14 DEF k
  <1> HIDE DEF failed, ended, old, new, wd
  <1>8. CASE failed
    BY <1>6, <1>8 DEF Owned, RowsSeen, failed, ended, new
  <1>9. CASE ~failed
    <2>1. \A i \in DOMAIN w : Upto(wd, ended, i) = Upto(w, ended, i)
      BY <1>1, <1>2
    <2>2. w2 = wd
      BY <1>9 DEF wd, failed
    <2>3. ASSUME NEW i \in DOMAIN wd, wd[i].tag = "DataRow"
          PROVE  /\ Upto(wd, ended, i) + 1 <= Len(new)
                 /\ Recent(new[Upto(wd, ended, i) + 1].plan, wd[i].since)
                 /\ wd[i].since <= qs.generation
      <3>1. CASE i \in DOMAIN w
        <4>1. wd[i] = w[i] /\ Upto(wd, ended, i) = Upto(w, ended, i)
          BY <1>1, <2>1, <3>1
        <4> QED
          BY <1>6, <2>3, <3>1, <4>1
      <3>2. CASE i \notin DOMAIN w
        BY <1>7, <1>9, <2>3, <3>2
      <3> QED
        BY <3>1, <3>2
    <2> QED
      BY <2>2, <2>3 DEF Owned, RowsSeen, ended, new
  <1> QED
    BY <1>8, <1>9

\* The ReadyForQuery of a Sync joins an exchange.
LEMMA ReadyJoins ==
  ASSUME NEW ps \in State, NEW w \in Seq(Reply), NEW r \in Reply, r.tag = "ReadyForQuery",
         NEW s, NEW e, NEW refusals, Exchanging(ps, w, s, e, refusals)
  PROVE  /\ Exchanging(ps, w \o << r >>, s, e, refusals)
         /\ Owned(ps, w) => Owned(ps, w \o << r >>)
         /\ RowsSeen(ps, w) => RowsSeen(ps, w \o << r >>)
         /\ \A tag : tag # "ReadyForQuery" => (Has(w \o << r >>, {tag}) <=> Has(w, {tag}))
         /\ ~Has(w, {"ReadyForQuery"}) => OwedOnce(w \o << r >>, 1)
  <1> DEFINE d == << r >>
             wd == w \o d
             a == Len(w)
  <1>1. d \in Seq(Reply)
    OBVIOUS
  <1>2. \A tags : /\ Has(d, tags) <=> r.tag \in tags
                  /\ Count(d, tags) = IF r.tag \in tags THEN 1 ELSE 0
    BY CountOfFew
  <1> HIDE DEF d
  <1>3. \A tags : r.tag \notin tags =>
            Count(wd, tags) = Count(w, tags) /\ (Has(wd, tags) <=> Has(w, tags))
    <2> SUFFICES ASSUME NEW tags, r.tag \notin tags
                 PROVE  Count(wd, tags) = Count(w, tags) /\ (Has(wd, tags) <=> Has(w, tags))
      OBVIOUS
    <2>1. Count(wd, tags) = Count(w, tags) + Count(d, tags) /\ Count(w, tags) \in Nat
      BY <1>1, UptoOfAppended, CountIsZero
    <2>2. Has(wd, tags) <=> Has(w, tags) \/ Has(d, tags)
      BY <1>1, UptoOfAppended
    <2>3. Count(d, tags) = 0 /\ ~Has(d, tags)
      BY <1>2
    <2> QED
      BY <2>1, <2>2, <2>3
  <1>4. \A tags : \A n \in 0 .. a : Upto(wd, tags, n) = Upto(w, tags, n)
    <2> TAKE tags
    <2> QED
      BY <1>1, UptoOfAppended
  <1>5. /\ a \in Nat /\ DOMAIN w = 1 .. a /\ DOMAIN wd = 1 .. a + 1 /\ Len(wd) = a + 1
        /\ wd[a + 1] = r /\ wd # << >>
        /\ \A i \in DOMAIN w : wd[i] = w[i]
    BY DEF d
  <1> HIDE DEF wd, a
  <1>6. \A tags : r.tag \notin tags /\ LastBeforeReady(w, tags) => LastBeforeReady(wd, tags)
    BY <1>5 DEF LastBeforeReady
  <1>7. \A t \in Requests : r.tag \notin Answering(t)
    BY DEF Answering, Requests
  <1>8. Exchanging(ps, wd, s, e, refusals)
    BY <1>3, <1>6, <1>7 DEF Exchanging, Answered, Streamed
  <1>9. Owned(ps, w) => Owned(ps, wd)
    <2> SUFFICES ASSUME Owned(ps, w), NEW i \in DOMAIN wd, wd[i].tag = "DataRow"
                 PROVE  LET k == Upto(wd, Answering("Execute"), i) + 1
                        IN  /\ k <= Len(ps.pending_executes)
                            /\ Recent(ps.pending_executes[k].plan, wd[i].since)
      BY DEF Owned
    <2>1. i \in DOMAIN w
      BY <1>5
    <2>2. wd[i] = w[i] /\ Upto(wd, Answering("Execute"), i) = Upto(w, Answering("Execute"), i)
      BY <1>4, <1>5, <2>1
    <2> QED
      BY <2>1, <2>2 DEF Owned
  <1>10. RowsSeen(ps, w) => RowsSeen(ps, wd)
    BY <1>5 DEF RowsSeen
  <1>11. \A tag : tag # "ReadyForQuery" => (Has(wd, {tag}) <=> Has(w, {tag}))
    <2> TAKE tag
    <2>1. tag # "ReadyForQuery" => r.tag \notin {tag}
      OBVIOUS
    <2> QED
      BY <1>3, <2>1
  <1>12. ~Has(w, {"ReadyForQuery"}) => OwedOnce(wd, 1)
    BY <1>5 DEF OwedOnce, Has
  <1> QED
    BY <1>8, <1>9, <1>10, <1>11, <1>12 DEF wd, d

\* Reading a reply keeps what is last on the wire last, and a sound end of it sound.
LEMMA TailKeeps ==
  ASSUME NEW w \in Seq(Reply), w # << >>
  PROVE  /\ \A tags : LastBeforeReady(w, tags) => LastBeforeReady(Tail(w), tags)
         /\ \A tags : Has(Tail(w), tags) => Has(w, tags)
         /\ \A tags : LastBeforeReady(w, tags) /\ Head(w).tag \in tags =>
                \A i \in DOMAIN Tail(w) : Tail(w)[i].tag = "ReadyForQuery"
         /\ \A n : OwedOnce(w, n) /\ Head(w).tag # "ReadyForQuery" => OwedOnce(Tail(w), n)
         /\ \A n : OwedOnce(w, n) /\ Head(w).tag = "ReadyForQuery" => n = 1 /\ Tail(w) = << >>
         /\ \A ps : RowsSeen(ps, w) => RowsSeen(ps, Tail(w))
  <1> DEFINE a == Len(w)
             t == Tail(w)
  <1>1. /\ a \in Nat /\ a > 0 /\ DOMAIN w = 1 .. a /\ DOMAIN t = 1 .. a - 1 /\ Len(t) = a - 1
        /\ w[1] = Head(w) /\ t \in Seq(Reply)
        /\ \A i \in DOMAIN t : i + 1 \in DOMAIN w /\ t[i] = w[i + 1]
        /\ t = << >> <=> a = 1
    <2>1. /\ a \in Nat /\ a > 0 /\ DOMAIN w = 1 .. a /\ DOMAIN t = 1 .. a - 1 /\ Len(t) = a - 1
          /\ w[1] = Head(w) /\ t \in Seq(Reply)
      OBVIOUS
    <2>2. \A i \in DOMAIN t : i + 1 \in DOMAIN w /\ t[i] = w[i + 1]
      OBVIOUS
    <2> HIDE DEF t
    <2>3. t = << >> <=> Len(t) = 0
      BY <2>1
    <2> QED
      BY <2>1, <2>2, <2>3
  <1> HIDE DEF a, t
  <1>2. \A tags : LastBeforeReady(w, tags) => LastBeforeReady(t, tags)
    <2> SUFFICES ASSUME NEW tags, LastBeforeReady(w, tags), NEW i \in DOMAIN t,
                        NEW j \in DOMAIN t, i < j, t[i].tag \in tags
                 PROVE  t[j].tag = "ReadyForQuery"
      BY DEF LastBeforeReady
    <2>1. i + 1 \in DOMAIN w /\ j + 1 \in DOMAIN w /\ t[i] = w[i + 1] /\ t[j] = w[j + 1]
          /\ i + 1 < j + 1
      BY <1>1
    <2> QED
      BY <2>1 DEF LastBeforeReady
  <1>3. \A tags : Has(t, tags) => Has(w, tags)
    BY <1>1 DEF Has
  <1>4. \A tags : LastBeforeReady(w, tags) /\ Head(w).tag \in tags =>
            \A i \in DOMAIN t : t[i].tag = "ReadyForQuery"
    <2> SUFFICES ASSUME NEW tags, LastBeforeReady(w, tags), Head(w).tag \in tags,
                        NEW i \in DOMAIN t
                 PROVE  t[i].tag = "ReadyForQuery"
      OBVIOUS
    <2>1. 1 \in DOMAIN w /\ i + 1 \in DOMAIN w /\ 1 < i + 1 /\ t[i] = w[i + 1]
      BY <1>1
    <2> QED
      BY <1>1, <2>1 DEF LastBeforeReady
  <1>5. \A n : OwedOnce(w, n) /\ Head(w).tag # "ReadyForQuery" => OwedOnce(t, n)
    <2> SUFFICES ASSUME NEW n, OwedOnce(w, n), Head(w).tag # "ReadyForQuery"
                 PROVE  OwedOnce(t, n)
      OBVIOUS
    <2>1. n \in {0, 1} /\ (n = 0 => ~Has(t, {"ReadyForQuery"}))
      BY <1>3 DEF OwedOnce
    <2>2. ASSUME n = 1, NEW i \in DOMAIN t PROVE t[i].tag = "ReadyForQuery" <=> i = Len(t)
      <3>1. i + 1 \in DOMAIN w /\ t[i] = w[i + 1] /\ (i + 1 = a <=> i = Len(t))
        BY <1>1
      <3> QED
        BY <2>2, <3>1 DEF OwedOnce, a
    <2>3. ASSUME n = 1 PROVE t # << >>
      <3>1. 1 \in DOMAIN w /\ w[1].tag # "ReadyForQuery"
        BY <1>1
      <3>2. a # 1
        BY <2>3, <3>1 DEF OwedOnce, a
      <3> QED
        BY <1>1, <3>2
    <2> QED
      BY <2>1, <2>2, <2>3 DEF OwedOnce
  <1>6. \A n : OwedOnce(w, n) /\ Head(w).tag = "ReadyForQuery" => n = 1 /\ t = << >>
    <2> SUFFICES ASSUME NEW n, OwedOnce(w, n), Head(w).tag = "ReadyForQuery"
                 PROVE  n = 1 /\ t = << >>
      OBVIOUS
    <2>1. 1 \in DOMAIN w /\ w[1].tag = "ReadyForQuery"
      BY <1>1
    <2>2. n = 1
      BY <2>1 DEF OwedOnce, Has
    <2>3. a = 1
      BY <2>1, <2>2 DEF OwedOnce, a
    <2> QED
      BY <1>1, <2>2, <2>3
  <1>7. \A ps : RowsSeen(ps, w) => RowsSeen(ps, t)
    BY <1>1 DEF RowsSeen
  <1> QED
    BY <1>2, <1>3, <1>4, <1>5, <1>6, <1>7 DEF t

\* Nothing is left of an exchange but its end.
LEMMA NothingLeft ==
  ASSUME NEW ps \in State, NEW w \in Seq(Reply), NEW s, NEW e, NEW refusals, NoSlots(ps),
         \A i \in DOMAIN w : w[i].tag = "ReadyForQuery"
  PROVE  Exchanging(ps, w, s, e, refusals) /\ Owned(ps, w)
  <1>1. \A tags : "ReadyForQuery" \notin tags => ~Has(w, tags) /\ Count(w, tags) = 0
    BY CountIsZero DEF Has
  <1>2. \A t \in Requests : "ReadyForQuery" \notin Answering(t)
    BY DEF Answering, Requests
  <1>3. \A t \in Requests : Slots(ps, t) = << >> /\ Len(Slots(ps, t)) = 0
    BY SlotsCounted DEF NoSlots
  <1>4. OfEpoch(ps, e)
    BY <1>3, SlotsAre DEF OfEpoch, Requests
  <1>5. \A t \in Requests : Answered(ps, w, t)
    BY <1>1, <1>2, <1>3 DEF Answered
  <1>6. ~Has(w, Streamed)
    BY <1>1 DEF Streamed
  <1>7. \A tags : LastBeforeReady(w, tags)
    BY DEF LastBeforeReady
  <1> QED
    BY <1>4, <1>5, <1>6, <1>7 DEF Exchanging, Owned

\* An answer is read and takes its slot.
LEMMA ExchangeShrinks ==
  ASSUME NEW ps \in State, NEW qs \in State, NEW w \in Seq(Reply), w # << >>, NEW e, NEW tag,
         NEW refusals,
         Exchanging(ps, w, None, e, refusals), Retires(ps, qs, tag),
         \A t \in Requests : Head(w).tag \in Answering(t) <=> t = tag,
         Head(w).tag # "ErrorResponse"
  PROVE  Exchanging(qs, Tail(w), None, e, refusals)
  <1> DEFINE tl == Tail(w)
             err == {"ErrorResponse"}
  <1>1. OfEpoch(qs, e)
    BY DEF Exchanging, Retires
  <1>2. /\ LastBeforeReady(tl, err)
        /\ refusals # {} => LastBeforeReady(tl, {"RowDescription"})
    BY TailKeeps DEF Exchanging
  <1>3. ASSUME Has(tl, Streamed) PROVE qs.active_epoch = e /\ e # None
    <2>1. ps.active_epoch = e /\ OfEpoch(ps, e) /\ e # None
      BY <1>3, TailKeeps DEF Exchanging
    <2> QED
      BY <2>1 DEF Retires
  <1>4. ASSUME NEW t \in Requests PROVE Answered(qs, tl, t)
    <2> DEFINE n == Len(Slots(ps, t))
               m == Len(Slots(qs, t))
               c == Count(w, Answering(t))
               d == Count(tl, Answering(t))
    <2>1. n \in Nat /\ c \in Nat /\ d \in Nat
      <3>1. tl \in Seq(Reply)
        OBVIOUS
      <3> HIDE DEF tl
      <3> QED
        BY <3>1, CountIsZero, SlotsCounted
    <2>2. c = d + (IF t = tag THEN 1 ELSE 0)
      BY CountOfTail
    <2>3. m = IF t = tag THEN (IF n = 0 THEN 0 ELSE n - 1) ELSE n
      <3>1. m = Len(Popped(ps, tag, t))
        BY DEF Retires
      <3> QED
        BY <3>1, SlotsCounted DEF Popped
    <2>4. (t # "Parse" => c <= n) /\ (~Has(w, err) => n <= c)
      BY DEF Exchanging, Answered
    <2>5. Has(w, err) => Has(tl, err)
      BY CountOfTail
    <2> HIDE DEF n, m, c, d, tl
    <2>6. t # "Parse" => d <= m
      BY <2>1, <2>2, <2>3, <2>4
    <2>7. ~Has(w, err) => m <= d
      BY <2>1, <2>2, <2>3, <2>4
    <2> QED
      BY <2>5, <2>6, <2>7 DEF Answered, m, d
  <1> QED
    BY <1>1, <1>2, <1>3, <1>4 DEF Exchanging

\* The rows still on the way keep their slots.
LEMMA OwnedShrinks ==
  ASSUME NEW ps \in State, NEW qs \in State, NEW w \in Seq(Reply), w # << >>, NEW tag,
         OfGeneration(ps), Owned(ps, w), RowsSeen(ps, w), Retires(ps, qs, tag),
         Head(w).tag \in Answering("Execute") <=> tag = "Execute"
  PROVE  Owned(qs, Tail(w)) /\ RowsSeen(qs, Tail(w)) /\ OfGeneration(qs)
  <1> DEFINE tl == Tail(w)
             ended == Answering("Execute")
             popped == Popped(ps, tag, "Execute")
             old == ps.pending_executes
             new == qs.pending_executes
             one == IF tag = "Execute" THEN 1 ELSE 0
  <1>1. /\ \A i \in DOMAIN tl : i \in 0 .. Len(w) - 1 /\ i \in Nat
                                /\ i + 1 \in DOMAIN w /\ tl[i] = w[i + 1]
        /\ tl \in Seq(Reply)
    OBVIOUS
  <1>2. /\ \A k \in DOMAIN popped : Renewed(popped[k], new[k], ps.generation)
        /\ qs.generation = ps.generation /\ OfGeneration(qs)
        /\ Len(new) = Len(popped)
    BY SlotsAre DEF Retires, Requests
  <1>3. \A k \in Nat : k >= 1 /\ k + one <= Len(old) =>
            k \in DOMAIN popped /\ popped[k] = old[k + one] /\ k <= Len(popped)
    <2>1. old \in Seq(PendingExecute)
      BY FieldsTyped
    <2>2. popped = IF tag = "Execute" THEN PopFront(old) ELSE old
      BY SlotsAre DEF Popped
    <2> HIDE DEF popped, old
    <2> QED
      BY <2>1, <2>2 DEF PopFront
  <1>4. RowsSeen(qs, tl)
    BY <1>2, TailKeeps DEF RowsSeen
  <1>5. ASSUME NEW i \in DOMAIN tl, tl[i].tag = "DataRow"
        PROVE  /\ Upto(tl, ended, i) + 1 <= Len(new)
               /\ Recent(new[Upto(tl, ended, i) + 1].plan, tl[i].since)
    <2> DEFINE j == i + 1
               u == Upto(tl, ended, i)
               v == Upto(w, ended, j)
    <2>1. j \in DOMAIN w /\ tl[i] = w[j]
      BY <1>1
    <2>2. v + 1 <= Len(old) /\ Recent(old[v + 1].plan, w[j].since) /\ w[j].since <= ps.generation
      BY <1>5, <2>1 DEF Owned, RowsSeen
    <2>3. v = u + one
      BY <1>1, UptoOfTail
    <2>4. u \in Nat
      BY <1>1, UptoGrows
    <2> HIDE DEF u, v, popped, old, new, tl, j
    <2> DEFINE k == u + 1
    <2>5. k \in Nat /\ k >= 1 /\ k + one = v + 1
      BY <2>3, <2>4
    <2> HIDE DEF k
    <2>6. k \in DOMAIN popped /\ popped[k] = old[v + 1] /\ k <= Len(popped)
      BY <1>3, <2>2, <2>5
    <2>7. Renewed(popped[k], new[k], ps.generation)
      BY <1>2, <2>6
    <2>8. Recent(new[k].plan, w[j].since)
      BY <2>2, <2>6, <2>7 DEF Renewed, Recent
    <2>9. k <= Len(new)
      BY <1>2, <2>6
    <2> QED
      BY <2>1, <2>8, <2>9 DEF k, u
  <1> QED
    BY <1>2, <1>4, <1>5 DEF Owned

-----------------------------------------------------------------------------
(* A query in progress.                                                    *)

Ending == {"CommandComplete", "ErrorResponse"}

\* Every description and every row is followed by the end of its result.
RowsEnd(w) ==
    \A i \in DOMAIN w : w[i].tag \in {"RowDescription", "DataRow"} =>
        \E j \in DOMAIN w : j > i /\ w[j].tag \in Ending

Opening == {"RowDescription", "CommandComplete", "ErrorResponse", "EmptyQueryResponse"}

\* The replies to a Query.
QueryAnswer(d) ==
    /\ OwedOnce(d, 1)
    /\ ~Has(d, {"PortalSuspended"})
    /\ RowsEnd(d)
    /\ d # << >> /\ Head(d).tag \in Opening

\* The replies have these tags.
Tagged(d, tags) ==
    /\ Len(d) = Len(tags) /\ DOMAIN d = 1 .. Len(tags) /\ d # << >> /\ Head(d) = d[1]
    /\ \A i \in 1 .. Len(tags) : d[i].tag = tags[i]

\* The end of a query without a result.
LEMMA AnswerWithoutResult ==
  ASSUME NEW d, NEW x \in {"CommandComplete", "ErrorResponse", "EmptyQueryResponse"},
         Tagged(d, << x, "ReadyForQuery" >>)
  PROVE  QueryAnswer(d)
  <1>1. /\ Len(d) = 2 /\ DOMAIN d = 1 .. 2 /\ d[1].tag = x /\ d[2].tag = "ReadyForQuery"
        /\ Head(d) = d[1] /\ d # << >>
    BY DEF Tagged
  <1> QED
    BY <1>1 DEF QueryAnswer, OwedOnce, Has, RowsEnd, Opening

\* A result that fails before its first row.
LEMMA AnswerOfFailure ==
  ASSUME NEW d, Tagged(d, << "RowDescription", "ErrorResponse", "ReadyForQuery" >>)
  PROVE  QueryAnswer(d)
  <1>1. /\ Len(d) = 3 /\ DOMAIN d = 1 .. 3 /\ d[1].tag = "RowDescription"
        /\ d[2].tag = "ErrorResponse" /\ d[3].tag = "ReadyForQuery"
        /\ Head(d) = d[1] /\ d # << >>
    BY DEF Tagged
  <1> QED
    BY <1>1 DEF QueryAnswer, OwedOnce, Has, RowsEnd, Opening, Ending

\* One result.
LEMMA AnswerOfOne ==
  ASSUME NEW d,
         Tagged(d, << "RowDescription", "DataRow", "CommandComplete", "ReadyForQuery" >>)
  PROVE  QueryAnswer(d)
  <1>1. /\ Len(d) = 4 /\ DOMAIN d = 1 .. 4 /\ d[1].tag = "RowDescription"
        /\ d[2].tag = "DataRow" /\ d[3].tag = "CommandComplete" /\ d[4].tag = "ReadyForQuery"
        /\ Head(d) = d[1] /\ d # << >>
    BY DEF Tagged
  <1> QED
    BY <1>1 DEF QueryAnswer, OwedOnce, Has, RowsEnd, Opening, Ending

\* Two results.
LEMMA AnswerOfTwo ==
  ASSUME NEW d,
         Tagged(d, << "RowDescription", "DataRow", "CommandComplete",
                      "RowDescription", "DataRow", "CommandComplete", "ReadyForQuery" >>)
  PROVE  QueryAnswer(d)
  <1>1. /\ Len(d) = 7 /\ DOMAIN d = 1 .. 7
        /\ d[1].tag = "RowDescription" /\ d[2].tag = "DataRow" /\ d[3].tag = "CommandComplete"
        /\ d[4].tag = "RowDescription" /\ d[5].tag = "DataRow" /\ d[6].tag = "CommandComplete"
        /\ d[7].tag = "ReadyForQuery" /\ Head(d) = d[1] /\ d # << >>
    BY DEF Tagged
  <1>2. RowsEnd(d)
    <2>1. \A i \in DOMAIN d : 3 > i \/ i = 3 \/ 6 > i \/ i = 6 \/ i = 7
      BY <1>1
    <2>2. 3 \in DOMAIN d /\ 6 \in DOMAIN d
      BY <1>1
    <2> QED
      BY <1>1, <2>1, <2>2 DEF RowsEnd, Ending
  <1> QED
    BY <1>1, <1>2 DEF QueryAnswer, OwedOnce, Has, Opening, Ending

\* What the backend answers to a Query outside a failed exchange.
LEMMA ServeQueryAnswers ==
  ASSUME NEW b \in BackendState, NEW m \in Message, m.tag = "Query", ~b.skipping
  PROVE  QueryAnswer(Serve(b, m).replies)
  <1> DEFINE kind == IF Blocked(b, m.sql) THEN "parse_error" ELSE Kind[m.sql]
             dropped == [b EXCEPT !.statements[UnnamedStatement] = None,
                                  !.portals[UnnamedPortal] = None]
             txn == IF kind = "begin" THEN "T" ELSE IF kind = "commit" THEN "I" ELSE b.txn
             ended == [dropped EXCEPT !.txn = txn,
                                      !.portals = IF txn = "I" THEN NoPortals ELSE @]
             failed == Fail(dropped)
             Shape(tag, fields) == Shaped(tag, fields, m.sql, "text")
             Result(fields) == << Shape("RowDescription", fields), Shape("DataRow", fields),
                                  Plain("CommandComplete") >>
             results == Results[m.sql]
             rows == IF Len(results) = 1
                     THEN Result(results[1])
                     ELSE Result(results[1]) \o Result(results[2])
  <1>1. ServeQuery(b, m) =
            CASE kind = "rows" -> Answer(ended, rows \o << Ready(txn) >>)
              [] kind = "empty" -> Answer(ended, << Plain("EmptyQueryResponse"), Ready(txn) >>)
              [] kind = "parse_error" ->
                    Answer(failed, << Plain("ErrorResponse"), Ready(failed.txn) >>)
              [] kind = "run_error" ->
                    Answer(failed, << Shape("RowDescription", results[1]),
                                      Plain("ErrorResponse"), Ready(failed.txn) >>)
              [] OTHER -> Answer(ended, << Plain("CommandComplete"), Ready(txn) >>)
    BY DEF ServeQuery
  <1> HIDE DEF kind, dropped, txn, ended, failed
  <1>2. /\ \A status : Ready(status).tag = "ReadyForQuery"
        /\ \A tag : Plain(tag).tag = tag
        /\ \A tag, fields : Shape(tag, fields).tag = tag
    BY DEF Ready, Plain, Shaped
  <1> HIDE DEF Shape
  <1>3. \A tag \in {"CommandComplete", "ErrorResponse", "EmptyQueryResponse"} : \A status :
            QueryAnswer(<< Plain(tag), Ready(status) >>)
    <2> TAKE tag \in {"CommandComplete", "ErrorResponse", "EmptyQueryResponse"}
    <2> TAKE status
    <2> DEFINE d == << Plain(tag), Ready(status) >>
    <2>1. Tagged(d, << tag, "ReadyForQuery" >>)
      BY <1>2 DEF Tagged
    <2> HIDE DEF d
    <2>2. QueryAnswer(d)
      BY <2>1, AnswerWithoutResult
    <2> QED
      BY <2>2 DEF d
  <1>4. \A status : QueryAnswer(<< Shape("RowDescription", results[1]), Plain("ErrorResponse"),
                                   Ready(status) >>)
    <2> TAKE status
    <2> DEFINE d == << Shape("RowDescription", results[1]), Plain("ErrorResponse"),
                       Ready(status) >>
    <2>1. Tagged(d, << "RowDescription", "ErrorResponse", "ReadyForQuery" >>)
      BY <1>2 DEF Tagged
    <2> HIDE DEF d
    <2>2. QueryAnswer(d)
      BY <2>1, AnswerOfFailure
    <2> QED
      BY <2>2 DEF d
  <1>6. QueryAnswer(rows \o << Ready(txn) >>)
    <2>1. ASSUME NEW fields PROVE QueryAnswer(Result(fields) \o << Ready(txn) >>)
      <3> DEFINE d == Result(fields) \o << Ready(txn) >>
      <3>1. Tagged(d, << "RowDescription", "DataRow", "CommandComplete", "ReadyForQuery" >>)
        BY <1>2 DEF Tagged
      <3> HIDE DEF d
      <3>2. QueryAnswer(d)
        BY <3>1, AnswerOfOne
      <3> QED
        BY <3>2 DEF d
    <2>2. ASSUME NEW first, NEW second
          PROVE  QueryAnswer((Result(first) \o Result(second)) \o << Ready(txn) >>)
      <3> DEFINE d == (Result(first) \o Result(second)) \o << Ready(txn) >>
      <3>1. Tagged(d, << "RowDescription", "DataRow", "CommandComplete",
                         "RowDescription", "DataRow", "CommandComplete", "ReadyForQuery" >>)
        BY <1>2 DEF Tagged
      <3> HIDE DEF d
      <3>2. QueryAnswer(d)
        BY <3>1, AnswerOfTwo
      <3> QED
        BY <3>2 DEF d
    <2> HIDE DEF Result
    <2> QED
      BY <2>1, <2>2
  <1> HIDE DEF rows
  <1>5. QueryAnswer(ServeQuery(b, m).replies)
    BY <1>1, <1>3, <1>4, <1>6 DEF Answer
  <1> QED
    BY <1>5 DEF Serve

\* A dated answer to a Query is one.
LEMMA DatedQuery ==
  ASSUME NEW r \in Seq(Reply), NEW d \in Seq(Reply), DatedAnswer(d, r), QueryAnswer(r)
  PROVE  QueryAnswer(d)
  <1>1. /\ DOMAIN d = DOMAIN r /\ Len(d) = Len(r) /\ \A i \in DOMAIN d : d[i].tag = r[i].tag
        /\ DOMAIN d = 1 .. Len(d) /\ Len(d) \in Nat
    BY DEF DatedAnswer
  <1>2. r # << >> /\ Head(r).tag \in Opening
    BY DEF QueryAnswer
  <1>3. d # << >> /\ Head(d) = d[1] /\ Head(r) = r[1] /\ 1 \in DOMAIN d
    <2>1. Len(r) # 0
      BY <1>2
    <2> QED
      BY <1>1, <2>1
  <1>4. Head(d).tag \in Opening
    BY <1>1, <1>2, <1>3
  <1>5. RowsEnd(d)
    BY <1>1 DEF QueryAnswer, RowsEnd
  <1>6. OwedOnce(d, 1) /\ ~Has(d, {"PortalSuspended"})
    BY <1>1, <1>3 DEF QueryAnswer, OwedOnce, Has
  <1> QED
    BY <1>3, <1>4, <1>5, <1>6 DEF QueryAnswer

-----------------------------------------------------------------------------
(* What holds of a session whose client waits its turn.                    *)

\* The replies on the way answer the exchange of epoch e.
Underway(ps, w, s, e, refusals) ==
    Exchanging(ps, w, s, e, refusals) /\ (s = None => Owned(ps, w))

\* Nothing is on the way and nothing is queued.
Resting(ps, w, s, b) == w = << >> /\ NoSlots(ps) /\ s = None /\ ~b.skipping

\* The query's one slot is still queued: none of its answers has been read.
Undescribed(ps, w) ==
    /\ Len(ps.pending_descriptions) = 1
    /\ ps.pending_descriptions[1].kind = "simple"
    /\ ~ps.streaming_simple_result
    /\ w # << >> /\ Head(w).tag \in Opening

\* The replies on the way answer a query.
Querying(ps, w, s) ==
    /\ \A t \in Requests \ {"Describe"} : Slots(ps, t) = << >>
    /\ RowsEnd(w)
    /\ ps.pending_descriptions = << >> \/ (s = None /\ Undescribed(ps, w))
    /\ s = None =>
        /\ ps.streaming_simple_result => Has(w, Ending)
        /\ \A i \in DOMAIN w : w[i].tag = "DataRow" => Recent(ps.active_plan, w[i].since)

\* The plan state, the wire, the swallowed epoch and the backend of a session in which the
\* client is in o and waits for n ReadyForQuery, under generation g of the policy.
Sound(ps, w, s, b, o, n, g, refusals) ==
    /\ OwedOnce(w, n)
    /\ o = "exchange" => n = 0
    /\ o = "query" => n = 1
    /\ n = 1 => ~b.skipping
    /\ ps.suspended = FALSE
    /\ ~Has(w, {"PortalSuspended"})
    /\ o = "exchange" /\ Has(w, {"ErrorResponse"}) => b.skipping
    /\ o # "query" => ps.streaming_simple_result = FALSE
    /\ OfGeneration(ps) /\ ps.generation <= g /\ RowsSeen(ps, w)
    /\ o = "none" /\ n = 0 => Resting(ps, w, s, b)
    /\ o = "query" => Querying(ps, w, s)
    /\ o = "exchange" => Underway(ps, w, s, ps.sync_epoch, refusals)
    /\ o = "none" /\ n = 1 => Underway(ps, w, s, ps.sync_epoch - 1, refusals)

\* The habits of a client that waits its turn: it sends nothing before the ReadyForQuery it
\* is owed, nor after an error it has been told of but a Sync, no Query into an exchange, no
\* Execute with a row limit and no second Execute of a portal that is being fetched; and if
\* planning can refuse a description, nothing after a Describe but a Sync.
Patient ==
    /\ {"awaits_ready", "query_alone", "heeds_errors", "fetches_in_turn"}
           \subseteq Manners[scenario]
    /\ \A m \in Menu[scenario] : m.tag = "Execute" => ~m.limited
    /\ PlanRefuses[scenario] = {} \/ "describes_last" \in Manners[scenario]

SlotInv ==
    /\ Sound(plans, wire, suppressing, db, open, owed, generation, PlanRefuses[scenario])
    /\ RowsJudgedUnderCurrentPolicy

-----------------------------------------------------------------------------
(* The client's messages.                                                  *)

\* What the client keeps to.
LEMMA PatientKeeps ==
  ASSUME IInv, Patient, NEW m \in Menu[scenario], ClientMay(m)
  PROVE  /\ m \in Message /\ owed = 0 /\ open # "query"
         /\ m.tag = "Query" => open = "none"
         /\ ErrorSeen => m.tag = "Sync"
         /\ m.tag = "Execute" => ~m.limited /\ (IsResume(plans, m.portal) => plans.suspended)
         /\ PlanRefuses[scenario] # {} /\ m.tag # "Sync" =>
                \A i \in DOMAIN plans.pending_descriptions :
                    plans.pending_descriptions[i].kind # "describe"
  <1>1. m \in Message
    BY SessionAssumption DEF IInv, TypeOK
  <1>2. \A habit \in Manners[scenario] : Keeps(habit, m)
    BY DEF ClientMay
  <1>3. /\ Keeps("awaits_ready", m) /\ Keeps("query_alone", m) /\ Keeps("heeds_errors", m)
        /\ Keeps("fetches_in_turn", m)
        /\ PlanRefuses[scenario] # {} => Keeps("describes_last", m)
    BY <1>2 DEF Patient
  <1>4. owed = 0 /\ open # "query" /\ (m.tag = "Query" => open = "none")
    BY <1>3 DEF Keeps
  <1>5. ErrorSeen => m.tag = "Sync"
    BY <1>3 DEF Keeps
  <1>6. m.tag = "Execute" => ~m.limited /\ (IsResume(plans, m.portal) => plans.suspended)
    BY <1>3 DEF Keeps, Patient
  <1>7. PlanRefuses[scenario] # {} /\ m.tag # "Sync" =>
            \A i \in DOMAIN plans.pending_descriptions :
                plans.pending_descriptions[i].kind # "describe"
    BY <1>3 DEF Keeps
  <1> QED
    BY <1>1, <1>4, <1>5, <1>6, <1>7

\* sync_policy, in an exchange or before one.
LEMMA SyncedSound ==
  ASSUME IInv, SlotInv, owed = 0, open # "query"
  PROVE  /\ Synced \in State /\ Synced.generation = generation
         /\ Underway(Synced, wire, suppressing, Synced.sync_epoch, PlanRefuses[scenario])
         /\ OfGeneration(Synced) /\ RowsSeen(Synced, wire)
         /\ Synced.suspended = FALSE /\ Synced.streaming_simple_result = FALSE
         /\ Synced.sync_epoch = plans.sync_epoch
         /\ Synced.pending_executes = plans.pending_executes
         /\ Synced.portal_bind_generations = plans.portal_bind_generations
         /\ Synced.pending_descriptions = plans.pending_descriptions
         /\ \A o : Sound(plans, wire, suppressing, db, o, 0, generation, PlanRefuses[scenario])
                => Sound(Synced, wire, suppressing, db, o, 0, generation, PlanRefuses[scenario])
         /\ open = "none" => Resting(plans, wire, suppressing, db) /\ NoSlots(Synced)
  <1> DEFINE qs == Synced
             r == PlanRefuses[scenario]
  <1>1. /\ plans \in State /\ generation \in Nat /\ qs \in State /\ wire \in Seq(Reply)
        /\ open \in {"none", "exchange", "query"}
    BY SyncedGood DEF Good, IInv, TypeOK
  <1>2. Refreshes(plans, qs, generation)
    BY <1>1, InvalidateRefreshes DEF Synced
  <1> DEFINE ps == plans
  <1> HIDE DEF qs, r, ps
  <1>3. /\ \A t : Slots(qs, t) = Slots(ps, t)
        /\ OfGeneration(ps) => OfGeneration(qs)
        /\ qs.generation = generation /\ qs.sync_epoch = ps.sync_epoch
        /\ qs.active_epoch = ps.active_epoch
        /\ qs.suspended = ps.suspended
        /\ qs.streaming_simple_result = ps.streaming_simple_result
        /\ qs.pending_executes = ps.pending_executes
        /\ qs.pending_descriptions = ps.pending_descriptions
        /\ qs.portal_bind_generations = ps.portal_bind_generations
    BY <1>2 DEF Refreshes, ps
  <1>4. Sound(ps, wire, suppressing, db, open, 0, generation, r)
    BY DEF SlotInv, ps, r
  <1>5. ps.generation \in Nat
    BY <1>1, FieldsTyped DEF ps
  <1>6. NoSlots(ps) => NoSlots(qs)
    BY <1>3 DEF NoSlots
  <1>7. \A e : Underway(ps, wire, suppressing, e, r) => Underway(qs, wire, suppressing, e, r)
    BY <1>3, ExchangeSame DEF Underway, Owned
  <1>8. wire = << >> /\ NoSlots(qs) => \A e : Underway(qs, wire, suppressing, e, r)
    <2> SUFFICES ASSUME wire = << >>, NoSlots(qs), NEW e PROVE Underway(qs, wire, suppressing, e, r)
      OBVIOUS
    <2>1. \A i \in DOMAIN wire : wire[i].tag = "ReadyForQuery"
      OBVIOUS
    <2> QED
      BY <1>1, <2>1, NothingLeft DEF Underway
  <1>9. Underway(qs, wire, suppressing, qs.sync_epoch, r)
    BY <1>1, <1>3, <1>4, <1>6, <1>7, <1>8 DEF Sound, Resting
  <1>10. RowsSeen(ps, wire) /\ ps.generation <= generation => RowsSeen(qs, wire)
    <2>1. \A i \in DOMAIN wire : wire[i].tag = "DataRow" => wire[i].since \in Nat
      BY <1>1 DEF Reply, PlainTags
    <2> QED
      BY <1>1, <1>3, <1>5, <2>1 DEF RowsSeen
  <1>11. OfGeneration(qs) /\ RowsSeen(qs, wire) /\ qs.suspended = FALSE
           /\ qs.streaming_simple_result = FALSE
    BY <1>3, <1>4, <1>10 DEF Sound
  <1>12. ASSUME NEW o, Sound(ps, wire, suppressing, db, o, 0, generation, r)
         PROVE  Sound(qs, wire, suppressing, db, o, 0, generation, r)
    <2>1. o # "query"
      BY <1>12 DEF Sound
    <2>2. Underway(ps, wire, suppressing, ps.sync_epoch, r) =>
              Underway(qs, wire, suppressing, qs.sync_epoch, r)
      BY <1>3, <1>7
    <2>3. qs.generation <= generation
      BY <1>1, <1>3
    <2> QED
      BY <1>1, <1>3, <1>6, <1>11, <1>12, <2>1, <2>2, <2>3 DEF Sound, Resting
  <1>13. open = "none" => Resting(ps, wire, suppressing, db) /\ NoSlots(qs)
    BY <1>4, <1>6 DEF Sound, Resting
  <1> QED
    BY <1>1, <1>3, <1>9, <1>11, <1>12, <1>13 DEF qs, r, ps

\* A message that is answered by the proxy itself.
LEMMA RefusalSound ==
  ASSUME IInv, Patient, SlotInv, NEW m \in Menu[scenario], ClientMay(m), Refuse(m), Sends(m, 0),
         m.tag # "Sync"
  PROVE  SlotInv'
  <1>1. owed = 0 /\ open # "query" /\ (m.tag = "Query" => open = "none") /\ ~ErrorSeen
    BY PatientKeeps
  <1>2. /\ Sound(Synced, wire, suppressing, db, open, 0, generation, PlanRefuses[scenario])
        /\ open = "none" => Resting(plans, wire, suppressing, db) /\ NoSlots(Synced)
        /\ Underway(Synced, wire, suppressing, Synced.sync_epoch, PlanRefuses[scenario])
    BY <1>1, SyncedSound DEF SlotInv
  <1>3. /\ plans' = Synced /\ owed' = 0 /\ open' = IF m.tag = "Query" THEN "none" ELSE "exchange"
        /\ UNCHANGED << suppressing, generation, db, wire, scenario >>
    BY <1>1 DEF Refuse, Sends
  <1>4. Sound(Synced, wire, suppressing, db, open', 0, generation, PlanRefuses[scenario])
    <2>1. CASE open' = open
      BY <1>2, <2>1
    <2>2. CASE open' # open
      <3>1. open' = "exchange" /\ open = "none"
        BY <1>1, <1>3, <2>2 DEF IInv, TypeOK
      <3>2. wire = << >>
        BY <1>2, <3>1 DEF Resting
      <3>3. ~Has(wire, {"ErrorResponse"})
        BY <3>2 DEF Has
      <3> QED
        BY <1>2, <3>1, <3>3 DEF Sound
    <2> QED
      BY <2>1, <2>2
  <1>5. RowsJudgedUnderCurrentPolicy'
    BY DEF Refuse, RowsJudgedUnderCurrentPolicy, Row
  <1> QED
    BY <1>3, <1>4, <1>5 DEF SlotInv

\* What a forwarded message of an exchange brings, if its exchange has not failed.
LEMMA ForwardBrings ==
  ASSUME IInv, NEW m \in Message, NEW ps, Forward(m, ps), m.tag \notin {"Query", "Sync"},
         m.tag = "Execute" => ~m.limited, db.skipping <=> Has(wire, {"ErrorResponse"})
  PROVE  \E d \in Seq(Reply) :
            /\ Brings(d, m.tag)
            /\ wire' = IF Has(wire, {"ErrorResponse"}) THEN wire ELSE wire \o d
            /\ \A i \in DOMAIN d : d[i].tag = "DataRow" => d[i].since = generation
            /\ Has(wire', {"ErrorResponse"}) => db'.skipping
            /\ ~db.skipping => DatedAnswer(d, Serve(db, m).replies)
  <1>1. PICK d \in Seq(Reply) : wire' = wire \o d /\ DatedAnswer(d, Serve(db, m).replies)
    BY ForwardAppends
  <1>2. /\ m.tag \in {"Parse", "Bind", "Describe", "Close", "Execute"}
        /\ wire \in Seq(Reply) /\ db \in BackendState
        /\ db' = Serve(db, m).db
    BY DEF Message, IInv, TypeOK, Forward
  <1>3. CASE db.skipping
    <2> DEFINE e == << Plain("ErrorResponse") >>
    <2>1. e \in Seq(Reply) /\ Fails(e)
      BY PlainTyped DEF PlainTags, Fails, Plain
    <2>2. \A i \in DOMAIN e : e[i].tag # "DataRow"
      BY DEF Plain
    <2> HIDE DEF e
    <2>3. Brings(e, m.tag)
      BY <1>2, <2>1, AnswersBring
    <2>4. Serve(db, m) = Answer(db, << >>)
      BY <1>3 DEF Serve
    <2>5. db' = db /\ d = << >>
      BY <1>1, <1>2, <2>4 DEF Answer, DatedAnswer
    <2>6. wire' = wire
      BY <1>1, <1>2, <2>5
    <2> QED
      BY <1>3, <2>1, <2>2, <2>3, <2>5, <2>6
  <1>4. CASE ~db.skipping
    <2> DEFINE r == Serve(db, m).replies
    <2>1. \/ db'.skipping /\ Fails(r)
          \/ ~db'.skipping /\ Succeeds(r, m.tag)
      BY <1>2, <1>4, ServeAnswers
    <2>2. r \in Seq(Reply)
      BY <1>2, ServeTyped DEF WellServed
    <2>3. \/ db'.skipping /\ Fails(d)
          \/ ~db'.skipping /\ Succeeds(d, m.tag)
      BY <1>1, <2>1, <2>2, DatedAnswers
    <2>4. Brings(d, m.tag) /\ (Fails(d) <=> Has(d, {"ErrorResponse"}))
      BY <1>2, <2>3, AnswersBring
    <2>5. Has(d, {"ErrorResponse"}) => db'.skipping
      <3>1. CASE Fails(d) /\ Succeeds(d, m.tag)
        BY <1>2, <3>1 DEF Fails, Succeeds, Answering, Requests
      <3> QED
        BY <2>3, <2>4, <3>1
    <2>6. Has(wire', {"ErrorResponse"}) <=>
              Has(wire, {"ErrorResponse"}) \/ Has(d, {"ErrorResponse"})
      BY <1>1, <1>2, UptoOfAppended
    <2>7. \A i \in DOMAIN d : d[i].tag = "DataRow" => d[i].since = generation
      BY <1>1 DEF DatedAnswer
    <2> QED
      BY <1>1, <1>4, <2>4, <2>5, <2>6, <2>7
  <1> QED
    BY <1>3, <1>4

\* A message of the extended protocol is forwarded and given its slot.
LEMMA ExtendedSound ==
  ASSUME IInv, Patient, SlotInv, NEW m \in Menu[scenario], ClientMay(m), Sends(m, 0),
         m.tag \notin {"Query", "Sync"}, NEW qs \in State, Asks(Synced, qs, m.tag), Forward(m, qs)
  PROVE  SlotInv'
  <1> DEFINE ps == Synced
             r == PlanRefuses[scenario]
             err == {"ErrorResponse"}
  <1>1. /\ m \in Message /\ owed = 0 /\ open # "query" /\ ~ErrorSeen
        /\ m.tag = "Execute" => ~m.limited
        /\ r # {} => \A i \in DOMAIN plans.pending_descriptions :
                plans.pending_descriptions[i].kind # "describe"
    BY PatientKeeps
  <1>2. /\ ps \in State /\ ps.generation = generation
        /\ Underway(ps, wire, suppressing, ps.sync_epoch, r)
        /\ OfGeneration(ps) /\ RowsSeen(ps, wire) /\ ps.streaming_simple_result = FALSE
        /\ ps.pending_descriptions = plans.pending_descriptions
        /\ open = "none" => Resting(plans, wire, suppressing, db)
    BY <1>1, SyncedSound
  <1>3. suppressing = None /\ wire \in Seq(Reply) /\ generation \in Nat
        /\ open \in {"none", "exchange", "query"}
    BY <1>1 DEF ErrorSeen, IInv, TypeOK
  <1>4. Sound(plans, wire, None, db, open, 0, generation, r)
    BY <1>1, <1>3 DEF SlotInv
  <1>5. db.skipping <=> Has(wire, err)
    <2>1. db.skipping => Has(wire, err)
      BY <1>1 DEF ErrorSeen, Has
    <2>2. open = "exchange" /\ Has(wire, err) => db.skipping
      BY <1>4 DEF Sound
    <2>3. open = "none" => ~Has(wire, err)
      BY <1>2 DEF Resting, Has
    <2> QED
      BY <1>1, <1>3, <2>1, <2>2, <2>3
  <1>6. PICK d \in Seq(Reply) :
            /\ Brings(d, m.tag)
            /\ wire' = IF Has(wire, err) THEN wire ELSE wire \o d
            /\ \A i \in DOMAIN d : d[i].tag = "DataRow" => d[i].since = generation
            /\ Has(wire', err) => db'.skipping
    BY <1>1, <1>5, ForwardBrings
  <1>7. /\ plans' = qs /\ suppressing' = None /\ generation' = generation /\ delivered' = None
        /\ open' = "exchange" /\ owed' = 0 /\ scenario' = scenario
    BY <1>1, <1>3 DEF Forward, Sends
  <1>8. r # {} => ps.pending_descriptions = << >>
    <2> SUFFICES ASSUME r # {} PROVE ps.pending_descriptions = << >>
      OBVIOUS
    <2>1. OfEpoch(ps, ps.sync_epoch)
      BY <1>2 DEF Underway, Exchanging
    <2> HIDE DEF ps, r
    <2>2. DOMAIN ps.pending_descriptions = {}
      BY <1>1, <1>2, <2>1 DEF OfEpoch
    <2> DEFINE queue == ps.pending_descriptions
    <2>3. /\ Len(queue) \in Nat /\ DOMAIN queue = 1 .. Len(queue)
          /\ queue = << >> <=> Len(queue) = 0
      BY <1>2, SlotsCounted, SlotsAre DEF Requests
    <2> HIDE DEF queue
    <2>4. Len(queue) = 0
      <3>1. DOMAIN queue = {}
        BY <2>2 DEF queue
      <3>2. 1 \notin 1 .. Len(queue)
        BY <2>3, <3>1
      <3> QED
        BY <2>3, <3>2
    <2> QED
      BY <2>3, <2>4 DEF queue
  <1> HIDE DEF ps, r
  <1>9. Exchanging(qs, wire', None, ps.sync_epoch, r)
    BY <1>2, <1>3, <1>6, <1>8, ExchangeGrows DEF Underway, ps
  <1>10. Owned(qs, wire') /\ RowsSeen(qs, wire')
    BY <1>2, <1>3, <1>6, OwnedGrows DEF Underway, ps
  <1>11. /\ qs.sync_epoch = ps.sync_epoch /\ qs.generation = ps.generation
         /\ qs.suspended = FALSE /\ qs.streaming_simple_result = FALSE /\ OfGeneration(qs)
    BY <1>2 DEF Asks, ps
  <1>12. ~Has(wire', {"ReadyForQuery"}) /\ ~Has(wire', {"PortalSuspended"})
    <2>1. ~Has(wire, {"ReadyForQuery"}) /\ ~Has(wire, {"PortalSuspended"})
      BY <1>4 DEF Sound, OwedOnce
    <2> QED
      BY <1>3, <1>6, <2>1, UptoOfAppended DEF Brings
  <1>13. Sound(qs, wire', None, db', "exchange", 0, generation, r)
    BY <1>2, <1>3, <1>6, <1>9, <1>10, <1>11, <1>12 DEF Sound, OwedOnce, Underway
  <1>14. RowsJudgedUnderCurrentPolicy'
    BY <1>7 DEF RowsJudgedUnderCurrentPolicy, Row
  <1> QED
    BY <1>7, <1>13, <1>14 DEF SlotInv, r

\* A Sync ends the exchange, or asks for an empty one.
LEMMA SyncSound ==
  ASSUME IInv, Patient, SlotInv, NEW m \in Menu[scenario], ClientMay(m), Sends(m, 1),
         m.tag = "Sync", Forward(m, Sync(Synced))
  PROVE  SlotInv'
  <1> DEFINE ps == Synced
             qs == Sync(ps)
             r == PlanRefuses[scenario]
             s == suppressing
             e == ps.sync_epoch
  <1>1. m \in Message /\ owed = 0 /\ open # "query"
    BY PatientKeeps
  <1>2. /\ ps \in State /\ ps.generation = generation
        /\ Underway(ps, wire, s, e, r)
        /\ OfGeneration(ps) /\ RowsSeen(ps, wire)
        /\ ps.suspended = FALSE /\ ps.streaming_simple_result = FALSE
    BY <1>1, SyncedSound
  <1>3. Sound(plans, wire, s, db, open, 0, generation, r) /\ wire \in Seq(Reply)
        /\ db \in BackendState /\ generation \in Nat
    BY <1>1 DEF SlotInv, IInv, TypeOK
  <1>4. PICK d \in Seq(Reply) : wire' = wire \o d /\ DatedAnswer(d, Serve(db, m).replies)
    BY <1>1, ForwardAppends
  <1>5. d[1] \in Reply /\ d[1].tag = "ReadyForQuery" /\ d = << d[1] >>
    <2>1. Serve(db, m).replies = << Ready(db.txn) >>
      BY DEF Serve, ServeSync, Answer
    <2>2. Len(d) = 1 /\ d[1].tag = Ready(db.txn).tag
      BY <1>4, <2>1 DEF DatedAnswer
    <2> QED
      BY <2>2 DEF Ready
  <1>6. ~db'.skipping
    BY <1>1, <1>3, ServeSyncEnds DEF Forward
  <1>7. /\ plans' = qs /\ suppressing' = s /\ generation' = generation /\ delivered' = None
        /\ open' = "none" /\ owed' = 1 /\ scenario' = scenario
    BY <1>1 DEF Forward, Sends
  <1>8. /\ qs.pending_parses = ps.pending_parses /\ qs.pending_binds = ps.pending_binds
        /\ qs.pending_descriptions = ps.pending_descriptions
        /\ qs.pending_executes = ps.pending_executes
        /\ qs.active_epoch = ps.active_epoch /\ qs.generation = ps.generation
        /\ qs.suspended = ps.suspended
        /\ qs.streaming_simple_result = ps.streaming_simple_result
        /\ qs.statement_plans = ps.statement_plans /\ qs.portal_plans = ps.portal_plans
        /\ qs.sync_epoch = e + 1 /\ e \in Nat
    BY <1>2, FieldsTyped DEF Sync, State
  <1> HIDE DEF qs, ps, r, s, e
  <1>9. \A t : Slots(qs, t) = Slots(ps, t)
    BY <1>8 DEF Slots
  <1> DEFINE x == d[1]
             w2 == wire \o << x >>
  <1>10. x \in Reply /\ x.tag = "ReadyForQuery" /\ wire' = w2
    BY <1>4, <1>5
  <1> HIDE DEF x
  <1>11. /\ Exchanging(ps, w2, s, e, r)
         /\ Owned(ps, wire) => Owned(ps, w2)
         /\ RowsSeen(ps, w2)
         /\ ~Has(w2, {"PortalSuspended"})
         /\ OwedOnce(w2, 1)
    <2>1. ~Has(wire, {"PortalSuspended"}) /\ ~Has(wire, {"ReadyForQuery"})
      BY <1>3 DEF Sound, OwedOnce
    <2> QED
      BY <1>2, <1>3, <1>10, <2>1, ReadyJoins DEF Underway
  <1> HIDE DEF w2
  <1>12. Exchanging(qs, w2, s, e, r)
    BY <1>8, <1>9, <1>11, ExchangeSame
  <1>13. s = None => Owned(qs, w2)
    BY <1>2, <1>8, <1>11 DEF Underway, Owned
  <1>14. qs.sync_epoch - 1 = e
    BY <1>8
  <1>15. OfGeneration(qs) /\ RowsSeen(qs, w2)
    BY <1>2, <1>8, <1>11 DEF OfGeneration, RowsSeen
  <1>16. Sound(qs, w2, s, db', "none", 1, generation, r)
    BY <1>2, <1>3, <1>6, <1>8, <1>11, <1>12, <1>13, <1>14, <1>15 DEF Sound, Underway
  <1>17. RowsJudgedUnderCurrentPolicy'
    BY <1>7 DEF RowsJudgedUnderCurrentPolicy, Row
  <1> QED
    BY <1>7, <1>10, <1>16, <1>17 DEF SlotInv, r

\* A Query is forwarded when nothing is outstanding and given the one slot.
LEMMA QuerySound ==
  ASSUME IInv, Patient, SlotInv, NEW m \in Menu[scenario], ClientMay(m), Sends(m, 1),
         m.tag = "Query", NEW sql \in Option(Sqls), Forward(m, BeginSimpleQuery(Synced, sql))
  PROVE  SlotInv'
  <1> DEFINE ps == Synced
             qs == BeginSimpleQuery(ps, sql)
             r == PlanRefuses[scenario]
             slot == [kind |-> "simple", sql |-> sql,
                      epoch |-> ps.sync_epoch, order |-> ps.next_result_order]
  <1>1. m \in Message /\ owed = 0 /\ open = "none"
    BY PatientKeeps
  <1>2. /\ ps \in State /\ ps.generation = generation
        /\ OfGeneration(ps)
        /\ ps.suspended = FALSE /\ ps.streaming_simple_result = FALSE
        /\ Resting(plans, wire, suppressing, db) /\ NoSlots(ps)
    BY <1>1, SyncedSound
  <1>3. /\ wire = << >> /\ wire \in Seq(Reply) /\ suppressing = None /\ ~db.skipping
        /\ db \in BackendState /\ generation \in Nat
    BY <1>2 DEF Resting, IInv, TypeOK
  <1>4. PICK d \in Seq(Reply) : wire' = wire \o d /\ DatedAnswer(d, Serve(db, m).replies)
    BY <1>1, ForwardAppends
  <1>5. wire' = d /\ QueryAnswer(d)
    <2>1. Serve(db, m).replies \in Seq(Reply)
      BY <1>1, <1>3, ServeTyped DEF WellServed
    <2> QED
      BY <1>1, <1>3, <1>4, <2>1, ServeQueryAnswers, DatedQuery
  <1>6. ~db'.skipping
    BY <1>1, <1>3, ServeQueryEnds DEF Forward
  <1>7. /\ plans' = qs /\ suppressing' = None /\ generation' = generation /\ delivered' = None
        /\ open' = "query" /\ owed' = 1 /\ scenario' = scenario
    BY <1>1, <1>3 DEF Forward, Sends
  <1>8. /\ qs.pending_parses = ps.pending_parses /\ qs.pending_binds = ps.pending_binds
        /\ qs.pending_descriptions = Append(ps.pending_descriptions, slot)
        /\ qs.pending_executes = ps.pending_executes
        /\ qs.active_plan = None /\ qs.generation = ps.generation
        /\ qs.suspended = ps.suspended
        /\ qs.streaming_simple_result = ps.streaming_simple_result
        /\ qs.statement_plans = ps.statement_plans /\ qs.portal_plans = ps.portal_plans
        /\ slot.kind = "simple"
    BY <1>2 DEF BeginSimpleQuery, ClearActive, State
  <1> HIDE DEF qs, ps, r, slot
  <1>9. \A t \in Requests \ {"Describe"} : Slots(qs, t) = << >>
    BY <1>2, <1>8, SlotsAre DEF NoSlots, Requests
  <1>10. /\ Len(qs.pending_descriptions) = 1
         /\ qs.pending_descriptions[1].kind = "simple"
    <2>1. ps.pending_descriptions = << >>
      BY <1>2, SlotsAre DEF NoSlots, Requests
    <2> QED
      BY <1>8, <2>1
  <1>11. Querying(qs, d, None)
    BY <1>2, <1>5, <1>8, <1>9, <1>10 DEF Querying, Undescribed, QueryAnswer, Recent
  <1>12. OfGeneration(qs)
    BY <1>2, <1>8 DEF OfGeneration
  <1>13. RowsSeen(qs, d)
    BY <1>2, <1>3, <1>4, <1>8 DEF RowsSeen, DatedAnswer
  <1>14. Sound(qs, d, None, db', "query", 1, generation, r)
    BY <1>2, <1>3, <1>5, <1>6, <1>8, <1>11, <1>12, <1>13 DEF Sound, QueryAnswer
  <1>15. RowsJudgedUnderCurrentPolicy'
    BY <1>7 DEF RowsJudgedUnderCurrentPolicy, Row
  <1> QED
    BY <1>5, <1>7, <1>14, <1>15 DEF SlotInv, r

\* Each kind of frontend message.
LEMMA FrontendSound ==
  ASSUME IInv, Patient, SlotInv, HandleFrontend
  PROVE  SlotInv'
  <1> DEFINE ps == Synced
  <1>1. PICK m \in Menu[scenario] : \/ FrontendQuery(m) \/ FrontendParse(m) \/ FrontendBind(m)
                          \/ FrontendDescribe(m) \/ FrontendClose(m) \/ FrontendExecute(m)
                          \/ FrontendSync(m)
    BY DEF HandleFrontend
  <1>2. ClientMay(m)
    BY <1>1 DEF FrontendQuery, FrontendParse, FrontendBind, FrontendDescribe, FrontendClose,
                FrontendExecute, FrontendSync
  <1>3. /\ m \in Message /\ owed = 0 /\ open # "query"
        /\ m.tag = "Execute" => (IsResume(plans, m.portal) => plans.suspended)
    BY <1>2, PatientKeeps
  <1>4. /\ ps \in State /\ ps.suspended = FALSE
        /\ ps.pending_executes = plans.pending_executes
        /\ ps.portal_bind_generations = plans.portal_bind_generations
    BY <1>3, SyncedSound
  <1>5. plans.suspended = FALSE
    BY DEF SlotInv, Sound
  <1> HIDE DEF ps
  <1>6. CASE FrontendQuery(m)
    <2> DEFINE sql == IF m.sql \in Decodable THEN m.sql ELSE None
    <2>1. sql \in Option(Sqls)
      BY SessionAssumption DEF Option
    <2> HIDE DEF sql
    <2>2. /\ m.tag = "Query"
          /\ \/ Refuse(m) /\ Sends(m, 0)
             \/ Forward(m, BeginSimpleQuery(Synced, sql)) /\ Sends(m, 1)
      BY <1>6 DEF FrontendQuery, sql
    <2> QED
      BY <1>2, <2>1, <2>2, RefusalSound, QuerySound
  <1>7. CASE FrontendParse(m)
    <2>1. /\ m.tag = "Parse" /\ Sends(m, 0)
          /\ Refuse(m) \/ Forward(m, ParseStatement(ps, m.name, m.sql)) \/ Forward(m, ps)
      BY <1>7 DEF FrontendParse, ps
    <2>2. m.name \in Statements /\ m.sql \in Sqls
      BY <1>3, <2>1 DEF Message
    <2>3. /\ ParseStatement(ps, m.name, m.sql) \in State
          /\ Asks(ps, ParseStatement(ps, m.name, m.sql), "Parse")
      BY <1>4, <2>2, ParseStatementTyped, ParseAsks
    <2>4. Asks(ps, ps, "Parse")
      BY <1>4, AsksNothing
    <2> QED
      BY <1>2, <1>4, <2>1, <2>3, <2>4, RefusalSound, ExtendedSound DEF ps
  <1>8. CASE FrontendBind(m)
    <2>1. m.tag = "Bind" /\ Sends(m, 0)
            /\ Forward(m, Bind(ps, m.portal, m.statement, m.formats))
      BY <1>8 DEF FrontendBind, ps
    <2>2. m.portal \in Portals /\ m.statement \in Statements /\ m.formats \in Formats
      BY <1>3, <2>1 DEF Message
    <2>3. /\ Bind(ps, m.portal, m.statement, m.formats) \in State
          /\ Asks(ps, Bind(ps, m.portal, m.statement, m.formats), "Bind")
      BY <1>4, <2>2, BindTyped, BindAsks
    <2> QED
      BY <1>2, <2>1, <2>3, ExtendedSound DEF ps
  <1>9. CASE FrontendDescribe(m)
    <2>1. m.tag = "Describe" /\ Sends(m, 0) /\ Forward(m, Describe(ps, m.target))
      BY <1>9 DEF FrontendDescribe, ps
    <2>2. m.target \in Target
      BY <1>3, <2>1 DEF Message
    <2>3. Describe(ps, m.target) \in State /\ Asks(ps, Describe(ps, m.target), "Describe")
      BY <1>4, <2>2, DescribeTyped, DescribeAsks
    <2> QED
      BY <1>2, <2>1, <2>3, ExtendedSound DEF ps
  <1>10. CASE FrontendClose(m)
    <2>1. m.tag = "Close" /\ Sends(m, 0) /\ Forward(m, Close(ps, m.target))
      BY <1>10 DEF FrontendClose, ps
    <2>2. m.target \in Target
      BY <1>3, <2>1 DEF Message
    <2>3. Close(ps, m.target) \in State /\ Asks(ps, Close(ps, m.target), "Close")
      BY <1>4, <2>2, CloseTyped, CloseAsks
    <2> QED
      BY <1>2, <2>1, <2>3, ExtendedSound DEF ps
  <1>11. CASE FrontendExecute(m)
    <2>1. m.tag = "Execute" /\ Sends(m, 0) /\ (Refuse(m) \/ Forward(m, Execute(ps, m.portal)))
      BY <1>11 DEF FrontendExecute, ps
    <2>2. m.portal \in Portals
      BY <1>3, <2>1 DEF Message
    <2>3. ~IsResume(ps, m.portal)
      BY <1>3, <1>4, <1>5, <2>1 DEF IsResume
    <2>4. Execute(ps, m.portal) \in State /\ Asks(ps, Execute(ps, m.portal), "Execute")
      BY <1>4, <2>2, <2>3, ExecuteTyped, ExecuteAsks
    <2> QED
      BY <1>2, <2>1, <2>4, RefusalSound, ExtendedSound DEF ps
  <1>12. CASE FrontendSync(m)
    <2>1. m.tag = "Sync" /\ Sends(m, 1) /\ Forward(m, Sync(Synced))
      BY <1>12 DEF FrontendSync
    <2> QED
      BY <1>2, <2>1, SyncSound
  <1> QED
    BY <1>1, <1>6, <1>7, <1>8, <1>9, <1>10, <1>11, <1>12

-----------------------------------------------------------------------------
(* The backend's replies.                                                  *)

\* Reading the first reply takes ps to qs and the swallowed epoch from s to s2.
Moves(ps, qs, w, s, s2, o, g, refusals) ==
    /\ qs.suspended = FALSE /\ (o # "query" => qs.streaming_simple_result = FALSE)
    /\ qs.sync_epoch = ps.sync_epoch
    /\ OfGeneration(qs) /\ ps.generation <= qs.generation /\ qs.generation <= g
    /\ o # "query" =>
           \A e : Underway(ps, w, s, e, refusals) => Underway(qs, Tail(w), s2, e, refusals)
    /\ o = "query" /\ Querying(ps, w, s) => Querying(qs, Tail(w), s2)

\* What is to be shown of an arm that reads a reply.
LEMMA ReadSound ==
  ASSUME NEW ps \in State, NEW qs \in State, NEW w \in Seq(Reply), w # << >>, NEW s, NEW s2,
         NEW b, NEW o, NEW n, NEW g \in Nat, NEW refusals,
         o \in {"none", "exchange", "query"},
         Sound(ps, w, s, b, o, n, g, refusals), Head(w).tag # "ReadyForQuery",
         Moves(ps, qs, w, s, s2, o, g, refusals)
  PROVE  Sound(qs, Tail(w), s2, b, o, n, g, refusals)
  <1> DEFINE t == Tail(w)
  <1>1. t \in Seq(Reply) /\ ps.generation \in Nat /\ qs.generation \in Nat
    BY FieldsTyped
  <1>2. OwedOnce(t, n) /\ n \in {0, 1}
    BY TailKeeps DEF Sound, OwedOnce
  <1>3. \A tags : Has(t, tags) => Has(w, tags)
    BY TailKeeps
  <1>4. RowsSeen(qs, t)
    <2>1. RowsSeen(ps, t)
      BY TailKeeps DEF Sound
    <2>2. \A i \in DOMAIN t : t[i].tag = "DataRow" => t[i].since \in Nat
      <3> HIDE DEF t
      <3> QED
        BY <1>1 DEF Reply, PlainTags
    <2> QED
      BY <1>1, <2>1, <2>2 DEF RowsSeen, Moves
  <1>5. ~(o = "none" /\ n = 0)
    BY DEF Sound, Resting
  <1>6. o = "query" => Querying(qs, t, s2)
    BY DEF Sound, Moves
  <1>7. o = "exchange" => Underway(qs, t, s2, qs.sync_epoch, refusals)
    BY DEF Sound, Moves
  <1>8. o = "none" /\ n = 1 => Underway(qs, t, s2, qs.sync_epoch - 1, refusals)
    BY DEF Sound, Moves
  <1> HIDE DEF t
  <1>9. /\ ~Has(t, {"PortalSuspended"})
        /\ o = "exchange" /\ Has(t, {"ErrorResponse"}) => b.skipping
    BY <1>3 DEF Sound
  <1>10. /\ qs.suspended = FALSE /\ (o # "query" => qs.streaming_simple_result = FALSE)
         /\ OfGeneration(qs) /\ qs.generation <= g
    BY DEF Moves
  <1>11. /\ o = "exchange" => n = 0
         /\ o = "query" => n = 1
         /\ n = 1 => ~b.skipping
    BY DEF Sound
  <1>12. Sound(qs, t, s2, b, o, n, g, refusals)
    BY <1>2, <1>4, <1>5, <1>6, <1>7, <1>8, <1>9, <1>10, <1>11 DEF Sound
  <1> QED
    BY <1>12 DEF t

\* Every row of the rest of a query still has its end, and its plan.
LEMMA QueryTail ==
  ASSUME NEW w \in Seq(Reply), w # << >>, RowsEnd(w)
  PROVE  /\ RowsEnd(Tail(w))
         /\ Head(w).tag \in {"RowDescription", "DataRow"} => Has(Tail(w), Ending)
         /\ Has(w, Ending) /\ Head(w).tag \notin Ending => Has(Tail(w), Ending)
         /\ \A plan : (\A i \in DOMAIN w : w[i].tag = "DataRow" => Recent(plan, w[i].since))
                => \A i \in DOMAIN Tail(w) :
                       Tail(w)[i].tag = "DataRow" => Recent(plan, Tail(w)[i].since)
  <1> DEFINE t == Tail(w)
             a == Len(w)
  <1>1. /\ a \in Nat /\ a > 0 /\ DOMAIN w = 1 .. a /\ DOMAIN t = 1 .. a - 1 /\ w[1] = Head(w)
        /\ \A i \in DOMAIN t : i + 1 \in DOMAIN w /\ t[i] = w[i + 1]
        /\ \A j \in DOMAIN w : j > 1 => j - 1 \in DOMAIN t /\ t[j - 1] = w[j]
    OBVIOUS
  <1> HIDE DEF t, a
  <1>2. RowsEnd(t)
    <2> SUFFICES ASSUME NEW i \in DOMAIN t, t[i].tag \in {"RowDescription", "DataRow"}
                 PROVE  \E j \in DOMAIN t : j > i /\ t[j].tag \in Ending
      BY DEF RowsEnd
    <2>1. i + 1 \in DOMAIN w /\ t[i] = w[i + 1] /\ i \in Nat /\ i >= 1
      BY <1>1
    <2>2. PICK j \in DOMAIN w : j > i + 1 /\ w[j].tag \in Ending
      BY <2>1 DEF RowsEnd
    <2>3. j - 1 \in DOMAIN t /\ t[j - 1] = w[j] /\ j - 1 > i
      BY <1>1, <2>1, <2>2
    <2> QED
      BY <2>2, <2>3
  <1>3. ASSUME Head(w).tag \in {"RowDescription", "DataRow"} PROVE Has(t, Ending)
    <2>1. PICK j \in DOMAIN w : j > 1 /\ w[j].tag \in Ending
      BY <1>1, <1>3 DEF RowsEnd
    <2>2. j - 1 \in DOMAIN t /\ t[j - 1] = w[j]
      BY <1>1, <2>1
    <2> QED
      BY <2>1, <2>2 DEF Has
  <1>4. Has(w, Ending) /\ Head(w).tag \notin Ending => Has(t, Ending)
    BY CountOfTail DEF t
  <1>5. \A plan : (\A i \in DOMAIN w : w[i].tag = "DataRow" => Recent(plan, w[i].since))
                => \A i \in DOMAIN t : t[i].tag = "DataRow" => Recent(plan, t[i].since)
    BY <1>1
  <1> QED
    BY <1>2, <1>3, <1>4, <1>5 DEF t

\* A reply of a swallowed exchange changes nothing.
LEMMA SwallowedMoves ==
  ASSUME NEW ps \in State, NEW w \in Seq(Reply), w # << >>, NEW s, s # None, NEW b, NEW o, NEW n,
         NEW g \in Nat, NEW refusals, Sound(ps, w, s, b, o, n, g, refusals)
  PROVE  Moves(ps, ps, w, s, s, o, g, refusals)
  <1>1. \A e : Underway(ps, w, s, e, refusals) => Underway(ps, Tail(w), s, e, refusals)
    BY TailKeeps DEF Underway, Exchanging
  <1>2. Querying(ps, w, s) => Querying(ps, Tail(w), s)
    BY QueryTail DEF Querying
  <1>3. ps.generation <= ps.generation
    BY FieldsTyped
  <1> QED
    BY <1>1, <1>2, <1>3 DEF Moves, Sound

\* An answer read within an exchange.
LEMMA RetiresUnderway ==
  ASSUME NEW ps \in State, NEW qs \in State, NEW w \in Seq(Reply), w # << >>, NEW e, NEW tag,
         NEW refusals, Underway(ps, w, None, e, refusals), OfGeneration(ps), RowsSeen(ps, w),
         Retires(ps, qs, tag), \A t \in Requests : Head(w).tag \in Answering(t) <=> t = tag,
         Head(w).tag # "ErrorResponse"
  PROVE  Underway(qs, Tail(w), None, e, refusals)
  <1>1. Exchanging(qs, Tail(w), None, e, refusals)
    BY ExchangeShrinks DEF Underway
  <1>2. Head(w).tag \in Answering("Execute") <=> tag = "Execute"
    BY DEF Requests
  <1>3. Owned(qs, Tail(w))
    BY <1>2, OwnedShrinks DEF Underway
  <1> QED
    BY <1>1, <1>3 DEF Underway

\* What moves the session when an answer takes its slot in an exchange.
LEMMA RetiresMoves ==
  ASSUME NEW ps \in State, NEW qs \in State, NEW w \in Seq(Reply), w # << >>, NEW b, NEW o, NEW n,
         NEW g \in Nat, NEW refusals, Sound(ps, w, None, b, o, n, g, refusals), NEW tag,
         o # "query", Retires(ps, qs, tag),
         \A t \in Requests : Head(w).tag \in Answering(t) <=> t = tag,
         Head(w).tag # "ErrorResponse"
  PROVE  Moves(ps, qs, w, None, None, o, g, refusals)
  <1>1. \A e : Underway(ps, w, None, e, refusals) => Underway(qs, Tail(w), None, e, refusals)
    BY RetiresUnderway DEF Sound
  <1>2. OfGeneration(qs) /\ qs.generation = ps.generation /\ qs.sync_epoch = ps.sync_epoch
        /\ qs.suspended = ps.suspended /\ qs.streaming_simple_result = FALSE
    BY DEF Retires, Sound
  <1>3. ps.generation <= qs.generation
    BY <1>2, FieldsTyped
  <1> QED
    BY <1>1, <1>2, <1>3 DEF Moves, Sound

\* From ps to qs nothing changes that a query depends on.
Idles(ps, qs) ==
    /\ \A t \in Requests : Slots(qs, t) = Slots(ps, t)
    /\ qs.active_plan = ps.active_plan
    /\ qs.streaming_simple_result = ps.streaming_simple_result
    /\ qs.suspended = ps.suspended /\ qs.sync_epoch = ps.sync_epoch
    /\ qs.generation = ps.generation
    /\ qs.statement_plans = ps.statement_plans /\ qs.portal_plans = ps.portal_plans

\* A reply that finds nothing to do in a query.
LEMMA IdleMoves ==
  ASSUME NEW ps \in State, NEW qs \in State, NEW w \in Seq(Reply), w # << >>, NEW b, NEW o, NEW n,
         NEW g \in Nat, NEW refusals, Sound(ps, w, None, b, o, n, g, refusals), o = "query",
         Idles(ps, qs), Head(w).tag \notin Opening
  PROVE  Moves(ps, qs, w, None, None, o, g, refusals)
  <1>1. Querying(ps, w, None)
    BY DEF Sound
  <1>2. ps.pending_descriptions = << >>
    BY <1>1 DEF Querying, Undescribed
  <1>3. qs.pending_descriptions = << >> /\ \A t \in Requests \ {"Describe"} : Slots(qs, t) = << >>
    <2>1. Slots(qs, "Describe") = Slots(ps, "Describe")
      BY DEF Idles, Requests
    <2> QED
      BY <1>1, <1>2, <2>1, SlotsAre DEF Idles, Querying
  <1>4. Head(w).tag \notin Ending
    BY DEF Ending, Opening
  <1>5. /\ RowsEnd(Tail(w))
        /\ Has(w, Ending) => Has(Tail(w), Ending)
        /\ \A i \in DOMAIN Tail(w) :
               Tail(w)[i].tag = "DataRow" => Recent(ps.active_plan, Tail(w)[i].since)
    BY <1>1, <1>4, QueryTail DEF Querying
  <1>6. Querying(qs, Tail(w), None)
    BY <1>1, <1>3, <1>5 DEF Querying, Idles
  <1>7. ps.generation <= qs.generation /\ qs.generation <= g /\ OfGeneration(qs)
    BY FieldsTyped DEF Idles, Sound, OfGeneration
  <1> QED
    BY <1>6, <1>7 DEF Moves, Idles, Sound

\* The end of a result of a query.
LEMMA EndMoves ==
  ASSUME NEW ps \in State, NEW qs \in State, NEW w \in Seq(Reply), w # << >>, NEW b, NEW o, NEW n,
         NEW g \in Nat, NEW refusals, Sound(ps, w, None, b, o, n, g, refusals), o = "query",
         NoSlots(qs), OfGeneration(qs), qs.suspended = FALSE,
         qs.streaming_simple_result = FALSE, qs.active_plan \in {None, ps.active_plan},
         qs.sync_epoch = ps.sync_epoch, qs.generation = ps.generation
  PROVE  Moves(ps, qs, w, None, None, o, g, refusals)
  <1>1. Querying(ps, w, None)
    BY DEF Sound
  <1>2. qs.pending_descriptions = << >> /\ \A t \in Requests \ {"Describe"} : Slots(qs, t) = << >>
    BY SlotsAre DEF NoSlots, Requests
  <1>3. /\ RowsEnd(Tail(w))
        /\ \A i \in DOMAIN Tail(w) :
               Tail(w)[i].tag = "DataRow" => Recent(ps.active_plan, Tail(w)[i].since)
    BY <1>1, QueryTail DEF Querying
  <1>4. \A i \in DOMAIN Tail(w) :
            Tail(w)[i].tag = "DataRow" => Recent(qs.active_plan, Tail(w)[i].since)
    BY <1>3 DEF Recent
  <1>5. Querying(qs, Tail(w), None)
    BY <1>2, <1>3, <1>4 DEF Querying
  <1>6. ps.generation <= qs.generation /\ qs.generation <= g
    BY FieldsTyped DEF Sound
  <1> QED
    BY <1>5, <1>6 DEF Moves

\* ClearActive touches no queue.
LEMMA ClearedFacts ==
  ASSUME NEW ps \in State
  PROVE  /\ ClearActive(ps) \in State
         /\ \A t : Slots(ClearActive(ps), t) = Slots(ps, t)
         /\ ClearActive(ps).pending_descriptions = ps.pending_descriptions
         /\ ClearActive(ps).active_plan = None
         /\ ClearActive(ps).suspended = ps.suspended
         /\ ClearActive(ps).streaming_simple_result = ps.streaming_simple_result
         /\ ClearActive(ps).sync_epoch = ps.sync_epoch
         /\ ClearActive(ps).generation = ps.generation
         /\ OfGeneration(ps) => OfGeneration(ClearActive(ps))
         /\ NoSlots(ps) => NoSlots(ClearActive(ps))
         /\ RejectionEpoch(ps) \in Nat /\ RejectionEpoch(ps) # None
  <1> DEFINE qs == ClearActive(ps)
  <1>1. qs \in State
    BY ClearActiveTyped
  <1>2. /\ qs.pending_parses = ps.pending_parses /\ qs.pending_binds = ps.pending_binds
        /\ qs.pending_descriptions = ps.pending_descriptions
        /\ qs.pending_executes = ps.pending_executes
        /\ qs.active_plan = None
        /\ qs.suspended = ps.suspended
        /\ qs.streaming_simple_result = ps.streaming_simple_result
        /\ qs.sync_epoch = ps.sync_epoch /\ qs.generation = ps.generation
        /\ qs.statement_plans = ps.statement_plans /\ qs.portal_plans = ps.portal_plans
    BY DEF ClearActive, State
  <1> HIDE DEF qs
  <1>3. \A t : Slots(qs, t) = Slots(ps, t)
    BY <1>2 DEF Slots
  <1>4. OfGeneration(ps) => OfGeneration(qs)
    BY <1>2 DEF OfGeneration
  <1>5. NoSlots(ps) => NoSlots(qs)
    BY <1>3 DEF NoSlots
  <1>6. RejectionEpoch(ps) \in Nat /\ RejectionEpoch(ps) # None
    BY RejectionEpochTyped, NoneAssumption
  <1> QED
    BY <1>1, <1>2, <1>3, <1>4, <1>5, <1>6 DEF qs

\* reject refuses the result in flight: in an exchange what it swallows is that exchange.
LEMMA RejectMoves ==
  ASSUME NEW ps \in State, NEW w \in Seq(Reply), w # << >>, NEW b, NEW o, NEW n,
         NEW g \in Nat, NEW refusals, Sound(ps, w, None, b, o, n, g, refusals),
         o # "query" => Head(w).tag \in Streamed,
         o = "query" => Head(w).tag \notin Opening \/ ps.pending_descriptions = << >>
  PROVE  Moves(ps, ClearActive(ps), w, None, RejectionEpoch(ps), o, g, refusals)
  <1> DEFINE qs == ClearActive(ps)
             s == RejectionEpoch(ps)
  <1>1. /\ qs \in State /\ \A t : Slots(qs, t) = Slots(ps, t)
        /\ qs.pending_descriptions = ps.pending_descriptions
        /\ qs.suspended = ps.suspended /\ qs.generation = ps.generation
        /\ qs.streaming_simple_result = ps.streaming_simple_result
        /\ qs.sync_epoch = ps.sync_epoch
        /\ OfGeneration(ps) => OfGeneration(qs)
        /\ s # None
    BY ClearedFacts
  <1> HIDE DEF qs
  <1>2. ASSUME o # "query", NEW e, Underway(ps, w, None, e, refusals)
        PROVE  Underway(qs, Tail(w), s, e, refusals)
    <2>1. /\ OfEpoch(ps, e) /\ ps.active_epoch = e /\ e # None
          /\ LastBeforeReady(w, {"ErrorResponse"})
          /\ refusals # {} => LastBeforeReady(w, {"RowDescription"})
      <3>1. Has(w, Streamed)
        BY <1>2, CountOfTail
      <3> QED
        BY <1>2, <3>1 DEF Underway, Exchanging
    <2>2. s = e
      <3>1. ps.pending_descriptions # << >> => Head(ps.pending_descriptions).epoch = e
        <4>1. ps.pending_descriptions \in Seq(PendingDescribe \cup PendingSimple)
          BY FieldsTyped
        <4>2. \A i \in DOMAIN ps.pending_descriptions : ps.pending_descriptions[i].epoch = e
          BY <2>1, SlotsAre DEF OfEpoch, Requests
        <4> QED
          BY <4>1, <4>2
      <3>2. ps.pending_descriptions = << >> => s = IF e # None THEN e ELSE ps.sync_epoch
        BY <2>1 DEF RejectionEpoch
      <3> QED
        BY <2>1, <3>1, <3>2 DEF RejectionEpoch
    <2>3. /\ LastBeforeReady(Tail(w), {"ErrorResponse"})
          /\ refusals # {} => LastBeforeReady(Tail(w), {"RowDescription"})
      BY <2>1, TailKeeps
    <2>4. OfEpoch(qs, e)
      BY <1>1, <2>1 DEF OfEpoch
    <2> QED
      BY <1>1, <2>2, <2>3, <2>4 DEF Underway, Exchanging
  <1>3. ASSUME o = "query", Querying(ps, w, None) PROVE Querying(qs, Tail(w), s)
    <2>1. ps.pending_descriptions = << >>
      BY <1>3 DEF Querying, Undescribed
    <2>2. RowsEnd(Tail(w))
      BY <1>3, QueryTail DEF Querying
    <2> QED
      BY <1>1, <1>3, <2>1, <2>2 DEF Querying
  <1>4. ps.generation <= qs.generation
    BY <1>1, FieldsTyped
  <1> QED
    BY <1>1, <1>2, <1>3, <1>4 DEF Moves, Sound, qs

\* sync_policy keeps a session sound.
LEMMA RefreshSound ==
  ASSUME NEW ps \in State, NEW qs \in State, NEW w \in Seq(Reply), w # << >>, NEW s, NEW b,
         NEW o \in {"none", "exchange", "query"}, NEW n, NEW g \in Nat, NEW refusals,
         Sound(ps, w, s, b, o, n, g, refusals), Refreshes(ps, qs, g)
  PROVE  Sound(qs, w, s, b, o, n, g, refusals)
  <1>1. /\ \A t : Slots(qs, t) = Slots(ps, t)
        /\ OfGeneration(ps) => OfGeneration(qs)
        /\ qs.generation = g /\ qs.sync_epoch = ps.sync_epoch
        /\ qs.active_epoch = ps.active_epoch /\ qs.active_plan = ps.active_plan
        /\ qs.suspended = ps.suspended
        /\ qs.streaming_simple_result = ps.streaming_simple_result
        /\ qs.pending_executes = ps.pending_executes
        /\ qs.pending_descriptions = ps.pending_descriptions
    BY DEF Refreshes
  <1>2. \A e : Underway(ps, w, s, e, refusals) => Underway(qs, w, s, e, refusals)
    BY <1>1, ExchangeSame DEF Underway, Owned
  <1>3. Querying(ps, w, s) => Querying(qs, w, s)
    BY <1>1 DEF Querying, Undescribed
  <1>4. RowsSeen(qs, w)
    <2>1. \A i \in DOMAIN w : w[i].tag = "DataRow" => w[i].since \in Nat
      BY DEF Reply, PlainTags
    <2>2. ps.generation \in Nat /\ ps.generation <= g /\ RowsSeen(ps, w)
      BY FieldsTyped DEF Sound
    <2> QED
      BY <1>1, <2>1, <2>2 DEF RowsSeen
  <1>5. g <= g
    OBVIOUS
  <1>6. ~(o = "none" /\ n = 0)
    BY DEF Sound, Resting
  <1> QED
    BY <1>1, <1>2, <1>3, <1>4, <1>5, <1>6 DEF Sound

\* Outside a query what is on the wire answers an exchange.
LEMMA InExchange ==
  ASSUME NEW ps, NEW w, w # << >>, NEW s, NEW b, NEW o \in {"none", "exchange", "query"},
         NEW n, NEW g, NEW refusals, Sound(ps, w, s, b, o, n, g, refusals), o # "query"
  PROVE  \E e : Underway(ps, w, s, e, refusals)
  <1>1. o = "exchange" \/ (o = "none" /\ n = 1)
    BY DEF Sound, Resting, OwedOnce
  <1> QED
    BY <1>1 DEF Sound

\* The answer to a Describe finds its slot at the head.
LEMMA DescribeIsNext ==
  ASSUME NEW ps \in State, NEW w \in Seq(Reply), w # << >>, NEW e, NEW refusals,
         Underway(ps, w, None, e, refusals), Head(w).tag \in Answering("Describe")
  PROVE  HeadIs(ps, "describe")
  <1>1. Count(w, Answering("Describe")) <= Len(Slots(ps, "Describe"))
    BY DEF Underway, Exchanging, Answered, Requests
  <1>2. Count(w, Answering("Describe")) # 0 /\ Count(w, Answering("Describe")) \in Nat
    BY CountIsZero, CountOfTail
  <1>3. ps.pending_descriptions # << >>
    BY <1>1, <1>2, SlotsAre, SlotsCounted DEF Requests
  <1>4. ps.pending_descriptions \in Seq(PendingDescribe \cup PendingSimple)
    BY FieldsTyped
  <1>5. \A i \in DOMAIN ps.pending_descriptions : ps.pending_descriptions[i].kind = "describe"
    BY DEF Underway, Exchanging, OfEpoch
  <1> QED
    BY <1>3, <1>4, <1>5 DEF HeadIs

\* All slots of a sound session are of one epoch.
LEMMA SoundIsOneEpoch ==
  ASSUME NEW ps \in State, NEW w \in Seq(Reply), w # << >>, NEW s, NEW b,
         NEW o \in {"none", "exchange", "query"}, NEW n, NEW g, NEW refusals,
         Sound(ps, w, s, b, o, n, g, refusals)
  PROVE  \E e \in Nat : OneEpoch(ps, e)
  <1>1. \A t \in Requests : \A i \in DOMAIN Slots(ps, t) : Slots(ps, t)[i].epoch \in Nat
    BY EpochsTyped, SlotsAre DEF Requests
  <1>2. CASE o = "query"
    <2>1. Querying(ps, w, s)
      BY <1>2 DEF Sound
    <2>2. \A t \in Requests \ {"Describe"} : DOMAIN Slots(ps, t) = {}
      BY <2>1 DEF Querying
    <2>3. Slots(ps, "Describe") = << >> \/ Len(Slots(ps, "Describe")) = 1
      BY <2>1, SlotsAre DEF Querying, Undescribed
    <2>4. \A i \in DOMAIN Slots(ps, "Describe") : i = 1
      BY <2>3, SlotsCounted DEF Requests
    <2>5. CASE Slots(ps, "Describe") = << >>
      <3>1. OneEpoch(ps, 0)
        BY <2>2, <2>5 DEF OneEpoch
      <3> QED
        BY <3>1
    <2>6. CASE Len(Slots(ps, "Describe")) = 1
      <3> DEFINE e == Slots(ps, "Describe")[1].epoch
      <3>1. 1 \in DOMAIN Slots(ps, "Describe") /\ "Describe" \in Requests
        BY <2>6, SlotsCounted DEF Requests
      <3>2. e \in Nat
        BY <1>1, <3>1
      <3>3. OneEpoch(ps, e)
        BY <2>2, <2>4 DEF OneEpoch
      <3> QED
        BY <3>2, <3>3
    <2> QED
      BY <2>3, <2>5, <2>6
  <1>3. CASE o # "query"
    <2>1. PICK e : Underway(ps, w, s, e, refusals)
      BY <1>3, InExchange
    <2>2. OneEpoch(ps, e)
      BY <2>1 DEF Underway, Exchanging, OfEpoch, OneEpoch
    <2>3. CASE e \in Nat
      BY <2>2, <2>3
    <2>4. CASE e \notin Nat
      <3>1. OneEpoch(ps, 0)
        BY <1>1, <2>2, <2>4 DEF OneEpoch
      <3> QED
        BY <3>1
    <2> QED
      BY <2>3, <2>4
  <1> QED
    BY <1>2, <1>3

\* An answer that takes no part in a query takes its slot in an exchange.
LEMMA AnswerMoves ==
  ASSUME NEW ps \in State, NEW qs \in State, NEW w \in Seq(Reply), w # << >>, NEW b,
         NEW o \in {"none", "exchange", "query"}, NEW n, NEW g \in Nat, NEW refusals,
         Sound(ps, w, None, b, o, n, g, refusals), NEW tag,
         o # "query" => Retires(ps, qs, tag), o = "query" => Idles(ps, qs),
         \A t \in Requests : Head(w).tag \in Answering(t) <=> t = tag,
         Head(w).tag \notin Opening
  PROVE  Moves(ps, qs, w, None, None, o, g, refusals)
  <1>1. Head(w).tag # "ErrorResponse"
    BY DEF Opening
  <1>2. CASE o # "query"
    BY <1>1, <1>2, RetiresMoves
  <1>3. CASE o = "query"
    BY <1>3, IdleMoves
  <1> QED
    BY <1>2, <1>3

\* A queue of one slot.
LEMMA LoneSlot ==
  ASSUME NEW T, NEW queue \in Seq(T), Len(queue) = 1
  PROVE  queue # << >> /\ Head(queue) = queue[1] /\ Tail(queue) = << >>
  <1>1. queue # << >>
    OBVIOUS
  <1>2. Head(queue) = queue[1] /\ Tail(queue) \in Seq(T) /\ Len(Tail(queue)) = 0
    BY <1>1
  <1>3. \A q \in Seq(T) : Len(q) = 0 => q = << >>
    OBVIOUS
  <1> QED
    BY <1>1, <1>2, <1>3

\* The answers that complete a Parse, a Bind or a Close, and a row that is let through.
LEMMA CompleteMoves ==
  ASSUME NEW ps \in State, NEW w \in Seq(Reply), w # << >>, NEW b,
         NEW o \in {"none", "exchange", "query"}, NEW n, NEW g \in Nat, NEW refusals,
         Sound(ps, w, None, b, o, n, g, refusals)
  PROVE  /\ Head(w).tag = "ParseComplete" =>
                Moves(ps, FinishParse(ps), w, None, None, o, g, refusals)
         /\ Head(w).tag = "BindComplete" =>
                Moves(ps, FinishBind(ps), w, None, None, o, g, refusals)
         /\ Head(w).tag \in {"CloseComplete", "DataRow"} =>
                Moves(ps, ps, w, None, None, o, g, refusals)
  <1>1. /\ o # "query" => ps.streaming_simple_result = FALSE
        /\ o = "query" => Querying(ps, w, None)
    BY DEF Sound
  <1>2. o = "query" => ps.pending_parses = << >> /\ ps.pending_binds = << >>
    BY <1>1, SlotsAre DEF Querying, Requests
  <1>3. Idles(ps, ps)
    BY DEF Idles
  <1>4. ASSUME Head(w).tag = "ParseComplete"
        PROVE  Moves(ps, FinishParse(ps), w, None, None, o, g, refusals)
    <2> DEFINE qs == FinishParse(ps)
    <2>1. qs \in State
      BY FinishParseTyped
    <2>2. o # "query" => Retires(ps, qs, "Parse")
      BY <1>1, FinishParseRetires
    <2>3. o = "query" => qs = ps
      BY <1>2 DEF FinishParse, PopFront, State
    <2>4. o = "query" => Idles(ps, qs)
      BY <1>3, <2>3
    <2>5. \A t \in Requests : Head(w).tag \in Answering(t) <=> t = "Parse"
      BY <1>4 DEF Answering, Requests
    <2>6. Head(w).tag \notin Opening
      BY <1>4 DEF Opening
    <2> HIDE DEF qs
    <2>7. Moves(ps, qs, w, None, None, o, g, refusals)
      BY <2>1, <2>2, <2>4, <2>5, <2>6, AnswerMoves
    <2> QED
      BY <2>7 DEF qs
  <1>5. ASSUME Head(w).tag = "BindComplete"
        PROVE  Moves(ps, FinishBind(ps), w, None, None, o, g, refusals)
    <2> DEFINE qs == FinishBind(ps)
    <2>1. qs \in State
      BY FinishBindTyped
    <2>2. o # "query" => Retires(ps, qs, "Bind")
      BY <1>1, FinishBindRetires
    <2>3. o = "query" => qs = ps
      BY <1>2 DEF FinishBind
    <2>4. o = "query" => Idles(ps, qs)
      BY <1>3, <2>3
    <2>5. \A t \in Requests : Head(w).tag \in Answering(t) <=> t = "Bind"
      BY <1>5 DEF Answering, Requests
    <2>6. Head(w).tag \notin Opening
      BY <1>5 DEF Opening
    <2> HIDE DEF qs
    <2>7. Moves(ps, qs, w, None, None, o, g, refusals)
      BY <2>1, <2>2, <2>4, <2>5, <2>6, AnswerMoves
    <2> QED
      BY <2>7 DEF qs
  <1>6. ASSUME Head(w).tag \in {"CloseComplete", "DataRow"}
        PROVE  Moves(ps, ps, w, None, None, o, g, refusals)
    <2>1. o # "query" => Retires(ps, ps, "none")
      BY <1>1, RetiresNothing DEF Requests
    <2>2. \A t \in Requests : Head(w).tag \in Answering(t) <=> t = "none"
      BY <1>6 DEF Answering, Requests
    <2>3. Head(w).tag \notin Opening
      BY <1>6 DEF Opening
    <2> QED
      BY <1>3, <2>1, <2>2, <2>3, AnswerMoves
  <1> QED
    BY <1>4, <1>5, <1>6

\* The end of a result.
LEMMA CommandMoves ==
  ASSUME NEW ps \in State, NEW w \in Seq(Reply), w # << >>, NEW b,
         NEW o \in {"none", "exchange", "query"}, NEW n, NEW g \in Nat, NEW refusals,
         Sound(ps, w, None, b, o, n, g, refusals), Head(w).tag = "CommandComplete"
  PROVE  Moves(ps, FinishResultSet(ps), w, None, None, o, g, refusals)
  <1> DEFINE qs == FinishResultSet(ps)
  <1>1. qs \in State
    BY FinishResultSetTyped
  <1>2. CASE o # "query"
    <2>1. PICK e : Underway(ps, w, None, e, refusals)
      BY <1>2, InExchange
    <2>2. ~SimpleIsNext(ps)
      <3>1. ps.pending_descriptions \in Seq(PendingDescribe \cup PendingSimple)
        BY FieldsTyped
      <3>2. \A i \in DOMAIN ps.pending_descriptions :
                ps.pending_descriptions[i].kind = "describe"
        BY <2>1 DEF Underway, Exchanging, OfEpoch
      <3> QED
        BY <3>1, <3>2 DEF SimpleIsNext
    <2>3. Retires(ps, qs, "Execute")
      BY <1>2, <2>2, FinishResultSetRetires DEF Sound
    <2>4. \A t \in Requests : Head(w).tag \in Answering(t) <=> t = "Execute"
      BY DEF Answering, Requests
    <2> HIDE DEF qs
    <2>5. Moves(ps, qs, w, None, None, o, g, refusals)
      BY <1>1, <1>2, <2>3, <2>4, RetiresMoves
    <2> QED
      BY <2>5 DEF qs
  <1>3. CASE o = "query"
    <2>1. Querying(ps, w, None) /\ ps.suspended = FALSE /\ OfGeneration(ps)
      BY <1>3 DEF Sound
    <2>2. /\ ps.pending_parses = << >> /\ ps.pending_binds = << >> /\ ps.pending_executes = << >>
          /\ ps.pending_descriptions = << >> \/ Undescribed(ps, w)
      BY <2>1, SlotsAre DEF Querying, Requests
    <2>3. qs.pending_descriptions = << >> /\ qs.streaming_simple_result = FALSE
          /\ qs.suspended = FALSE
      <3>1. ps.pending_descriptions \in Seq(PendingDescribe \cup PendingSimple)
        BY FieldsTyped
      <3>2. ASSUME Undescribed(ps, w)
            PROVE  /\ SimpleIsNext(ps) /\ ps.streaming_simple_result = FALSE
                   /\ Tail(ps.pending_descriptions) = << >>
        <4>1. Len(ps.pending_descriptions) = 1 /\ ps.pending_descriptions[1].kind = "simple"
              /\ ps.streaming_simple_result = FALSE
          BY <3>2, FieldsTyped DEF Undescribed
        <4>2. ps.pending_descriptions # << >>
              /\ Head(ps.pending_descriptions) = ps.pending_descriptions[1]
              /\ Tail(ps.pending_descriptions) = << >>
          BY <3>1, <4>1, LoneSlot
        <4> QED
          BY <2>2, <4>1, <4>2 DEF SimpleIsNext
      <3>3. ps.pending_descriptions = << >> => ~SimpleIsNext(ps)
        BY DEF SimpleIsNext
      <3> QED
        BY <2>1, <2>2, <3>2, <3>3, FieldsTyped DEF FinishResultSet, State
    <2>4. /\ qs.pending_parses = ps.pending_parses /\ qs.pending_binds = ps.pending_binds
          /\ qs.pending_executes = << >>
          /\ qs.active_plan = ps.active_plan /\ qs.sync_epoch = ps.sync_epoch
          /\ qs.generation = ps.generation
          /\ qs.statement_plans = ps.statement_plans /\ qs.portal_plans = ps.portal_plans
      BY <2>2 DEF FinishResultSet, PopFront, State
    <2> HIDE DEF qs
    <2>5. NoSlots(qs)
      BY <2>2, <2>3, <2>4, SlotsAre DEF NoSlots, Requests
    <2>6. OfGeneration(qs)
      BY <2>1, <2>4 DEF OfGeneration
    <2>7. Moves(ps, qs, w, None, None, o, g, refusals)
      BY <1>1, <1>3, <2>3, <2>4, <2>5, <2>6, EndMoves
    <2> QED
      BY <2>7 DEF qs
  <1> QED
    BY <1>2, <1>3

\* An ErrorResponse ends the exchange, or the query.
LEMMA ErrorMoves ==
  ASSUME NEW ps \in State, NEW w \in Seq(Reply), w # << >>, NEW b,
         NEW o \in {"none", "exchange", "query"}, NEW n, NEW g \in Nat, NEW refusals,
         Sound(ps, w, None, b, o, n, g, refusals), Head(w).tag = "ErrorResponse"
  PROVE  Moves(ps, DiscardFailedEpoch(ps), w, None, None, o, g, refusals)
  <1> DEFINE qs == DiscardFailedEpoch(ps)
  <1>1. qs \in State
    BY DiscardFailedEpochTyped
  <1>2. PICK e \in Nat : OneEpoch(ps, e)
    BY SoundIsOneEpoch
  <1>3. Cleaned(ps, qs)
    BY <1>2, DiscardFailedCleans
  <1>4. qs.active_plan = None
    BY DEF DiscardFailedEpoch, State
  <1> HIDE DEF qs
  <1>5. /\ NoSlots(qs) /\ OfGeneration(qs)
        /\ qs.sync_epoch = ps.sync_epoch /\ qs.generation = ps.generation
        /\ qs.suspended = FALSE /\ qs.streaming_simple_result = FALSE
    BY <1>3 DEF Cleaned, Sound
  <1>6. CASE o = "query"
    <2>1. Moves(ps, qs, w, None, None, o, g, refusals)
      BY <1>1, <1>4, <1>5, <1>6, EndMoves
    <2> QED
      BY <2>1 DEF qs
  <1>7. CASE o # "query"
    <2>1. ASSUME NEW f, Underway(ps, w, None, f, refusals)
          PROVE  Underway(qs, Tail(w), None, f, refusals)
      <3>1. LastBeforeReady(w, {"ErrorResponse"}) /\ Head(w).tag \in {"ErrorResponse"}
        BY <2>1 DEF Underway, Exchanging
      <3>2. \A i \in DOMAIN Tail(w) : Tail(w)[i].tag = "ReadyForQuery"
        BY <3>1, TailKeeps
      <3>3. Tail(w) \in Seq(Reply)
        OBVIOUS
      <3> QED
        BY <1>1, <1>5, <3>2, <3>3, NothingLeft DEF Underway
    <2>2. ps.generation <= qs.generation /\ qs.generation <= g
      BY <1>5, FieldsTyped DEF Sound
    <2>3. Moves(ps, qs, w, None, None, o, g, refusals)
      BY <1>5, <1>7, <2>1, <2>2 DEF Moves
    <2> QED
      BY <2>3 DEF qs
  <1> QED
    BY <1>6, <1>7

\* The one slot of a query is a simple one.
LEMMA QueryIsNext ==
  ASSUME NEW ps \in State, NEW w, NEW s, Querying(ps, w, s), ps.pending_descriptions # << >>
  PROVE  /\ HeadIs(ps, "simple") /\ ~HeadIs(ps, "describe") /\ Undescribed(ps, w)
         /\ Tail(ps.pending_descriptions) = << >> /\ PopFront(ps.pending_descriptions) = << >>
  <1>1. Undescribed(ps, w)
    BY DEF Querying
  <1>2. Head(ps.pending_descriptions) = ps.pending_descriptions[1]
        /\ Tail(ps.pending_descriptions) = << >>
    BY <1>1, LoneSlot, FieldsTyped DEF Undescribed
  <1> QED
    BY <1>1, <1>2 DEF Undescribed, HeadIs, PopFront

\* The answer to a Describe that returns no rows.
LEMMA NoDataMoves ==
  ASSUME NEW ps \in State, NEW w \in Seq(Reply), w # << >>, NEW b,
         NEW o \in {"none", "exchange", "query"}, NEW n, NEW g \in Nat, NEW refusals,
         Sound(ps, w, None, b, o, n, g, refusals), Head(w).tag = "NoData"
  PROVE  IF HeadIs(ps, "describe")
         THEN Moves(ps, FinishNoData(ps), w, None, None, o, g, refusals)
         ELSE Moves(ps, ClearActive(ps), w, None, RejectionEpoch(ps), o, g, refusals)
  <1>1. CASE o # "query"
    <2>1. PICK e : Underway(ps, w, None, e, refusals)
      BY <1>1, InExchange
    <2>2. HeadIs(ps, "describe")
      BY <2>1, DescribeIsNext DEF Answering
    <2>3. FinishNoData(ps) \in State
      BY <2>2, FinishNoDataTyped
    <2>4. Retires(ps, FinishNoData(ps), "Describe")
      BY <1>1, <2>2, FinishNoDataRetires DEF Sound
    <2>5. \A t \in Requests : Head(w).tag \in Answering(t) <=> t = "Describe"
      BY DEF Answering, Requests
    <2>6. Moves(ps, FinishNoData(ps), w, None, None, o, g, refusals)
      BY <1>1, <2>3, <2>4, <2>5, RetiresMoves
    <2> QED
      BY <2>2, <2>6
  <1>2. CASE o = "query"
    <2>1. Querying(ps, w, None)
      BY <1>2 DEF Sound
    <2>2. ~HeadIs(ps, "describe")
      BY <2>1, QueryIsNext DEF HeadIs
    <2>3. Head(w).tag \notin Opening
      BY DEF Opening
    <2>4. Moves(ps, ClearActive(ps), w, None, RejectionEpoch(ps), o, g, refusals)
      BY <1>2, <2>3, RejectMoves
    <2> QED
      BY <2>2, <2>4
  <1> QED
    BY <1>1, <1>2

\* The answer to an empty text.
LEMMA EmptyMoves ==
  ASSUME NEW ps \in State, NEW w \in Seq(Reply), w # << >>, NEW b,
         NEW o \in {"none", "exchange", "query"}, NEW n, NEW g \in Nat, NEW refusals,
         Sound(ps, w, None, b, o, n, g, refusals), Head(w).tag = "EmptyQueryResponse"
  PROVE  IF HeadIs(ps, "simple")
         THEN Moves(ps, FinishEmptyQuery(ps), w, None, None, o, g, refusals)
         ELSE Moves(ps, ClearActive(ps), w, None, RejectionEpoch(ps), o, g, refusals)
  <1>1. CASE o # "query"
    <2>1. PICK e : Underway(ps, w, None, e, refusals)
      BY <1>1, InExchange
    <2>2. \A i \in DOMAIN ps.pending_descriptions : ps.pending_descriptions[i].kind = "describe"
      BY <2>1 DEF Underway, Exchanging, OfEpoch
    <2>3. ~HeadIs(ps, "simple")
      <3>1. ps.pending_descriptions \in Seq(PendingDescribe \cup PendingSimple)
        BY FieldsTyped
      <3> QED
        BY <2>2, <3>1 DEF HeadIs
    <2>4. Head(w).tag \in Streamed
      BY DEF Streamed
    <2>5. Moves(ps, ClearActive(ps), w, None, RejectionEpoch(ps), o, g, refusals)
      BY <1>1, <2>4, RejectMoves
    <2> QED
      BY <2>3, <2>5
  <1>2. CASE o = "query" /\ HeadIs(ps, "simple")
    <2> DEFINE qs == FinishEmptyQuery(ps)
    <2>1. Querying(ps, w, None) /\ ps.suspended = FALSE /\ OfGeneration(ps)
      BY <1>2 DEF Sound
    <2>2. ps.pending_descriptions # << >> /\ Tail(ps.pending_descriptions) = << >>
      BY <1>2, <2>1, QueryIsNext DEF HeadIs
    <2>3. qs \in State
      BY <1>2, FinishEmptyQueryTyped
    <2>4. /\ qs.pending_descriptions = << >> /\ qs.streaming_simple_result = FALSE
          /\ qs.pending_parses = ps.pending_parses /\ qs.pending_binds = ps.pending_binds
          /\ qs.pending_executes = ps.pending_executes
          /\ qs.active_plan = ps.active_plan /\ qs.sync_epoch = ps.sync_epoch
          /\ qs.generation = ps.generation /\ qs.suspended = ps.suspended
          /\ qs.statement_plans = ps.statement_plans /\ qs.portal_plans = ps.portal_plans
      BY <2>2 DEF FinishEmptyQuery, State
    <2> HIDE DEF qs
    <2>5. NoSlots(qs)
      BY <2>1, <2>4, SlotsAre DEF NoSlots, Querying, Requests
    <2>6. OfGeneration(qs)
      BY <2>1, <2>4 DEF OfGeneration
    <2>7. Moves(ps, qs, w, None, None, o, g, refusals)
      BY <1>2, <2>1, <2>3, <2>4, <2>5, <2>6, EndMoves
    <2> QED
      BY <1>2, <2>7 DEF qs
  <1>3. CASE o = "query" /\ ~HeadIs(ps, "simple")
    <2>1. Querying(ps, w, None)
      BY <1>3 DEF Sound
    <2>2. ps.pending_descriptions = << >>
      BY <1>3, <2>1, QueryIsNext
    <2>3. Moves(ps, ClearActive(ps), w, None, RejectionEpoch(ps), o, g, refusals)
      BY <1>3, <2>2, RejectMoves
    <2> QED
      BY <1>3, <2>3
  <1> QED
    BY <1>1, <1>2, <1>3

\* The description of a result that planning refuses: nothing but the end of its exchange
\* follows a Describe, so what is swallowed has no slot.
LEMMA RefusedMoves ==
  ASSUME NEW ps \in State, NEW w \in Seq(Reply), w # << >>, NEW b,
         NEW o \in {"none", "exchange", "query"}, NEW n, NEW g \in Nat, NEW refusals,
         Sound(ps, w, None, b, o, n, g, refusals), Head(w).tag = "RowDescription", refusals # {},
         NEW mid, mid = DiscardDescription(ps)
  PROVE  Moves(ps, ClearActive(mid), w, None, RejectionEpoch(mid), o, g, refusals)
  <1> DEFINE qs == ClearActive(mid)
             s == RejectionEpoch(mid)
  <1>1. mid \in State
    BY DiscardDescriptionTyped
  <1>2. /\ mid.pending_descriptions = PopFront(ps.pending_descriptions)
        /\ mid.pending_parses = ps.pending_parses /\ mid.pending_binds = ps.pending_binds
        /\ mid.pending_executes = ps.pending_executes
        /\ mid.sync_epoch = ps.sync_epoch /\ mid.generation = ps.generation
        /\ mid.suspended = ps.suspended
        /\ mid.streaming_simple_result = ps.streaming_simple_result
        /\ mid.statement_plans = ps.statement_plans /\ mid.portal_plans = ps.portal_plans
    BY DEF DiscardDescription, State
  <1>3. OfGeneration(ps) => OfGeneration(mid)
    BY <1>2 DEF OfGeneration
  <1>4. /\ qs \in State /\ \A t : Slots(qs, t) = Slots(mid, t)
        /\ qs.pending_descriptions = mid.pending_descriptions
        /\ qs.suspended = mid.suspended /\ qs.generation = mid.generation
        /\ qs.streaming_simple_result = mid.streaming_simple_result
        /\ qs.sync_epoch = mid.sync_epoch
        /\ OfGeneration(mid) => OfGeneration(qs)
        /\ s # None
    BY <1>1, ClearedFacts
  <1> HIDE DEF qs, s
  <1>5. ASSUME o # "query", NEW e, Underway(ps, w, None, e, refusals)
        PROVE  Underway(qs, Tail(w), s, e, refusals)
    <2>1. LastBeforeReady(w, {"RowDescription"}) /\ Head(w).tag \in {"RowDescription"}
      BY <1>5 DEF Underway, Exchanging
    <2>2. \A i \in DOMAIN Tail(w) : Tail(w)[i].tag = "ReadyForQuery"
      BY <2>1, TailKeeps
    <2>3. Tail(w) \in Seq(Reply)
      OBVIOUS
    <2>4. ~Has(w, {"ErrorResponse"})
      BY <2>2, CountOfTail DEF Has
    <2>5. ASSUME NEW t \in Requests
          PROVE  Count(w, Answering(t)) = IF t = "Describe" THEN 1 ELSE 0
      <3>1. ~Has(Tail(w), Answering(t))
        BY <2>2 DEF Has, Answering, Requests
      <3> DEFINE x == Tail(w)
      <3> HIDE DEF x
      <3>2. x \in Seq(Reply) /\ ~Has(x, Answering(t))
        BY <2>3, <3>1 DEF x
      <3>3. Count(x, Answering(t)) = 0
        BY <3>2, CountIsZero
      <3>4. Head(w).tag \in Answering(t) <=> t = "Describe"
        BY DEF Answering, Requests
      <3> QED
        BY <3>3, <3>4, CountOfTail DEF x
    <2>6. \A t \in Requests : Len(Slots(ps, t)) <= IF t = "Describe" THEN 1 ELSE 0
      BY <1>5, <2>4, <2>5 DEF Underway, Exchanging, Answered
    <2>7. ps.pending_parses = << >> /\ ps.pending_binds = << >> /\ ps.pending_executes = << >>
          /\ Len(ps.pending_descriptions) \in {0, 1}
      <3>1. ASSUME NEW t \in Requests \ {"Describe"} PROVE Slots(ps, t) = << >>
        <4>1. Len(Slots(ps, t)) <= 0
          BY <2>6
        <4> QED
          BY <4>1, SlotsCounted
      <3>2. Len(Slots(ps, "Describe")) \in {0, 1}
        <4> DEFINE m == Len(Slots(ps, "Describe"))
        <4>1. m <= IF "Describe" = "Describe" THEN 1 ELSE 0
          BY <2>6 DEF Requests
        <4>2. m \in Nat
          BY SlotsCounted DEF Requests
        <4> HIDE DEF m
        <4>3. m \in {0, 1}
          BY <4>1, <4>2
        <4> QED
          BY <4>3 DEF m
      <3> QED
        BY <3>1, <3>2, SlotsAre DEF Requests
    <2>8. PopFront(ps.pending_descriptions) = << >>
      <3>1. ps.pending_descriptions = << >> \/ Len(ps.pending_descriptions) = 1
        BY <2>7, FieldsTyped
      <3> QED
        BY <3>1, LoneSlot, FieldsTyped DEF PopFront
    <2>9. NoSlots(qs)
      BY <1>2, <1>4, <2>7, <2>8, SlotsAre DEF NoSlots, Requests
    <2> QED
      BY <1>4, <2>2, <2>3, <2>9, NothingLeft DEF Underway
  <1>6. ASSUME o = "query", Querying(ps, w, None) PROVE Querying(qs, Tail(w), s)
    <2>1. PopFront(ps.pending_descriptions) = << >>
      BY <1>6, QueryIsNext DEF PopFront
    <2>2. RowsEnd(Tail(w))
      BY <1>6, QueryTail DEF Querying
    <2>3. \A t \in Requests \ {"Describe"} : Slots(qs, t) = << >>
      BY <1>2, <1>4, <1>6, SlotsAre DEF Querying, Requests
    <2> QED
      BY <1>2, <1>4, <2>1, <2>2, <2>3 DEF Querying
  <1>7. ps.generation <= qs.generation /\ qs.generation <= g
    BY <1>2, <1>4, FieldsTyped DEF Sound
  <1>8. Moves(ps, qs, w, None, s, o, g, refusals)
    BY <1>2, <1>3, <1>4, <1>5, <1>6, <1>7 DEF Moves, Sound
  <1> QED
    BY <1>8 DEF qs, s

\* The description of a result that is planned.
LEMMA DescribedMoves ==
  ASSUME NEW ps \in State, NEW w \in Seq(Reply), w # << >>, NEW b,
         NEW o \in {"none", "exchange", "query"}, NEW n, NEW g \in Nat, NEW refusals,
         Sound(ps, w, None, b, o, n, g, refusals), Head(w).tag = "RowDescription",
         NEW plan \in Plan, plan.generation = ps.generation, ps.pending_descriptions # << >>
  PROVE  Moves(ps, FinishDescription(ps, plan), w, None, None, o, g, refusals)
  <1> DEFINE qs == FinishDescription(ps, plan)
  <1>1. qs \in State
    BY FinishDescriptionTyped
  <1>2. CASE o # "query"
    <2>1. PICK e : Underway(ps, w, None, e, refusals)
      BY <1>2, InExchange
    <2>2. HeadIs(ps, "describe")
      BY <2>1, DescribeIsNext DEF Answering
    <2>3. Retires(ps, qs, "Describe")
      BY <2>2, FinishDescriptionRetires
    <2>4. \A t \in Requests : Head(w).tag \in Answering(t) <=> t = "Describe"
      BY DEF Answering, Requests
    <2> HIDE DEF qs
    <2>5. Moves(ps, qs, w, None, None, o, g, refusals)
      BY <1>1, <1>2, <2>3, <2>4, RetiresMoves
    <2> QED
      BY <2>5 DEF qs
  <1>3. CASE o = "query"
    <2>1. Querying(ps, w, None) /\ ps.suspended = FALSE /\ OfGeneration(ps) /\ RowsSeen(ps, w)
      BY <1>3 DEF Sound
    <2>2. HeadIs(ps, "simple") /\ Tail(ps.pending_descriptions) = << >>
      BY <2>1, QueryIsNext
    <2>3. /\ qs.pending_descriptions = << >> /\ qs.streaming_simple_result = TRUE
          /\ qs.pending_parses = ps.pending_parses /\ qs.pending_binds = ps.pending_binds
          /\ qs.pending_executes = ps.pending_executes
          /\ qs.active_plan = plan /\ qs.sync_epoch = ps.sync_epoch
          /\ qs.generation = ps.generation /\ qs.suspended = ps.suspended
          /\ qs.statement_plans = ps.statement_plans /\ qs.portal_plans = ps.portal_plans
      BY <2>2 DEF FinishDescription, State, HeadIs
    <2> HIDE DEF qs
    <2>4. OfGeneration(qs)
      BY <2>1, <2>3 DEF OfGeneration
    <2>5. \A i \in DOMAIN w : w[i].tag = "DataRow" => Recent(plan, w[i].since)
      <3>1. \A i \in DOMAIN w : w[i].tag = "DataRow" => w[i].since \in Nat
        BY DEF Reply, PlainTags
      <3> QED
        BY <2>1, <3>1, FieldsTyped DEF Recent, RowsSeen
    <2>6. /\ RowsEnd(Tail(w)) /\ Has(Tail(w), Ending)
          /\ \A i \in DOMAIN Tail(w) :
                 Tail(w)[i].tag = "DataRow" => Recent(plan, Tail(w)[i].since)
      BY <2>1, <2>5, QueryTail DEF Querying
    <2>7. \A t \in Requests \ {"Describe"} : Slots(qs, t) = << >>
      BY <2>1, <2>3, SlotsAre DEF Querying, Requests
    <2>8. Querying(qs, Tail(w), None)
      BY <2>3, <2>6, <2>7 DEF Querying
    <2>9. ps.generation <= qs.generation /\ qs.generation <= g
      BY <2>3, FieldsTyped DEF Sound
    <2>10. Moves(ps, qs, w, None, None, o, g, refusals)
      BY <1>3, <2>1, <2>3, <2>4, <2>8, <2>9 DEF Moves
    <2> QED
      BY <2>10 DEF qs
  <1> QED
    BY <1>2, <1>3

\* A row that is let through is judged by a plan as recent as itself.
LEMMA RowIsRecent ==
  ASSUME NEW ps \in State, NEW w \in Seq(Reply), w # << >>, NEW b,
         NEW o \in {"none", "exchange", "query"}, NEW n, NEW g \in Nat, NEW refusals,
         Sound(ps, w, None, b, o, n, g, refusals), Head(w).tag = "DataRow",
         StreamingPlan(ps) # None
  PROVE  StreamingPlan(ps).generation >= Head(w).since
  <1>1. 1 \in DOMAIN w /\ w[1] = Head(w)
    OBVIOUS
  <1>2. Head(w).since <= ps.generation /\ ps.suspended = FALSE /\ OfGeneration(ps)
    BY <1>1 DEF Sound, RowsSeen
  <1>3. ps.generation \in Nat /\ Head(w).since \in Nat
    BY <1>1, FieldsTyped DEF Reply, PlainTags
  <1>4. CASE o # "query"
    <2>1. PICK e : Underway(ps, w, None, e, refusals)
      BY <1>4, InExchange
    <2>2. Upto(w, Answering("Execute"), 1) = 0
      <3>1. \A i \in 1 .. 1 : w[i].tag \notin Answering("Execute")
        BY <1>1 DEF Answering
      <3> QED
        BY <3>1, UptoGrows
    <2>3. 1 <= Len(ps.pending_executes) /\ Recent(ps.pending_executes[1].plan, Head(w).since)
      BY <1>1, <2>1, <2>2 DEF Underway, Owned
    <2>4. /\ ps.pending_executes # << >>
          /\ Head(ps.pending_executes) = ps.pending_executes[1]
          /\ ps.pending_executes[1] \in PendingExecute
      BY <2>3, FieldsTyped
    <2> DEFINE owner == Head(ps.pending_executes)
    <2>5. StreamingPlan(ps) \in {owner.plan, ps.portal_plans[owner.name]}
      BY <1>4, <2>4 DEF StreamingPlan, Sound
    <2>6. owner.name \in Portals /\ Recent(owner.plan, Head(w).since)
      BY <2>3, <2>4 DEF PendingExecute
    <2> HIDE DEF owner
    <2>7. CASE StreamingPlan(ps) = owner.plan
      BY <2>6, <2>7 DEF Recent
    <2>8. CASE StreamingPlan(ps) = ps.portal_plans[owner.name]
      BY <1>2, <1>3, <2>6, <2>8 DEF OfGeneration
    <2> QED
      BY <2>5, <2>7, <2>8
  <1>5. CASE o = "query"
    <2>1. Querying(ps, w, None)
      BY <1>5 DEF Sound
    <2>2. ps.pending_executes = << >> /\ Recent(ps.active_plan, Head(w).since)
      BY <1>1, <2>1, SlotsAre DEF Querying, Requests
    <2>3. StreamingPlan(ps) = ps.active_plan
      BY <1>2, <2>2 DEF StreamingPlan
    <2> QED
      BY <2>2, <2>3 DEF Recent
  <1> QED
    BY <1>4, <1>5

\* What a ReadyForQuery does to the plan state while epoch s is swallowed.
Closes(ps, qs, s) ==
    IF s # None
    THEN qs = FinishSuppressedEpoch(ps, s)
    ELSE \E status : qs = ReadyForQuery(ps, status)

\* The ReadyForQuery that ends what is under way leaves nothing behind.
LEMMA ReadySound ==
  ASSUME NEW ps \in State, NEW qs \in State, NEW w \in Seq(Reply), w # << >>, NEW s, NEW b,
         NEW o \in {"none", "exchange", "query"}, NEW n, NEW g \in Nat, NEW refusals,
         Sound(ps, w, s, b, o, n, g, refusals), Head(w).tag = "ReadyForQuery",
         Closes(ps, qs, s)
  PROVE  /\ n = 1 /\ o # "exchange"
         /\ Sound(qs, Tail(w), None, b, "none", 0, g, refusals)
  <1>1. n = 1 /\ Tail(w) = << >>
    BY TailKeeps DEF Sound
  <1>2. o # "exchange" /\ ~b.skipping
    BY <1>1 DEF Sound
  <1>3. w[1].tag = "ReadyForQuery" /\ DOMAIN w = {1}
    <2>1. /\ Len(Tail(w)) = Len(w) - 1 /\ Len(w) \in Nat /\ DOMAIN w = 1 .. Len(w)
          /\ w[1] = Head(w)
      BY CountOfTail
    <2>2. Len(w) = 1
      <3> DEFINE t == Tail(w)
      <3>1. t = << >>
        BY <1>1
      <3> HIDE DEF t
      <3>2. Len(t) = 0
        BY <3>1
      <3>3. 0 = Len(w) - 1 /\ Len(w) \in Nat
        BY <2>1, <3>2 DEF t
      <3> DEFINE k == Len(w)
      <3> HIDE DEF k
      <3>4. k = 1
        BY <3>3 DEF k
      <3> QED
        BY <3>4 DEF k
    <2> QED
      BY <2>1, <2>2
  <1>4. o = "query" => Querying(ps, w, s) /\ ps.pending_descriptions = << >>
    <2>1. Head(w).tag \notin Opening
      BY DEF Opening
    <2> QED
      BY <2>1 DEF Sound, Querying, Undescribed
  <1>5. o = "query" => NoSlots(ps)
    BY <1>4, SlotsAre DEF NoSlots, Querying, Requests
  <1>6. o # "query" => \E e : Underway(ps, w, s, e, refusals)
    BY InExchange
  <1>7. CASE s # None
    <2>1. OneEpoch(ps, s) \/ NoSlots(ps)
      BY <1>5, <1>6, <1>7 DEF Underway, Exchanging, OfEpoch, OneEpoch
    <2>2. Cleaned(ps, qs)
      BY <1>7, <2>1, FinishSuppressedCleans DEF Closes
    <2>3. NoSlots(qs) /\ qs.suspended = FALSE /\ qs.streaming_simple_result = FALSE
          /\ OfGeneration(qs) /\ qs.generation <= g
      BY <2>2 DEF Cleaned, Sound
    <2> QED
      BY <1>1, <1>2, <2>3 DEF Sound, OwedOnce, Has, RowsSeen, Resting
  <1>8. CASE s = None
    <2>1. qs = ps
      BY <1>8 DEF Closes, ReadyForQuery, Sound
    <2>2. NoSlots(ps)
      <3>1. CASE o # "query"
        <4>1. PICK e : Underway(ps, w, None, e, refusals)
          BY <1>6, <1>8, <3>1
        <4>2. \A tags : "ReadyForQuery" \notin tags => ~Has(w, tags) /\ Count(w, tags) = 0
          BY <1>3, CountIsZero DEF Has
        <4>3. ASSUME NEW t \in Requests PROVE Slots(ps, t) = << >>
          <5>1. Count(w, Answering(t)) = 0 /\ ~Has(w, {"ErrorResponse"})
            BY <4>2 DEF Answering, Requests
          <5>2. Len(Slots(ps, t)) <= 0
            BY <4>1, <5>1 DEF Underway, Exchanging, Answered
          <5> QED
            BY <5>2, SlotsCounted
        <4> QED
          BY <4>3 DEF NoSlots
      <3> QED
        BY <1>5, <3>1
    <2>3. ps.streaming_simple_result = FALSE
      <3>1. ~Has(w, Ending)
        BY <1>3 DEF Has, Ending
      <3> QED
        BY <1>4, <1>8, <3>1, FieldsTyped DEF Sound, Querying
    <2>4. ps.suspended = FALSE /\ OfGeneration(ps) /\ ps.generation <= g
      BY DEF Sound
    <2> QED
      BY <1>1, <1>2, <2>1, <2>2, <2>3, <2>4 DEF Sound, OwedOnce, Has, RowsSeen, Resting
  <1> QED
    BY <1>1, <1>2, <1>7, <1>8

-----------------------------------------------------------------------------
(* Every message, and the theorems.                                        *)

\* An arm of handle_backend, from a plan state that sync_policy may have refreshed.
LEMMA ArmSound ==
  ASSUME IInv, IInv', NEW ps \in State,
         wire # << >> => Sound(ps, wire, suppressing, db, open, owed, generation,
                               PlanRefuses[scenario]),
         wire # << >>, Head(wire).tag # "ReadyForQuery", wire' = Tail(wire),
         UNCHANGED << scenario, generation, db, open, owed >>,
         Moves(ps, plans', wire, suppressing, suppressing', open, generation,
               PlanRefuses[scenario]),
         RowsJudgedUnderCurrentPolicy'
  PROVE  SlotInv'
  <1>1. /\ wire \in Seq(Reply) /\ generation \in Nat /\ open \in {"none", "exchange", "query"}
        /\ plans' \in State
    BY DEF IInv, TypeOK
  <1> DEFINE r == PlanRefuses[scenario]
             qs == plans'
  <1> HIDE DEF r, qs
  <1>2. Sound(qs, Tail(wire), suppressing', db, open, owed, generation, r)
    BY <1>1, ReadSound DEF r, qs
  <1> QED
    BY <1>2 DEF SlotInv, r, qs

\* Each kind of backend message.
LEMMA BackendSound ==
  ASSUME IInv, SlotInv, HandleBackend
  PROVE  SlotInv'
  <1> DEFINE r == PlanRefuses[scenario]
             S(ps) == Sound(ps, wire, suppressing, db, open, owed, generation, r)
             M(ps, qs, s2) == Moves(ps, qs, wire, suppressing, s2, open, generation, r)
             Arm(tag) == Reads(tag) /\ tag # "ReadyForQuery"
  <1>1. /\ wire \in Seq(Reply) /\ generation \in Nat /\ open \in {"none", "exchange", "query"}
        /\ plans \in State /\ S(plans)
    BY DEF IInv, TypeOK, SlotInv
  <1>2. IInv'
    BY BackendGood
  <1>3. \A tag : Arm(tag) => /\ wire # << >> /\ Head(wire).tag = tag /\ tag # "ReadyForQuery"
                             /\ suppressing = None /\ wire' = Tail(wire)
                             /\ UNCHANGED << scenario, generation, db, open >>
    BY DEF Reads
  <1>4. ASSUME NEW tag, Arm(tag), NEW ps \in State, S(ps), M(ps, plans', suppressing'),
               owed' = owed, RowsJudgedUnderCurrentPolicy'
        PROVE  SlotInv'
    BY <1>2, <1>3, <1>4, ArmSound
  <1>5. ASSUME NEW tag, Arm(tag), NEW ps \in State, S(ps), NEW qs, Relays(qs), M(ps, qs, None)
        PROVE  SlotInv'
    <2>1. RowsJudgedUnderCurrentPolicy' /\ plans' = qs /\ suppressing' = suppressing
          /\ owed' = owed /\ suppressing = None
      BY <1>3, <1>5 DEF Relays, RowsJudgedUnderCurrentPolicy, Row
    <2> QED
      BY <1>4, <1>5, <2>1
  <1>6. ASSUME NEW tag, Arm(tag), NEW ps \in State, S(ps), NEW mid, Reject(mid),
               M(ps, ClearActive(mid), RejectionEpoch(mid))
        PROVE  SlotInv'
    <2>1. RowsJudgedUnderCurrentPolicy' /\ plans' = ClearActive(mid)
          /\ suppressing' = RejectionEpoch(mid) /\ owed' = owed
      BY <1>6 DEF Reject, RowsJudgedUnderCurrentPolicy, Row
    <2> QED
      BY <1>4, <1>6, <2>1
  <1>7. ASSUME NEW tag, Arm(tag)
        PROVE  Sound(plans, wire, None, db, open, owed, generation, r) /\ wire # << >>
    BY <1>1, <1>3, <1>7
  <1>8. ASSUME NEW tag, Arm(tag), NEW ps, NEW qs, NEW s2,
               Moves(ps, qs, wire, None, s2, open, generation, r)
        PROVE  M(ps, qs, s2)
    BY <1>3, <1>8
  <1>9. CASE Suppressed
    <2>1. /\ wire # << >> /\ Head(wire).tag # "ReadyForQuery" /\ suppressing # None
          /\ wire' = Tail(wire) /\ delivered' = None
          /\ UNCHANGED << scenario, plans, suppressing, generation, db, open, owed >>
      BY <1>9 DEF Suppressed
    <2>2. M(plans, plans, suppressing)
      BY <1>1, <2>1, SwallowedMoves
    <2>3. RowsJudgedUnderCurrentPolicy'
      BY <2>1 DEF RowsJudgedUnderCurrentPolicy, Row
    <2>4. plans' = plans /\ suppressing' = suppressing
      BY <2>1
    <2> QED
      BY <1>1, <1>2, <2>1, <2>2, <2>3, <2>4, ArmSound
  <1>10. CASE BackendReady
    <2> DEFINE status == Head(wire).status
               qs == plans'
    <2>1. /\ wire # << >> /\ Head(wire).tag = "ReadyForQuery" /\ wire' = Tail(wire)
          /\ suppressing' = None /\ owed' = owed - 1 /\ delivered' = None
          /\ qs = IF suppressing # None THEN FinishSuppressedEpoch(plans, suppressing)
                  ELSE ReadyForQuery(plans, status)
          /\ open' = IF open = "query" /\ owed = 1 THEN "none" ELSE open
          /\ UNCHANGED << scenario, generation, db >>
      BY <1>10 DEF BackendReady
    <2>2. qs \in State
      BY <1>2 DEF IInv, TypeOK
    <2> HIDE DEF qs, status
    <2>3. /\ owed = 1 /\ open # "exchange"
          /\ Sound(qs, Tail(wire), None, db, "none", 0, generation, r)
      <3>1. S(plans) /\ wire # << >> /\ Head(wire).tag = "ReadyForQuery"
        BY <1>1, <2>1
      <3>2. Closes(plans, qs, suppressing)
        BY <2>1 DEF Closes
      <3> HIDE DEF r
      <3> QED
        BY <1>1, <2>2, <3>1, <3>2, ReadySound
    <2>4. open' = "none" /\ owed' = 0
      BY <1>1, <2>1, <2>3
    <2>5. RowsJudgedUnderCurrentPolicy'
      BY <2>1 DEF RowsJudgedUnderCurrentPolicy, Row
    <2> QED
      BY <2>1, <2>3, <2>4, <2>5 DEF SlotInv, r, qs
  <1>11. CASE BackendParseComplete
    <2>1. Arm("ParseComplete") /\ Relays(FinishParse(plans)) /\ Head(wire).tag = "ParseComplete"
      BY <1>11 DEF BackendParseComplete, Reads
    <2>2. Moves(plans, FinishParse(plans), wire, None, None, open, generation, r)
      BY <1>1, <1>7, <2>1, CompleteMoves
    <2> HIDE DEF S, M, Arm
    <2> QED
      BY <1>1, <1>5, <1>8, <2>1, <2>2
  <1>12. CASE BackendBindComplete
    <2>1. Arm("BindComplete") /\ Relays(FinishBind(plans)) /\ Head(wire).tag = "BindComplete"
      BY <1>12 DEF BackendBindComplete, Reads
    <2>2. Moves(plans, FinishBind(plans), wire, None, None, open, generation, r)
      BY <1>1, <1>7, <2>1, CompleteMoves
    <2> HIDE DEF S, M, Arm
    <2> QED
      BY <1>1, <1>5, <1>8, <2>1, <2>2
  <1>13. CASE BackendCloseComplete
    <2>1. Arm("CloseComplete") /\ Relays(plans) /\ Head(wire).tag = "CloseComplete"
      BY <1>13 DEF BackendCloseComplete, Reads
    <2>2. Moves(plans, plans, wire, None, None, open, generation, r)
      BY <1>1, <1>7, <2>1, CompleteMoves
    <2> HIDE DEF S, M, Arm
    <2> QED
      BY <1>1, <1>5, <1>8, <2>1, <2>2
  <1>14. CASE BackendCommandComplete
    <2>1. /\ Arm("CommandComplete") /\ Relays(FinishResultSet(plans))
          /\ Head(wire).tag = "CommandComplete"
      BY <1>14 DEF BackendCommandComplete, Reads
    <2>2. Moves(plans, FinishResultSet(plans), wire, None, None, open, generation, r)
      BY <1>1, <1>7, <2>1, CommandMoves
    <2> HIDE DEF S, M, Arm
    <2> QED
      BY <1>1, <1>5, <1>8, <2>1, <2>2
  <1>15. CASE BackendErrorResponse
    <2>1. /\ Arm("ErrorResponse") /\ Relays(DiscardFailedEpoch(plans))
          /\ Head(wire).tag = "ErrorResponse"
      BY <1>15 DEF BackendErrorResponse, Reads
    <2>2. Moves(plans, DiscardFailedEpoch(plans), wire, None, None, open, generation, r)
      BY <1>1, <1>7, <2>1, ErrorMoves
    <2> HIDE DEF S, M, Arm
    <2> QED
      BY <1>1, <1>5, <1>8, <2>1, <2>2
  <1>16. CASE BackendNoData
    <2>1. /\ Arm("NoData") /\ Head(wire).tag = "NoData"
          /\ IF HeadIs(plans, "describe") THEN Relays(FinishNoData(plans)) ELSE Reject(plans)
      BY <1>16 DEF BackendNoData, Reads
    <2>2. IF HeadIs(plans, "describe")
          THEN Moves(plans, FinishNoData(plans), wire, None, None, open, generation, r)
          ELSE Moves(plans, ClearActive(plans), wire, None, RejectionEpoch(plans), open,
                     generation, r)
      BY <1>1, <1>7, <2>1, NoDataMoves
    <2> HIDE DEF S, M, Arm
    <2> QED
      BY <1>1, <1>5, <1>6, <1>8, <2>1, <2>2
  <1>17. CASE BackendEmptyQueryResponse
    <2>1. /\ Arm("EmptyQueryResponse") /\ Head(wire).tag = "EmptyQueryResponse"
          /\ IF HeadIs(plans, "simple") THEN Relays(FinishEmptyQuery(plans)) ELSE Reject(plans)
      BY <1>17 DEF BackendEmptyQueryResponse, Reads
    <2>2. IF HeadIs(plans, "simple")
          THEN Moves(plans, FinishEmptyQuery(plans), wire, None, None, open, generation, r)
          ELSE Moves(plans, ClearActive(plans), wire, None, RejectionEpoch(plans), open,
                     generation, r)
      BY <1>1, <1>7, <2>1, EmptyMoves
    <2> HIDE DEF S, M, Arm
    <2> QED
      BY <1>1, <1>5, <1>6, <1>8, <2>1, <2>2
  <1>18. CASE BackendPortalSuspended
    <2>1. wire # << >> /\ Head(wire).tag = "PortalSuspended"
      BY <1>18 DEF BackendPortalSuspended, Reads
    <2>2. Has(wire, {"PortalSuspended"})
      BY <1>1, <2>1, CountOfTail
    <2> QED
      BY <1>1, <2>2 DEF Sound
  <1>19. CASE BackendDataRow
    <2> DEFINE row == Head(wire)
               plan == StreamingPlan(plans)
    <2>1. /\ Arm("DataRow") /\ row.tag = "DataRow"
          /\ \/ Reject(plans)
             \/ /\ plan # None /\ delivered' = [row |-> row, plan |-> plan]
                /\ UNCHANGED << plans, suppressing, owed >>
      BY <1>19 DEF BackendDataRow, Reads
    <2>2. Moves(plans, plans, wire, None, None, open, generation, r)
      BY <1>1, <1>7, <2>1, CompleteMoves
    <2>3. Moves(plans, ClearActive(plans), wire, None, RejectionEpoch(plans), open, generation, r)
      <3>1. row.tag \in Streamed /\ row.tag \notin Opening
        BY <2>1 DEF Streamed, Opening
      <3> QED
        BY <1>1, <1>7, <2>1, <3>1, RejectMoves
    <2>4. plan # None => plan.generation >= row.since
      BY <1>1, <1>7, <2>1, RowIsRecent
    <2>5. CASE Reject(plans)
      <3> HIDE DEF S, M, Arm
      <3> QED
        BY <1>1, <1>6, <1>8, <2>1, <2>3, <2>5
    <2>6. CASE plan # None /\ delivered' = [row |-> row, plan |-> plan]
               /\ UNCHANGED << plans, suppressing, owed >>
      <3>1. RowsJudgedUnderCurrentPolicy'
        BY <2>4, <2>6 DEF RowsJudgedUnderCurrentPolicy
      <3>2. suppressing' = None /\ plans' = plans /\ owed' = owed
        BY <1>3, <2>1, <2>6
      <3>3. M(plans, plans', suppressing')
        BY <1>8, <2>1, <2>2, <3>2
      <3> HIDE DEF S, M, Arm
      <3> QED
        BY <1>1, <1>4, <2>1, <3>1, <3>2, <3>3
    <2> QED
      BY <2>1, <2>5, <2>6
  <1>20. CASE BackendRowDescription
    <2> DEFINE ps == Synced
               plan == PlanFor(ps, Head(wire))
    <2>1. /\ Arm("RowDescription") /\ Head(wire).tag = "RowDescription"
          /\ \/ r # {} /\ Reject(DiscardDescription(ps))
             \/ plans.pending_descriptions = << >> /\ Reject(ps)
             \/ /\ plans.pending_descriptions # << >>
                /\ Relays(FinishDescription(ps, plan))
      BY <1>20 DEF BackendRowDescription, Reads
    <2>2. ps \in State
      BY SyncedGood DEF Good
    <2>3. Refreshes(plans, ps, generation)
      BY <1>1, InvalidateRefreshes DEF Synced
    <2>4. ps.pending_descriptions = plans.pending_descriptions /\ ps.generation = generation
      BY <2>3 DEF Refreshes
    <2>5. plan \in Plan /\ plan.generation = generation
      <3>1. Head(wire) \in Reply
        BY <1>1, <1>7, <2>1
      <3>2. Head(wire).fields \in Sqls /\ Head(wire).format \in Formats
        BY <2>1, <3>1 DEF Reply, PlainTags
      <3>3. DescribedSql(ps) \in Option(Sqls)
        BY <2>2, DescribedSqlTyped
      <3> QED
        BY <1>1, <3>2, <3>3 DEF PlanFor, Plan
    <2> HIDE DEF ps, plan
    <2>6. S(ps) /\ Sound(ps, wire, None, db, open, owed, generation, r)
      <3>1. S(ps)
        BY <1>1, <1>7, <2>1, <2>2, <2>3, RefreshSound
      <3> QED
        BY <1>3, <2>1, <3>1
    <2>7. CASE r # {} /\ Reject(DiscardDescription(ps))
      <3> DEFINE mid == DiscardDescription(ps)
      <3>1. Moves(ps, ClearActive(mid), wire, None, RejectionEpoch(mid), open, generation, r)
        BY <1>1, <1>7, <2>1, <2>2, <2>6, <2>7, RefusedMoves
      <3> HIDE DEF S, M, Arm, mid
      <3>2. Reject(mid)
        BY <2>7 DEF mid
      <3> QED
        BY <1>6, <1>8, <2>1, <2>2, <2>6, <3>1, <3>2
    <2>8. CASE plans.pending_descriptions = << >> /\ Reject(ps)
      <3>1. open = "query"
        <4>1. ASSUME open # "query" PROVE FALSE
          <5>1. PICK e : Underway(ps, wire, None, e, r)
            BY <1>1, <1>7, <2>1, <2>6, <4>1, InExchange
          <5>2. HeadIs(ps, "describe")
            BY <1>1, <1>7, <2>1, <2>2, <5>1, DescribeIsNext DEF Answering
          <5> QED
            BY <2>4, <2>8, <5>2 DEF HeadIs
        <4> QED
          BY <4>1
      <3>2. Moves(ps, ClearActive(ps), wire, None, RejectionEpoch(ps), open, generation, r)
        BY <1>1, <1>7, <2>1, <2>2, <2>4, <2>6, <2>8, <3>1, RejectMoves
      <3> HIDE DEF S, M, Arm
      <3> QED
        BY <1>6, <1>8, <2>1, <2>2, <2>6, <2>8, <3>2
    <2>9. CASE plans.pending_descriptions # << >> /\ Relays(FinishDescription(ps, plan))
      <3>1. Moves(ps, FinishDescription(ps, plan), wire, None, None, open, generation, r)
        BY <1>1, <1>7, <2>1, <2>2, <2>4, <2>5, <2>6, <2>9, DescribedMoves
      <3> HIDE DEF S, M, Arm
      <3> QED
        BY <1>5, <1>8, <2>1, <2>2, <2>6, <2>9, <3>1
    <2> QED
      BY <2>1, <2>7, <2>8, <2>9
  <1> QED
    BY <1>9, <1>10, <1>11, <1>12, <1>13, <1>14, <1>15, <1>16, <1>17, <1>18, <1>19, <1>20
    DEF HandleBackend

\* What a patient client's session keeps to at every step.
LEMMA SlotInvariance == Spec => [](Patient => SlotInv)
  <1> DEFINE Inv == Patient => SlotInv
  <1>1. Init => Inv
    <2> SUFFICES ASSUME Init PROVE SlotInv
      OBVIOUS
    <2>1. RowsJudgedUnderCurrentPolicy
      BY DEF Init, RowsJudgedUnderCurrentPolicy, Row
    <2>2. NoSlots(Default)
      BY SlotsAre DEF NoSlots, Requests, Default
    <2>3. OfGeneration(Default)
      BY DEF OfGeneration, Default
    <2>4. Default.suspended = FALSE /\ Default.streaming_simple_result = FALSE
          /\ Default.generation = 0
      BY DEF Default
    <2>5. ~FreshBackend.skipping
      BY DEF FreshBackend
    <2>6. Sound(Default, << >>, None, FreshBackend, "none", 0, 0, PlanRefuses[scenario])
      BY <2>2, <2>3, <2>4, <2>5 DEF Sound, OwedOnce, Has, RowsSeen, Resting
    <2> QED
      BY <2>1, <2>6 DEF Init, SlotInv
  <1>2. IInv /\ Inv /\ [Next]_vars => Inv'
    <2> SUFFICES ASSUME IInv, Inv, [Next]_vars, Patient' PROVE SlotInv'
      OBVIOUS
    <2>1. scenario' = scenario
      BY DEF Next, HandleFrontend, FrontendQuery, FrontendParse, FrontendBind,
         FrontendDescribe, FrontendClose, FrontendExecute, FrontendSync, Sends, HandleBackend,
         Suppressed, BackendReady, BackendRowDescription, BackendDataRow, BackendParseComplete,
         BackendBindComplete, BackendCloseComplete, BackendCommandComplete,
         BackendPortalSuspended, BackendErrorResponse, BackendNoData,
         BackendEmptyQueryResponse, Reads, PolicyMoves, vars
    <2>2. Patient /\ SlotInv
      BY <2>1 DEF Patient
    <2>3. CASE PolicyMoves
      <3>1. /\ generation' = generation + 1 /\ delivered' = None
            /\ UNCHANGED << scenario, plans, suppressing, db, wire, open, owed >>
        BY <2>3 DEF PolicyMoves
      <3>2. generation \in Nat /\ plans.generation \in Nat
        BY FieldsTyped DEF IInv, TypeOK
      <3>3. Sound(plans, wire, suppressing, db, open, owed, generation + 1,
                  PlanRefuses[scenario])
        BY <2>2, <3>2 DEF SlotInv, Sound
      <3>4. RowsJudgedUnderCurrentPolicy'
        BY <3>1 DEF RowsJudgedUnderCurrentPolicy, Row
      <3> QED
        BY <3>1, <3>3, <3>4 DEF SlotInv
    <2>4. CASE UNCHANGED vars
      BY <2>2, <2>4 DEF vars, SlotInv, RowsJudgedUnderCurrentPolicy, Row
    <2> QED
      BY <2>2, <2>3, <2>4, FrontendSound, BackendSound DEF Next
  <1> HIDE DEF Inv
  <1>3. Spec => []Inv
    BY <1>1, <1>2, Invariance, PTL DEF Spec
  <1> QED
    BY <1>3 DEF Inv

\* When a patient client's connection is quiescent no slot of a dead exchange is left for
\* a later answer to be attributed to, whatever was refused, rejected or failed.
THEOREM NoSlotOutlivesItsExchange == Spec => [](Patient => NoZombieSlots)
  <1>1. (Patient => SlotInv) => (Patient => NoZombieSlots)
    <2> SUFFICES ASSUME SlotInv, Quiescent
                 PROVE  suppressing = None /\ NoSlots(plans)
      BY SlotsAre DEF NoZombieSlots, NoSlots, Requests
    <2> QED
      BY DEF SlotInv, Sound, Resting, Quiescent
  <1> QED
    BY <1>1, SlotInvariance, PTL

\* A patient client's rows are never judged by a plan older than the request they answer,
\* whenever the policy moves.
THEOREM RowsAreJudgedUpToDate == Spec => [](Patient => RowsJudgedUnderCurrentPolicy)
  <1>1. (Patient => SlotInv) => (Patient => RowsJudgedUnderCurrentPolicy)
    BY DEF SlotInv
  <1> QED
    BY <1>1, SlotInvariance, PTL
=============================================================================
