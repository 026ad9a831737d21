-------------------------- MODULE PolicyReloadProofs --------------------------
(***************************************************************************)
(* Proofs about PolicyReload for any number of sessions, edits, table      *)
(* changes and failures.                                                   *)
(***************************************************************************)
EXTENDS PolicyReload, TLAPS

\* A plan lacks something of a change: it may not be served after it.
Behind(plan, change) ==
    ~ /\ Covers(plan.snapshot, change.snapshot)
      /\ AtLeast(plan.live, change.live)
      /\ AtLeast(plan.roles, change.live)
      /\ plan.begun >= change.begun

Now == [snapshot |-> done.snapshot, live |-> done.live, begun |-> begun]

\* Who holds the apply mutex.
LockInv ==
    /\ reload.pc \in {"resolve", "store", "bump", "install"} <=> apply = "reload"
    /\ refresher.pc \in {"resolve", "store", "bump"} <=> apply = "refresh"

\* Files only get newer on their way to disk, to the reload and into force.
FileInv ==
    /\ AtLeast(file, last_file)
    /\ reload.pc # "idle" => AtLeast(file, reload.want) /\ AtLeast(reload.want, last_file)
    /\ live = IF ReloadAt("end") THEN reload.want ELSE last_file
    /\ spec = IF reload.pc \in {"publish", "end"} THEN reload.want.rules ELSE last_file.rules

\* So do snapshots, and the rules of the current one are those of spec except
\* while the reload that replaces spec holds the mutex.
SnapshotInv ==
    /\ snapshot.ddl <= ddl
    /\ snapshot.rules = IF reload.pc \in {"bump", "install"} THEN reload.want.rules ELSE spec
    /\ reload.pc = "store" =>
        /\ reload.next.rules = reload.want.rules
        /\ snapshot.ddl <= reload.next.ddl /\ reload.next.ddl <= ddl
    /\ refresher.pc \in {"resolve", "store"} => refresher.spec = spec
    /\ refresher.pc = "store" =>
        /\ refresher.next.rules = spec
        /\ snapshot.ddl <= refresher.next.ddl /\ refresher.next.ddl <= ddl

\* What has been finished is in force.
DoneInv ==
    /\ Covers(snapshot, done.snapshot)
    /\ AtLeast(live, done.live)
    /\ reload.pc # "bump" /\ refresher.pc # "bump" => snapshot = done.snapshot

\* Whatever a session holds that is behind a finished change, the generation
\* it holds is behind the current one, so its next check clears it.
SessionInv(z) ==
    /\ z.generation <= Generation
    /\ z.plan # None /\ Behind(z.plan, Now) => z.generation < Generation
    /\ z.pc \notin {"off", "roles"} /\ ~AtLeast(z.roles, done.live)
            => z.generation < Generation
    /\ z.pc = "snapshot" =>
        /\ ~AtLeast(z.view, done.live) \/ z.view_begun < begun => z.generation < Generation
        /\ z.view.rules <= snapshot.rules
    /\ z.pc = "refreshes" /\ z.plan # None /\ Behind(z.plan, z.floor)
            => z.generation < Generation
    /\ z.pc = "epoch" =>
        /\ z.seen <= refreshes
        /\ z.plan # None /\ Behind(z.plan, z.floor) => z.generation < z.seen + epoch
    /\ z.pc = "serve" /\ z.plan # None => ~Behind(z.plan, z.floor)
    /\ z.pc = "roles" => z.plan = None
    /\ z.plan # None => z.plan.live.rules <= z.plan.snapshot.rules

SharedInv == LockInv /\ FileInv /\ SnapshotInv /\ DoneInv

IInv == TypeOK /\ SharedInv /\ \A s \in Sessions : SessionInv(session[s])

-----------------------------------------------------------------------------
(* Type correctness.                                                       *)

\* The initial state is well typed.
LEMMA InitTyped == Init => TypeOK
  <1> SUFFICES ASSUME Init PROVE TypeOK
    OBVIOUS
  <1> USE DEF FirstFile, FirstSnapshot, NoFloor, NoReload, NoRefresh, File, Snapshot
  <1>1. session \in [Sessions -> SessionState]
    BY DEF Init, SessionState
  <1> QED
    BY <1>1 DEF Init, TypeOK

\* A session step keeps the types if the session's new state is one.
LEMMA SessionTyped ==
  ASSUME TypeOK, NEW s \in Sessions, NEW state \in SessionState,
         Becomes(s, state), wanted' \in BOOLEAN
  PROVE  TypeOK'
  BY DEF TypeOK, Becomes, shared

\* Every step keeps the types.
LEMMA NextTyped == TypeOK /\ [Next]_vars => TypeOK'
  <1> SUFFICES ASSUME TypeOK, [Next]_vars PROVE TypeOK'
    OBVIOUS
  <1> USE DEF File, Snapshot, FirstFile, FirstSnapshot, NoReload, NoRefresh
  <1>1. CASE EditFile
    BY <1>1 DEF TypeOK, EditFile
  <1>2. CASE AlterTables
    BY <1>2 DEF TypeOK, AlterTables
  <1>3. CASE ReloadRefused
    BY <1>3 DEF TypeOK, ReloadRefused, ReloadAt
  <1>4. CASE ReloadBegins
    <2>1. reload' \in [pc: {"lock", "publish"}, want: File, next: Snapshot]
      BY <1>4 DEF TypeOK, ReloadBegins
    <2> QED
      BY <1>4, <2>1 DEF TypeOK, ReloadBegins
  <1>5. CASE ReloadLocks
    BY <1>5 DEF TypeOK, ReloadLocks, ReloadAt
  <1>6. CASE ReloadResolves
    BY <1>6 DEF TypeOK, ReloadResolves, ReloadAt
  <1>7. CASE ReloadFailsToResolve
    BY <1>7 DEF TypeOK, ReloadFailsToResolve, ReloadAt
  <1>8. CASE ReloadStores
    BY <1>8 DEF TypeOK, ReloadStores, ReloadAt
  <1>9. CASE ReloadBumps
    BY <1>9 DEF TypeOK, ReloadBumps, ReloadAt
  <1>10. CASE ReloadInstallsSpec
    BY <1>10 DEF TypeOK, ReloadInstallsSpec, ReloadAt
  <1>11. CASE ReloadPublishes
    BY <1>11 DEF TypeOK, ReloadPublishes, ReloadAt
  <1>12. CASE ReloadEnds
    BY <1>12 DEF TypeOK, ReloadEnds, ReloadAt
  <1>13. CASE TimerFires
    BY <1>13 DEF TypeOK, TimerFires, RefresherAt
  <1>14. CASE NudgeTaken
    BY <1>14 DEF TypeOK, NudgeTaken, RefresherAt
  <1>15. CASE RefreshLocks
    BY <1>15 DEF TypeOK, RefreshLocks, RefresherAt
  <1>16. CASE RefreshResolves
    BY <1>16 DEF TypeOK, RefreshResolves, RefresherAt
  <1>17. CASE RefreshFails
    BY <1>17 DEF TypeOK, RefreshFails, RefresherAt
  <1>18. CASE RefreshStores
    BY <1>18 DEF TypeOK, RefreshStores, RefresherAt
  <1>19. CASE RefreshBumps
    BY <1>19 DEF TypeOK, RefreshBumps, RefresherAt
  <1>20. ASSUME NEW s \in Sessions, SessionStep(s) PROVE TypeOK'
    <2> session[s] \in SessionState /\ wanted \in BOOLEAN
      BY DEF TypeOK
    <2>1. CASE Authenticated(s)
      <3> DEFINE state == [session[s] EXCEPT !.pc = "idle", !.roles = live]
      <3>1. state \in SessionState
        BY DEF TypeOK, SessionState
      <3> QED
        BY <2>1, <3>1, SessionTyped DEF Authenticated
    <2>2. CASE ReadsRefreshes(s)
      <3> DEFINE state == [session[s] EXCEPT !.pc = "epoch", !.seen = refreshes]
      <3>1. state \in SessionState
        BY DEF TypeOK, SessionState
      <3> QED
        BY <2>2, <3>1, SessionTyped DEF ReadsRefreshes
    <2>3. CASE LoadsRoles(s)
      <3> DEFINE state == [session[s] EXCEPT !.pc = Proceed(session[s].job), !.roles = live]
      <3>1. state \in SessionState
        BY DEF TypeOK, SessionState, Proceed
      <3> QED
        BY <2>3, <3>1, SessionTyped DEF LoadsRoles
    <2>4. CASE LoadsLive(s)
      <3> DEFINE state == [session[s] EXCEPT !.pc = "snapshot", !.view = live, !.view_begun = begun]
      <3>1. state \in SessionState
        BY DEF TypeOK, SessionState
      <3> QED
        BY <2>4, <3>1, SessionTyped DEF LoadsLive
    <2>5. ASSUME NEW job \in {"describe", "execute"}, Arrives(s, job) PROVE TypeOK'
      <3> DEFINE state == [session[s] EXCEPT
            !.pc = "refreshes", !.job = job,
            !.floor = [snapshot |-> done.snapshot, live |-> done.live, begun |-> begun]]
      <3>1. state \in SessionState
        BY DEF TypeOK, SessionState
      <3> QED
        BY <2>5, <3>1, SessionTyped DEF Arrives
    <2>6. CASE ReadsEpoch(s)
      <3> DEFINE current == session[s].seen + epoch
                 kept == [session[s] EXCEPT !.pc = Proceed(session[s].job)]
                 cleared == [session[s] EXCEPT !.pc = "roles", !.generation = current,
                                               !.plan = None]
      <3>1. kept \in SessionState
        BY DEF SessionState, Proceed
      <3>2. current \in Nat
        BY DEF TypeOK, SessionState
      <3>3. cleared \in SessionState
        BY <3>2 DEF SessionState
      <3> QED
        BY <2>6, <3>1, <3>3, SessionTyped DEF ReadsEpoch
    <2>7. CASE LoadsSnapshot(s)
      <3> DEFINE plan == [live |-> session[s].view, roles |-> session[s].roles,
                          snapshot |-> snapshot, begun |-> session[s].view_begun]
      <3>1. plan \in Plan
        BY DEF TypeOK, SessionState, Plan
      <3>2. Returns(session[s], plan) \in SessionState
        BY <3>1 DEF SessionState, Returns, NoFloor
      <3> QED
        BY <2>7, <3>2, SessionTyped DEF LoadsSnapshot
    <2>8. CASE Serves(s)
      <3>1. Returns(session[s], session[s].plan) \in SessionState
        BY DEF SessionState, Returns, NoFloor
      <3> QED
        BY <2>8, <3>1, SessionTyped DEF Serves
    <2> QED
      BY <1>20, <2>1, <2>2, <2>3, <2>4, <2>5, <2>6, <2>7, <2>8 DEF SessionStep
  <1>21. CASE UNCHANGED vars
    BY <1>21 DEF TypeOK, vars, shared
  <1> QED
    BY <1>1, <1>2, <1>3, <1>4, <1>5, <1>6, <1>7, <1>8, <1>9, <1>10, <1>11, <1>12, <1>13, <1>14, <1>15, <1>16, <1>17, <1>18, <1>19, <1>20, <1>21 DEF Next, Reload, Refresh

\* Every reachable state of the policy machinery is well typed.
THEOREM TypeCorrect == Spec => []TypeOK
  BY InitTyped, NextTyped, PTL DEF Spec

-----------------------------------------------------------------------------
(* The shared state.                                                       *)

SharedStep == EditFile \/ AlterTables \/ Reload \/ Refresh

\* The shared half of the invariant holds initially.
LEMMA InitShared == Init => SharedInv
  BY DEF Init, SharedInv, LockInv, FileInv, SnapshotInv, DoneInv, FirstFile, FirstSnapshot,
         NoReload, NoRefresh, AtLeast, Covers, ReloadAt

\* What a shared step may do to a session: the counters never fall, and
\* whenever something is finished or begun one of them has risen.
Moves ==
    /\ refreshes' >= refreshes /\ epoch' >= epoch
    /\ Covers(snapshot', snapshot)
    /\ (done' = done /\ begun' = begun) \/ Generation' > Generation
    /\ begun' >= begun

\* Every shared step keeps the shared invariant and moves the policy forward.
LEMMA SharedStepInv ==
  ASSUME TypeOK, SharedInv, SharedStep PROVE SharedInv' /\ Moves /\ session' = session
  <1> USE DEF TypeOK, File, Snapshot, SharedInv, LockInv, FileInv, SnapshotInv, DoneInv,
              Moves, Generation, AtLeast, Covers, ReloadAt, RefresherAt
  <1>1. CASE EditFile
    BY <1>1 DEF EditFile
  <1>2. CASE AlterTables
    BY <1>2 DEF AlterTables
  <1>3. CASE ReloadRefused
    BY <1>3 DEF ReloadRefused
  <1>4. CASE ReloadBegins
    BY <1>4 DEF ReloadBegins
  <1>5. CASE ReloadLocks
    BY <1>5 DEF ReloadLocks
  <1>6. CASE ReloadResolves
    BY <1>6 DEF ReloadResolves
  <1>7. CASE ReloadFailsToResolve
    BY <1>7 DEF ReloadFailsToResolve
  <1>8. CASE ReloadStores
    BY <1>8 DEF ReloadStores
  <1>9. CASE ReloadBumps
    BY <1>9 DEF ReloadBumps
  <1>10. CASE ReloadInstallsSpec
    BY <1>10 DEF ReloadInstallsSpec
  <1>11. CASE ReloadPublishes
    BY <1>11 DEF ReloadPublishes
  <1>12. CASE ReloadEnds
    BY <1>12 DEF ReloadEnds, NoReload
  <1>13. CASE TimerFires
    BY <1>13 DEF TimerFires
  <1>14. CASE NudgeTaken
    BY <1>14 DEF NudgeTaken
  <1>15. CASE RefreshLocks
    BY <1>15 DEF RefreshLocks
  <1>16. CASE RefreshResolves
    BY <1>16 DEF RefreshResolves
  <1>17. CASE RefreshFails
    BY <1>17 DEF RefreshFails, NoRefresh
  <1>18. CASE RefreshStores
    BY <1>18 DEF RefreshStores
  <1>19. CASE RefreshBumps
    BY <1>19 DEF RefreshBumps, NoRefresh
  <1> QED
    BY <1>1, <1>2, <1>3, <1>4, <1>5, <1>6, <1>7, <1>8, <1>9, <1>10, <1>11, <1>12, <1>13, <1>14, <1>15, <1>16, <1>17, <1>18, <1>19 DEF SharedStep, Reload, Refresh

-----------------------------------------------------------------------------
(* The sessions.                                                           *)

\* The typing facts about one session that the arithmetic below needs.
LEMMA SessionFacts ==
  ASSUME TypeOK, NEW s \in Sessions
  PROVE  /\ session[s] \in SessionState
         /\ session[s].plan # None => session[s].plan \in Plan
  BY DEF TypeOK, SessionState

\* Every session satisfies its half of the invariant initially.
LEMMA InitSessions == Init => \A s \in Sessions : SessionInv(session[s])
  <1> SUFFICES ASSUME Init, NEW s \in Sessions PROVE SessionInv(session[s])
    OBVIOUS
  <1>1. /\ session[s].pc = "off" /\ session[s].plan = None /\ session[s].generation = 0
        /\ Generation = 0
    BY DEF Init, Generation
  <1> QED
    BY <1>1 DEF SessionInv

\* A session that is not taking a step keeps its invariant.
LEMMA WaitingSession ==
  ASSUME TypeOK, TypeOK', Moves,
         NEW s \in Sessions, session'[s] = session[s], SessionInv(session[s])
  PROVE  SessionInv(session[s])'
  <1> DEFINE z == session[s]
  <1>1. z \in SessionState /\ (z.plan # None => z.plan \in Plan)
    BY SessionFacts
  <1>2. Generation \in Nat /\ Generation' \in Nat /\ Generation' >= Generation
    <2>1. {refreshes, epoch, refreshes', epoch'} \subseteq Nat
      BY DEF TypeOK
    <2> QED
      BY <2>1 DEF Moves, Generation
  <1> USE DEF SessionInv, Generation
  <1>3. z.generation \in Nat /\ z.seen \in Nat
    BY <1>1 DEF SessionState
  <1>4. (done' = done /\ begun' = begun) \/ z.generation < Generation'
    BY <1>2, <1>3 DEF Moves
  <1>5. z.plan # None /\ Behind(z.plan, Now)' => z.generation < Generation'
    BY <1>2, <1>3, <1>4 DEF Now, Behind
  <1> QED
    BY <1>1, <1>2, <1>3, <1>4, <1>5 DEF TypeOK, Moves, Covers, SessionState, File, Snapshot

\* A session that takes a step keeps its invariant: it only ever takes on
\* what is in force, and only after it has read the counters.
LEMMA ActingSession ==
  ASSUME TypeOK, TypeOK', SharedInv, NEW s \in Sessions, SessionStep(s),
         SessionInv(session[s])
  PROVE  SessionInv(session[s])' /\ UNCHANGED shared
                /\ \A t \in Sessions \ {s} : session'[t] = session[t]
  <1> DEFINE z == session[s]
  <1>1. z \in SessionState /\ (z.plan # None => z.plan \in Plan)
    BY SessionFacts
  <1>2. DOMAIN session = Sessions
    BY DEF TypeOK
  <1>3. refreshes \in Nat /\ epoch \in Nat /\ begun \in Nat /\ live \in File
          /\ snapshot \in Snapshot /\ done \in [snapshot: Snapshot, live: File]
    BY DEF TypeOK
  <1>4. Covers(snapshot, done.snapshot) /\ AtLeast(live, done.live)
          /\ live.rules <= snapshot.rules
    BY <1>3 DEF TypeOK, SharedInv, FileInv, SnapshotInv, DoneInv, ReloadAt, AtLeast, File, Snapshot
  <1> USE DEF Becomes, shared, SessionAt
  <1>5. CASE Authenticated(s)
    BY <1>1, <1>2, <1>3, <1>4, <1>5 DEF Authenticated, SessionInv, SessionState, Generation, Now
  <1>6. ASSUME NEW job \in {"describe", "execute"}, Arrives(s, job)
        PROVE  SessionInv(session[s])' /\ UNCHANGED shared
                 /\ \A t \in Sessions \ {s} : session'[t] = session[t]
    BY <1>1, <1>2, <1>3, <1>4, <1>6 DEF Arrives, SessionInv, SessionState, Generation, Now
  <1>7. CASE ReadsRefreshes(s)
    BY <1>1, <1>2, <1>3, <1>4, <1>7 DEF ReadsRefreshes, SessionInv, SessionState, Generation, Now
  <1>8. CASE ReadsEpoch(s)
    <2> DEFINE current == z.seen + epoch
    <2>1. UNCHANGED shared /\ \A t \in Sessions \ {s} : session'[t] = session[t]
      BY <1>2, <1>8 DEF ReadsEpoch
    <2>2. current \in Nat /\ current <= Generation /\ z.generation \in Nat
      BY <1>1, <1>3, <1>8 DEF ReadsEpoch, SessionInv, SessionState, Generation
    <2>3. CASE z.generation = current
      <3>1. session'[s] = [z EXCEPT !.pc = Proceed(z.job)]
        BY <1>2, <1>8, <2>3 DEF ReadsEpoch
      <3>2. z.plan # None => ~Behind(z.plan, z.floor)
        BY <1>3, <1>8, <2>2, <2>3 DEF ReadsEpoch, SessionInv
      <3> QED
        BY <1>1, <1>8, <2>1, <3>1, <3>2 DEF ReadsEpoch, Proceed, SessionInv, SessionState,
           Generation, Now
    <2>4. CASE z.generation # current
      <3>1. session'[s] = [z EXCEPT !.pc = "roles", !.generation = current, !.plan = None]
        BY <1>2, <1>8, <2>4 DEF ReadsEpoch
      <3> QED
        BY <1>1, <2>1, <2>2, <3>1 DEF SessionInv, SessionState, Generation
    <2> QED
      BY <2>3, <2>4
  <1>9. CASE LoadsRoles(s)
    BY <1>1, <1>2, <1>3, <1>4, <1>9 DEF LoadsRoles, Proceed, SessionInv, SessionState, Generation, Now
  <1>10. CASE LoadsLive(s)
    BY <1>1, <1>2, <1>3, <1>4, <1>10 DEF LoadsLive, SessionInv, SessionState, Generation, Now
  <1>11. CASE LoadsSnapshot(s)
    BY <1>1, <1>2, <1>3, <1>4, <1>11 DEF LoadsSnapshot, Returns, SessionInv, SessionState,
       Generation, Now, Behind
  <1>12. CASE Serves(s)
    BY <1>1, <1>2, <1>3, <1>4, <1>12 DEF Serves, Returns, SessionInv, SessionState, Generation, Now
  <1> QED
    BY <1>5, <1>6, <1>7, <1>8, <1>9, <1>10, <1>11, <1>12 DEF SessionStep

-----------------------------------------------------------------------------
\* The inductive invariant holds initially.
LEMMA InitInv == Init => IInv
  BY InitTyped, InitShared, InitSessions DEF IInv

\* Every step of a reload, of the refresher or of a session keeps the
\* inductive invariant.
LEMMA NextInv == IInv /\ [Next]_vars => IInv'
  <1> SUFFICES ASSUME IInv, [Next]_vars PROVE IInv'
    OBVIOUS
  <1>1. TypeOK /\ TypeOK' /\ SharedInv /\ \A s \in Sessions : SessionInv(session[s])
    BY NextTyped DEF IInv
  <1>2. CASE SharedStep
    <2>1. SharedInv' /\ Moves /\ session' = session
      BY <1>1, <1>2, SharedStepInv
    <2>2. ASSUME NEW s \in Sessions PROVE SessionInv(session[s])'
      BY <1>1, <2>1, WaitingSession
    <2> QED
      BY <1>1, <2>1, <2>2 DEF IInv
  <1>3. ASSUME NEW s \in Sessions, SessionStep(s) PROVE IInv'
    <2>1. /\ SessionInv(session[s])' /\ UNCHANGED shared
          /\ \A t \in Sessions \ {s} : session'[t] = session[t]
      BY <1>1, <1>3, ActingSession
    <2>2. SharedInv'
      BY <1>1, <2>1 DEF SharedInv, LockInv, FileInv, SnapshotInv, DoneInv, ReloadAt, shared
    <2>3. Moves
      BY <1>1, <2>1 DEF Moves, Covers, TypeOK, Snapshot, shared
    <2>4. ASSUME NEW t \in Sessions PROVE SessionInv(session[t])'
      BY <1>1, <2>1, <2>3, WaitingSession
    <2> QED
      BY <1>1, <2>2, <2>4 DEF IInv
  <1>4. CASE UNCHANGED vars
    BY <1>4, <1>1 DEF vars, shared, IInv, SharedInv, LockInv, FileInv, SnapshotInv, DoneInv,
       ReloadAt, SessionInv, Behind, Now, Generation
  <1> QED
    BY <1>2, <1>3, <1>4 DEF Next, SharedStep

\* The inductive invariant holds in every reachable state.
LEMMA Invariance == Spec => []IInv
  BY InitInv, NextInv, PTL DEF Spec

\* After a reload or a refresh has finished, no Execute of any session is
\* served from a plan computed without it (sync_policy against the two bumps).
THEOREM PlansAreCurrent == Spec => []ServedPlansAreCurrent
  <1>1. IInv => ServedPlansAreCurrent
    BY DEF IInv, SessionInv, ServedPlansAreCurrent, SessionAt, Behind
  <1> QED
    BY <1>1, Invariance, PTL

\* Once a reload has begun, no Execute of any session is served from a plan
\* made before (the bump ahead of the swap).
THEOREM BegunReloadsInvalidate == Spec => []NoPlanOutlivesABegunReload
  <1>1. IInv => NoPlanOutlivesABegunReload
    BY DEF IInv, SessionInv, NoPlanOutlivesABegunReload, SessionAt, Behind
  <1> QED
    BY <1>1, Invariance, PTL

\* No plan combines a file's knobs with the column rules of an earlier file
\* (the order of the swaps against the order of the loads).
THEOREM KnobsFollowRules == Spec => []NoKnobsAheadOfRules
  <1>1. IInv => NoKnobsAheadOfRules
    BY SessionFacts DEF IInv, SessionInv, NoKnobsAheadOfRules, Plan, File, Snapshot
  <1> QED
    BY <1>1, Invariance, PTL

\* Between reloads the process runs one whole file, the one it remembers
\* (apply_config_locked fails before it changes anything, or not at all).
THEOREM FilesAreWhole == Spec => []WholeFileOrNothing
  <1>1. IInv => WholeFileOrNothing
    BY DEF IInv, SharedInv, FileInv, SnapshotInv, DoneInv, WholeFileOrNothing, ReloadAt,
           RefresherAt
  <1> QED
    BY <1>1, Invariance, PTL

\* Snapshots never go back, neither in their rules nor in the tables they
\* were resolved against (the apply mutex).
THEOREM SnapshotsOnlyMoveForward == Spec => SnapshotsMoveForward
  <1>1. IInv /\ [Next]_vars => [Covers(snapshot', snapshot)]_vars
    <2> SUFFICES ASSUME IInv, Next PROVE Covers(snapshot', snapshot)
      BY DEF IInv
    <2>1. CASE SharedStep
      BY <2>1, SharedStepInv DEF IInv, Moves
    <2>2. ASSUME NEW s \in Sessions, SessionStep(s) PROVE Covers(snapshot', snapshot)
      BY <2>2, NextTyped, ActingSession DEF IInv, Covers, TypeOK, Snapshot, shared
    <2> QED
      BY <2>1, <2>2 DEF Next, SharedStep
  <1> QED
    BY <1>1, Invariance, PTL DEF Spec, SnapshotsMoveForward
=============================================================================
