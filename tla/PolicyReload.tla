----------------------------- MODULE PolicyReload -----------------------------
(***************************************************************************)
(* How a policy change reaches the sessions of the process: the catalog    *)
(* refresher (crates/proxy/src/catalog.rs), the SIGHUP reload              *)
(* (crates/proxy/src/policy.rs) and the generation check every session     *)
(* message starts with (sync_policy, crates/proxy/src/session.rs).         *)
(*                                                                         *)
(* They share two swappable pointers (the catalog snapshot and the live    *)
(* knobs), two counters whose sum is the policy generation, and a mutex.   *)
(* Nothing locks a session out while a change is under way, so every load, *)
(* store and increment that another task can see is a step of its own.     *)
(*                                                                         *)
(* The content of a policy is abstracted to version numbers: which edit of *)
(* the file its column rules and its knobs come from, and which state of   *)
(* the database's tables (ddl) the rules were resolved against.            *)
(***************************************************************************)
EXTENDS Naturals

CONSTANTS
    Sessions,      \* proxied connections
    TimerOn,       \* catalog_refresh_seconds is not 0
    None,          \* an absent value
    MaxEdits,      \* bound on edits of the configuration file
    MaxDdl,        \* bound on changes to the database's tables
    MaxFailures,   \* bound on failed reloads and refreshes
    MaxIdle        \* bound on timer refreshes that find nothing new

\* What the file says: the version of its column rules and of its other knobs.
File == [rules: Nat, knobs: Nat]

Snapshot == [rules: Nat, ddl: Nat]

\* A masking plan: the knobs, the roles and the snapshot it was computed from.
\* begun dates it, for the properties: the reloads that had begun by then.
Plan == [live: File, roles: File, snapshot: Snapshot, begun: Nat]

ASSUME PolicyAssumption ==
    /\ TimerOn \in BOOLEAN
    /\ None \notin Plan
    /\ MaxEdits \in Nat /\ MaxDdl \in Nat /\ MaxFailures \in Nat /\ MaxIdle \in Nat

VARIABLES
    file,          \* the configuration file on disk
    ddl,           \* the database's tables
    last_file,     \* Policy::last_file_sha
    live,          \* Policy::live
    epoch,         \* Policy::epoch
    spec,          \* Catalog::spec, the version of the rules
    snapshot,      \* Catalog::snapshot
    refreshes,     \* Catalog::refreshes
    apply,         \* holder of the Catalog::apply mutex
    wanted,        \* the permit of Catalog::refresh_wanted
    reload,        \* the reload in progress: [pc, want, next]
    refresher,     \* the refresher: [pc, spec, next]
    session,       \* per session: see SessionState
    done,          \* the change the last finished reload and refresh made
    begun,         \* reloads begun so far
    failures,      \* failed reloads and refreshes so far
    idle           \* refreshes so far that found nothing new

shared == << file, ddl, last_file, live, epoch, spec, snapshot, refreshes, apply,
             reload, refresher, done, begun, failures, idle >>
vars == << shared, wanted, session >>

Generation == refreshes + epoch

\* job, seen, view and floor are locals of the message being handled.
SessionState ==
    [pc: {"off", "idle", "refreshes", "epoch", "roles", "live", "snapshot", "serve"},
     job: {"describe", "execute"},
     seen: Nat,                      \* the refreshes counter, as read
     generation: Nat,                \* PlanState::generation
     roles: File,                    \* Session::roles, by the knobs they are from
     view: File, view_begun: Nat,    \* the live knobs loaded for a RowDescription
     plan: Plan \cup {None},         \* the cached plan
     floor: [snapshot: Snapshot, live: File, begun: Nat]] \* done, when the message came

FirstFile == [rules |-> 0, knobs |-> 0]

FirstSnapshot == [rules |-> 0, ddl |-> 0]

NoFloor == [snapshot |-> FirstSnapshot, live |-> FirstFile, begun |-> 0]

NoReload == [pc |-> "idle", want |-> FirstFile, next |-> FirstSnapshot]

NoRefresh == [pc |-> "waiting", spec |-> 0, next |-> FirstSnapshot]

Init ==
    /\ file = FirstFile /\ last_file = FirstFile /\ live = FirstFile
    /\ ddl = 0 /\ spec = 0 /\ snapshot = FirstSnapshot
    /\ epoch = 0 /\ refreshes = 0
    /\ apply = "free" /\ wanted = FALSE
    /\ reload = NoReload
    /\ refresher = NoRefresh
    /\ session = [s \in Sessions |->
        [pc |-> "off", job |-> "describe", seen |-> 0, generation |-> 0, roles |-> FirstFile,
         view |-> FirstFile, view_begun |-> 0, plan |-> None, floor |-> NoFloor]]
    /\ done = [snapshot |-> FirstSnapshot, live |-> FirstFile]
    /\ begun = 0 /\ failures = 0 /\ idle = 0

-----------------------------------------------------------------------------
(* The environment: an operator edits the file, an application the tables. *)

EditFile ==
    /\ file.rules + file.knobs < MaxEdits
    /\ file' \in {[file EXCEPT !.rules = @ + 1], [file EXCEPT !.knobs = @ + 1],
                  [rules |-> file.rules + 1, knobs |-> file.knobs + 1]}
    /\ UNCHANGED << ddl, last_file, live, epoch, spec, snapshot, refreshes, apply, wanted,
                    reload, refresher, session, done, begun, failures, idle >>

AlterTables ==
    /\ ddl < MaxDdl
    /\ ddl' = ddl + 1
    /\ UNCHANGED << file, last_file, live, epoch, spec, snapshot, refreshes, apply, wanted,
                    reload, refresher, session, done, begun, failures, idle >>

-----------------------------------------------------------------------------
(* reload_from_path and apply_config_locked, serialised by Policy::reload. *)

ReloadAt(pc) == reload.pc = pc

\* SIGHUP.  A file that cannot be read, parsed or validated changes nothing.
ReloadRefused ==
    /\ ReloadAt("idle")
    /\ file # last_file
    /\ failures < MaxFailures
    /\ failures' = failures + 1
    /\ UNCHANGED << file, ddl, last_file, live, epoch, spec, snapshot, refreshes, apply, wanted,
                    reload, refresher, session, done, begun, idle >>

\* Mutant: no bump before the swap.
ReloadBeginsSilently ==
    /\ ReloadAt("idle")
    /\ file # last_file
    /\ begun' = begun + 1
    /\ reload' = [reload EXCEPT !.pc = IF file.rules # spec THEN "lock" ELSE "publish",
                                !.want = file]
    /\ UNCHANGED << file, ddl, last_file, live, epoch, spec, snapshot, refreshes, apply, wanted,
                    refresher, session, done, failures, idle >>

\* The first bump of PolicyChange, then replace_spec if the rules changed.
ReloadBegins ==
    /\ ReloadAt("idle")
    /\ file # last_file
    /\ epoch' = epoch + 1
    /\ begun' = begun + 1
    /\ reload' = [reload EXCEPT !.pc = IF file.rules # spec THEN "lock" ELSE "publish",
                                !.want = file]
    /\ UNCHANGED << file, ddl, last_file, live, spec, snapshot, refreshes, apply, wanted,
                    refresher, session, done, failures, idle >>

\* Mutant: the knobs are swapped before the rules are resolved.
ReloadLocksPublished ==
    /\ ReloadAt("lock")
    /\ apply = "free"
    /\ apply' = "reload"
    /\ live' = reload.want
    /\ reload' = [reload EXCEPT !.pc = "resolve"]
    /\ UNCHANGED << file, ddl, last_file, epoch, spec, snapshot, refreshes, wanted,
                    refresher, session, done, begun, failures, idle >>

ReloadLocks ==
    /\ ReloadAt("lock")
    /\ apply = "free"
    /\ apply' = "reload"
    /\ reload' = [reload EXCEPT !.pc = "resolve"]
    /\ UNCHANGED << file, ddl, last_file, live, epoch, spec, snapshot, refreshes, wanted,
                    refresher, session, done, begun, failures, idle >>

ReloadResolves ==
    /\ ReloadAt("resolve")
    /\ reload' = [reload EXCEPT !.pc = "store",
                                !.next = [rules |-> reload.want.rules, ddl |-> ddl]]
    /\ UNCHANGED << file, ddl, last_file, live, epoch, spec, snapshot, refreshes, apply, wanted,
                    refresher, session, done, begun, failures, idle >>

\* The database does not answer: replace_spec returns early, and only the
\* drop of PolicyChange is left to run.
ReloadFailsToResolve ==
    /\ ReloadAt("resolve")
    /\ failures < MaxFailures
    /\ failures' = failures + 1
    /\ apply' = "free"
    /\ reload' = [reload EXCEPT !.pc = "abort"]
    /\ UNCHANGED << file, ddl, last_file, live, epoch, spec, snapshot, refreshes, wanted,
                    refresher, session, done, begun, idle >>

\* install_snapshot: the store and the bump are two steps.
ReloadStores ==
    /\ ReloadAt("store")
    /\ snapshot' = reload.next
    /\ reload' = [reload EXCEPT !.pc = "bump"]
    /\ UNCHANGED << file, ddl, last_file, live, epoch, spec, refreshes, apply, wanted,
                    refresher, session, done, begun, failures, idle >>

ReloadBumps ==
    /\ ReloadAt("bump")
    /\ refreshes' = refreshes + 1
    /\ done' = [done EXCEPT !.snapshot = snapshot]
    /\ reload' = [reload EXCEPT !.pc = "install"]
    /\ UNCHANGED << file, ddl, last_file, live, epoch, spec, snapshot, apply, wanted,
                    refresher, session, begun, failures, idle >>

ReloadInstallsSpec ==
    /\ ReloadAt("install")
    /\ spec' = reload.want.rules
    /\ apply' = "free"
    /\ reload' = [reload EXCEPT !.pc = "publish"]
    /\ UNCHANGED << file, ddl, last_file, live, epoch, snapshot, refreshes, wanted,
                    refresher, session, done, begun, failures, idle >>

ReloadPublishes ==
    /\ ReloadAt("publish")
    /\ live' = reload.want
    /\ reload' = [reload EXCEPT !.pc = "end"]
    /\ UNCHANGED << file, ddl, last_file, epoch, spec, snapshot, refreshes, apply, wanted,
                    refresher, session, done, begun, failures, idle >>

\* Mutant: no bump after the swap.
ReloadEndsSilently ==
    /\ reload.pc \in {"end", "abort"}
    /\ done' = [done EXCEPT !.live = live]
    /\ last_file' = IF ReloadAt("end") THEN reload.want ELSE last_file
    /\ reload' = NoReload
    /\ UNCHANGED << file, ddl, live, epoch, spec, snapshot, refreshes, apply, wanted,
                    refresher, session, begun, failures, idle >>

\* Mutant: a file that failed is remembered.
ReloadEndsRemembering ==
    /\ reload.pc \in {"end", "abort"}
    /\ epoch' = epoch + 1
    /\ done' = [done EXCEPT !.live = live]
    /\ last_file' = reload.want
    /\ reload' = NoReload
    /\ UNCHANGED << file, ddl, live, spec, snapshot, refreshes, apply, wanted,
                    refresher, session, begun, failures, idle >>

\* The second bump, by the drop of PolicyChange; only a reload that went
\* through remembers the file.
ReloadEnds ==
    /\ reload.pc \in {"end", "abort"}
    /\ epoch' = epoch + 1
    /\ done' = [done EXCEPT !.live = live]
    /\ last_file' = IF ReloadAt("end") THEN reload.want ELSE last_file
    /\ reload' = NoReload
    /\ UNCHANGED << file, ddl, live, spec, snapshot, refreshes, apply, wanted,
                    refresher, session, begun, failures, idle >>

Reload ==
    \/ ReloadRefused
    \/ ReloadBegins
    \/ ReloadLocks
    \/ ReloadResolves
    \/ ReloadFailsToResolve
    \/ ReloadStores
    \/ ReloadBumps
    \/ ReloadInstallsSpec
    \/ ReloadPublishes
    \/ ReloadEnds

-----------------------------------------------------------------------------
(* run_refresher and refresh.                                              *)

RefresherAt(pc) == refresher.pc = pc

TimerFires ==
    /\ RefresherAt("waiting")
    /\ TimerOn
    /\ idle < MaxIdle \/ snapshot.ddl < ddl
    /\ refresher' = [refresher EXCEPT !.pc = "lock"]
    /\ UNCHANGED << file, ddl, last_file, live, epoch, spec, snapshot, refreshes, apply, wanted,
                    reload, session, done, begun, failures, idle >>

\* notified(): takes the permit a session left.
NudgeTaken ==
    /\ RefresherAt("waiting")
    /\ wanted
    /\ wanted' = FALSE
    /\ refresher' = [refresher EXCEPT !.pc = "lock"]
    /\ UNCHANGED << file, ddl, last_file, live, epoch, spec, snapshot, refreshes, apply,
                    reload, session, done, begun, failures, idle >>

\* Mutant: a refresh does not wait for a reload.
RefreshUnlocked ==
    /\ RefresherAt("lock")
    /\ refresher' = [refresher EXCEPT !.pc = "resolve", !.spec = spec]
    /\ UNCHANGED << file, ddl, last_file, live, epoch, spec, snapshot, refreshes, apply, wanted,
                    reload, session, done, begun, failures, idle >>

\* The rules are loaded under the mutex: a reload that held it has stored its
\* own.
RefreshLocks ==
    /\ RefresherAt("lock")
    /\ apply = "free"
    /\ apply' = "refresh"
    /\ refresher' = [refresher EXCEPT !.pc = "resolve", !.spec = spec]
    /\ UNCHANGED << file, ddl, last_file, live, epoch, spec, snapshot, refreshes, wanted,
                    reload, session, done, begun, failures, idle >>

RefreshResolves ==
    /\ RefresherAt("resolve")
    /\ refresher' = [refresher EXCEPT !.pc = "store",
                                      !.next = [rules |-> refresher.spec, ddl |-> ddl]]
    /\ UNCHANGED << file, ddl, last_file, live, epoch, spec, snapshot, refreshes, apply, wanted,
                    reload, session, done, begun, failures, idle >>

\* Mutant: a failed refresh keeps the mutex.
RefreshFailsLocked ==
    /\ RefresherAt("resolve")
    /\ failures < MaxFailures
    /\ failures' = failures + 1
    /\ refresher' = NoRefresh
    /\ UNCHANGED << file, ddl, last_file, live, epoch, spec, snapshot, refreshes, apply, wanted,
                    reload, session, done, begun, idle >>

RefreshFails ==
    /\ RefresherAt("resolve")
    /\ failures < MaxFailures
    /\ failures' = failures + 1
    /\ apply' = "free"
    /\ refresher' = NoRefresh
    /\ UNCHANGED << file, ddl, last_file, live, epoch, spec, snapshot, refreshes, wanted,
                    reload, session, done, begun, idle >>

RefreshStores ==
    /\ RefresherAt("store")
    /\ idle' = IF snapshot = refresher.next THEN idle + 1 ELSE idle
    /\ snapshot' = refresher.next
    /\ refresher' = [refresher EXCEPT !.pc = "bump"]
    /\ UNCHANGED << file, ddl, last_file, live, epoch, spec, refreshes, apply, wanted,
                    reload, session, done, begun, failures >>

\* Mutant: a finished refresh forgets a nudge that came meanwhile.
RefreshBumpsForgetting ==
    /\ RefresherAt("bump")
    /\ refreshes' = refreshes + 1
    /\ done' = [done EXCEPT !.snapshot = snapshot]
    /\ apply' = "free"
    /\ wanted' = FALSE
    /\ refresher' = NoRefresh
    /\ UNCHANGED << file, ddl, last_file, live, epoch, spec, snapshot,
                    reload, session, begun, failures, idle >>

RefreshBumps ==
    /\ RefresherAt("bump")
    /\ refreshes' = refreshes + 1
    /\ done' = [done EXCEPT !.snapshot = snapshot]
    /\ apply' = "free"
    /\ refresher' = NoRefresh
    /\ UNCHANGED << file, ddl, last_file, live, epoch, spec, snapshot, wanted,
                    reload, session, begun, failures, idle >>

Refresh ==
    \/ TimerFires
    \/ NudgeTaken
    \/ RefreshLocks
    \/ RefreshResolves
    \/ RefreshFails
    \/ RefreshStores
    \/ RefreshBumps

-----------------------------------------------------------------------------
(* A session.                                                              *)

SessionAt(s, pc) == session[s].pc = pc

\* The step of one session: nothing the other tasks see changes.
Becomes(s, state) ==
    /\ session' = [session EXCEPT ![s] = state]
    /\ UNCHANGED shared

\* The handler returns with this plan cached; its locals are gone.
Returns(state, plan) ==
    [state EXCEPT !.pc = "idle", !.job = "describe", !.seen = 0, !.view = FirstFile,
                  !.view_begun = 0, !.floor = NoFloor, !.plan = plan]

\* AuthenticationOk: the roles are loaded, the plan state is its default.
Authenticated(s) ==
    /\ SessionAt(s, "off")
    /\ Becomes(s, [session[s] EXCEPT !.pc = "idle", !.roles = live])
    /\ UNCHANGED wanted

\* A message that needs the policy: a RowDescription or an Execute.
Arrives(s, job) ==
    /\ SessionAt(s, "idle")
    /\ Becomes(s, [session[s] EXCEPT
            !.pc = "refreshes", !.job = job,
            !.floor = [snapshot |-> done.snapshot, live |-> done.live, begun |-> begun]])
    /\ UNCHANGED wanted

\* Policy::generation loads one counter, then the other.
ReadsRefreshes(s) ==
    /\ SessionAt(s, "refreshes")
    /\ Becomes(s, [session[s] EXCEPT !.pc = "epoch", !.seen = refreshes])
    /\ UNCHANGED wanted

\* Mutant: a handler that goes on under the name of its message.
ProceedByName(job) == job

Proceed(job) == IF job = "describe" THEN "live" ELSE "serve"

\* invalidate_if_stale.
ReadsEpoch(s) ==
    /\ SessionAt(s, "epoch")
    /\ LET current == session[s].seen + epoch
       IN  IF session[s].generation = current
           THEN Becomes(s, [session[s] EXCEPT !.pc = Proceed(session[s].job)])
           ELSE Becomes(s, [session[s] EXCEPT !.pc = "roles", !.generation = current,
                                              !.plan = None])
    /\ UNCHANGED wanted

LoadsRoles(s) ==
    /\ SessionAt(s, "roles")
    /\ Becomes(s, [session[s] EXCEPT !.pc = Proceed(session[s].job), !.roles = live])
    /\ UNCHANGED wanted

\* handle_row_description loads the knobs, then the snapshot, then files the
\* plan; a relation the snapshot does not know nudges the refresher.
LoadsLive(s) ==
    /\ SessionAt(s, "live")
    /\ Becomes(s, [session[s] EXCEPT !.pc = "snapshot", !.view = live, !.view_begun = begun])
    /\ UNCHANGED wanted

LoadsSnapshot(s) ==
    /\ SessionAt(s, "snapshot")
    /\ Becomes(s, Returns(session[s],
                          [live |-> session[s].view, roles |-> session[s].roles,
                           snapshot |-> snapshot, begun |-> session[s].view_begun]))
    /\ \/ UNCHANGED wanted
       \/ snapshot.ddl < ddl /\ wanted' = TRUE

\* An Execute is served from the cached plan, or refused if there is none.
Serves(s) ==
    /\ SessionAt(s, "serve")
    /\ Becomes(s, Returns(session[s], session[s].plan))
    /\ UNCHANGED wanted

SessionStep(s) ==
    \/ Authenticated(s)
    \/ \E job \in {"describe", "execute"} : Arrives(s, job)
    \/ ReadsRefreshes(s)
    \/ ReadsEpoch(s)
    \/ LoadsRoles(s)
    \/ LoadsLive(s)
    \/ LoadsSnapshot(s)
    \/ Serves(s)

-----------------------------------------------------------------------------
Next ==
    \/ EditFile
    \/ AlterTables
    \/ Reload
    \/ Refresh
    \/ \E s \in Sessions : SessionStep(s)

Spec == Init /\ [][Next]_vars

\* The refresher's loop and a reload in progress keep being scheduled.
FairSpec == Spec /\ WF_vars(Refresh) /\ WF_vars(Reload /\ ~ReloadAt("idle"))

-----------------------------------------------------------------------------
(* Properties.                                                             *)

\* The type invariant of the policy's cells, the catalog and the sessions.
TypeOK ==
    /\ file \in File /\ last_file \in File /\ live \in File
    /\ ddl \in Nat /\ spec \in Nat /\ snapshot \in Snapshot
    /\ epoch \in Nat /\ refreshes \in Nat
    /\ apply \in {"free", "reload", "refresh"} /\ wanted \in BOOLEAN
    /\ reload \in [pc: {"idle", "lock", "resolve", "store", "bump", "install", "publish",
                        "end", "abort"}, want: File, next: Snapshot]
    /\ refresher \in [pc: {"waiting", "lock", "resolve", "store", "bump"},
                      spec: Nat, next: Snapshot]
    /\ session \in [Sessions -> SessionState]
    /\ done \in [snapshot: Snapshot, live: File]
    /\ begun \in Nat /\ failures \in Nat /\ idle \in Nat

AtLeast(r, q) == r.rules >= q.rules /\ r.knobs >= q.knobs

Covers(r, q) == r.rules >= q.rules /\ r.ddl >= q.ddl

\* An Execute that arrives after a reload or a refresh has finished is never
\* served from a plan computed without it: in its knobs, its roles, its rules
\* or the tables it was resolved against.  This is what the bump after the
\* swap is for (apply_config_locked, install_snapshot), although generation
\* reads its two counters at different moments.
ServedPlansAreCurrent ==
    \A s \in Sessions : SessionAt(s, "serve") /\ session[s].plan # None =>
        /\ Covers(session[s].plan.snapshot, session[s].floor.snapshot)
        /\ AtLeast(session[s].plan.live, session[s].floor.live)
        /\ AtLeast(session[s].plan.roles, session[s].floor.live)

\* An Execute that arrives once a reload has begun is never served from a
\* plan made before: this is what the bump ahead of the swap is for.
NoPlanOutlivesABegunReload ==
    \A s \in Sessions : SessionAt(s, "serve") /\ session[s].plan # None =>
        session[s].plan.begun >= session[s].floor.begun

\* No plan ever combines the knobs of one file with the column rules of an
\* earlier one: the reload swaps the snapshot first and the knobs last, and
\* handle_row_description loads them in the opposite order.
NoKnobsAheadOfRules ==
    \A s \in Sessions : session[s].plan # None =>
        session[s].plan.snapshot.rules >= session[s].plan.live.rules

\* Between reloads the process runs one whole file, and the one it remembers:
\* a failure keeps the previous policy in full, and a file that failed is not
\* taken for unchanged on the next SIGHUP.
WholeFileOrNothing ==
    ReloadAt("idle") =>
        /\ live = last_file
        /\ spec = last_file.rules
        /\ ~RefresherAt("bump") => snapshot = done.snapshot
        /\ snapshot.rules = spec

\* A refresh never brings back rules a reload has replaced, nor tables older
\* than those already seen: the apply mutex orders resolve and swap.
SnapshotsMoveForward == [][Covers(snapshot', snapshot)]_vars

\* With the timer on, every change to the tables is resolved in the end, as
\* long as the database does not fail for ever.
TablesAreSeen == \A d \in 1 .. MaxDdl : ddl >= d ~> snapshot.ddl >= d

\* A nudge is never lost, however it races the refresher: the refresher comes
\* back for it and resolves again.
NudgesAreAnswered == wanted ~> (~wanted /\ RefresherAt("resolve"))
=============================================================================
