---------------------------- MODULE FlagRollouts ----------------------------
(***************************************************************************)
(* Gradual rollouts of a feature flag: schedules of steps, the scheduler   *)
(* that takes the steps when they are due, operators that pause, resume    *)
(* and roll back, and what a tenant's requests see.                        *)
(*                                                                         *)
(* One flag in one environment.  A tenant comes with or without blanks     *)
(* around its name: the registry files a schedule under the name as given  *)
(* and shows it trimmed.  Steps are numbered from 1; step 0 is "not yet".  *)
(***************************************************************************)
EXTENDS Integers, Sequences, FiniteSets

CONSTANTS
  Tenants, ALL_TENANTS,
  Plans,         \* lists of steps [percentage, at] that an operator may ask for
  Buckets,       \* values of hashToBucket that occur
  MaxSchedules, MaxTime, MaxOps

VARIABLES
  now, ops,
  enabled,       \* isFeatureEnabled(flag), from the environment
  schedules,     \* sequence of schedules, by id
  currentByKey,  \* name as given -> id, or 0
  timer,         \* the scheduler's timer is armed
  isRunning      \* the scheduler's flag

vars == <<now, ops, enabled, schedules, currentByKey, timer, isRunning>>

Names == (Tenants \cup {ALL_TENANTS}) \X BOOLEAN      \* tenant and whether it is padded
IN_FLIGHT_STATUSES == {"pending", "active", "paused"}

Init ==
  /\ now = 0 /\ ops = 0
  /\ enabled \in BOOLEAN
  /\ schedules = << >> /\ currentByKey = [k \in Names |-> 0]
  /\ timer = FALSE /\ isRunning = FALSE

Op == ops < MaxOps /\ ops' = ops + 1

-----------------------------------------------------------------------------
statusForStepIndex(i, n) == IF i = 0 THEN "pending" ELSE IF i = n THEN "completed" ELSE "active"

\* The steps are in order of time.
computeDueStepIndex(steps, t) == Cardinality({i \in DOMAIN steps : steps[i].at <= t})

validateCreateInput(steps) ==
  /\ steps # << >>
  /\ \A i \in DOMAIN steps :
       /\ steps[i].percentage \in 1..100
       /\ \A j \in 1..(i - 1) : steps[j].at < steps[i].at /\ steps[j].percentage < steps[i].percentage

Entry(s, action) == [action |-> action, step |-> s.step, percentage |-> s.percentage]

applyAdvance(s, i) ==
  LET t == [s EXCEPT !.step = i, !.percentage = s.steps[i].percentage, !.status = statusForStepIndex(i, Len(s.steps))]
  IN  [t EXCEPT !.history = Append(@, Entry(t, "advanced"))]

InFlight(name) == currentByKey[name] # 0 /\ schedules[currentByKey[name]].status \in IN_FLIGHT_STATUSES

NewSchedule(name, steps) ==
  [tenant |-> name[1], steps |-> steps, status |-> "pending", step |-> 0, percentage |-> 0,
   history |-> <<[action |-> "created", step |-> 0, percentage |-> 0]>>]

create(name, steps) ==
  /\ Op /\ Len(schedules) < MaxSchedules
  /\ validateCreateInput(steps) /\ ~InFlight(name)
  /\ schedules' = Append(schedules, NewSchedule(name, steps))
  /\ currentByKey' = [currentByKey EXCEPT ![name] = Len(schedules) + 1]
  /\ UNCHANGED <<now, enabled, timer, isRunning>>

\* Mutant: paused schedules advance too.
AdvancesWhilePaused(s) ==
  s.status \notin {"rolled_back", "completed"} /\ computeDueStepIndex(s.steps, now) > s.step

Advances(s) ==
  s.status \notin {"paused", "rolled_back", "completed"} /\ computeDueStepIndex(s.steps, now) > s.step

advanceDue ==
  schedules' = [i \in DOMAIN schedules |->
    IF Advances(schedules[i]) THEN applyAdvance(schedules[i], computeDueStepIndex(schedules[i].steps, now)) ELSE schedules[i]]

pause(i) ==
  /\ Op /\ schedules[i].status \notin {"rolled_back", "completed", "paused"}
  /\ schedules' = [schedules EXCEPT ![i].status = "paused", ![i].history = Append(@, Entry(schedules[i], "paused"))]
  /\ UNCHANGED <<now, enabled, currentByKey, timer, isRunning>>

\* Steps that fell due meanwhile are taken at once.
resume(i) ==
  LET s   == schedules[i]
      due == computeDueStepIndex(s.steps, now)
      r   == [s EXCEPT !.status = statusForStepIndex(s.step, Len(s.steps)), !.history = Append(@, Entry(s, "resumed"))]
  IN
  /\ Op /\ s.status = "paused"
  /\ schedules' = [schedules EXCEPT ![i] = IF due > s.step THEN applyAdvance(r, due) ELSE r]
  /\ UNCHANGED <<now, enabled, currentByKey, timer, isRunning>>

rollback(i, target) ==
  LET s == schedules[i]
      t == [s EXCEPT !.step = target, !.percentage = IF target > 0 THEN s.steps[target].percentage ELSE 0, !.status = "rolled_back"]
  IN
  /\ Op /\ s.status # "rolled_back" /\ s.step # 0 /\ target < s.step
  /\ schedules' = [schedules EXCEPT ![i] = [t EXCEPT !.history = Append(@, Entry(t, "rolled_back"))]]
  /\ UNCHANGED <<now, enabled, currentByKey, timer, isRunning>>

\* The routes: what the registry refuses is an answer with no effect.
postSchedule == \E name \in Names, p \in Plans : create(name, p)
postPause == \E i \in DOMAIN schedules : pause(i)
postResume == \E i \in DOMAIN schedules : resume(i)
postRollback == \E i \in DOMAIN schedules : \E t \in 0..Len(schedules[i].steps) : rollback(i, t)

-----------------------------------------------------------------------------
findGoverningSchedule(tenant) ==
  LET own == currentByKey[<<tenant, FALSE>>]
  IN  IF own # 0 THEN own ELSE currentByKey[<<ALL_TENANTS, FALSE>>]

getRolloutPercentage(tenant) ==
  LET g == findGoverningSchedule(tenant) IN IF g = 0 THEN 100 ELSE schedules[g].percentage

isBucketedIn(bucket, percentage) == percentage >= 100 \/ (percentage > 0 /\ bucket < percentage)

isFeatureEnabledForTenant(tenant, bucket) == enabled /\ isBucketedIn(bucket, getRolloutPercentage(tenant))

-----------------------------------------------------------------------------
start ==
  /\ Op /\ ~timer
  /\ timer' = TRUE /\ isRunning' = TRUE
  /\ UNCHANGED <<now, enabled, schedules, currentByKey>>

stop ==
  /\ Op /\ isRunning
  /\ timer' = FALSE /\ isRunning' = FALSE
  /\ UNCHANGED <<now, enabled, schedules, currentByKey>>

\* The timer fires: the due steps are taken and the timer is armed again.
tick ==
  /\ timer /\ isRunning
  /\ advanceDue
  /\ UNCHANGED <<now, ops, enabled, currentByKey, timer, isRunning>>

Tick ==
  /\ now < MaxTime /\ now' = now + 1
  /\ UNCHANGED <<ops, enabled, schedules, currentByKey, timer, isRunning>>

Rest == UNCHANGED vars

Next ==
  \/ postSchedule \/ postPause \/ postResume \/ postRollback
  \/ start \/ stop \/ tick
  \/ Tick \/ Rest

Spec == Init /\ [][Next]_vars

-----------------------------------------------------------------------------
\* Under each name as given at most one schedule is in flight, and that one is
\* its current one: no forgotten schedule goes on advancing behind a newer one.
\* That is one per spelling, not one per tenant as rolloutScheduleRegistry.ts:22-24
\* has it: a schedule asked for with blanks around the tenant is filed beside the
\* other and governs nobody.
OneInFlight ==
  \A i \in DOMAIN schedules :
     schedules[i].status \in IN_FLIGHT_STATUSES => \E k \in Names : k[1] = schedules[i].tenant /\ currentByKey[k] = i

\* A schedule stands where its last history entry says, exposes what its step
\* says, is never ahead of its dates, and is completed just when it reached the
\* last step without being rolled back.
ScheduleIsConsistent ==
  \A i \in DOMAIN schedules :
     LET s == schedules[i]
         last == s.history[Len(s.history)] IN
     /\ last.step = s.step /\ last.percentage = s.percentage
     /\ s.percentage = IF s.step = 0 THEN 0 ELSE s.steps[s.step].percentage
     /\ s.step <= computeDueStepIndex(s.steps, now)
     /\ s.status # "rolled_back" => (s.status = "completed" <=> s.step = Len(s.steps))

\* Exposure only grows, except by a rollback; a schedule that is paused stays
\* as it is until it is resumed or rolled back, one that is rolled back for
\* ever.
ExposureGrows ==
  \A i \in DOMAIN schedules :
     LET s == schedules[i]
         t == schedules'[i] IN
     /\ t.percentage < s.percentage => t.status = "rolled_back"
     /\ s.status = "paused" => t = s \/ t.history[Len(s.history) + 1].action \in {"resumed", "rolled_back"}
     /\ s.status = "rolled_back" => t = s

\* A request that is let in stays in until the schedule that governs its tenant is
\* rolled back or gives way to a new one, which starts at nothing.  A schedule of
\* the tenant's own gives way only when it is no longer in flight; the one for all
\* tenants, and having none, gives way to the tenant's first at any time.
NobodyIsDropped ==
  \A t \in Tenants, b \in Buckets :
     LET g == findGoverningSchedule(t) IN
     isFeatureEnabledForTenant(t, b) /\ ~isFeatureEnabledForTenant(t, b)'
       => \/ g # 0 /\ findGoverningSchedule(t)' = g /\ schedules'[g].status = "rolled_back"
          \/ /\ findGoverningSchedule(t)' = Len(schedules) + 1
             /\ g # 0 /\ schedules[g].tenant = t => schedules[g].status \notin IN_FLIGHT_STATUSES

\* Rollouts advance and retreat as their operators asked.
RolloutSound == [](OneInFlight /\ ScheduleIsConsistent) /\ [][ExposureGrows /\ NobodyIsDropped]_vars
=============================================================================
