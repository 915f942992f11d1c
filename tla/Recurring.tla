------------------------------ MODULE Recurring ------------------------------
(***************************************************************************)
(* Recurring pickups.  A template says how often to collect; an hourly job  *)
(* creates a pickup for every template that is due and moves it to its next *)
(* run.  Both the job and the requester's handlers load a template, compute *)
(* from what they loaded, and save the fields they changed.                 *)
(***************************************************************************)
EXTENDS Handlers, Integers

CONSTANTS
  Templates,   \* the recurring pickups
  Periods,     \* days from one run to the next, one for each frequency
  NoDate,      \* a date that is not set
  MaxDay,      \* bound: the last day looked at
  Horizon      \* bound: the latest date a handler sets

ASSUME RecurringAssumption ==
  /\ Periods \subseteq Nat \ {0}
  /\ MaxDay \in Nat /\ Horizon \in Nat
  /\ NoDate \notin Nat

VARIABLES
  today,     \* the clock, in days
  templates, \* RecurringPickup documents
  spawned,   \* history: the last pickup of each template: its run, its day, and the
             \* day of the one before
  job,       \* the running job: templates left, the one at hand, its step
  raced      \* history: templates saved by a handler that a running job had loaded,
             \* or loaded before the job saved them

recurringDocs == <<today, templates, spawned, job, raced>>
recurringVars == <<today, templates, spawned, job, raced, slots>>

NoTemplate  == [live |-> FALSE]
NoJob   == [step |-> "off"]

RecurringInit ==
  /\ today = 0
  /\ templates = [t \in Templates |-> NoTemplate]
  /\ spawned = [t \in Templates |-> [run |-> NoDate, day |-> NoDate, before |-> NoDate]]
  /\ job = NoJob
  /\ raced = {}
  /\ slots = AllIdle

-----------------------------------------------------------------------------
\* computeNextRun, for a cadence of whole days.
NextRun(every, from) == from + every

\* firstRunOnOrAfter: the series stays on its rhythm.
FirstRunOnOrAfter(every, from, target) ==
  IF from >= target THEN from ELSE from + every * ((target - from + every - 1) \div every)

\* createRecurring: the first run is one interval from now.
RecurringCreated(t, every) ==
  /\ ~templates[t].live
  /\ spawned[t].day = NoDate
  /\ templates' = [templates EXCEPT ![t] =
       [live |-> TRUE, active |-> TRUE, every |-> every, next |-> NextRun(every, today),
        last |-> NoDate, until |-> NoDate, born |-> today]]
  /\ UNCHANGED <<today, spawned, job, raced, slots>>

\* What each handler of the requester saves, computed from the template it loaded.
Toggle(d) ==
  [d EXCEPT !.active = ~d.active, !.until = NoDate,
            !.next = IF d.active THEN @ ELSE NextRun(d.every, today)]

Skip(d) == [d EXCEPT !.next = NextRun(d.every, d.next)]

PauseUntil(d, until) ==
  [d EXCEPT !.active = TRUE, !.until = until, !.next = FirstRunOnOrAfter(d.every, d.next, until)]

ResumeNow(d) == [d EXCEPT !.active = TRUE, !.until = NoDate, !.next = NextRun(d.every, today)]

ChangeFrequency(d, every) ==
  LET base  == IF d.last = NoDate THEN d.born ELSE d.last
      next  == IF NextRun(every, base) <= today THEN NextRun(every, today) ELSE NextRun(every, base)
  IN [d EXCEPT !.every = every,
               !.next = IF d.until # NoDate /\ d.until > today
                        THEN FirstRunOnOrAfter(every, next, d.until) ELSE next]

Edits(d) ==
  {Toggle(d), ResumeNow(d)}
    \cup (IF d.active THEN {Skip(d)} ELSE {})
    \cup {PauseUntil(d, until) : until \in (today + 1)..MaxDay}
    \cup {ChangeFrequency(d, every) : every \in Periods \ {d.every}}

JobHas(t) == job.step # "off" /\ (t \in DOMAIN job.loaded)

\* What save writes: the paths that were modified.
Modified(had, d) ==
  LET changed == {f \in DOMAIN had : had[f] # d[f]} IN [f \in changed |-> d[f]]

\* loadOwnedTemplate, and the change made in memory.
EditLoaded(s, t) ==
  /\ templates[t].live
  /\ \E d \in Edits(templates[t]) :
       d.next <= Horizon /\ Starts(s, [op |-> "edit", of |-> t, set |-> Modified(templates[t], d)])
  /\ raced' = IF JobHas(t) THEN raced \cup {t} ELSE raced
  /\ UNCHANGED <<today, templates, spawned, job>>

Merged(d, set) == [f \in DOMAIN d |-> IF f \in DOMAIN set THEN set[f] ELSE d[f]]

\* A template that is gone is an error.
EditSaved(s) ==
  /\ At(s, "edit")
  /\ LET t == slots[s].of
     IN /\ templates' = IF templates[t].live
                        THEN [templates EXCEPT ![t] = Merged(@, slots[s].set)]
                        ELSE templates
        /\ raced' = IF JobHas(t) THEN raced \cup {t} ELSE raced
  /\ Ends(s)
  /\ UNCHANGED <<today, spawned, job>>

RecurringDeleted(t) ==
  /\ templates[t].live
  /\ templates' = [templates EXCEPT ![t] = NoTemplate]
  /\ UNCHANGED <<today, spawned, job, raced, slots>>

-----------------------------------------------------------------------------
Due(t) == templates[t].live /\ templates[t].active /\ templates[t].next <= today

\* The hourly run loads what is due.
JobStarts ==
  /\ job = NoJob
  /\ \E t \in Templates : Due(t)
  /\ job' = [step |-> "create", loaded |-> [t \in {u \in Templates : Due(u)} |-> [every |-> templates[t].every, next |-> templates[t].next]]]
  /\ raced' = raced \cup {t \in Templates : Due(t) /\ \E s \in Slots : At(s, "edit") /\ slots[s].of = t}
  /\ UNCHANGED <<today, templates, spawned, slots>>

\* A pickup for the next template of the list.
JobCreates(t) ==
  /\ job.step = "create" /\ t \in DOMAIN job.loaded
  /\ spawned' = [spawned EXCEPT ![t] = [run |-> job.loaded[t].next, day |-> today, before |-> @.day]]
  /\ job' = [step |-> "save", loaded |-> job.loaded, of |-> t]
  /\ UNCHANGED <<today, templates, raced, slots>>

AfterSpawn_OneStep(d) == NextRun(d.every, d.next)

\* The first date on the cadence that lies after now.
AfterSpawn(d) == FirstRunOnOrAfter(d.every, NextRun(d.every, d.next), today + 1)

\* template.save(): when the template was deleted it throws, and ends the whole run.
JobSaves ==
  /\ job.step = "save"
  /\ LET t == job.of
         rest == [u \in DOMAIN job.loaded \ {t} |-> job.loaded[u]]
     IN IF templates[t].live
        THEN /\ templates' = [templates EXCEPT ![t].next = AfterSpawn(job.loaded[t]), ![t].last = today]
             /\ job' = IF DOMAIN rest = {} THEN NoJob ELSE [step |-> "create", loaded |-> rest]
        ELSE UNCHANGED templates /\ job' = NoJob
  /\ UNCHANGED <<today, spawned, raced, slots>>

\* The run is over long before the next day.
DayPasses ==
  /\ today < MaxDay
  /\ job = NoJob
  /\ today' = today + 1
  /\ UNCHANGED <<templates, spawned, job, raced, slots>>

\* The server stops between the creation of a pickup and the save of its template:
\* the run is due again.
JobStops ==
  /\ job.step = "save"
  /\ job' = NoJob /\ slots' = AllIdle
  /\ raced' = raced \cup {job.of}
  /\ UNCHANGED <<today, templates, spawned>>

RecurringNext ==
  \/ \E t \in Templates :
       \/ \E every \in Periods : RecurringCreated(t, every)
       \/ RecurringDeleted(t) \/ JobCreates(t)
       \/ \E s \in Slots : EditLoaded(s, t)
  \/ \E s \in Slots : EditSaved(s)
  \/ JobStarts \/ JobSaves \/ JobStops \/ DayPasses

RecurringSpec == RecurringInit /\ [][RecurringNext]_recurringVars

-----------------------------------------------------------------------------
RecurringTypeOK ==
  LET Date     == Nat \cup {NoDate}
      Template == [live : {TRUE}, active : BOOLEAN, every : Periods, next : Nat, last : Date,
                   until : Date, born : Nat]
  IN /\ today \in 0..MaxDay
     /\ templates \in [Templates -> Template \cup {NoTemplate}]
     /\ spawned \in [Templates -> [run : Date, day : Date, before : Date]]
     /\ job # NoJob => /\ job.step \in {"create", "save"}
                       /\ DOMAIN job.loaded \subseteq Templates
                       /\ job.step = "save" => job.of \in DOMAIN job.loaded
     /\ raced \subseteq Templates

(* One pickup for one run, however late the job is: a template that fell behind  *)
(* gets one pickup and then waits for a date that lies ahead, so two pickups of  *)
(* it are for different runs and the later run was still to come when the        *)
(* earlier pickup was created.  Only a handler that worked on the template while *)
(* the job did, or a stop between the job's two writes, excuses a second one     *)
(* (spawnRecurringPickups.js:30-46).                                             *)
OnePickupPerRun ==
  \A t \in Templates \ raced :
    spawned[t].before # NoDate => spawned[t].before < spawned[t].run

(* A template paused until a date creates no pickup before it                    *)
(* (recurringPickupController.js:88-92).  Refuted: the job creates the pickup of *)
(* a template it had loaded before the pause was saved.                          *)
PausedMeansPaused ==
  [][\A t \in Templates :
       (JobCreates(t) /\ templates[t].live /\ templates[t].until # NoDate)
         => today >= templates[t].until]_recurringVars
=============================================================================
